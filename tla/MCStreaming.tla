---------------------------- MODULE MCStreaming ----------------------------
EXTENDS Streaming

\* Three rows on a line, on one side of the start point.
MCVectors == [row \in 0 .. 2 |-> <<1, 2, 4>>[row + 1]]

\* Triangle pruning with alpha 1.2, target degree 1, no saturation.
MCConf == [kind |-> "TriangleInequality", alpha |-> <<6, 5>>, degree |-> 1,
           maxOcclusion |-> 4, saturate |-> FALSE]

MCThird == <<1, 3>>

Config(kind, k, l, cleaner) ==
  [method |-> [kind |-> kind, k |-> k, l |-> l], cleaner |-> cleaner]

\* The benchmark drops the edges to deleted vertices; consolidate_vector is the
\* other clean-up of the index.
MCConfigs == {Config("TwoHopAndOneHop", 0, 0, "drop"),
              Config("OneHop", 0, 0, "consolidate"),
              Config("VisitedAndTopK", 1, 2, "drop")}
MCBenchmark == {Config("TwoHopAndOneHop", 0, 0, "drop")}

TaskSymmetry == Permutations(Tasks)
============================================================================
