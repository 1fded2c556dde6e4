--------------------------- MODULE MCGraphSearch ---------------------------
EXTENDS GraphSearch

MCVertices == 0 .. 3

\* Lists of at most two neighbours, in the order of their ids.
Lists(v) ==
  {l \in UNION {[1 .. n -> MCVertices \ {v}] : n \in 0 .. 2} :
     \A i, j \in 1 .. Len(l) : i < j => l[i] < l[j]}

\* The start point leads to the first vertex, and from there the graph is any.
MCGraphs ==
  {(0 :> <<1>>) @@ (1 :> a) @@ (2 :> b) @@ (3 :> c) :
     a \in Lists(1) \ {<<>>}, b \in Lists(2), c \in {l \in Lists(3) : Len(l) < 2}}

Distance(a, b, c) == (0 :> 1) @@ (1 :> a) @@ (2 :> b) @@ (3 :> c)

\* Vertices in different orders around the start point, ties, and no distance.
MCDistances ==
  {Distance(0, 2, 3), Distance(2, 3, 0), Distance(3, 0, 2),
   Distance(1, 1, 1), Distance(2, 0, 2), Distance(0, NaN, 2)}

MCUnreadable == {{}, {2}, {0}}

Base ==
  [kind |-> "knn", l |-> 1, k |-> 1, beam |-> 1,
   radius |-> 2, inner |-> NaN, outer |-> 3, slack |-> <<1, 1>>, maxReturned |-> NoLimit,
   label |-> (0 :> FALSE) @@ (1 :> FALSE) @@ (2 :> TRUE) @@ (3 :> TRUE),
   terminator |-> NoVertex, maxDegree |-> 8,
   attribute |-> (0 :> "a") @@ (1 :> "a") @@ (2 :> "b") @@ (3 :> "a"),
   diverseK |-> 1, initIds |-> <<0>>]

MCQueries ==
  {Base,
   [Base EXCEPT !.l = 2, !.beam = 2],
   [Base EXCEPT !.kind = "range"],
   [Base EXCEPT !.kind = "range", !.l = 2, !.beam = 2, !.slack = <<1, 2>>, !.inner = 0,
                !.maxReturned = 2],
   [Base EXCEPT !.kind = "multihop", !.l = 2],
   [Base EXCEPT !.kind = "multihop", !.beam = 2, !.terminator = 3],
   [Base EXCEPT !.kind = "diverse", !.l = 2, !.k = 2, !.diverseK = 1],
   [Base EXCEPT !.kind = "diverse", !.l = 3, !.k = 3, !.diverseK = 2],
   [Base EXCEPT !.kind = "flat"],
   [Base EXCEPT !.kind = "paged", !.l = 2],
   [Base EXCEPT !.kind = "paged", !.initIds = <<1>>]}

\* A search with a shorter and one with a longer list than the one before.
MCFollowups == {Base, [Base EXCEPT !.l = 2, !.beam = 2]}
============================================================================
