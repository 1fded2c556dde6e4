----------------------------- MODULE TapeStart -----------------------------
(***************************************************************************)
(* benchmark_search.cpp from its arguments to the point where it can read: *)
(* it loads what the writer (module TapeBuild) has left in the directory,  *)
(* sizes its buffers by the longest segment and its ring by --probes.  The *)
(* query loop that follows is module TapeSearch.                           *)
(*                                                                         *)
(* Writer and engine are run one at a time.                                *)
(***************************************************************************)
EXTENDS TapeBuild, FiniteSetsExt

CONSTANTS
  ProbesAsked,   \* values of --probes that a user may give
  MaxProbes,     \* the largest value accepted, 10000
  MinDepth,      \* smallest ring, 64
  MaxDepth       \* largest ring, 16384

ASSUME StartAssumption ==
  /\ ProbesAsked \subseteq Int
  /\ MaxProbes \in Nat /\ MinDepth \in Nat \ {0}
  /\ MaxDepth \in Nat /\ MaxProbes <= MaxDepth /\ MinDepth <= MaxDepth

VARIABLES
  engine,             \* where the engine is, "off" if it does not run
  probes,
  table,              \* its segment_table
  max_cluster_bytes,
  ring_depth,
  sqpoll_active

engineVars == <<engine, probes, table, max_cluster_bytes, ring_depth, sqpoll_active>>
startVars == <<buildVars, engineVars>>

Off ==
  /\ engine = "off"
  /\ probes = 0
  /\ table = NoTable
  /\ max_cluster_bytes = 0
  /\ ring_depth = 0 /\ sqpoll_active = FALSE

\* The engine ends: an error, an exception, or the end of the benchmark.
EngineEnds ==
  /\ engine' = "off"
  /\ probes' = 0
  /\ table' = NoTable
  /\ max_cluster_bytes' = 0
  /\ ring_depth' = 0 /\ sqpoll_active' = FALSE
  /\ UNCHANGED buildVars

\* The arguments; outside 1 .. MaxProbes the engine ends at once.
ParseArgs(n) ==
  /\ stage = "idle"
  /\ engine = "off"
  /\ n \in 1 .. MaxProbes
  /\ probes' = n
  /\ engine' = "load"
  /\ UNCHANGED <<table, max_cluster_bytes, ring_depth, sqpoll_active, buildVars>>

\* A file that is missing (the queries and the ground truth, which the writer
\* does not make, included), a table that is not JSON, or no memory for the
\* buffers.  Nothing is checked of what is in centroids and mean.
LoadFails == engine = "load" /\ EngineEnds

\* Fault: the buffers are sized by the last segment.
MaxBytesLast(t) ==
  IF DOMAIN t = {} THEN 0 ELSE t[Max(DOMAIN t)].length_bytes

MaxBytes(t) == Max({0} \cup {t[c].length_bytes : c \in DOMAIN t})

Load ==
  /\ engine = "load"
  /\ centroids # None /\ mean # None
  /\ tableFile \notin {None, Torn}
  /\ tape # None
  /\ table' = tableFile.table
  /\ max_cluster_bytes' = MaxBytes(table')
  /\ ring_depth' = 1
  /\ engine' = "pow2"
  /\ UNCHANGED <<probes, sqpoll_active, buildVars>>

\* next_pow2(std::max(64, probes)), one step of its loop at a time.
Wanted == Max({MinDepth, probes})

DoubleDepth ==
  /\ engine = "pow2"
  /\ ring_depth < Wanted
  /\ ring_depth' = 2 * ring_depth
  /\ UNCHANGED <<engine, probes, table, max_cluster_bytes, sqpoll_active, buildVars>>

ClampDepth ==
  /\ engine = "pow2"
  /\ ring_depth >= Wanted
  /\ ring_depth' = IF ring_depth > MaxDepth THEN MaxDepth ELSE ring_depth
  /\ engine' = "ring"
  /\ UNCHANGED <<probes, table, max_cluster_bytes, sqpoll_active, buildVars>>

\* The ring with a kernel polling thread, or a standard ring, or neither.
InitRing ==
  /\ engine = "ring"
  /\ sqpoll_active' \in BOOLEAN
  /\ engine' = "ready"
  /\ UNCHANGED <<probes, table, max_cluster_bytes, ring_depth, buildVars>>

InitRingFails == engine = "ring" /\ EngineEnds

\* The queries (module TapeSearch), and the end of the program.
Search == engine = "ready" /\ EngineEnds

Engine ==
  \/ \E n \in ProbesAsked : ParseArgs(n)
  \/ Load \/ LoadFails
  \/ DoubleDepth \/ ClampDepth
  \/ InitRing \/ InitRingFails
  \/ Search

StartInit == WriterInit /\ Off

StartNext ==
  \/ engine = "off" /\ Writer /\ UNCHANGED engineVars
  \/ Engine

StartSpec == StartInit /\ [][StartNext]_startVars
----------------------------------------------------------------------------
Segment == [num_vectors : Nat, byte_offset : Nat, length_bytes : Nat]

IsTable(t) == DOMAIN t \subseteq ClusterIds /\ t \in [DOMAIN t -> Segment]

Tape == [records : SUBSET [at : Nat, id : Vectors], size : Nat]

WriterTypeOK ==
  /\ stage \in {"idle", "routing", "open", "tape", "table"}
  /\ data \in Datasets \cup {None}
  /\ stage # "idle" => data \in Datasets
  /\ cls \in 0 .. NumClusters
  /\ current_offset \in Nat
  /\ IsTable(segment_table)
  /\ mean \in Datasets \cup {None, Torn} /\ centroids \in Datasets \cup {None, Torn}
  /\ tape = None \/ tape \in Tape
  /\ \/ tableFile \in {None, Torn}
     \/ tableFile \in [of : Datasets, table : {tableFile.table}] /\ IsTable(tableFile.table)
  /\ killed \in BOOLEAN /\ builds \in 0 .. MaxBuilds

EngineTypeOK ==
  /\ engine \in {"off", "load", "pow2", "ring", "ready"}
  /\ probes \in 0 .. MaxProbes
  /\ IsTable(table)
  /\ max_cluster_bytes \in Nat /\ ring_depth \in Nat
  /\ sqpoll_active \in BOOLEAN

\* Type invariant of the index files, the writer and the engine.
StartTypeOK == WriterTypeOK /\ EngineTypeOK

Reaches(c) == table[c].byte_offset + table[c].length_bytes

\* Whatever was built or killed before, the segments that a running engine
\* reads do not overlap on the tape, and each holds all of its records.
SegmentsApart ==
  \A c, d \in DOMAIN table :
    /\ table[c].num_vectors * RecordBytes <= table[c].length_bytes
    /\ c < d => Reaches(c) <= table[d].byte_offset

\* O_DIRECT: position, length and buffer of every read that the engine can
\* issue are multiples of the block size, and the buffer of a slot ends before
\* the next slot's, so that a read never runs into another slot.
ReadsFit ==
  \A c \in DOMAIN table : \A slot \in 0 .. probes - 1 :
    /\ table[c].byte_offset % ChunkBytes = 0
    /\ table[c].length_bytes % ChunkBytes = 0
    /\ (slot * max_cluster_bytes) % ChunkBytes = 0
    /\ slot * max_cluster_bytes + table[c].length_bytes <= (slot + 1) * max_cluster_bytes

\* The ring takes a whole batch: what module TapeSearch assumes of Depth.
DepthSuffices == engine = "ready" => ring_depth >= probes /\ ring_depth <= MaxDepth

\* The records that a read of a segment returns.
RecordsOf(c) ==
  {r \in tape.records : /\ r.at >= table[c].byte_offset
                        /\ r.at < table[c].byte_offset + table[c].num_vectors * RecordBytes}

\* Unless a build was killed after the last one that ended, the engine runs on
\* files of one build: it finds every vector exactly once, in the segment of
\* its own cluster and nowhere else, one record in every place that
\* process_cluster looks at, and no read ends beyond the tape.
IndexSound ==
  engine = "ready" /\ ~killed =>
    /\ mean = tableFile.of /\ centroids = tableFile.of
    /\ \A c \in DOMAIN table : Reaches(c) <= tape.size
    /\ \A c \in ClusterIds :
         Members(tableFile.of, c) =
           IF c \in DOMAIN table THEN {r.id : r \in RecordsOf(c)} ELSE {}
    /\ \A c \in DOMAIN table :
         /\ Cardinality(RecordsOf(c)) = table[c].num_vectors
         /\ {r.at : r \in RecordsOf(c)} =
              {table[c].byte_offset + i * RecordBytes : i \in 0 .. table[c].num_vectors - 1}
----------------------------------------------------------------------------
\* The segments of a table are aligned, long enough, and follow one another.
Laid(t) ==
  /\ \A c \in DOMAIN t :
       /\ t[c].byte_offset % ChunkBytes = 0
       /\ t[c].length_bytes % ChunkBytes = 0
       /\ t[c].num_vectors * RecordBytes <= t[c].length_bytes
  /\ \A c, d \in DOMAIN t : c < d => t[c].byte_offset + t[c].length_bytes <= t[d].byte_offset

\* What the writer has laid out lies before the offset of the next segment.
WriterInv ==
  /\ Laid(segment_table)
  /\ current_offset % ChunkBytes = 0
  /\ \A c \in DOMAIN segment_table :
       c < cls /\ segment_table[c].byte_offset + segment_table[c].length_bytes <= current_offset
  /\ stage = "tape" => tape \in Tape

TableInv == tableFile \notin {None, Torn} => Laid(tableFile.table)

\* What the engine has taken from the table.
EngineInv ==
  /\ Laid(table)
  /\ max_cluster_bytes % ChunkBytes = 0
  /\ \A c \in DOMAIN table : table[c].length_bytes <= max_cluster_bytes
  /\ engine \in {"ring", "ready"} => ring_depth >= probes /\ ring_depth <= MaxDepth

\* Inductive invariant.
StartIInv == StartTypeOK /\ WriterInv /\ TableInv /\ EngineInv
----------------------------------------------------------------------------
\* A table with one entry for every cluster below n that has vectors.
Entered(d, t, n) ==
  /\ DOMAIN t = {c \in ClusterIds : c < n /\ Members(d, c) # {}}
  /\ \A c \in DOMAIN t : t[c].num_vectors = Cardinality(Members(d, c))

\* The records of the vectors of clusters below n, where a table puts them.
Placed(d, t, n) ==
  {[at |-> t[d.label[v]].byte_offset + Rank(d, v) * RecordBytes, id |-> v] :
     v \in {u \in Vectors : d.label[u] < n}}

\* What a build has written so far, of the data set it has loaded.
BuildInv ==
  /\ stage \in {"idle", "routing", "open"} =>
       cls = 0 /\ current_offset = 0 /\ segment_table = NoTable
  /\ stage # "idle" => mean = data
  /\ stage \in {"open", "tape", "table"} => centroids = data
  /\ stage \in {"tape", "table"} =>
       /\ tape \in Tape /\ tape.size = current_offset
       /\ tape.records = Placed(data, segment_table, cls)
       /\ Entered(data, segment_table, cls)
  /\ stage = "table" => cls = NumClusters

\* The files that a build has left, and the table that an engine has taken.
BuiltInv ==
  /\ stage = "idle" /\ ~killed /\ tableFile \notin {None, Torn} =>
       /\ mean = tableFile.of /\ centroids = tableFile.of /\ tape \in Tape
       /\ tape.records = Placed(tableFile.of, tableFile.table, NumClusters)
       /\ Entered(tableFile.of, tableFile.table, NumClusters)
       /\ \A c \in DOMAIN tableFile.table :
            tableFile.table[c].byte_offset + tableFile.table[c].length_bytes <= tape.size
  /\ engine # "off" => stage = "idle"
  /\ engine \in {"pow2", "ring", "ready"} =>
       tableFile \notin {None, Torn} /\ table = tableFile.table
============================================================================
