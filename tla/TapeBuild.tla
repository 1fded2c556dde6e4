----------------------------- MODULE TapeBuild -----------------------------
(***************************************************************************)
(* tape_writer.py: builds the four files of a TapeANN index in the current *)
(* directory, each under its final name.                                   *)
(*                                                                         *)
(* A data set is known by the cluster that every vector is assigned to and *)
(* by the vectors' Hilbert keys; training, projection and quantisation are *)
(* functions of the data set and stay inside it.  The tape holds one       *)
(* segment for every cluster that has vectors, in the order of the cluster *)
(* numbers, each padded to a multiple of ChunkBytes.  Inside a segment the *)
(* records are in the order of their keys, then of their numbers.          *)
(***************************************************************************)
EXTENDS Integers, FiniteSets

CONSTANTS
  NumVectors,
  NumClusters,   \* n_clusters
  Keys,          \* Hilbert keys
  RecordBytes,   \* size of a VectorRecord, 160
  ChunkBytes,    \* chunk_size, 4096
  MaxBuilds,     \* bound: builds started
  None,          \* a file that does not exist
  Torn           \* a file cut off somewhere

ASSUME BuildAssumption ==
  /\ NumVectors \in Nat
  /\ NumClusters \in Nat \ {0}
  /\ Keys \subseteq Nat
  /\ RecordBytes \in Nat \ {0}
  /\ ChunkBytes \in Nat \ {0}
  /\ MaxBuilds \in Nat

Vectors == 0 .. NumVectors - 1

ClusterIds == 0 .. NumClusters - 1

Datasets == [label : [Vectors -> ClusterIds], key : [Vectors -> Keys]]

VARIABLES
  stage,           \* what the writer is doing, "idle" if it does not run
  data,            \* the data set it has loaded
  cls,             \* the next cluster to look at
  current_offset,
  segment_table,   \* in memory: the clusters written so far
  mean,            \* global_mean.bin: the data set it was made from
  centroids,       \* centroids.bin, likewise
  tape,            \* index_tape.bin: the records on it and its size
  tableFile,       \* segment_table.json: None, Torn, or made from a data set
  killed,          \* has a build been killed since the last one that ended?
  builds

memory == <<data, cls, current_offset, segment_table>>
files == <<mean, centroids, tape, tableFile>>
buildVars == <<stage, memory, files, killed, builds>>

NoTable == [c \in {} |-> None]

WriterInit ==
  /\ stage = "idle"
  /\ data = None
  /\ cls = 0 /\ current_offset = 0 /\ segment_table = NoTable
  /\ mean = None /\ centroids = None
  /\ tape = None
  /\ tableFile = None
  /\ killed = FALSE
  /\ builds = 0

\* load_data, which also writes global_mean.bin.
LoadData(d) ==
  /\ stage = "idle"
  /\ builds < MaxBuilds
  /\ builds' = builds + 1
  /\ data' = d
  /\ mean' = d
  /\ stage' = "routing"
  /\ UNCHANGED <<cls, current_offset, segment_table, centroids, tape, tableFile, killed>>

\* train_routing and pca_and_hilbert write nothing; build_tape starts with
\* centroids.bin.
WriteCentroids ==
  /\ stage = "routing"
  /\ centroids' = data
  /\ stage' = "open"
  /\ UNCHANGED <<memory, mean, tape, tableFile, killed, builds>>

\* open("index_tape.bin", "wb") truncates the tape.
OpenTape ==
  /\ stage = "open"
  /\ tape' = [records |-> {}, size |-> 0]
  /\ stage' = "tape"
  /\ UNCHANGED <<memory, mean, centroids, tableFile, killed, builds>>

Members(d, c) == {v \in Vectors : d.label[v] = c}

\* Fault: vectors with equal keys get the same place.
RankByKey(d, v) == Cardinality({w \in Members(d, d.label[v]) : d.key[w] < d.key[v]})

\* The place of a vector in its cluster (np.lexsort).
Rank(d, v) ==
  Cardinality({w \in Members(d, d.label[v]) :
                 d.key[w] < d.key[v] \/ (d.key[w] = d.key[v] /\ w < v)})

Padded(bytes) == bytes + ((ChunkBytes - (bytes % ChunkBytes)) % ChunkBytes)

\* Fault: the padding is left out of the running offset.
WriteClusterUnpadded ==
  LET count == Cardinality(Members(data, cls))
      length == Padded(count * RecordBytes)
      blob == {[at |-> current_offset + Rank(data, v) * RecordBytes, id |-> v] :
                 v \in Members(data, cls)}
      entry == [num_vectors |-> count, byte_offset |-> current_offset, length_bytes |-> length]
  IN  /\ stage = "tape"
      /\ cls < NumClusters
      /\ cls' = cls + 1
      /\ current_offset' = current_offset + count * RecordBytes
      /\ segment_table' = IF count = 0 THEN segment_table
                          ELSE [c \in DOMAIN segment_table \cup {cls} |->
                                  IF c = cls THEN entry ELSE segment_table[c]]
      /\ tape' = [records |-> tape.records \cup blob, size |-> tape.size + length]
      /\ UNCHANGED <<stage, data, mean, centroids, tableFile, killed, builds>>

\* One cluster: its records, the padding, and its entry in the table.  A
\* cluster without vectors is not among np.unique's and gets no segment.
WriteCluster ==
  LET count == Cardinality(Members(data, cls))
      length == Padded(count * RecordBytes)
      blob == {[at |-> current_offset + Rank(data, v) * RecordBytes, id |-> v] :
                 v \in Members(data, cls)}
      entry == [num_vectors |-> count, byte_offset |-> current_offset, length_bytes |-> length]
  IN  /\ stage = "tape"
      /\ cls < NumClusters
      /\ cls' = cls + 1
      /\ current_offset' = current_offset + length
      /\ segment_table' = IF count = 0 THEN segment_table
                          ELSE [c \in DOMAIN segment_table \cup {cls} |->
                                  IF c = cls THEN entry ELSE segment_table[c]]
      /\ tape' = [records |-> tape.records \cup blob, size |-> tape.size + length]
      /\ UNCHANGED <<stage, data, mean, centroids, tableFile, killed, builds>>

\* open("segment_table.json", "w").
OpenTable ==
  /\ stage = "tape"
  /\ cls = NumClusters
  /\ tableFile' = Torn
  /\ stage' = "table"
  /\ UNCHANGED <<memory, mean, centroids, tape, killed, builds>>

WriterEnds ==
  /\ stage' = "idle"
  /\ data' = None
  /\ cls' = 0 /\ current_offset' = 0 /\ segment_table' = NoTable

\* json.dump, and the end of the program.
WriteTable ==
  /\ stage = "table"
  /\ tableFile' = [of |-> data, table |-> segment_table]
  /\ killed' = FALSE
  /\ WriterEnds
  /\ UNCHANGED <<mean, centroids, tape, builds>>

\* The writer is killed.  Of what it has written to the tape any beginning may
\* have reached the file; the same goes for the two small files.
KillWriter ==
  /\ stage # "idle"
  /\ \/ /\ stage = "routing"
        /\ \/ mean' = Torn /\ UNCHANGED centroids
           \/ centroids' = Torn /\ UNCHANGED mean
        /\ UNCHANGED tape
     \/ /\ stage = "tape"
        /\ \E size \in 0 .. tape.size :
             tape' = [records |-> {r \in tape.records : r.at + RecordBytes <= size}, size |-> size]
        /\ UNCHANGED <<mean, centroids>>
     \/ stage # "tape" /\ UNCHANGED <<mean, centroids, tape>>
  /\ killed' = TRUE
  /\ WriterEnds
  /\ UNCHANGED <<tableFile, builds>>

Writer ==
  \/ \E d \in Datasets : LoadData(d)
  \/ WriteCentroids \/ OpenTape \/ WriteCluster \/ OpenTable \/ WriteTable
  \/ KillWriter
============================================================================
