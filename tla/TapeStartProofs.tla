-------------------------- MODULE TapeStartProofs --------------------------
(***************************************************************************)
(* Proofs about the layout of the tape and the engine that reads it        *)
(* (modules TapeBuild and TapeStart), for every data set, record size and  *)
(* chunk size, and for any number of builds, killed or not.                *)
(***************************************************************************)
EXTENDS TapeStart, FiniteSetTheorems, FunctionTheorems, TLAPS

\* Division by the chunk size.
LEMMA DivMod ==
  ASSUME NEW a \in Int
  PROVE  /\ a \div ChunkBytes \in Int /\ a % ChunkBytes \in 0 .. ChunkBytes - 1
         /\ a = ChunkBytes * (a \div ChunkBytes) + (a % ChunkBytes)
BY BuildAssumption

\* A multiple of the chunk size that is less than one chunk away from zero is
\* zero.
LEMMA SmallMultiple ==
  ASSUME NEW k \in Int, ChunkBytes * k < ChunkBytes, ChunkBytes * k > -ChunkBytes
  PROVE  k = 0
<1> DEFINE C == ChunkBytes
<1>1. C \in Int /\ C > 0 /\ C * k < C /\ C * k > -C
  BY BuildAssumption
<1> HIDE DEF C
<1>2. ~(k >= 1)
  BY <1>1
<1>3. ~(k <= -1)
  BY <1>1
<1> QED BY <1>2, <1>3

LEMMA MultipleMod ==
  ASSUME NEW k \in Int
  PROVE  (ChunkBytes * k) % ChunkBytes = 0
<1> DEFINE C == ChunkBytes  a == C * k  d == a \div C  m == a % C
<1>1. C \in Int /\ C > 0 /\ a \in Int
  BY BuildAssumption
<1>2. d \in Int /\ m \in 0 .. C - 1 /\ a = C * d + m
  BY <1>1, DivMod, Zenon
<1> HIDE DEF d, m
<1>3. C * (k - d) = m
  BY <1>1, <1>2
<1>4. k - d = 0
  BY <1>1, <1>2, <1>3, SmallMultiple
<1>5. m = 0
  BY <1>1, <1>3, <1>4
<1> QED BY <1>5, Zenon DEF m

LEMMA SmallMod ==
  ASSUME NEW x \in 0 .. ChunkBytes - 1
  PROVE  x % ChunkBytes = x
<1> DEFINE C == ChunkBytes  d == x \div C  m == x % C
<1>1. C \in Int /\ C > 0 /\ x \in Int
  BY BuildAssumption
<1>2. d \in Int /\ m \in 0 .. C - 1 /\ x = C * d + m
  BY <1>1, DivMod, Zenon
<1> HIDE DEF d, m
<1>3. C * d < C /\ C * d > -C
  BY <1>1, <1>2
<1>4. d = 0
  BY <1>2, <1>3, SmallMultiple, Zenon
<1> QED BY <1>1, <1>2, <1>4 DEF m

\* Sums and multiples of aligned numbers are aligned.
LEMMA AlignedSum ==
  ASSUME NEW a \in Int, NEW b \in Int, a % ChunkBytes = 0, b % ChunkBytes = 0
  PROVE  (a + b) % ChunkBytes = 0
<1> DEFINE C == ChunkBytes  i == a \div C  j == b \div C
<1>1. i \in Int /\ j \in Int /\ a = C * i /\ b = C * j /\ C \in Int
  BY DivMod, BuildAssumption
<1> HIDE DEF i, j
<1>2. a + b = C * (i + j)
  BY <1>1
<1> QED BY <1>1, <1>2, MultipleMod

LEMMA AlignedTimes ==
  ASSUME NEW a \in Int, NEW s \in Int, a % ChunkBytes = 0
  PROVE  (s * a) % ChunkBytes = 0
<1> DEFINE C == ChunkBytes  i == a \div C
<1>1. i \in Int /\ a = C * i /\ C \in Int
  BY DivMod, BuildAssumption
<1> HIDE DEF i
<1>2. s * a = C * (s * i) /\ s * i \in Int
  BY <1>1
<1> QED BY <1>2, MultipleMod

\* The padding formula of build_tape: the padded length is aligned and never
\* shorter than the data, exact multiples included.
LEMMA PaddedAligned ==
  ASSUME NEW b \in Nat
  PROVE  Padded(b) \in Nat /\ Padded(b) >= b /\ Padded(b) % ChunkBytes = 0
<1> DEFINE C == ChunkBytes  q == b \div C  r == b % C
<1>1. C \in Int /\ C > 0
  BY BuildAssumption
<1>2. q \in Int /\ r \in 0 .. C - 1 /\ b = C * q + r
  BY DivMod
<1>3. Padded(b) = b + ((C - r) % C)
  BY Zenon DEF Padded
<1> HIDE DEF q, r
<1>4. CASE r = 0
  <2>1. (C - r) % C = 0
    <3>1. C - r = C * 1
      BY <1>1, <1>4
    <3> QED BY <3>1, MultipleMod
  <2>2. Padded(b) = b /\ b = C * q
    BY <1>1, <1>2, <1>3, <1>4, <2>1
  <2> QED BY <1>2, <2>2, MultipleMod
<1>5. CASE r # 0
  <2>1. (C - r) % C = C - r
    <3>1. C - r \in 0 .. C - 1
      BY <1>1, <1>2, <1>5
    <3> QED BY <3>1, SmallMod, Zenon
  <2>2. Padded(b) = C * (q + 1) /\ Padded(b) = b + (C - r)
    BY <1>1, <1>2, <1>3, <2>1
  <2>3. Padded(b) % C = 0
    BY <1>2, <2>2, MultipleMod
  <2> QED BY <1>1, <1>2, <2>2, <2>3, SMTT(30)
<1> QED BY <1>4, <1>5, Zenon
----------------------------------------------------------------------------
\* A finite set of numbers has a largest one.  By minimal counterexample in
\* the subset ordering.
LEMMA MaxExists ==
  ASSUME NEW S \in SUBSET Nat, IsFiniteSet(S), S # {}
  PROVE  Max(S) \in S /\ \A y \in S : Max(S) >= y
<1> DEFINE HasMax(T) == \E x \in T : \A y \in T : x >= y
           Bad == {T \in FiniteSubsetsOf(Nat) : T # {} /\ ~HasMax(T)}
<1>1. S \in FiniteSubsetsOf(Nat)
  BY Zenon DEF FiniteSubsetsOf
<1>2. HasMax(S)
  <2>1. SUFFICES ASSUME Bad # {} PROVE FALSE
    BY <1>1, Zenon
  <2>2. PICK T \in Bad : \A U \in Bad : <<U, T>> \notin StrictSubsetOrdering(Nat)
    <3>1. IsWellFoundedOn(StrictSubsetOrdering(Nat), FiniteSubsetsOf(Nat))
      BY FS_StrictSubsetOrderingWellFounded, Zenon
    <3>2. Bad \subseteq FiniteSubsetsOf(Nat)
      BY Zenon
    <3> HIDE DEF Bad
    <3> QED BY <2>1, <3>1, <3>2, WFMin, Zenon
  <2>3. T \in SUBSET Nat /\ IsFiniteSet(T) /\ T # {} /\ ~HasMax(T)
    BY <2>2, Zenon DEF FiniteSubsetsOf
  <2>4. PICK x \in T : TRUE
    BY <2>3, Zenon
  <2> DEFINE U == T \ {x}
  <2>5. U \in FiniteSubsetsOf(Nat) /\ <<U, T>> \in StrictSubsetOrdering(Nat)
    BY <2>3, <2>4, FS_Subset, Zenon DEF FiniteSubsetsOf, StrictSubsetOrdering
  <2>6. U # {}
    BY <2>3, <2>4
  <2>7. PICK m \in U : \A y \in U : m >= y
    BY <2>2, <2>5, <2>6, Zenon
  <2>8. m \in Nat /\ x \in Nat
    BY <2>3, <2>4, <2>7, Zenon
  <2>9. CASE m >= x
    BY <2>3, <2>7, <2>9, Zenon
  <2>10. CASE x >= m
    <3>1. \A y \in T : x >= y
      BY <2>3, <2>7, <2>8, <2>10, SMTT(30)
    <3> QED BY <2>3, <2>4, <3>1, Zenon
  <2> QED BY <2>8, <2>9, <2>10
<1> QED BY <1>2, Zenon DEF Max

\* max_cluster_bytes is aligned and at least the length of every segment.
LEMMA MaxBytesBounds ==
  ASSUME NEW t, IsTable(t), Laid(t)
  PROVE  /\ MaxBytes(t) \in Nat /\ MaxBytes(t) % ChunkBytes = 0
         /\ \A c \in DOMAIN t : t[c].length_bytes <= MaxBytes(t)
<1> DEFINE L == {t[c].length_bytes : c \in DOMAIN t}  S == {0} \cup L
<1>1. \A c \in DOMAIN t : t[c].length_bytes \in Nat /\ t[c].length_bytes % ChunkBytes = 0
  BY Zenon DEF IsTable, Laid, Segment
<1>2. IsFiniteSet(L)
  <2>1. IsFiniteSet(ClusterIds)
    BY BuildAssumption, FS_Interval DEF ClusterIds
  <2>2. IsFiniteSet(DOMAIN t)
    BY <2>1, FS_Subset, Zenon DEF IsTable
  <2> DEFINE f == [c \in DOMAIN t |-> t[c].length_bytes]
  <2>3. f \in Surjection(DOMAIN t, L)
    BY Zenon DEF Surjection
  <2> HIDE DEF f, L
  <2> QED BY <2>2, <2>3, FS_Surjection, Zenon
<1>3. IsFiniteSet(S) /\ S # {} /\ S \in SUBSET Nat
  <2>1. IsFiniteSet(L \cup {0})
    <3> HIDE DEF L
    <3> QED BY <1>2, FS_AddElement, Zenon
  <2>2. S = L \cup {0}
    BY Zenon
  <2>3. \A x \in L : x \in Nat
    BY <1>1, Zenon
  <2> HIDE DEF L
  <2> QED BY <2>1, <2>2, <2>3
<1>4. 0 % ChunkBytes = 0
  BY BuildAssumption, SmallMod
<1>5. MaxBytes(t) = Max(S)
  BY Zenon DEF MaxBytes
<1>6. MaxBytes(t) \in S /\ \A y \in S : MaxBytes(t) >= y
  <2> HIDE DEF S
  <2> QED BY <1>3, <1>5, MaxExists, Zenon
<1> QED BY <1>1, <1>3, <1>4, <1>6, Zenon
----------------------------------------------------------------------------
LEMMA NoTableLaid == IsTable(NoTable) /\ Laid(NoTable) /\ DOMAIN NoTable = {}
BY Zenon DEF IsTable, Laid, NoTable

LEMMA ZeroAligned == 0 % ChunkBytes = 0
BY BuildAssumption, SmallMod

\* Nothing is written and no engine runs.
LEMMA InitIInv == StartInit => StartIInv
<1> SUFFICES ASSUME StartInit PROVE StartIInv
  BY Zenon
<1>1. WriterTypeOK
  <2>1. killed \in BOOLEAN
    BY Zenon DEF StartInit, WriterInit
  <2>2. IsTable(segment_table)
    BY NoTableLaid, Zenon DEF StartInit, WriterInit
  <2>3. cls \in 0 .. NumClusters /\ builds \in 0 .. MaxBuilds
    BY BuildAssumption DEF StartInit, WriterInit
  <2> QED BY <2>1, <2>2, <2>3, Zenon DEF StartInit, WriterInit, WriterTypeOK
<1>2. EngineTypeOK
  <2>1. sqpoll_active \in BOOLEAN
    BY Zenon DEF StartInit, Off
  <2>2. IsTable(table)
    BY NoTableLaid, Zenon DEF StartInit, Off
  <2>3. probes \in 0 .. MaxProbes
    BY StartAssumption DEF StartInit, Off
  <2> QED BY <2>1, <2>2, <2>3, Zenon DEF StartInit, Off, EngineTypeOK
<1>3. WriterInv /\ TableInv
  BY NoTableLaid, ZeroAligned, Zenon DEF StartInit, WriterInit, WriterInv, TableInv
<1>4. EngineInv
  BY NoTableLaid, ZeroAligned, Zenon DEF StartInit, Off, EngineInv
<1> QED BY <1>1, <1>2, <1>3, <1>4, Zenon DEF StartIInv, StartTypeOK

\* What the writer does leaves the engine's part alone, and the other way
\* round.
LEMMA EngineFrame ==
  ASSUME EngineTypeOK, EngineInv, UNCHANGED engineVars
  PROVE  EngineTypeOK' /\ EngineInv'
BY SMTT(30) DEF EngineTypeOK, EngineInv, engineVars, Laid, IsTable

LEMMA WriterFrame ==
  ASSUME WriterTypeOK, WriterInv, TableInv, UNCHANGED buildVars
  PROVE  WriterTypeOK' /\ WriterInv' /\ TableInv'
BY DEF WriterTypeOK, WriterInv, TableInv, buildVars, memory, files, Laid, IsTable

\* How many vectors a cluster has, and where its records go.
LEMMA MembersCounted ==
  ASSUME NEW d \in Datasets, NEW c
  PROVE  /\ Cardinality(Members(d, c)) \in Nat
         /\ \A v \in Members(d, c) : v \in Vectors /\ Rank(d, v) \in Nat
<1>1. IsFiniteSet(Vectors)
  BY BuildAssumption, FS_Interval DEF Vectors
<1>2. \A e : IsFiniteSet(Members(d, e)) /\ Members(d, e) \subseteq Vectors
  BY <1>1, FS_Subset, Zenon DEF Members
<1>3. \A v \in Vectors : Rank(d, v) \in Nat
  <2> TAKE v \in Vectors
  <2> DEFINE B == {w \in Members(d, d.label[v]) :
                     d.key[w] < d.key[v] \/ (d.key[w] = d.key[v] /\ w < v)}
  <2>1. B \subseteq Members(d, d.label[v]) /\ Rank(d, v) = Cardinality(B)
    BY Zenon DEF Rank
  <2> HIDE DEF B
  <2> QED BY <1>2, <2>1, FS_Subset, FS_CardinalityType, Zenon
<1> QED BY <1>2, <1>3, FS_CardinalityType, Zenon

\* The segment of the next cluster is put behind all others.
LEMMA WriteClusterIInv ==
  ASSUME StartIInv, WriteCluster, UNCHANGED engineVars
  PROVE  StartIInv'
<1> USE BuildAssumption
<1> DEFINE count == Cardinality(Members(data, cls))
           length == Padded(count * RecordBytes)
           blob == {[at |-> current_offset + Rank(data, v) * RecordBytes, id |-> v] :
                      v \in Members(data, cls)}
           entry == [num_vectors |-> count, byte_offset |-> current_offset, length_bytes |-> length]
           t == segment_table
           T == [c \in DOMAIN t \cup {cls} |-> IF c = cls THEN entry ELSE t[c]]
<1>1. /\ data \in Datasets /\ tape \in Tape /\ current_offset \in Nat
      /\ cls \in ClusterIds /\ cls \in Nat /\ cls + 1 \in 0 .. NumClusters
  BY DEF StartIInv, StartTypeOK, WriterTypeOK, WriterInv, WriteCluster, ClusterIds
<1>2. count \in Nat /\ \A v \in Members(data, cls) : v \in Vectors /\ Rank(data, v) \in Nat
  BY <1>1, MembersCounted, Zenon
<1> HIDE DEF count
<1>3. count * RecordBytes \in Nat
  BY <1>2
<1>4. length \in Nat /\ length >= count * RecordBytes /\ length % ChunkBytes = 0
  BY <1>3, PaddedAligned, Zenon
<1>5. blob \subseteq [at : Nat, id : Vectors]
  <2> SUFFICES ASSUME NEW v \in Members(data, cls)
               PROVE  [at |-> current_offset + Rank(data, v) * RecordBytes, id |-> v]
                        \in [at : Nat, id : Vectors]
    BY Zenon
  <2>1. Rank(data, v) \in Nat /\ v \in Vectors
    BY <1>2, Zenon
  <2>2. current_offset + Rank(data, v) * RecordBytes \in Nat
    BY <1>1, <2>1
  <2> QED BY <2>1, <2>2, Zenon
<1> HIDE DEF length, blob
<1>6. /\ stage' = stage /\ data' = data /\ cls' = cls + 1 /\ current_offset' = current_offset + length
      /\ segment_table' = IF count = 0 THEN t ELSE T
      /\ tape' = [records |-> tape.records \cup blob, size |-> tape.size + length]
      /\ UNCHANGED <<mean, centroids, tableFile, killed, builds>>
  BY Zenon DEF WriteCluster, count, length, blob
<1>7. tape' \in Tape
  BY <1>1, <1>4, <1>5, <1>6 DEF Tape
<1>8. /\ IsTable(t) /\ Laid(t) /\ current_offset % ChunkBytes = 0
      /\ \A c \in DOMAIN t :
           /\ c < cls /\ c # cls /\ t[c] \in Segment
           /\ t[c].byte_offset \in Nat /\ t[c].length_bytes \in Nat
           /\ t[c].byte_offset + t[c].length_bytes <= current_offset
  <2>1. IsTable(t) /\ Laid(t) /\ current_offset % ChunkBytes = 0
    BY Zenon DEF StartIInv, StartTypeOK, WriterTypeOK, WriterInv
  <2>2. \A c \in DOMAIN t : c < cls /\ t[c].byte_offset + t[c].length_bytes <= current_offset
    BY Zenon DEF StartIInv, WriterInv
  <2>3. \A c \in DOMAIN t : c \in Nat /\ t[c] \in Segment
    BY <2>1 DEF IsTable, ClusterIds
  <2> QED BY <1>1, <2>1, <2>2, <2>3 DEF Segment
<1>9. (current_offset + length) % ChunkBytes = 0 /\ current_offset + length \in Nat
  <2>1. current_offset \in Int /\ length \in Int /\ current_offset + length \in Nat
    BY <1>1, <1>4
  <2> QED BY <1>4, <1>8, <2>1, AlignedSum, Zenon
<1>10. IsTable(T) /\ Laid(T) /\ \A c \in DOMAIN T : c < cls + 1 /\ T[c].byte_offset + T[c].length_bytes <= current_offset + length
  <2>1. entry \in Segment
    BY <1>1, <1>2, <1>4, Zenon DEF Segment
  <2>2. DOMAIN T = DOMAIN t \cup {cls} /\ T[cls] = entry /\ \A c \in DOMAIN t : T[c] = t[c]
    BY <1>8, Zenon
  <2> HIDE DEF T
  <2>3. T \in [DOMAIN T -> Segment]
    <3>1. T = [c \in DOMAIN T |-> T[c]]
      BY Zenon DEF T
    <3>2. \A c \in DOMAIN T : T[c] \in Segment
      BY <1>8, <2>1, <2>2, Zenon
    <3> QED BY <3>1, <3>2, Zenon
  <2>4. IsTable(T)
    BY <1>1, <1>8, <2>2, <2>3, SMTT(30) DEF IsTable
  <2>5. \A c \in DOMAIN T : /\ T[c].byte_offset % ChunkBytes = 0
                            /\ T[c].length_bytes % ChunkBytes = 0
                            /\ T[c].num_vectors * RecordBytes <= T[c].length_bytes
    BY <1>3, <1>4, <1>8, <2>2 DEF Laid
  <2>6. ASSUME NEW c \in DOMAIN T, NEW d \in DOMAIN T, c < d
        PROVE  T[c].byte_offset + T[c].length_bytes <= T[d].byte_offset
    <3>1. CASE d = cls
      <4>1. c \in DOMAIN t
        BY <1>1, <2>2, <2>6, <3>1, SMTT(30)
      <4> QED BY <1>8, <2>2, <3>1, <4>1, SMTT(30)
    <3>2. CASE d # cls
      <4>1. d \in DOMAIN t /\ d < cls /\ d \in Nat
        BY <1>8, <2>2, <3>2 DEF IsTable, ClusterIds
      <4>2. c \in DOMAIN t
        BY <1>1, <2>2, <2>6, <4>1, SMTT(30)
      <4> QED BY <1>8, <2>2, <2>6, <4>1, <4>2, SMTT(30) DEF Laid
    <3> QED BY <3>1, <3>2, Zenon
  <2>7. \A c \in DOMAIN T : c < cls + 1 /\ T[c].byte_offset + T[c].length_bytes <= current_offset + length
    <3>1. \A c \in DOMAIN t : c \in Nat
      BY <1>8 DEF IsTable, ClusterIds
    <3> QED BY <1>1, <1>4, <1>8, <2>2, <3>1
  <2> QED BY <2>4, <2>5, <2>6, <2>7, Zenon DEF Laid
<1>11. IsTable(segment_table') /\ Laid(segment_table')
       /\ \A c \in DOMAIN segment_table' :
            c < cls' /\ segment_table'[c].byte_offset + segment_table'[c].length_bytes <= current_offset'
  <2>1. CASE count = 0
    <3>1. \A c \in DOMAIN t : c \in Nat
      BY <1>8 DEF IsTable, ClusterIds
    <3> QED BY <1>1, <1>4, <1>6, <1>8, <2>1, <3>1, SMTT(30)
  <2>2. CASE count # 0
    <3> HIDE DEF T
    <3> QED BY <1>6, <1>10, <2>2, SMTT(30)
  <2> QED BY <2>1, <2>2, SMTT(30)
<1> HIDE DEF T
<1>12. WriterTypeOK'
  <2>1. IsTable(segment_table)'
    BY <1>11, Zenon DEF IsTable
  <2>2. tape' \in Tape /\ cls' \in 0 .. NumClusters /\ current_offset' \in Nat
    BY <1>1, <1>6, <1>7, <1>9, SMTT(30)
  <2>3. tableFile' = tableFile /\ (IsTable(tableFile.table) => IsTable(tableFile.table)')
    BY <1>6, SMTT(30) DEF IsTable
  <2> QED BY <1>6, <2>1, <2>2, <2>3, Zenon DEF StartIInv, StartTypeOK, WriterTypeOK
<1>13. WriterInv'
  BY <1>6, <1>7, <1>9, <1>11, SMTT(30) DEF WriterInv, Laid
<1>14. TableInv'
  BY <1>6, Zenon DEF StartIInv, TableInv, Laid
<1> QED BY <1>12, <1>13, <1>14, EngineFrame, SMTT(30) DEF StartIInv, StartTypeOK

\* The other steps of the writer do not touch the layout; the last one saves it.
LEMMA WriterIInv ==
  ASSUME StartIInv, Writer, UNCHANGED engineVars
  PROVE  StartIInv'
<1> USE BuildAssumption
<1>1. EngineTypeOK' /\ EngineInv'
  BY EngineFrame, Zenon DEF StartIInv, StartTypeOK
<1>2. ASSUME NEW d \in Datasets, LoadData(d) PROVE StartIInv'
  <2>1. /\ builds' \in 0 .. MaxBuilds /\ data' = d /\ mean' = d /\ stage' = "routing"
        /\ UNCHANGED <<cls, current_offset, segment_table, centroids, tape, tableFile, killed>>
    BY <1>2, SMTT(30) DEF StartIInv, StartTypeOK, WriterTypeOK, LoadData
  <2>2. WriterTypeOK'
    BY <2>1, SMTT(30) DEF StartIInv, StartTypeOK, WriterTypeOK, IsTable
  <2>3. WriterInv' /\ TableInv'
    BY <2>1, Zenon DEF StartIInv, WriterInv, TableInv, Laid
  <2> QED BY <1>1, <2>2, <2>3, Zenon DEF StartIInv, StartTypeOK
<1>3. ASSUME WriteCentroids PROVE StartIInv'
  <2>1. WriterTypeOK'
    BY <1>3, SMTT(30) DEF StartIInv, StartTypeOK, WriterTypeOK, IsTable, WriteCentroids, memory
  <2>2. WriterInv' /\ TableInv'
    BY <1>3, SMTT(30) DEF StartIInv, WriterInv, TableInv, Laid, WriteCentroids, memory
  <2> QED BY <1>1, <2>1, <2>2, SMTT(30) DEF StartIInv, StartTypeOK
<1>4. ASSUME OpenTape PROVE StartIInv'
  <2>1. tape' \in Tape
    BY <1>4, SMTT(30) DEF OpenTape, Tape
  <2>2. WriterTypeOK'
    BY <1>4, <2>1, SMTT(30) DEF StartIInv, StartTypeOK, WriterTypeOK, IsTable, OpenTape, memory
  <2>3. WriterInv' /\ TableInv'
    BY <1>4, <2>1, SMTT(30) DEF StartIInv, WriterInv, TableInv, Laid, OpenTape, memory
  <2> QED BY <1>1, <2>2, <2>3, Zenon DEF StartIInv, StartTypeOK
<1>5. ASSUME OpenTable PROVE StartIInv'
  <2>1. WriterTypeOK'
    BY <1>5, SMTT(30) DEF StartIInv, StartTypeOK, WriterTypeOK, IsTable, OpenTable, memory
  <2>2. WriterInv' /\ TableInv'
    BY <1>5, Zenon DEF StartIInv, WriterInv, TableInv, Laid, OpenTable, memory
  <2> QED BY <1>1, <2>1, <2>2, Zenon DEF StartIInv, StartTypeOK
<1>6. ASSUME WriterEnds PROVE WriterInv'
  <2>1. /\ stage' = "idle" /\ current_offset' = 0 /\ segment_table' = NoTable
    BY <1>6, Zenon DEF WriterEnds
  <2>2. Laid(segment_table)'
    BY <2>1, NoTableLaid, Zenon DEF Laid
  <2> QED BY <2>1, <2>2, NoTableLaid, ZeroAligned, Zenon DEF WriterInv
<1>7. ASSUME WriterEnds PROVE /\ stage' = "idle" /\ data' = None /\ cls' \in 0 .. NumClusters
                              /\ current_offset' \in Nat /\ IsTable(segment_table)'
  BY <1>7, NoTableLaid DEF WriterEnds, IsTable
<1>8. ASSUME WriteTable PROVE StartIInv'
  <2>1. /\ WriterEnds /\ data \in Datasets /\ IsTable(segment_table) /\ Laid(segment_table)
        /\ tableFile' = [of |-> data, table |-> segment_table]
    BY <1>8, Zenon DEF StartIInv, StartTypeOK, WriterTypeOK, WriterInv, WriteTable
  <2>2. killed' \in BOOLEAN
    BY <1>8, Zenon DEF WriteTable
  <2>3. tableFile'.table = segment_table /\ tableFile' \in [of : Datasets, table : {tableFile'.table}]
    BY <2>1, Zenon
  <2>4. IsTable(tableFile.table)' /\ Laid(tableFile.table)'
    BY <2>1, <2>3, Zenon DEF IsTable, Laid
  <2>5. UNCHANGED <<mean, centroids, tape, builds>>
    BY <1>8, SMTT(30) DEF WriteTable
  <2>6. WriterTypeOK'
    BY <1>7, <2>1, <2>2, <2>3, <2>4, <2>5, SMTT(30) DEF StartIInv, StartTypeOK, WriterTypeOK
  <2>7. TableInv'
    BY <2>4, Zenon DEF TableInv
  <2> QED BY <1>1, <1>6, <2>1, <2>6, <2>7, SMTT(30) DEF StartIInv, StartTypeOK
<1>9. ASSUME KillWriter PROVE StartIInv'
  <2>1. WriterEnds /\ UNCHANGED <<tableFile, builds>>
    BY <1>9, Zenon DEF KillWriter
  <2>2. killed' \in BOOLEAN
    BY <1>9, Zenon DEF KillWriter
  <2>3. tape' = None \/ tape' \in Tape
    <3>1. CASE tape' = tape
      BY <3>1, Zenon DEF StartIInv, StartTypeOK, WriterTypeOK
    <3>2. CASE stage = "tape"
      <4>1. tape \in Tape
        BY <3>2, Zenon DEF StartIInv, WriterInv
      <4>2. CASE \E size \in 0 .. tape.size :
                   tape' = [records |-> {r \in tape.records : r.at + RecordBytes <= size}, size |-> size]
        BY <4>1, <4>2, SMTT(30) DEF Tape
      <4> QED BY <1>9, <3>2, <4>2, Zenon DEF KillWriter
    <3> QED BY <1>9, <3>1, <3>2, Zenon DEF KillWriter
  <2>4. mean' \in Datasets \cup {None, Torn} /\ centroids' \in Datasets \cup {None, Torn}
    BY <1>9, Zenon DEF StartIInv, StartTypeOK, WriterTypeOK, KillWriter
  <2>5. \/ tableFile' \in {None, Torn}
        \/ tableFile' \in [of : Datasets, table : {tableFile'.table}] /\ IsTable(tableFile.table)'
    BY <2>1, Zenon DEF StartIInv, StartTypeOK, WriterTypeOK, IsTable
  <2>6. WriterTypeOK'
    BY <1>7, <2>1, <2>2, <2>3, <2>4, <2>5, SMTT(30) DEF StartIInv, StartTypeOK, WriterTypeOK
  <2>7. TableInv'
    BY <2>1, Zenon DEF StartIInv, TableInv, Laid
  <2> QED BY <1>1, <1>6, <2>1, <2>6, <2>7, SMTT(30) DEF StartIInv, StartTypeOK
<1> QED BY <1>2, <1>3, <1>4, <1>5, <1>8, <1>9, WriteClusterIInv, SMTT(30) DEF Writer

\* The larger of two numbers, as the depth is computed from it.
LEMMA WantedBounds ==
  ASSUME EngineTypeOK
  PROVE  Wanted \in Nat /\ Wanted >= probes
<1>1. probes \in Nat /\ MinDepth \in Nat
  BY StartAssumption DEF EngineTypeOK
<1>2. IsFiniteSet({MinDepth, probes})
  <2>1. IsFiniteSet({MinDepth})
    BY FS_Singleton, Zenon
  <2>2. IsFiniteSet({MinDepth} \cup {probes})
    BY <2>1, FS_AddElement, Zenon
  <2>3. {MinDepth} \cup {probes} = {MinDepth, probes}
    BY Zenon
  <2> QED BY <2>2, <2>3, Zenon
<1>3. Max({MinDepth, probes}) \in {MinDepth, probes} /\ \A y \in {MinDepth, probes} : Max({MinDepth, probes}) >= y
  BY <1>1, <1>2, MaxExists, Zenon
<1> QED BY <1>1, <1>3, Zenon DEF Wanted

\* The steps of the engine; Load takes over a table that is laid out, and
\* ClampDepth never goes below --probes.
LEMMA EngineIInv ==
  ASSUME StartIInv, Engine
  PROVE  StartIInv'
<1> USE StartAssumption
<1>1. UNCHANGED buildVars
  BY Zenon DEF Engine, ParseArgs, Load, LoadFails, DoubleDepth, ClampDepth, InitRing,
     InitRingFails, Search, EngineEnds
<1>2. WriterTypeOK' /\ WriterInv' /\ TableInv'
  BY <1>1, WriterFrame, Zenon DEF StartIInv, StartTypeOK
<1>3. ASSUME EngineEnds PROVE EngineTypeOK' /\ EngineInv'
  <2>1. engine' = "off" /\ probes' = 0 /\ table' = NoTable /\ max_cluster_bytes' = 0 /\ ring_depth' = 0
    BY <1>3, Zenon DEF EngineEnds
  <2>2. sqpoll_active' \in BOOLEAN
    BY <1>3, Zenon DEF EngineEnds
  <2>3. IsTable(table)' /\ Laid(table)'
    BY <2>1, NoTableLaid, Zenon DEF IsTable, Laid
  <2>4. probes' \in 0 .. MaxProbes
    BY <2>1
  <2>5. EngineTypeOK'
    BY <2>1, <2>2, <2>3, <2>4, SMTT(30) DEF EngineTypeOK
  <2> QED BY <2>1, <2>3, <2>5, NoTableLaid, ZeroAligned, Zenon DEF EngineInv
<1>4. ASSUME NEW n \in ProbesAsked, ParseArgs(n) PROVE EngineTypeOK' /\ EngineInv'
  <2>1. probes' \in 0 .. MaxProbes /\ engine' = "load" /\ UNCHANGED <<table, max_cluster_bytes, ring_depth, sqpoll_active>>
    BY <1>4, SMTT(30) DEF ParseArgs
  <2> QED BY <2>1, Zenon DEF StartIInv, StartTypeOK, EngineTypeOK, EngineInv, IsTable, Laid
<1>5. ASSUME Load PROVE EngineTypeOK' /\ EngineInv'
  <2>1. /\ tableFile \notin {None, Torn} /\ table' = tableFile.table /\ max_cluster_bytes' = MaxBytes(table')
        /\ ring_depth' = 1 /\ engine' = "pow2" /\ UNCHANGED <<probes, sqpoll_active>>
    BY <1>5, Zenon DEF Load
  <2> DEFINE t == tableFile.table
  <2>2. IsTable(t) /\ Laid(t)
    BY <2>1, Zenon DEF StartIInv, StartTypeOK, WriterTypeOK, TableInv
  <2>3. table' = t /\ max_cluster_bytes' = MaxBytes(t)
    BY <2>1, Zenon
  <2> HIDE DEF t
  <2>4. /\ max_cluster_bytes' \in Nat /\ max_cluster_bytes' % ChunkBytes = 0
        /\ \A c \in DOMAIN t : t[c].length_bytes <= max_cluster_bytes'
    BY <2>2, <2>3, MaxBytesBounds, SMTT(30)
  <2>5. IsTable(table)' /\ Laid(table)'
    BY <2>2, <2>3, Zenon DEF IsTable, Laid
  <2>6. EngineTypeOK'
    BY <2>1, <2>4, <2>5, SMTT(30) DEF StartIInv, StartTypeOK, EngineTypeOK
  <2> QED BY <2>1, <2>3, <2>4, <2>5, <2>6, SMTT(30) DEF EngineInv
<1>6. ASSUME DoubleDepth PROVE EngineTypeOK' /\ EngineInv'
  <2>1. engine = "pow2" /\ ring_depth' \in Nat /\ UNCHANGED <<engine, probes, table, max_cluster_bytes, sqpoll_active>>
    BY <1>6 DEF StartIInv, StartTypeOK, EngineTypeOK, DoubleDepth
  <2> QED BY <2>1, Zenon DEF StartIInv, StartTypeOK, EngineTypeOK, EngineInv, IsTable, Laid
<1>7. ASSUME ClampDepth PROVE EngineTypeOK' /\ EngineInv'
  <2>1. /\ probes \in Nat /\ probes <= MaxProbes /\ ring_depth \in Nat
        /\ Wanted \in Nat /\ Wanted >= probes
    BY WantedBounds DEF StartIInv, StartTypeOK, EngineTypeOK
  <2>2. ring_depth' \in Nat /\ ring_depth' >= probes /\ ring_depth' <= MaxDepth
    BY <1>7, <2>1 DEF ClampDepth
  <2>3. engine' = "ring" /\ UNCHANGED <<probes, table, max_cluster_bytes, sqpoll_active>>
    BY <1>7, SMTT(30) DEF ClampDepth
  <2> QED BY <2>2, <2>3, Zenon DEF StartIInv, StartTypeOK, EngineTypeOK, EngineInv, IsTable, Laid
<1>8. ASSUME InitRing PROVE EngineTypeOK' /\ EngineInv'
  <2>1. sqpoll_active' \in BOOLEAN
    BY <1>8, Zenon DEF InitRing
  <2>2. engine = "ring" /\ engine' = "ready" /\ UNCHANGED <<probes, table, max_cluster_bytes, ring_depth>>
    BY <1>8, Zenon DEF InitRing
  <2> QED BY <2>1, <2>2, Zenon DEF StartIInv, StartTypeOK, EngineTypeOK, EngineInv, IsTable, Laid
<1>9. EngineTypeOK' /\ EngineInv'
  BY <1>3, <1>4, <1>5, <1>6, <1>7, <1>8, Zenon DEF Engine, LoadFails, InitRingFails, Search
<1> QED BY <1>2, <1>9, SMTT(30) DEF StartIInv, StartTypeOK
----------------------------------------------------------------------------
\* A cluster has finitely many vectors.
LEMMA MembersFinite ==
  ASSUME NEW d, NEW c
  PROVE  IsFiniteSet(Members(d, c))
<1>1. PICK lo, hi \in Int : lo = 0 /\ hi = NumVectors - 1
  BY BuildAssumption
<1>2. IsFiniteSet(lo .. hi)
  BY FS_Interval, Zenon
<1>3. Members(d, c) \in SUBSET (lo .. hi)
  BY <1>1, Zenon DEF Members, Vectors
<1> QED BY <1>2, <1>3, FS_Subset, Zenon

\* Vectors and Hilbert keys are numbers.
LEMMA KeysNumbers ==
  ASSUME NEW d \in Datasets, NEW x \in Vectors
  PROVE  x \in Int /\ d.key[x] \in Int
<1>1. x \in Int
  BY BuildAssumption DEF Vectors
<1>2. d.key \in [Vectors -> Keys]
  BY Zenon DEF Datasets
<1>3. d.key[x] \in Keys
  BY <1>2, Zenon
<1>4. Keys \subseteq Nat
  BY BuildAssumption, Zenon
<1>5. d.key[x] \in Nat
  BY <1>3, <1>4, Zenon
<1> QED BY ONLY <1>1, <1>5, SMT

\* A vector that is sorted before another one has a smaller place.
LEMMA RankGrows ==
  ASSUME NEW d \in Datasets, NEW c, NEW v \in Members(d, c), NEW w \in Members(d, c),
         d.key[v] < d.key[w] \/ (d.key[v] = d.key[w] /\ v < w)
  PROVE  Rank(d, v) < Rank(d, w)
<1> DEFINE M == Members(d, c)
           B(u) == {x \in M : d.key[x] < d.key[u] \/ (d.key[x] = d.key[u] /\ x < u)}
<1>1. /\ IsFiniteSet(M) /\ d.label[v] = c /\ d.label[w] = c
      /\ \A x \in M : x \in Int /\ d.key[x] \in Int
  <2>2. IsFiniteSet(M)
    BY MembersFinite, Zenon
  <2>3. \A x \in M : x \in Vectors /\ d.label[x] = c
    BY Zenon DEF Members
  <2>4. \A x \in Vectors : x \in Int /\ d.key[x] \in Int
    BY KeysNumbers, Zenon
  <2> QED BY <2>2, <2>3, <2>4, Zenon
<1>2. Rank(d, v) = Cardinality(B(v)) /\ Rank(d, w) = Cardinality(B(w))
  BY <1>1, Zenon DEF Rank
<1>3. v \notin B(v) /\ v \in B(w)
  BY <1>1
<1>4. B(v) \subseteq B(w)
  <2> SUFFICES ASSUME NEW x \in B(v) PROVE x \in B(w)
    BY Zenon
  <2> QED BY <1>1, SMTT(30)
<1>5. PICK p, q : p = B(v) /\ q = B(w)
  BY Zenon
<1>6. IsFiniteSet(q) /\ p \subseteq q /\ v \notin p /\ v \in q
  <2>1. q \subseteq M
    BY <1>5, Zenon
  <2> QED BY <1>1, <1>3, <1>4, <1>5, <2>1, FS_Subset, Zenon
<1>7. IsFiniteSet(q \ {v}) /\ Cardinality(q \ {v}) = Cardinality(q) - 1 /\ Cardinality(q) \in Nat
  BY <1>6, FS_RemoveElement, FS_CardinalityType, Zenon
<1>8. Cardinality(p) <= Cardinality(q \ {v}) /\ Cardinality(p) \in Nat
  <2>1. p \in SUBSET (q \ {v})
    BY <1>6, Zenon
  <2> QED BY <1>7, <2>1, FS_Subset, FS_CardinalityType, Zenon
<1> QED BY <1>2, <1>5, <1>7, <1>8

\* np.lexsort gives the vectors of a cluster the places from 0 on, each to one.
LEMMA RanksFill ==
  ASSUME NEW d \in Datasets, NEW c, NEW n, n = Cardinality(Members(d, c))
  PROVE  /\ n \in Nat
         /\ \A v \in Members(d, c) : Rank(d, v) \in 0 .. n - 1
         /\ \A v, w \in Members(d, c) : Rank(d, v) = Rank(d, w) => v = w
         /\ \A i \in 0 .. n - 1 : \E v \in Members(d, c) : Rank(d, v) = i
<1>1. PICK M : M = Members(d, c)
  BY Zenon
<1>2. /\ IsFiniteSet(M) /\ n \in Nat /\ n = Cardinality(M)
      /\ \A x \in M : x \in Int /\ d.key[x] \in Int /\ d.label[x] = c /\ Rank(d, x) \in Nat
  <2>2. IsFiniteSet(M)
    BY <1>1, MembersFinite, Zenon
  <2>3. \A x \in M : x \in Vectors /\ d.label[x] = c /\ Rank(d, x) \in Nat
    BY <1>1, MembersCounted, Zenon DEF Members
  <2>4. \A x \in Vectors : x \in Int /\ d.key[x] \in Int
    BY KeysNumbers, Zenon
  <2> QED BY <1>1, <2>2, <2>3, <2>4, FS_CardinalityType, Zenon
<1>3. ASSUME NEW v \in M PROVE Rank(d, v) \in 0 .. n - 1
  <2>1. PICK B : B = {w \in M : d.key[w] < d.key[v] \/ (d.key[w] = d.key[v] /\ w < v)}
    BY Zenon
  <2>2. Rank(d, v) = Cardinality(B)
    BY <1>1, <1>2, <2>1, Zenon DEF Rank
  <2>3. B \in SUBSET (M \ {v})
    BY <1>2, <2>1
  <2>4. IsFiniteSet(M \ {v}) /\ Cardinality(M \ {v}) = n - 1
    BY <1>2, FS_RemoveElement, Zenon
  <2>5. Cardinality(B) <= n - 1
    BY <2>3, <2>4, FS_Subset
  <2> QED BY <1>2, <2>2, <2>5
<1>4. ASSUME NEW v \in M, NEW w \in M, Rank(d, v) = Rank(d, w) PROVE v = w
  <2>1. CASE d.key[v] < d.key[w] \/ (d.key[v] = d.key[w] /\ v < w)
    BY <1>1, <1>2, <1>4, <2>1, RankGrows
  <2>2. CASE d.key[w] < d.key[v] \/ (d.key[w] = d.key[v] /\ w < v)
    BY <1>1, <1>2, <1>4, <2>2, RankGrows
  <2> QED BY <1>2, <2>1, <2>2
<1>5. PICK f : f = [v \in M |-> Rank(d, v)]
  BY Zenon
<1>6. PICK lo, hi \in Int : lo = 0 /\ hi = n - 1
  BY <1>2
<1>7. f \in Injection(M, lo .. hi)
  <2>1. f \in [M -> lo .. hi] /\ \A v \in M : f[v] = Rank(d, v)
    BY <1>3, <1>5, <1>6, Zenon
  <2> QED BY <1>4, <2>1, Zenon DEF Injection, IsInjective
<1>8. IsFiniteSet(lo .. hi) /\ Cardinality(lo .. hi) = n
  <2>1. IsFiniteSet(lo .. hi) /\ Cardinality(lo .. hi) = IF lo > hi THEN 0 ELSE hi - lo + 1
    BY FS_Interval, Zenon
  <2> QED BY <1>2, <1>6, <2>1
<1>9. f \in Surjection(M, lo .. hi)
  BY <1>2, <1>7, <1>8, FS_Injection, Zenon
<1>10. ASSUME NEW i \in 0 .. n - 1 PROVE \E v \in M : Rank(d, v) = i
  <2>1. \E v \in M : f[v] = i
    BY <1>6, <1>9, Zenon DEF Surjection
  <2> QED BY <1>5, <2>1, Zenon
<1> QED BY <1>1, <1>2, <1>3, <1>4, <1>10, Zenon

\* Smaller places end before larger ones.
LEMMA PlaceEnds ==
  ASSUME NEW i \in Nat, NEW n \in Nat, i < n
  PROVE  i * RecordBytes \in Nat /\ n * RecordBytes \in Nat /\ i * RecordBytes < n * RecordBytes
<1>1. RecordBytes \in Nat /\ RecordBytes > 0
  BY BuildAssumption
<1>2. \A x, y, z \in Nat : x < y /\ z > 0 => x * z \in Nat /\ y * z \in Nat /\ x * z < y * z
  OBVIOUS
<1> QED BY <1>1, <1>2, Zenon

\* The records that a read of a segment finds are those of its cluster.
LEMMA SegmentRecords ==
  ASSUME NEW d \in Datasets, NEW t, IsTable(t), Laid(t), Entered(d, t, NumClusters),
         NEW c \in DOMAIN t
  PROVE  {r \in Placed(d, t, NumClusters) :
            /\ r.at >= t[c].byte_offset
            /\ r.at < t[c].byte_offset + t[c].num_vectors * RecordBytes} =
         {[at |-> t[c].byte_offset + Rank(d, v) * RecordBytes, id |-> v] : v \in Members(d, c)}
<1> DEFINE Rec(e, v) == [at |-> t[e].byte_offset + Rank(d, v) * RecordBytes, id |-> v]
           In(r) == /\ r.at >= t[c].byte_offset
                    /\ r.at < t[c].byte_offset + t[c].num_vectors * RecordBytes
<1>1. \A e \in DOMAIN t : /\ e \in Int /\ t[e].byte_offset \in Nat /\ t[e].length_bytes \in Nat
                          /\ t[e].num_vectors \in Nat /\ e < NumClusters
                          /\ t[e].num_vectors = Cardinality(Members(d, e))
                          /\ t[e].num_vectors * RecordBytes <= t[e].length_bytes
  <2>1. \A e \in DOMAIN t : e \in ClusterIds /\ t[e] \in Segment
    BY Zenon DEF IsTable
  <2>2. \A e \in ClusterIds : e \in Int /\ e < NumClusters
    BY BuildAssumption DEF ClusterIds
  <2> QED BY <2>1, <2>2, Zenon DEF Segment, Entered, Laid
<1>2. ASSUME NEW e \in DOMAIN t, NEW v \in Members(d, e)
      PROVE  /\ Rank(d, v) \in Nat /\ Rec(e, v).at >= t[e].byte_offset
             /\ Rec(e, v).at < t[e].byte_offset + t[e].num_vectors * RecordBytes
             /\ Rec(e, v).at \in Nat
  <2>1. Rank(d, v) \in Nat /\ Rank(d, v) < t[e].num_vectors
    BY <1>1, RanksFill
  <2>2. /\ Rank(d, v) * RecordBytes \in Nat /\ t[e].num_vectors * RecordBytes \in Nat
        /\ Rank(d, v) * RecordBytes < t[e].num_vectors * RecordBytes
    BY <1>1, <2>1, PlaceEnds, Zenon
  <2> QED BY <1>1, <2>1, <2>2
<1>3. ASSUME NEW v \in Vectors
      PROVE  /\ d.label[v] \in DOMAIN t /\ v \in Members(d, d.label[v]) /\ d.label[v] < NumClusters
  <2>1. d.label[v] \in ClusterIds /\ v \in Members(d, d.label[v])
    BY Zenon DEF Datasets, Members
  <2>2. d.label[v] < NumClusters
    BY <2>1, BuildAssumption DEF ClusterIds
  <2> QED BY <2>1, <2>2, Zenon DEF Entered
<1>4. ASSUME NEW v \in Members(d, c) PROVE Rec(c, v) \in Placed(d, t, NumClusters) /\ In(Rec(c, v))
  <2>1. v \in Vectors /\ d.label[v] = c
    BY Zenon DEF Members
  <2> QED BY <1>2, <1>3, <2>1, Zenon DEF Placed
<1>5. ASSUME NEW v \in Vectors, In(Rec(d.label[v], v)) PROVE d.label[v] = c
  <2>1. PICK e : e = d.label[v]
    BY Zenon
  <2>2. e \in DOMAIN t /\ v \in Members(d, e)
    BY <1>3, <2>1, Zenon
  <2>3. PICK x : x = Rec(e, v).at
    BY Zenon
  <2>4. /\ x \in Nat /\ x >= t[e].byte_offset /\ x < t[e].byte_offset + t[e].num_vectors * RecordBytes
        /\ x >= t[c].byte_offset /\ x < t[c].byte_offset + t[c].num_vectors * RecordBytes
    BY <1>2, <1>5, <2>1, <2>2, <2>3, Zenon
  <2>5. /\ x < t[e].byte_offset + t[e].length_bytes /\ x < t[c].byte_offset + t[c].length_bytes
    <3>1. t[e].num_vectors * RecordBytes \in Nat /\ t[c].num_vectors * RecordBytes \in Nat
      <4>1. \A y, z \in Nat : y * z \in Nat
        OBVIOUS
      <4> QED BY <1>1, <2>2, <4>1, BuildAssumption, Zenon
    <3> QED BY <1>1, <2>2, <2>4, <3>1
  <2>6. ~(e < c) /\ ~(c < e)
    BY <1>1, <2>2, <2>4, <2>5 DEF Laid
  <2> QED BY <1>1, <2>1, <2>2, <2>6
<1>6. ASSUME NEW r \in Placed(d, t, NumClusters), In(r)
      PROVE  \E v \in Members(d, c) : r = Rec(c, v)
  <2>1. PICK v \in Vectors : r = Rec(d.label[v], v)
    BY Zenon DEF Placed
  <2>2. d.label[v] = c
    BY <1>5, <1>6, <2>1, Zenon
  <2> QED BY <1>3, <2>1, <2>2, Zenon
<1> QED BY <1>4, <1>6, Zenon

\* The records of a segment, and what they should be.
InSegment(t, c, records) ==
  {r \in records : /\ r.at >= t[c].byte_offset
                   /\ r.at < t[c].byte_offset + t[c].num_vectors * RecordBytes}

HoldsCluster(d, t, c, R) ==
  /\ Members(d, c) = {r.id : r \in R}
  /\ Cardinality(R) = t[c].num_vectors
  /\ {r.at : r \in R} = {t[c].byte_offset + i * RecordBytes : i \in 0 .. t[c].num_vectors - 1}

\* What the engine finds on a tape that one build has written.
LEMMA TapeSound ==
  ASSUME NEW d \in Datasets, NEW t, IsTable(t), Laid(t), Entered(d, t, NumClusters),
         NEW c \in DOMAIN t
  PROVE  HoldsCluster(d, t, c, InSegment(t, c, Placed(d, t, NumClusters)))
<1>1. PICK o, n, M, R : /\ o = t[c].byte_offset /\ n = t[c].num_vectors /\ M = Members(d, c)
                        /\ R = InSegment(t, c, Placed(d, t, NumClusters))
  BY Zenon
<1> DEFINE Rec(v) == [at |-> o + Rank(d, v) * RecordBytes, id |-> v]
<1>2. R = {Rec(v) : v \in M}
  <2>1. InSegment(t, c, Placed(d, t, NumClusters)) =
          {[at |-> t[c].byte_offset + Rank(d, v) * RecordBytes, id |-> v] : v \in Members(d, c)}
    BY SegmentRecords DEF InSegment
  <2> QED BY <1>1, <2>1, Zenon
<1>3. n = Cardinality(M) /\ n \in Nat /\ IsFiniteSet(M)
  <2>1. n = Cardinality(M)
    BY <1>1, Zenon DEF Entered
  <2>3. IsFiniteSet(M)
    BY <1>1, MembersFinite, Zenon
  <2> QED BY <2>1, <2>3, FS_CardinalityType, Zenon
<1>4. /\ \A v \in M : Rank(d, v) \in 0 .. n - 1
      /\ \A i \in 0 .. n - 1 : \E v \in M : Rank(d, v) = i
  BY <1>1, <1>3, RanksFill, Zenon
<1>5. /\ \A v \in M : Rec(v) \in R /\ Rec(v).id = v /\ Rec(v).at = o + Rank(d, v) * RecordBytes
      /\ \A r \in R : \E v \in M : r = Rec(v)
  BY <1>2, Zenon
<1>6. /\ M = {r.id : r \in R}
      /\ {r.at : r \in R} = {o + i * RecordBytes : i \in 0 .. n - 1}
  <2> HIDE DEF Rec
  <2>1. \A x : x \in M <=> x \in {r.id : r \in R}
    <3>1. ASSUME NEW r \in R PROVE r.id \in M
      BY <1>5, Zenon
    <3>2. ASSUME NEW v \in M PROVE \E r \in R : v = r.id
      BY <1>5, Zenon
    <3> QED BY <3>1, <3>2, Zenon
  <2>2. ASSUME NEW r \in R PROVE \E i \in 0 .. n - 1 : r.at = o + i * RecordBytes
    <3>1. PICK v \in M : r = Rec(v)
      BY <1>5, Zenon
    <3>2. Rank(d, v) \in 0 .. n - 1 /\ r.at = o + Rank(d, v) * RecordBytes
      BY <1>4, <1>5, <3>1, Zenon
    <3> QED BY <3>2, Zenon
  <2>3. ASSUME NEW i \in 0 .. n - 1 PROVE \E r \in R : r.at = o + i * RecordBytes
    <3>1. PICK v \in M : Rank(d, v) = i
      BY <1>4, Zenon
    <3> QED BY <1>5, <3>1, Zenon
  <2>4. \A x : x \in {r.at : r \in R} <=> x \in {o + i * RecordBytes : i \in 0 .. n - 1}
    BY <2>2, <2>3, Zenon
  <2> QED BY <2>1, <2>4, Zenon
<1>7. Cardinality(R) = n
  <2>1. PICK f : f = [v \in M |-> Rec(v)]
    BY Zenon
  <2>2. f \in [M -> R] /\ \A v \in M : f[v] = Rec(v)
    BY <1>2, <2>1, Zenon
  <2>3. \A v, w \in M : Rec(v) = Rec(w) => v = w
    BY Zenon
  <2>4. \A r \in R : \E v \in M : f[v] = r
    BY <1>2, <2>2, Zenon
  <2> HIDE DEF Rec
  <2>5. f \in Bijection(M, R)
    BY <2>2, <2>3, <2>4, Zenon DEF Bijection, Injection, Surjection, IsInjective
  <2>6. ExistsBijection(M, R)
    BY <2>5, Zenon DEF ExistsBijection
  <2> QED BY <1>3, <2>6, FS_Bijection, Zenon
<1> QED BY <1>1, <1>6, <1>7, Zenon DEF HoldsCluster
----------------------------------------------------------------------------
\* At first there are no files and no build.
LEMMA InitBuilt == StartInit => BuildInv /\ BuiltInv
BY Zenon DEF StartInit, WriterInit, Off, BuildInv, BuiltInv

\* Steps of the engine leave the files alone; Load takes the table from them.
LEMMA EngineKeepsBuilt ==
  ASSUME BuildInv, BuiltInv, Engine
  PROVE  BuildInv' /\ BuiltInv'
<1>1. UNCHANGED buildVars
  BY Zenon DEF Engine, ParseArgs, Load, LoadFails, DoubleDepth, ClampDepth, InitRing,
     InitRingFails, Search, EngineEnds
<1>2. BuildInv'
  BY <1>1, Zenon DEF BuildInv, buildVars, memory, files
<1>3. ASSUME engine' # "off" => stage = "idle",
             engine' \in {"pow2", "ring", "ready"} =>
               tableFile \notin {None, Torn} /\ table' = tableFile.table
      PROVE  BuiltInv'
  BY <1>1, <1>3, Zenon DEF BuiltInv, buildVars, memory, files
<1>4. ASSUME EngineEnds PROVE BuiltInv'
  BY <1>3, <1>4, Zenon DEF EngineEnds
<1>5. ASSUME NEW n \in ProbesAsked, ParseArgs(n) PROVE BuiltInv'
  BY <1>3, <1>5, Zenon DEF ParseArgs
<1>6. CASE Load
  <2>1. /\ engine = "load" /\ engine' = "pow2" /\ tableFile \notin {None, Torn}
        /\ table' = tableFile.table
    BY <1>6, Zenon DEF Load
  <2>2. stage = "idle"
    BY <2>1, Zenon DEF BuiltInv
  <2>3. engine' # "off" => stage = "idle"
    BY <2>2, Zenon
  <2>4. engine' \in {"pow2", "ring", "ready"} =>
          tableFile \notin {None, Torn} /\ table' = tableFile.table
    BY <2>1, Zenon
  <2> QED BY <1>2, <1>3, <2>3, <2>4, Zenon
<1>7. CASE DoubleDepth \/ ClampDepth \/ InitRing
  <2>1. engine \in {"pow2", "ring"} /\ UNCHANGED table
    BY <1>7, Zenon DEF DoubleDepth, ClampDepth, InitRing
  <2>2. stage = "idle" /\ tableFile \notin {None, Torn} /\ table = tableFile.table
    BY <2>1, Zenon DEF BuiltInv
  <2>3. engine' # "off" => stage = "idle"
    BY <2>2, Zenon
  <2>4. engine' \in {"pow2", "ring", "ready"} =>
          tableFile \notin {None, Torn} /\ table' = tableFile.table
    BY <2>1, <2>2, Zenon
  <2> QED BY <1>2, <1>3, <2>3, <2>4, Zenon
<1> QED BY <1>2, <1>4, <1>5, <1>6, <1>7, Zenon DEF Engine, LoadFails, InitRingFails, Search

\* The next cluster: its records join those on the tape, at the places that
\* its entry gives them.
LEMMA ClusterPlaced ==
  ASSUME NEW d \in Datasets, NEW n \in ClusterIds, NEW t, Entered(d, t, n), NEW o, NEW e,
         e.byte_offset = o, e.num_vectors = Cardinality(Members(d, n)),
         NEW T, T = IF Cardinality(Members(d, n)) = 0 THEN t
                    ELSE [c \in DOMAIN t \cup {n} |-> IF c = n THEN e ELSE t[c]]
  PROVE  /\ Entered(d, T, n + 1)
         /\ Placed(d, T, n + 1) =
              Placed(d, t, n) \cup {[at |-> o + Rank(d, v) * RecordBytes, id |-> v] : v \in Members(d, n)}
<1>1. PICK M : M = Members(d, n)
  BY Zenon
<1>2. /\ n \in Int /\ \A c \in ClusterIds : c \in Int /\ (c < n + 1 <=> c < n \/ c = n) /\ ~(n < n)
  BY BuildAssumption DEF ClusterIds
<1>3. /\ DOMAIN t = {c \in ClusterIds : c < n /\ Members(d, c) # {}}
      /\ \A c \in DOMAIN t : t[c].num_vectors = Cardinality(Members(d, c))
  BY Zenon DEF Entered
<1>4. n \notin DOMAIN t
  BY <1>2, <1>3, Zenon
<1>5. Cardinality(M) = 0 <=> M = {}
  BY <1>1, MembersFinite, FS_EmptySet, Zenon
<1>6. /\ DOMAIN T = {c \in ClusterIds : c < n + 1 /\ Members(d, c) # {}}
      /\ \A c \in DOMAIN t : c \in DOMAIN T /\ T[c] = t[c]
      /\ M # {} => n \in DOMAIN T /\ T[n] = e
  <2>1. CASE M = {}
    BY <1>1, <1>2, <1>3, <1>5, <2>1, Zenon
  <2>2. CASE M # {}
    <3>1. T = [c \in DOMAIN t \cup {n} |-> IF c = n THEN e ELSE t[c]]
      BY <1>1, <1>5, <2>2, Zenon
    <3>2. DOMAIN T = DOMAIN t \cup {n} /\ T[n] = e /\ \A c \in DOMAIN t : T[c] = t[c]
      BY <1>4, <3>1, Zenon
    <3>3. DOMAIN t \cup {n} = {c \in ClusterIds : c < n + 1 /\ Members(d, c) # {}}
      BY <1>1, <1>2, <1>3, <2>2, Zenon
    <3> QED BY <3>2, <3>3, Zenon
  <2> QED BY <2>1, <2>2, Zenon
<1>7. Entered(d, T, n + 1)
  <2> SUFFICES ASSUME NEW c \in DOMAIN T PROVE T[c].num_vectors = Cardinality(Members(d, c))
    BY <1>6, Zenon DEF Entered
  <2>1. CASE c = n
    BY <1>1, <1>6, <2>1, Zenon
  <2>2. CASE c # n
    BY <1>2, <1>3, <1>6, <2>2, Zenon
  <2> QED BY <2>1, <2>2, Zenon
<1> DEFINE Old(v) == [at |-> t[d.label[v]].byte_offset + Rank(d, v) * RecordBytes, id |-> v]
           New(v) == [at |-> T[d.label[v]].byte_offset + Rank(d, v) * RecordBytes, id |-> v]
           Here(v) == [at |-> o + Rank(d, v) * RecordBytes, id |-> v]
<1>8. \A v \in Vectors : /\ d.label[v] \in ClusterIds
                         /\ d.label[v] = n <=> v \in M
                         /\ d.label[v] < n => d.label[v] \in DOMAIN t
  <2>1. \A v \in Vectors : d.label[v] \in ClusterIds /\ v \in Members(d, d.label[v])
    BY Zenon DEF Datasets, Members
  <2>2. \A v \in Vectors : d.label[v] = n <=> v \in M
    BY <1>1, Zenon DEF Members
  <2> QED BY <1>3, <2>1, <2>2, Zenon
<1>9. /\ \A v \in Vectors : d.label[v] < n => New(v) = Old(v)
      /\ \A v \in M : v \in Vectors /\ New(v) = Here(v)
  <2>1. \A v \in Vectors : d.label[v] < n => T[d.label[v]] = t[d.label[v]]
    BY <1>6, <1>8, Zenon
  <2>2. \A v \in M : v \in Vectors
    BY <1>1, Zenon DEF Members
  <2>3. \A v \in M : T[d.label[v]] = e
    BY <1>6, <1>8, <2>2, Zenon
  <2> QED BY <2>1, <2>2, <2>3, Zenon
<1>10. /\ Placed(d, t, n) = {Old(v) : v \in {u \in Vectors : d.label[u] < n}}
       /\ Placed(d, T, n + 1) = {New(v) : v \in {u \in Vectors : d.label[u] < n + 1}}
  BY Zenon DEF Placed
<1> HIDE DEF Old, New, Here
<1>11. {New(v) : v \in {u \in Vectors : d.label[u] < n + 1}} =
         {Old(v) : v \in {u \in Vectors : d.label[u] < n}} \cup {Here(v) : v \in M}
  <2>1. \A v \in Vectors : d.label[v] < n + 1 <=> d.label[v] < n \/ v \in M
    BY <1>2, <1>8, Zenon
  <2> QED BY <1>9, <2>1, Zenon
<1>12. {Here(v) : v \in M} = {[at |-> o + Rank(d, v) * RecordBytes, id |-> v] : v \in Members(d, n)}
  BY <1>1, Zenon DEF Here
<1> QED BY <1>7, <1>10, <1>11, <1>12, Zenon

\* The steps of the writer.
LEMMA WriterKeepsBuilt ==
  ASSUME StartIInv, BuildInv, BuiltInv, engine = "off", Writer, UNCHANGED engineVars
  PROVE  BuildInv' /\ BuiltInv'
<1>1. engine' = "off"
  BY Zenon DEF engineVars
<1>2. ASSUME stage' # "idle" \/ killed' \/ tableFile' \in {None, Torn} PROVE BuiltInv'
  BY <1>1, <1>2, Zenon DEF BuiltInv
<1>3. ASSUME NEW d \in Datasets, LoadData(d) PROVE BuildInv' /\ BuiltInv'
  <2>1. BuildInv'
    BY <1>3, Zenon DEF LoadData, BuildInv
  <2> QED BY <1>2, <1>3, <2>1, Zenon DEF LoadData
<1>4. CASE WriteCentroids
  <2>1. BuildInv'
    BY <1>4, Zenon DEF WriteCentroids, BuildInv, memory
  <2> QED BY <1>2, <1>4, <2>1, Zenon DEF WriteCentroids
<1>5. CASE OpenTape
  <2>1. /\ stage = "open" /\ stage' = "tape" /\ tape' = [records |-> {}, size |-> 0]
        /\ cls = 0 /\ current_offset = 0 /\ segment_table = NoTable
        /\ mean = data /\ centroids = data /\ UNCHANGED <<memory, mean, centroids>>
    BY <1>5, Zenon DEF OpenTape, BuildInv
  <2>2. data \in Datasets
    BY <2>1, Zenon DEF StartIInv, StartTypeOK, WriterTypeOK
  <2>3. \A c \in ClusterIds : ~(c < 0)
    BY BuildAssumption DEF ClusterIds
  <2>4. Entered(data, NoTable, 0)
    BY <2>3, NoTableLaid, Zenon DEF Entered
  <2>5. Placed(data, NoTable, 0) = {}
    <3>1. \A v \in Vectors : data.label[v] \in ClusterIds
      BY <2>2, Zenon DEF Datasets
    <3>2. {v \in Vectors : data.label[v] < 0} = {}
      BY <2>3, <3>1, Zenon
    <3> QED BY <3>2, Zenon DEF Placed
  <2>6. tape' \in Tape /\ tape'.size = 0 /\ tape'.records = {}
    BY <2>1, Zenon DEF Tape
  <2>7. BuildInv'
    BY <2>1, <2>4, <2>5, <2>6, Zenon DEF BuildInv, memory
  <2> QED BY <1>2, <2>1, <2>7, Zenon
<1>6. CASE WriteCluster
  <2>1. /\ stage = "tape" /\ stage' = "tape" /\ cls < NumClusters /\ cls' = cls + 1
        /\ UNCHANGED <<data, mean, centroids>>
    BY <1>6, Zenon DEF WriteCluster
  <2>2. data \in Datasets /\ cls \in ClusterIds
    BY <2>1, BuildAssumption DEF StartIInv, StartTypeOK, WriterTypeOK, ClusterIds
  <2>3. /\ tape \in Tape /\ tape.size = current_offset /\ mean = data /\ centroids = data
        /\ tape.records = Placed(data, segment_table, cls) /\ Entered(data, segment_table, cls)
    BY <2>1, Zenon DEF BuildInv
  <2>4. tape' \in Tape
    <3>1. StartIInv'
      BY <1>6, WriteClusterIInv, Zenon
    <3> QED BY <2>1, <3>1, Zenon DEF StartIInv, WriterInv
  <2>5. PICK len : len = Padded(Cardinality(Members(data, cls)) * RecordBytes)
    BY Zenon
  <2>6. PICK blob : blob = {[at |-> current_offset + Rank(data, v) * RecordBytes, id |-> v] :
                              v \in Members(data, cls)}
    BY Zenon
  <2>7. PICK e : e = [num_vectors |-> Cardinality(Members(data, cls)),
                      byte_offset |-> current_offset, length_bytes |-> len]
    BY Zenon
  <2>8. /\ current_offset' = current_offset + len
        /\ tape' = [records |-> tape.records \cup blob, size |-> tape.size + len]
        /\ segment_table' = IF Cardinality(Members(data, cls)) = 0 THEN segment_table
                            ELSE [c \in DOMAIN segment_table \cup {cls} |->
                                    IF c = cls THEN e ELSE segment_table[c]]
    BY <1>6, <2>5, <2>6, <2>7, Zenon DEF WriteCluster
  <2>9. e.byte_offset = current_offset /\ e.num_vectors = Cardinality(Members(data, cls))
    BY <2>7, Zenon
  <2>10. PICK T : T = segment_table'
    BY Zenon
  <2>11. Entered(data, T, cls + 1) /\ Placed(data, T, cls + 1) = Placed(data, segment_table, cls) \cup blob
    BY <2>2, <2>3, <2>6, <2>8, <2>9, <2>10, ClusterPlaced
  <2>12. tape'.size = current_offset' /\ tape'.records = Placed(data, T, cls + 1)
    BY <2>3, <2>8, <2>11, Zenon
  <2>13. BuildInv'
    BY <2>1, <2>3, <2>4, <2>10, <2>11, <2>12, Zenon DEF BuildInv
  <2> QED BY <1>2, <2>1, <2>13, Zenon
<1>7. CASE OpenTable
  <2>1. BuildInv'
    BY <1>7, Zenon DEF OpenTable, BuildInv, memory
  <2> QED BY <1>2, <1>7, <2>1, Zenon DEF OpenTable
<1>8. ASSUME WriterEnds PROVE BuildInv'
  BY <1>8, Zenon DEF WriterEnds, BuildInv
<1>9. CASE WriteTable
  <2>1. /\ stage = "table" /\ WriterEnds /\ UNCHANGED <<mean, centroids, tape>>
        /\ tableFile' = [of |-> data, table |-> segment_table]
    BY <1>9, Zenon DEF WriteTable
  <2>2. /\ tape \in Tape /\ tape.size = current_offset /\ mean = data /\ centroids = data
        /\ tape.records = Placed(data, segment_table, NumClusters)
        /\ Entered(data, segment_table, NumClusters)
    BY <2>1, Zenon DEF BuildInv
  <2>3. \A c \in DOMAIN segment_table :
          segment_table[c].byte_offset + segment_table[c].length_bytes <= current_offset
    BY Zenon DEF StartIInv, WriterInv
  <2>4. tableFile'.of = data /\ tableFile'.table = segment_table
    BY <2>1, Zenon
  <2>5. BuiltInv'
    BY <1>1, <2>1, <2>2, <2>3, <2>4, Zenon DEF BuiltInv
  <2> QED BY <1>8, <2>1, <2>5, Zenon
<1>10. CASE KillWriter
  <2>1. WriterEnds /\ killed'
    BY <1>10, Zenon DEF KillWriter
  <2> QED BY <1>2, <1>8, <2>1, Zenon
<1> QED BY <1>3, <1>4, <1>5, <1>6, <1>7, <1>9, <1>10, Zenon DEF Writer
----------------------------------------------------------------------------
\* The inductive invariant: every table there is, in memory or on disk, is
\* laid out, and the engine's buffers and ring fit the one it has loaded.
THEOREM InductiveInvariant == StartSpec => []StartIInv
<1>1. StartIInv /\ [StartNext]_startVars => StartIInv'
  <2> SUFFICES ASSUME StartIInv, [StartNext]_startVars PROVE StartIInv'
    BY Zenon
  <2>1. CASE Writer /\ UNCHANGED engineVars
    BY <2>1, WriterIInv, Zenon
  <2>2. CASE Engine
    BY <2>2, EngineIInv, Zenon
  <2>3. CASE UNCHANGED startVars
    BY <2>3, EngineFrame, WriterFrame, Zenon DEF StartIInv, StartTypeOK, startVars
  <2> QED BY <2>1, <2>2, <2>3, Zenon DEF StartNext
<1> QED BY <1>1, InitIInv, PTL DEF StartSpec

\* Type correctness of the index files, the writer and the engine's start.
THEOREM TypeCorrect == StartSpec => []StartTypeOK
<1>1. StartIInv => StartTypeOK
  BY Zenon DEF StartIInv
<1> QED BY <1>1, InductiveInvariant, PTL

\* The segments of a table that the engine has loaded never overlap.
THEOREM AlwaysSegmentsApart == StartSpec => []SegmentsApart
<1>1. StartIInv => SegmentsApart
  BY Zenon DEF StartIInv, EngineInv, Laid, SegmentsApart, Reaches
<1> QED BY <1>1, InductiveInvariant, PTL

\* Every read that the engine can issue is aligned and stays in its slot.
THEOREM AlwaysReadsFit == StartSpec => []ReadsFit
<1>1. ASSUME StartIInv PROVE ReadsFit
  <2> SUFFICES ASSUME NEW c \in DOMAIN table, NEW slot \in 0 .. probes - 1
               PROVE  /\ table[c].byte_offset % ChunkBytes = 0
                      /\ table[c].length_bytes % ChunkBytes = 0
                      /\ (slot * max_cluster_bytes) % ChunkBytes = 0
                      /\ slot * max_cluster_bytes + table[c].length_bytes <= (slot + 1) * max_cluster_bytes
    BY Zenon DEF ReadsFit
  <2>1. /\ max_cluster_bytes \in Int /\ max_cluster_bytes % ChunkBytes = 0
        /\ table[c].length_bytes <= max_cluster_bytes
        /\ table[c].byte_offset % ChunkBytes = 0 /\ table[c].length_bytes % ChunkBytes = 0
    BY <1>1 DEF StartIInv, StartTypeOK, EngineTypeOK, EngineInv, Laid
  <2>2. slot \in Int /\ table[c].length_bytes \in Int
    <3>1. slot \in Int
      BY <1>1, StartAssumption DEF StartIInv, StartTypeOK, EngineTypeOK
    <3>2. table[c] \in Segment
      BY <1>1, Zenon DEF StartIInv, StartTypeOK, EngineTypeOK, IsTable
    <3> QED BY <3>1, <3>2 DEF Segment
  <2>3. (slot * max_cluster_bytes) % ChunkBytes = 0
    BY <2>1, <2>2, AlignedTimes, Zenon
  <2>4. slot * max_cluster_bytes + table[c].length_bytes <= (slot + 1) * max_cluster_bytes
    <3>1. (slot + 1) * max_cluster_bytes = slot * max_cluster_bytes + max_cluster_bytes
      BY <2>1, <2>2
    <3>2. slot * max_cluster_bytes \in Int
      BY <2>1, <2>2, SMTT(30)
    <3> QED BY <2>1, <2>2, <3>1, <3>2
  <2> QED BY <2>1, <2>3, <2>4, Zenon
<1> QED BY <1>1, InductiveInvariant, PTL

\* The ring holds a batch of --probes reads: what module TapeSearch assumes.
THEOREM AlwaysDepthSuffices == StartSpec => []DepthSuffices
<1>1. StartIInv => DepthSuffices
  BY Zenon DEF StartIInv, EngineInv, DepthSuffices
<1> QED BY <1>1, InductiveInvariant, PTL

(***************************************************************************)
(* Unless a build was killed since the last one that ended, an engine that *)
(* is ready finds every vector of one data set exactly once, in the        *)
(* segment of its own cluster, with a record in every place that           *)
(* process_cluster looks at and no read beyond the end of the tape: for    *)
(* every data set, every assignment of vectors to clusters, every number   *)
(* of builds, and sizes of records and chunks.                             *)
(***************************************************************************)
THEOREM AlwaysIndexSound == StartSpec => []IndexSound
<1>1. StartIInv /\ BuildInv /\ BuiltInv /\ [StartNext]_startVars => BuildInv' /\ BuiltInv'
  <2> SUFFICES ASSUME StartIInv, BuildInv, BuiltInv, [StartNext]_startVars
               PROVE  BuildInv' /\ BuiltInv'
    BY Zenon
  <2>1. CASE engine = "off" /\ Writer /\ UNCHANGED engineVars
    BY <2>1, WriterKeepsBuilt, Zenon
  <2>2. CASE Engine
    BY <2>2, EngineKeepsBuilt, Zenon
  <2>3. CASE UNCHANGED startVars
    <3>1. BuildInv'
      BY <2>3, Zenon DEF startVars, buildVars, memory, files, BuildInv
    <3>2. BuiltInv'
      BY <2>3, Zenon DEF startVars, buildVars, engineVars, files, BuiltInv
    <3> QED BY <3>1, <3>2, Zenon
  <2> QED BY <2>1, <2>2, <2>3, Zenon DEF StartNext
<1>2. StartIInv /\ BuiltInv => IndexSound
  <2> SUFFICES ASSUME StartIInv, BuiltInv, engine = "ready", ~killed
               PROVE  /\ mean = tableFile.of /\ centroids = tableFile.of
                      /\ \A c \in DOMAIN table : Reaches(c) <= tape.size
                      /\ \A c \in ClusterIds :
                           Members(tableFile.of, c) =
                             IF c \in DOMAIN table THEN {r.id : r \in RecordsOf(c)} ELSE {}
                      /\ \A c \in DOMAIN table :
                           /\ Cardinality(RecordsOf(c)) = table[c].num_vectors
                           /\ {r.at : r \in RecordsOf(c)} =
                                {table[c].byte_offset + i * RecordBytes :
                                   i \in 0 .. table[c].num_vectors - 1}
    BY Zenon DEF IndexSound
  <2>1. tableFile \notin {None, Torn} /\ table = tableFile.table /\ stage = "idle"
    BY Zenon DEF BuiltInv
  <2>2. PICK d : d = tableFile.of
    BY Zenon
  <2>3. /\ mean = d /\ centroids = d /\ tape.records = Placed(d, table, NumClusters)
        /\ Entered(d, table, NumClusters) /\ \A c \in DOMAIN table : Reaches(c) <= tape.size
    BY <2>1, <2>2, Zenon DEF BuiltInv, Reaches
  <2>4. d \in Datasets /\ IsTable(table) /\ Laid(table)
    BY <2>1, <2>2, Zenon DEF StartIInv, StartTypeOK, WriterTypeOK, EngineTypeOK, EngineInv
  <2>5. ASSUME NEW c \in DOMAIN table
        PROVE  /\ Members(d, c) = {r.id : r \in RecordsOf(c)}
               /\ Cardinality(RecordsOf(c)) = table[c].num_vectors
               /\ {r.at : r \in RecordsOf(c)} =
                    {table[c].byte_offset + i * RecordBytes : i \in 0 .. table[c].num_vectors - 1}
    <3>1. HoldsCluster(d, table, c, InSegment(table, c, Placed(d, table, NumClusters)))
      BY <2>3, <2>4, TapeSound, Zenon
    <3>2. InSegment(table, c, Placed(d, table, NumClusters)) = RecordsOf(c)
      BY <2>3, Zenon DEF InSegment, RecordsOf
    <3>3. HoldsCluster(d, table, c, RecordsOf(c))
      BY <3>1, <3>2, Zenon
    <3> QED BY <3>3, Zenon DEF HoldsCluster
  <2>6. ASSUME NEW c \in ClusterIds, c \notin DOMAIN table PROVE Members(d, c) = {}
    <3>1. c < NumClusters
      BY BuildAssumption DEF ClusterIds
    <3> QED BY <2>3, <2>6, <3>1, Zenon DEF Entered
  <2> QED BY <2>2, <2>3, <2>5, <2>6, Zenon
<1> QED BY <1>1, <1>2, InitBuilt, InductiveInvariant, PTL DEF StartSpec
============================================================================
