--------------------------- MODULE RankingProofs ---------------------------
(***************************************************************************)
(* Proofs about the two rankings of the benchmark: that of a query's       *)
(* vectors (module TopK), for every result size, every set of vectors and  *)
(* every order of visits, and the frontier and the closest-recall table    *)
(* of the results (module Pareto), for every number of points and all of   *)
(* their values.                                                           *)
(***************************************************************************)
EXTENDS TopK, Pareto, FiniteSetTheorems, TLAPS

-----------------------------------------------------------------------------
(* The ranking of a query's vectors. *)

\* Every non-empty finite set of vectors has a largest (distance, id) pair, so
\* top_k.top() is defined.  By minimal counterexample in the subset ordering.
LEMMA TopExists ==
  ASSUME dist \in [Ids -> 0 .. MaxDist], NEW h \in SUBSET Ids, h # {}
  PROVE  \E x \in h : \A y \in h \ {x} : Above(x, y)
<1> DEFINE HasTop(T) == \E x \in T : \A y \in T \ {x} : Above(x, y)
           Bad == {T \in FiniteSubsetsOf(Ids) : T # {} /\ ~HasTop(T)}
<1>1. h \in FiniteSubsetsOf(Ids)
  BY IdsAssumption, FS_Subset, Zenon DEF FiniteSubsetsOf
<1>2. SUFFICES ASSUME Bad # {} PROVE FALSE
  BY <1>1
<1>3. PICK T \in Bad : \A U \in Bad : <<U, T>> \notin StrictSubsetOrdering(Ids)
  <2>1. IsWellFoundedOn(StrictSubsetOrdering(Ids), FiniteSubsetsOf(Ids))
    BY FS_StrictSubsetOrderingWellFounded
  <2>2. Bad \subseteq FiniteSubsetsOf(Ids)
    OBVIOUS
  <2> HIDE DEF Bad
  <2> QED BY <1>2, <2>1, <2>2, WFMin
<1>4. PICK x \in T : TRUE
  BY <1>3
<1>5. T \in SUBSET Ids /\ IsFiniteSet(T) /\ x \in Ids
  BY <1>3, <1>4 DEF FiniteSubsetsOf
<1> DEFINE U == T \ {x}
<1>6. U \in FiniteSubsetsOf(Ids) /\ <<U, T>> \in StrictSubsetOrdering(Ids)
  BY <1>4, <1>5, FS_Subset DEF FiniteSubsetsOf, StrictSubsetOrdering
<1>7. U \notin Bad
  BY <1>3, <1>6, Zenon
<1>8. CASE U = {}
  <2>1. HasTop(T)
    BY <1>4, <1>8
  <2> QED BY <2>1, <1>3
<1>9. CASE U # {}
  <2>1. PICK m \in U : \A y \in U \ {m} : Above(m, y)
    BY <1>6, <1>7, <1>9
  <2>2. m \in Ids /\ m # x /\ dist[m] \in Nat /\ dist[x] \in Nat /\ m \in Nat /\ x \in Nat
    BY <2>1, <1>5, IdsAssumption, BoundsAssumption
  <2>3. CASE Above(m, x)
    <3>1. \A y \in T \ {m} : Above(m, y)
      BY <2>1, <2>3
    <3>2. HasTop(T)
      BY <2>1, <3>1
    <3> QED BY <3>2, <1>3
  <2>4. CASE ~Above(m, x)
    <3>1. Above(x, m)
      BY <2>2, <2>4 DEF Above
    <3>2. ASSUME NEW y \in T \ {x} PROVE Above(x, y)
      <4>1. y = m \/ Above(m, y)
        BY <2>1, <3>2
      <4>2. dist[y] \in Nat /\ y \in Nat
        BY <1>5, <3>2, IdsAssumption, BoundsAssumption
      <4> QED BY <2>2, <3>1, <4>1, <4>2 DEF Above
    <3>3. HasTop(T)
      BY <1>4, <3>2
    <3> QED BY <3>3, <1>3
  <2> QED BY <2>3, <2>4
<1> QED BY <1>8, <1>9

\* The top of a heap is in it, and nothing in it is farther away.
LEMMA TopIsWorst ==
  ASSUME dist \in [Ids -> 0 .. MaxDist], NEW h \in SUBSET Ids, h # {}
  PROVE  /\ Top(h) \in h /\ Worst(h) \in 0 .. MaxDist
         /\ \A y \in h : dist[y] <= Worst(h)
<1>1. Top(h) \in h /\ \A y \in h \ {Top(h)} : Above(Top(h), y)
  BY TopExists DEF Top
<1>2. \A y \in h : dist[y] \in Nat /\ dist[y] \in 0 .. MaxDist
  BY BoundsAssumption
<1> QED BY <1>1, <1>2 DEF Worst, Above

\* Whatever is in the heap is a finite set of vectors.
LEMMA HeapFinite ==
  ASSUME NEW h \in SUBSET Ids
  PROVE  IsFiniteSet(h) /\ Cardinality(h) \in Nat
BY IdsAssumption, FS_Subset, FS_CardinalityType, Zenon

LEMMA InitRankIInv == RankInit => RankIInv
<1> SUFFICES ASSUME RankInit PROVE RankIInv
  OBVIOUS
<1>1. Cardinality({}) = 0
  BY FS_EmptySet
<1>2. RankTypeOK
  BY BoundsAssumption DEF RankInit, RankTypeOK, ScanType, Empty
<1>3. Kept = {}
  BY DEF RankInit, Kept
<1>4. HeapHoldsNearest /\ ~Full(scan)
  BY <1>1, <1>3, BoundsAssumption DEF RankInit, Empty, HeapHoldsNearest, Full
<1> QED BY <1>2, <1>4 DEF RankInit, RankIInv

\* What one iteration does to the scan, in the cases of the loop.
LEMMA VisitIInv ==
  ASSUME RankIInv, NEW v \in todo, Visit(v)
  PROVE  RankIInv'
<1> USE DEF RankIInv, RankTypeOK
<1> DEFINE h == scan.heap
<1>1. /\ v \in Ids /\ v \in todo /\ todo' = todo \ {v}
      /\ hamming' = hamming /\ partial' = partial /\ dist' = dist
      /\ true_nn' = true_nn /\ matches' = matches
      /\ scan' = Offer(scan, v)
  BY DEF Visit, vectorVars
<1>2. h \subseteq Ids /\ scan.worst \in 0 .. MaxDist + 1 /\ scan.avoided \in Nat
  BY DEF ScanType
<1>3. IsFiniteSet(h) /\ Cardinality(h) \in Nat
  BY <1>2, HeapFinite
<1>4. v \notin h /\ v \notin Kept
  BY <1>1 DEF HeapHoldsNearest, Kept
<1>5. Kept' = IF hamming[v] <= Threshold THEN Kept \cup {v} ELSE Kept
  BY <1>1 DEF Kept
<1>6. hamming[v] \in Nat /\ Threshold \in Nat /\ K \in Nat /\ K > 0 /\ MaxDist \in Nat
  BY <1>1, BoundsAssumption
<1>7. \A x \in Ids : dist[x] \in Nat /\ partial[x] \in Nat /\ partial[x] <= dist[x]
  BY <1>6
<1>8. Kept \subseteq Ids /\ Kept' \subseteq Ids
  BY <1>1 DEF Kept
<1>9. CASE hamming[v] > Threshold
  <2>1. scan' = Avoid(scan)
    BY <1>1, <1>9 DEF Offer
  <2>2. scan' = [heap |-> h, worst |-> scan.worst, avoided |-> scan.avoided + 1]
    BY <2>1 DEF Avoid, ScanType
  <2>3. Kept' = Kept
    BY <1>5, <1>6, <1>9
  <2>4. scan' \in ScanType
    BY <2>2, <1>2 DEF ScanType
  <2>5. HeapHoldsNearest'
    BY <2>2, <2>3, <1>1 DEF HeapHoldsNearest
  <2>6. (Full(scan) => scan.worst = Worst(scan.heap))'
    BY <2>2, <1>1 DEF Full, Worst, Top, Above
  <2> QED BY <2>4, <2>5, <2>6, <1>1
<1>10. CASE hamming[v] <= Threshold /\ ~Full(scan)
  <2>1. scan' = Push(scan, v)
    BY <1>1, <1>6, <1>10 DEF Offer
  <2> DEFINE hh == h \cup {v}
  <2>2. hh \in SUBSET Ids /\ Cardinality(hh) = Cardinality(h) + 1
    BY <1>1, <1>2, <1>3, <1>4, FS_AddElement, Zenon
  <2>3. Worst(hh) \in 0 .. MaxDist
    BY <2>2, TopIsWorst
  <2>4. /\ scan'.heap = hh
        /\ scan'.worst = IF Cardinality(hh) = K THEN Worst(hh) ELSE scan.worst
        /\ scan' \in ScanType
    <3> DEFINE w == IF Cardinality(hh) = K THEN Worst(hh) ELSE scan.worst
    <3>1. scan' = [scan EXCEPT !.heap = hh, !.worst = w]
      BY <2>1 DEF Push
    <3>2. w \in 0 .. MaxDist + 1
      BY <2>3, <1>2, <1>6
    <3> HIDE DEF w, hh
    <3>3. scan'.heap = hh /\ scan'.worst = w /\ scan' \in ScanType
      BY <3>1, <3>2, <2>2, Zenon DEF ScanType
    <3> QED BY <3>3 DEF w
  <2>5. h = Kept /\ Cardinality(h) < K
    BY <1>3, <1>6, <1>10 DEF Full, HeapHoldsNearest
  <2>6. scan'.heap = Kept'
    BY <2>4, <2>5, <1>5, <1>10
  <2>7. Cardinality(hh) <= K
    BY <2>2, <2>5, <1>3, <1>6
  <2>8. HeapHoldsNearest'
    <3>1. Cardinality(scan'.heap) <= K
      BY <2>4, <2>7
    <3> QED BY <2>6, <3>1 DEF HeapHoldsNearest
  <2>9. (Full(scan) => scan.worst = Worst(scan.heap))'
    <3>1. SUFFICES ASSUME Full(scan)' PROVE scan'.worst = Worst(scan.heap)'
      OBVIOUS
    <3>2. Cardinality(hh) = K
      BY <3>1, <2>2, <2>4, <2>7, <1>3, <1>6, SMTT(30) DEF Full
    <3> QED BY <2>4, <3>2, <1>1 DEF Worst, Top, Above
  <2> QED BY <2>4, <2>8, <2>9, <1>1
<1>11. CASE hamming[v] <= Threshold /\ Full(scan)
  <2>1. Cardinality(h) = K /\ h # {}
    BY <1>3, <1>6, <1>11, FS_EmptySet DEF Full, HeapHoldsNearest
  <2>2. scan.worst = Worst(h)
    BY <1>11
  <2>3. Top(h) \in h /\ Worst(h) \in 0 .. MaxDist /\ \A y \in h : dist[y] <= Worst(h)
    BY <2>1, <1>2, TopIsWorst
  <2>4. Kept' = Kept \cup {v}
    BY <1>5, <1>11
  <2>5. CASE dist[v] >= scan.worst
    <3>1. scan' = scan \/ scan' = Avoid(scan)
      BY <2>5, <2>2, <2>3, <1>1, <1>6, <1>7, <1>11 DEF Offer
    <3>2. scan'.heap = h /\ scan'.worst = scan.worst /\ scan' \in ScanType
      BY <3>1, <1>2 DEF Avoid, ScanType
    <3>3. \A y \in h : dist[y] <= dist[v]
      BY <2>2, <2>3, <2>5, <1>1, <1>2, <1>7, SMTT(30)
    <3>4. HeapHoldsNearest'
      BY <3>2, <3>3, <2>1, <2>4, <1>1, <1>6, SMTT(30) DEF HeapHoldsNearest
    <3>5. (Full(scan) => scan.worst = Worst(scan.heap))'
      BY <3>2, <2>2, <1>1 DEF Full, Worst, Top, Above
    <3> QED BY <3>2, <3>4, <3>5, <1>1
  <2>6. CASE dist[v] < scan.worst
    <3>1. scan' = Replace(scan, v)
      <4>1. partial[v] \in Nat /\ dist[v] \in Nat /\ partial[v] <= dist[v] /\ scan.worst \in Nat
        BY <1>1, <1>2, <1>6, <1>7
      <4>2. ~(partial[v] >= scan.worst)
        BY <4>1, <2>6
      <4> QED BY <4>2, <2>6, <1>1, <1>6, <1>11 DEF Offer
    <3> DEFINE t == Top(h)
               hh == (h \ {t}) \cup {v}
    <3>2. IsFiniteSet(h \ {t}) /\ Cardinality(h \ {t}) = K - 1
      BY <2>1, <2>3, <1>3, FS_RemoveElement, ZenonT(30)
    <3>3. hh \in SUBSET Ids /\ Cardinality(hh) = K /\ hh # {}
      <4>1. Cardinality(hh) = Cardinality(h \ {t}) + 1
        BY <3>2, <1>4, FS_AddElement, Zenon
      <4>2. Cardinality(hh) = K
        BY <4>1, <3>2, <1>6
      <4> QED BY <4>2, <1>1, <1>2
    <3>4. Worst(hh) \in 0 .. MaxDist
      BY <3>3, TopIsWorst
    <3>5. scan'.heap = hh /\ scan'.worst = Worst(hh) /\ scan' \in ScanType
      <4> DEFINE w == Worst(hh)
      <4>1. scan' = [scan EXCEPT !.heap = hh, !.worst = w]
        BY <3>1 DEF Replace
      <4>2. w \in 0 .. MaxDist + 1
        BY <3>4, <1>6
      <4> HIDE DEF w, hh
      <4>3. scan'.heap = hh /\ scan'.worst = w /\ scan' \in ScanType
        BY <4>1, <4>2, <3>3, Zenon DEF ScanType
      <4> QED BY <4>3 DEF w
    <3>6. hh \subseteq Kept'
      BY <2>4 DEF HeapHoldsNearest
    <3>7. ASSUME NEW x \in Kept' \ hh, NEW y \in hh PROVE dist[y] <= dist[x]
      <4>1. x \in Ids /\ y \in Ids /\ dist[x] \in Nat /\ dist[y] \in Nat
        BY <3>3, <3>7, <1>7, <1>8
      <4>2. dist[y] <= dist[t]
        BY <2>2, <2>3, <2>6, <3>7, <4>1 DEF Worst
      <4>3. dist[t] <= dist[x]
        <5>1. CASE x = t
          BY <5>1, <4>1
        <5>2. CASE x # t
          BY <5>2, <2>3, <2>4, <3>7 DEF HeapHoldsNearest
        <5> QED BY <5>1, <5>2
      <4>4. dist[t] \in Nat
        BY <2>3, <1>2, <1>7
      <4> QED BY <4>1, <4>2, <4>3, <4>4
    <3>8. HeapHoldsNearest'
      BY <3>3, <3>5, <3>6, <3>7, <1>1, <1>6, SMTT(30) DEF HeapHoldsNearest
    <3>9. (Full(scan) => scan.worst = Worst(scan.heap))'
      BY <3>5, <1>1 DEF Worst, Top, Above
    <3> QED BY <3>5, <3>8, <3>9, <1>1
  <2>7. dist[v] \in Nat /\ scan.worst \in Nat
    BY <1>1, <1>2, <1>6, <1>7
  <2> QED BY <2>5, <2>6, <2>7
<1>12. hamming[v] <= Threshold \/ hamming[v] > Threshold
  BY <1>6
<1> QED BY <1>9, <1>10, <1>11, <1>12

\* Draining the heap, and stuttering, leave the scan alone.
LEMMA StillIInv ==
  ASSUME RankIInv, Answer \/ Answered \/ UNCHANGED rankVars
  PROVE  RankIInv'
<1>1. /\ hamming' = hamming /\ partial' = partial /\ dist' = dist
      /\ todo' = todo /\ scan' = scan
  BY DEF Answer, Answered, rankVars, vectorVars
<1>2. true_nn' \subseteq Ids
  BY DEF Answer, Answered, rankVars, RankIInv, RankTypeOK
<1>3. matches' \in {-1} \cup Nat
  <2>1. CASE Answer
    <3>1. scan.heap \cap true_nn' \in SUBSET Ids
      BY DEF RankIInv, RankTypeOK, ScanType
    <3> QED BY <2>1, <3>1, HeapFinite DEF Answer
  <2>2. CASE matches' = matches
    BY <2>2 DEF RankIInv, RankTypeOK
  <2> QED BY <2>1, <2>2 DEF Answered, rankVars
<1>4. RankTypeOK'
  BY <1>1, <1>2, <1>3 DEF RankIInv, RankTypeOK
<1>5. HeapHoldsNearest'
  BY <1>1 DEF RankIInv, HeapHoldsNearest, Kept
<1>6. (Full(scan) => scan.worst = Worst(scan.heap))'
  BY <1>1 DEF RankIInv, Full, Worst, Top, Above
<1> QED BY <1>1, <1>4, <1>5, <1>6 DEF RankIInv

\* The invariant is inductive.
THEOREM RankInvariant == RankSpec => []RankIInv
<1>1. RankIInv /\ [RankNext]_rankVars => RankIInv'
  BY VisitIInv, StillIInv DEF RankNext
<1> QED BY <1>1, InitRankIInv, PTL DEF RankSpec

\* The scan and its counters keep their types.
THEOREM RankTypeCorrect == RankSpec => []RankTypeOK
BY RankInvariant, PTL DEF RankIInv

\* Whatever the order of completions, layer 2 and the bounded heap lose no
\* vector that passes layer 1 and is nearer than one they keep.
THEOREM AlwaysHeapHoldsNearest == RankSpec => []HeapHoldsNearest
BY RankInvariant, PTL DEF RankIInv

\* heap_worst is the distance of the worst result whenever the heap is full.
THEOREM AlwaysBoundIsWorst == RankSpec => []BoundIsWorst
<1>1. RankIInv => BoundIsWorst
  <2> SUFFICES ASSUME RankIInv, Full(scan)
               PROVE  \A y \in scan.heap : dist[y] <= scan.worst
                        /\ \E z \in scan.heap : dist[z] = scan.worst
    BY DEF BoundIsWorst
  <2>1. scan.heap \in SUBSET Ids /\ dist \in [Ids -> 0 .. MaxDist]
    BY DEF RankIInv, RankTypeOK, ScanType
  <2>2. scan.worst = Worst(scan.heap)
    BY DEF RankIInv
  <2>3. CASE scan.heap = {}
    BY <2>3
  <2>4. CASE scan.heap # {}
    BY <2>1, <2>2, <2>4, TopIsWorst DEF Worst
  <2> QED BY <2>3, <2>4
<1> QED BY <1>1, RankInvariant, PTL

----------------------------------------------------------------------------
\* Visited vectors that pass layer 1 and rank before v.
Below(v) == {u \in Kept : Above(v, u)}

\* The pairs are ordered, and what ranks before a vector of a rank ranks lower.
LEMMA BelowMonotone ==
  ASSUME RankTypeOK, NEW v \in Kept, NEW u \in Kept, Above(v, u)
  PROVE  Below(u) \subseteq Below(v) /\ u \in Below(v) /\ u \notin Below(u)
<1>1. \A w \in Kept : w \in Nat /\ dist[w] \in Nat
  BY IdsAssumption, BoundsAssumption DEF Kept, RankTypeOK
<1>2. ASSUME NEW w \in Below(u) PROVE w \in Below(v)
  BY <1>1 DEF Below, Above
<1>3. ~Above(u, u)
  BY <1>1 DEF Above
<1> QED BY <1>2, <1>3 DEF Below

LEMMA KeptFinite ==
  ASSUME RankTypeOK
  PROVE  /\ Kept \in SUBSET Ids /\ Nearest \in SUBSET Kept
         /\ \A S \in SUBSET Kept : IsFiniteSet(S) /\ Cardinality(S) \in Nat
BY HeapFinite DEF Kept, Nearest

\* Not more than K vectors are among the K nearest: the last of them has all
\* the others before it.
LEMMA NearestAtMost ==
  ASSUME RankTypeOK
  PROVE  Cardinality(Nearest) <= K
<1>1. Nearest \in SUBSET Ids /\ Nearest \in SUBSET Kept /\ Kept \in SUBSET Ids
  BY KeptFinite
<1>2. CASE Nearest = {}
  BY <1>2, FS_EmptySet, BoundsAssumption
<1>3. CASE Nearest # {}
  <2>1. PICK z \in Nearest : \A y \in Nearest \ {z} : Above(z, y)
    BY <1>1, <1>3, TopExists DEF RankTypeOK
  <2>2. Nearest \ {z} \in SUBSET Below(z) /\ Below(z) \in SUBSET Kept
    BY <1>1, <2>1 DEF Below
  <2>3. IsFiniteSet(Nearest) /\ IsFiniteSet(Below(z)) /\ Cardinality(Nearest) \in Nat /\ Cardinality(Below(z)) \in Nat
    BY <1>1, <2>2, KeptFinite
  <2>4. Cardinality(Nearest \ {z}) = Cardinality(Nearest) - 1
    BY <2>1, <2>3, FS_RemoveElement, Zenon
  <2>5. Cardinality(Nearest \ {z}) <= Cardinality(Below(z))
    BY <2>2, <2>3, FS_Subset
  <2>6. Cardinality(Below(z)) < K
    BY <2>1 DEF Nearest, Below
  <2> QED BY <2>3, <2>4, <2>5, <2>6, BoundsAssumption
<1> QED BY <1>2, <1>3

\* If a vector is left out, there are K nearest: of those left out, one has
\* none of the others before it.
LEMMA NearestAtLeast ==
  ASSUME RankTypeOK, Kept \ Nearest # {}
  PROVE  Cardinality(Nearest) >= K
<1> DEFINE Cuts == {Below(w) : w \in Kept \ Nearest}
<1>1. PICK w \in Kept \ Nearest : \A u \in Kept \ Nearest : <<Below(u), Below(w)>> \notin StrictSubsetOrdering(Ids)
  <2>1. IsWellFoundedOn(StrictSubsetOrdering(Ids), FiniteSubsetsOf(Ids))
    BY FS_StrictSubsetOrderingWellFounded
  <2>2. \A u \in Kept : Below(u) \in SUBSET Kept
    BY DEF Below
  <2>3. Cuts \subseteq FiniteSubsetsOf(Ids)
    BY <2>2, KeptFinite DEF FiniteSubsetsOf
  <2>4. Cuts # {}
    OBVIOUS
  <2>5. \E C \in Cuts : \A D \in Cuts : <<D, C>> \notin StrictSubsetOrdering(Ids)
    <3> HIDE DEF Cuts
    <3> QED BY <2>1, <2>3, <2>4, WFMin
  <2> QED BY <2>5
<1>2. ASSUME NEW u \in Below(w) PROVE u \in Nearest
  <2>1. u \in Kept /\ Above(w, u)
    BY <1>2 DEF Below
  <2>2. Below(u) \subseteq Below(w) /\ u \in Below(w) /\ u \notin Below(u)
    BY <1>1, <2>1, BelowMonotone
  <2>3. Below(w) \in SUBSET Ids
    BY KeptFinite DEF Below
  <2>4. <<Below(u), Below(w)>> \in StrictSubsetOrdering(Ids)
    BY <2>2, <2>3 DEF StrictSubsetOrdering
  <2> QED BY <1>1, <2>1, <2>4
<1>3. /\ Below(w) \in SUBSET Nearest /\ IsFiniteSet(Nearest)
      /\ Cardinality(Nearest) \in Nat /\ Cardinality(Below(w)) \in Nat
  <2>1. Below(w) \in SUBSET Kept
    BY DEF Below
  <2> QED BY <1>2, <2>1, KeptFinite
<1>4. Cardinality(Below(w)) <= Cardinality(Nearest)
  BY <1>3, FS_Subset
<1>5. ~(Cardinality(Below(w)) < K)
  BY <1>1 DEF Nearest, Below
<1> QED BY <1>3, <1>4, <1>5, BoundsAssumption

Tied == \E x \in Nearest, y \in Kept \ Nearest : dist[x] = dist[y]

\* Without a tie at the border the heap is the K nearest.
LEMMA HeapIsNearest ==
  ASSUME RankIInv, ~Tied
  PROVE  scan.heap = Nearest
<1> DEFINE h == scan.heap
<1>1. RankTypeOK /\ h \in SUBSET Kept /\ Cardinality(h) <= K /\ (Cardinality(h) < K => h = Kept)
  BY DEF RankIInv, HeapHoldsNearest
<1>2. /\ Nearest \in SUBSET Kept /\ IsFiniteSet(Nearest) /\ IsFiniteSet(h)
      /\ Cardinality(Nearest) \in Nat /\ Cardinality(h) \in Nat
  BY <1>1, KeptFinite
<1>3. \A w \in Kept : w \in Nat /\ dist[w] \in Nat
  BY <1>1, IdsAssumption, BoundsAssumption DEF Kept, RankTypeOK
<1>4. \A x \in Kept \ h : \A y \in h : dist[y] <= dist[x]
  BY DEF RankIInv, HeapHoldsNearest
<1> HIDE DEF h
<1>5. CASE Cardinality(h) < K
  <2>1. CASE Kept \ Nearest # {}
    <3>1. Cardinality(Nearest) >= K
      BY <1>1, <2>1, NearestAtLeast
    <3>2. Cardinality(Nearest) <= Cardinality(h)
      BY <1>1, <1>2, <1>5, FS_Subset
    <3> QED BY <1>2, <1>5, <3>1, <3>2, BoundsAssumption
  <2>2. CASE Kept = Nearest
    BY <1>1, <1>5, <2>2 DEF h
  <2> QED BY <1>2, <2>1, <2>2
<1>6. CASE Cardinality(h) = K
  <2>1. ASSUME NEW x \in Nearest, x \notin h PROVE FALSE
    <3>1. ASSUME NEW y \in h PROVE y \in Nearest
      <4>1. y \in Kept /\ x \in Kept /\ dist[y] <= dist[x] /\ dist[x] \in Nat /\ dist[y] \in Nat
        BY <1>1, <1>2, <1>3, <1>4, <2>1, <3>1
      <4>2. CASE dist[y] = dist[x]
        BY <2>1, <4>1, <4>2 DEF Tied
      <4>3. CASE dist[y] < dist[x]
        <5>1. Above(x, y)
          BY <4>1, <4>3 DEF Above
        <5>2. Below(y) \in SUBSET Below(x) /\ Below(x) \in SUBSET Kept /\ Below(y) \in SUBSET Kept
          BY <1>1, <4>1, <5>1, BelowMonotone DEF Below
        <5>3. IsFiniteSet(Below(x)) /\ Cardinality(Below(x)) \in Nat /\ Cardinality(Below(y)) \in Nat
          BY <1>1, <5>2, KeptFinite
        <5>4. Cardinality(Below(y)) <= Cardinality(Below(x))
          BY <5>2, <5>3, FS_Subset
        <5>5. Cardinality(Below(x)) < K
          BY <2>1 DEF Nearest, Below
        <5>6. Cardinality(Below(y)) < K
          BY <5>3, <5>4, <5>5, BoundsAssumption
        <5> QED BY <4>1, <5>6 DEF Nearest, Below
      <4> QED BY <4>1, <4>2, <4>3
    <3>2. h \in SUBSET (Nearest \ {x})
      BY <2>1, <3>1
    <3>3. Cardinality(Nearest \ {x}) = Cardinality(Nearest) - 1 /\ IsFiniteSet(Nearest \ {x})
      BY <1>2, <2>1, FS_RemoveElement
    <3>4. Cardinality(h) <= Cardinality(Nearest \ {x})
      BY <3>2, <3>3, FS_Subset
    <3>5. Cardinality(Nearest) <= K
      BY <1>1, NearestAtMost
    <3> QED BY <1>2, <1>6, <3>3, <3>4, <3>5, BoundsAssumption
  <2>2. Nearest \in SUBSET h
    BY <2>1
  <2>3. CASE Kept = Nearest
    BY <1>1, <2>2, <2>3 DEF h
  <2>4. CASE Kept \ Nearest # {}
    <3>1. Cardinality(Nearest) >= K /\ Cardinality(Nearest) <= Cardinality(h)
      BY <1>1, <1>2, <2>2, <2>4, NearestAtLeast, FS_Subset
    <3>2. Cardinality(Nearest) = Cardinality(h)
      BY <1>2, <1>6, <3>1, BoundsAssumption
    <3> QED BY <1>2, <2>2, <3>2, FS_Subset DEF h
  <2> QED BY <1>2, <2>3, <2>4
<1> QED BY <1>1, <1>2, <1>5, <1>6, BoundsAssumption

\* Once counted, the matches stay those of the heap.
MatchesInv == matches # -1 => todo = {} /\ matches = Cardinality(scan.heap \cap true_nn)

\* Recall depends on the order of completions only through ties at the border
\* of the K nearest.
THEOREM AlwaysRecallUnlessTied == RankSpec => []RecallUnlessTied
<1>1. RankInit => MatchesInv
  BY DEF RankInit, MatchesInv
<1>2. MatchesInv /\ [RankNext]_rankVars => MatchesInv'
  <2> SUFFICES ASSUME MatchesInv, [RankNext]_rankVars PROVE MatchesInv'
    OBVIOUS
  <2>1. CASE \E v \in todo : Visit(v)
    BY <2>1 DEF MatchesInv, Visit
  <2>2. CASE Answer
    BY <2>2 DEF MatchesInv, Answer
  <2>3. CASE UNCHANGED rankVars
    BY <2>3 DEF MatchesInv, rankVars
  <2> QED BY <2>1, <2>2, <2>3 DEF RankNext, Answered
<1>3. RankIInv /\ MatchesInv => RecallUnlessTied
  BY HeapIsNearest DEF MatchesInv, RecallUnlessTied, Tied
<1> QED BY <1>1, <1>2, <1>3, RankInvariant, PTL DEF RankSpec

-----------------------------------------------------------------------------
(* The frontier and the closest-recall table. *)

\* A value that is there is a number.
LEMMA ValueType ==
  ASSUME pts \in [Points -> Point], NEW q \in Points
  PROVE  /\ pts[q].recall # Missing => pts[q].recall \in Int
         /\ pts[q].ms # Missing => pts[q].ms \in Int
         /\ pts[q].app # Missing => pts[q].app \in Int
<1>1. pts[q] \in Point
  OBVIOUS
<1> QED BY <1>1, ParetoAssumption, Zenon DEF Point

\* What domination compares, as numbers.
LEMMA DominatesType ==
  ASSUME pts \in [Points -> Point], NEW q \in Points, NEW r \in Points, Dominates(q, r)
  PROVE  /\ {pts[q].recall, pts[q].ms, pts[q].app} \subseteq Int
         /\ {pts[r].recall, pts[r].ms, pts[r].app} \subseteq Int
         /\ Missing \notin {pts[q].recall, pts[q].ms, pts[q].app}
         /\ Missing \notin {pts[r].recall, pts[r].ms, pts[r].app}
<1>1. /\ pts[q].recall # Missing /\ pts[q].ms # Missing /\ pts[q].app # Missing
      /\ pts[r].recall # Missing /\ pts[r].ms # Missing /\ pts[r].app # Missing
  BY DEF Dominates
<1> QED BY <1>1, ValueType

\* Domination is a strict order, missing values or not.
LEMMA DominatesIrreflexive ==
  ASSUME pts \in [Points -> Point], NEW q \in Points
  PROVE  ~Dominates(q, q)
<1> SUFFICES ASSUME Dominates(q, q) PROVE FALSE
  OBVIOUS
<1>1. pts[q].recall \in Int /\ pts[q].ms \in Int /\ pts[q].app \in Int
  BY DominatesType
<1>2. pts[q].recall > pts[q].recall \/ pts[q].ms < pts[q].ms \/ pts[q].app < pts[q].app
  BY DEF Dominates
<1> QED BY <1>1, <1>2

LEMMA DominatesTransitive ==
  ASSUME pts \in [Points -> Point], NEW x \in Points, NEW y \in Points, NEW z \in Points,
         Dominates(x, y), Dominates(y, z)
  PROVE  Dominates(x, z)
<1> DEFINE a == pts[x]  b == pts[y]  c == pts[z]
<1>1. /\ a.recall \in Int /\ a.ms \in Int /\ a.app \in Int
      /\ b.recall \in Int /\ b.ms \in Int /\ b.app \in Int
      /\ c.recall \in Int /\ c.ms \in Int /\ c.app \in Int
  BY DominatesType
<1>2. /\ a.recall # Missing /\ a.ms # Missing /\ a.app # Missing
      /\ c.recall # Missing /\ c.ms # Missing /\ c.app # Missing
  BY DominatesType
<1>3. /\ a.recall >= b.recall /\ a.ms <= b.ms /\ a.app <= b.app
      /\ b.recall >= c.recall /\ b.ms <= c.ms /\ b.app <= c.app
      /\ a.recall > b.recall \/ a.ms < b.ms \/ a.app < b.app
  BY DEF Dominates
<1>4. \A k \in {"recall", "ms", "app"} : a[k] # Missing /\ c[k] # Missing
  BY <1>2
<1>5. /\ a.recall >= c.recall /\ a.ms <= c.ms /\ a.app <= c.app
      /\ a.recall > c.recall \/ a.ms < c.ms \/ a.app < c.app
  BY <1>1, <1>3
<1> QED BY <1>4, <1>5 DEF Dominates

\* A non-empty set of points has one that no other of them dominates.  By
\* minimal counterexample in the subset ordering.
LEMMA UndominatedExists ==
  ASSUME pts \in [Points -> Point], NEW S \in SUBSET Points, S # {}
  PROVE  \E m \in S : \A q \in S : ~Dominates(q, m)
<1> DEFINE HasTop(T) == \E m \in T : \A q \in T : ~Dominates(q, m)
           Bad == {T \in FiniteSubsetsOf(Points) : T # {} /\ ~HasTop(T)}
<1>1. S \in FiniteSubsetsOf(Points)
  <2>1. IsFiniteSet(Points)
    BY ParetoAssumption, FS_Interval DEF Points
  <2> QED BY <2>1, FS_Subset DEF FiniteSubsetsOf
<1>2. SUFFICES ASSUME Bad # {} PROVE FALSE
  BY <1>1
<1>3. PICK T \in Bad : \A U \in Bad : <<U, T>> \notin StrictSubsetOrdering(Points)
  <2>1. IsWellFoundedOn(StrictSubsetOrdering(Points), FiniteSubsetsOf(Points))
    BY FS_StrictSubsetOrderingWellFounded
  <2>2. Bad \subseteq FiniteSubsetsOf(Points)
    OBVIOUS
  <2> HIDE DEF Bad
  <2> QED BY <1>2, <2>1, <2>2, WFMin
<1>4. T \in SUBSET Points /\ IsFiniteSet(T) /\ T # {} /\ ~HasTop(T)
  BY <1>3 DEF FiniteSubsetsOf
<1>5. PICK x \in T : TRUE
  BY <1>4
<1>6. PICK y \in T : Dominates(y, x)
  BY <1>4, <1>5
<1>7. y # x
  BY <1>4, <1>5, <1>6, DominatesIrreflexive
<1> DEFINE U == T \ {x}
<1>8. U \in FiniteSubsetsOf(Points) /\ <<U, T>> \in StrictSubsetOrdering(Points)
  BY <1>4, <1>5, FS_Subset DEF FiniteSubsetsOf, StrictSubsetOrdering
<1>9. PICK m \in U : \A q \in U : ~Dominates(q, m)
  <2>1. U \notin Bad
    BY <1>3, <1>8, Zenon
  <2> QED BY <2>1, <1>6, <1>7, <1>8
<1>10. Dominates(x, m)
  BY <1>4, <1>9
<1>11. Dominates(y, m)
  BY <1>4, <1>5, <1>6, <1>9, <1>10, DominatesTransitive, SMTT(30)
<1> QED BY <1>6, <1>7, <1>9, <1>11
----------------------------------------------------------------------------
\* Neither loop has looked at anything.
LEMMA InitFrontierIInv == FrontierInit => FrontierIInv
<1> SUFFICES ASSUME FrontierInit PROVE FrontierIInv
  OBVIOUS
<1>1. FrontierTypeOK
  BY ParetoAssumption DEF FrontierInit, FrontierTypeOK
<1>2. FrontInv
  BY DEF FrontierInit, FrontInv, Visited
<1>3. BestInv
  BY DEF FrontierInit, BestInv
<1> QED BY <1>1, <1>2, <1>3 DEF FrontierIInv

\* A point is kept or dropped once and for all: domination depends on the
\* points alone, not on what has been kept so far.
LEMMA VisitPointIInv ==
  ASSUME FrontierIInv, VisitPoint
  PROVE  FrontierIInv'
<1> USE ParetoAssumption
<1>1. pts' = pts /\ p \in Points /\ phase = "front" /\ phase' = phase /\ p' = p + 1
  BY DEF FrontierIInv, FrontierTypeOK, VisitPoint, Points
<1>2. \A r \in Points : Dominated(r)' = Dominated(r)
  BY <1>1 DEF Dominated, Dominates
<1>3. FrontierTypeOK'
  BY <1>1 DEF FrontierIInv, FrontierTypeOK, VisitPoint, Points
<1>4. FrontInv'
  <2>1. front = {r \in 1 .. p - 1 : ~Dominated(r)}
    BY <1>1 DEF FrontierIInv, FrontInv, Visited
  <2>2. 1 .. p' - 1 = (1 .. p - 1) \cup {p} /\ 1 .. p - 1 \subseteq Points
    BY <1>1 DEF Points
  <2>3. front' = {r \in 1 .. p' - 1 : ~Dominated(r)}
    BY <2>1, <2>2 DEF VisitPoint
  <2>4. {r \in 1 .. p' - 1 : ~Dominated(r)} = {r \in 1 .. p' - 1 : ~Dominated(r)'}
    BY <1>1, <1>2, <2>2
  <2>5. Visited("front")' = 1 .. p' - 1
    BY <1>1 DEF Visited
  <2> QED BY <2>3, <2>4, <2>5, Zenon DEF FrontInv
<1>5. BestInv'
  BY <1>1 DEF FrontierIInv, BestInv, VisitPoint
<1> QED BY <1>3, <1>4, <1>5 DEF FrontierIInv

\* Steps that leave the points and the front alone keep the front right.
LEMMA FrontFrame ==
  ASSUME FrontInv, pts' = pts, front' = front, Visited("front")' = Visited("front"),
         Visited("front") \subseteq Points
  PROVE  FrontInv'
<1>1. \A r \in Points : Dominated(r)' = Dominated(r)
  BY DEF Dominated, Dominates
<1> QED BY <1>1 DEF FrontInv

LEMMA FrontDoneIInv ==
  ASSUME FrontierIInv, FrontDone
  PROVE  FrontierIInv'
<1> USE ParetoAssumption
<1>1. p = N + 1 /\ phase = "front" /\ phase' = "closest" /\ p' = 1
  BY DEF FrontierIInv, FrontierTypeOK, FrontDone
<1>2. FrontierTypeOK'
  BY <1>1 DEF FrontierIInv, FrontierTypeOK, FrontDone
<1>3. FrontInv'
  <2>1. Visited("front") = Points /\ Visited("front")' = Points
    BY <1>1 DEF Visited, Points
  <2> QED BY <2>1, FrontFrame DEF FrontierIInv, FrontDone
<1>4. BestInv'
  BY <1>1 DEF FrontierIInv, BestInv, FrontDone
<1> QED BY <1>2, <1>3, <1>4 DEF FrontierIInv

\* One comparison: what was nearest before is compared with the next point.
LEMMA CompareIInv ==
  ASSUME FrontierIInv, Compare
  PROVE  FrontierIInv'
<1> USE ParetoAssumption
<1>1. /\ pts' = pts /\ recallTarget' = recallTarget /\ p \in Points /\ p \in Nat /\ p' = p + 1
      /\ phase = "closest" /\ phase' = phase /\ pts \in [Points -> Point] /\ recallTarget \in Int
  BY DEF FrontierIInv, FrontierTypeOK, Compare, Points
<1>2. FrontierTypeOK'
  BY <1>1 DEF FrontierIInv, FrontierTypeOK, Compare, Points
<1>3. FrontInv'
  <2>1. Visited("front") = Points /\ Visited("front")' = Points
    BY <1>1 DEF Visited, Points
  <2> QED BY <2>1, FrontFrame DEF FrontierIInv, Compare
<1>4. \A q \in Points : Distance(q)' = Distance(q)
  BY <1>1 DEF Distance
<1>5. \A q \in Points : pts[q].recall # Missing => Distance(q) \in Int
  BY <1>1, ValueType DEF Distance
<1>6. BestInv'
  <2>1. best \in Points \cup {Missing} /\ Missing \notin Points
    BY DEF FrontierIInv, FrontierTypeOK, Points
  <2>2. /\ best # Missing => best < p /\ pts[best].recall # Missing
        /\ \A q \in 1 .. p - 1 :
             pts[q].recall # Missing =>
               best # Missing /\ Distance(best) <= Distance(q) /\ (q < best => Distance(best) < Distance(q))
    BY <1>1 DEF FrontierIInv, BestInv
  <2>3. 1 .. p' - 1 = (1 .. p - 1) \cup {p} /\ 1 .. p - 1 \subseteq Points
    BY <1>1 DEF Points
  <2>4. best' # Missing => best' < p' /\ pts[best'].recall # Missing
    BY <1>1, <2>1, <2>2 DEF Compare, Points
  <2>5. ASSUME NEW q \in 1 .. p' - 1, pts[q].recall # Missing
        PROVE  best' # Missing /\ best' \in Points /\ Distance(best') <= Distance(q)
                 /\ (q < best' => Distance(best') < Distance(q))
    <3>1. q \in Points /\ Distance(q) \in Int /\ q \in Nat
      BY <1>1, <1>5, <2>3, <2>5 DEF Points
    <3>2. CASE pts[p].recall # Missing /\ Nearer(p)
      <4>1. best' = p /\ Distance(p) \in Int
        BY <1>1, <1>5, <3>2 DEF Compare
      <4>2. CASE q = p
        BY <1>1, <2>1, <4>1, <4>2
      <4>3. CASE q # p
        <5>1. q \in 1 .. p - 1
          BY <2>3, <2>5, <4>3
        <5>2. best # Missing /\ Distance(best) <= Distance(q) /\ best \in Points /\ Distance(best) \in Int
          BY <1>5, <2>1, <2>2, <2>5, <5>1
        <5>3. Distance(p) < Distance(best)
          BY <3>2, <5>2 DEF Nearer
        <5> QED BY <1>1, <2>1, <3>1, <4>1, <5>2, <5>3, SMTT(30)
      <4> QED BY <4>2, <4>3
    <3>3. CASE ~(pts[p].recall # Missing /\ Nearer(p))
      <4>1. best' = best
        BY <3>3 DEF Compare
      <4>2. CASE q = p
        <5>1. best # Missing /\ ~(Distance(p) < Distance(best))
          BY <2>5, <3>3, <4>2 DEF Nearer
        <5>2. best \in Points /\ best < p /\ Distance(best) \in Int /\ best \in Nat
          BY <1>5, <2>1, <2>2, <5>1 DEF Points
        <5> QED BY <1>1, <3>1, <4>1, <4>2, <5>1, <5>2
      <4>3. CASE q # p
        <5>1. q \in 1 .. p - 1
          BY <2>3, <2>5, <4>3
        <5> QED BY <2>1, <2>2, <2>5, <4>1, <5>1, SMTT(30)
      <4> QED BY <4>2, <4>3
    <3> QED BY <3>2, <3>3
  <2>6. \A q \in 1 .. p' - 1 : q \in Points
    BY <1>1, <2>3
  <2>7. ASSUME NEW q \in 1 .. p' - 1, pts'[q].recall # Missing
        PROVE  best' # Missing /\ Distance(best)' <= Distance(q)'
                 /\ (q < best' => Distance(best)' < Distance(q)')
    <3>1. best' \in Points /\ q \in Points
      BY <1>1, <2>5, <2>6, <2>7
    <3>2. Distance(best)' = Distance(best') /\ Distance(q)' = Distance(q)
      BY <1>1 DEF Distance
    <3> QED BY <1>1, <2>5, <2>7, <3>2
  <2> QED BY <1>1, <2>4, <2>7 DEF BestInv
<1> QED BY <1>2, <1>3, <1>6 DEF FrontierIInv

LEMMA CompareDoneIInv ==
  ASSUME FrontierIInv, CompareDone
  PROVE  FrontierIInv'
<1> USE ParetoAssumption
<1>1. /\ p = N + 1 /\ phase = "closest" /\ phase' = "done"
      /\ pts' = pts /\ recallTarget' = recallTarget /\ p' = p /\ front' = front /\ best' = best
  BY DEF FrontierIInv, FrontierTypeOK, CompareDone
<1>2. FrontierTypeOK'
  BY <1>1 DEF FrontierIInv, FrontierTypeOK
<1>3. FrontInv'
  <2>1. Visited("front") = Points /\ Visited("front")' = Points
    BY <1>1 DEF Visited, Points
  <2> QED BY <1>1, <2>1, FrontFrame DEF FrontierIInv
<1>4. BestInv'
  BY <1>1, SMTT(30) DEF FrontierIInv, BestInv, Distance
<1> QED BY <1>2, <1>3, <1>4 DEF FrontierIInv

LEMMA StutterIInv ==
  ASSUME FrontierIInv, UNCHANGED frontierVars
  PROVE  FrontierIInv'
BY DEF FrontierIInv, FrontierTypeOK, FrontInv, BestInv, Visited, Dominated, Dominates, Distance, frontierVars

\* The inductive invariant: what the two loops have established so far.
THEOREM FrontierInvariant == FrontierSpec => []FrontierIInv
<1>1. FrontierIInv /\ [FrontierNext]_frontierVars => FrontierIInv'
  BY VisitPointIInv, FrontDoneIInv, CompareIInv, CompareDoneIInv, StutterIInv DEF FrontierNext, Done
<1> QED BY <1>1, InitFrontierIInv, PTL DEF FrontierSpec

\* Type correctness of the loops of pareto.py.
THEOREM FrontierTypeCorrect == FrontierSpec => []FrontierTypeOK
<1>1. FrontierIInv => FrontierTypeOK
  BY DEF FrontierIInv
<1> QED BY <1>1, FrontierInvariant, PTL

\* pareto_frontier drops a point only if a point that it keeps is better: for
\* every group, however the points dominate each other.
THEOREM AlwaysFrontCovers == FrontierSpec => []FrontCovers
<1>1. ASSUME FrontierIInv PROVE FrontCovers
  <2> SUFFICES ASSUME phase # "front", NEW r \in Points \ front
               PROVE  \E q \in front : Dominates(q, r)
    BY DEF FrontCovers
  <2>1. pts \in [Points -> Point] /\ front = {q \in Points : ~Dominated(q)}
    BY <1>1 DEF FrontierIInv, FrontierTypeOK, FrontInv, Visited
  <2> DEFINE S == {q \in Points : Dominates(q, r)}
  <2>2. S # {} /\ S \in SUBSET Points
    BY <2>1 DEF Dominated
  <2>3. PICK m \in S : \A q \in S : ~Dominates(q, m)
    <3> HIDE DEF S
    <3> QED BY <2>1, <2>2, UndominatedExists
  <2>4. ASSUME NEW q \in Points, Dominates(q, m) PROVE FALSE
    <3>1. Dominates(q, r)
      BY <2>1, <2>3, <2>4, DominatesTransitive
    <3> QED BY <2>3, <2>4, <3>1
  <2>5. m \in front
    BY <2>1, <2>3, <2>4 DEF Dominated
  <2> QED BY <2>3, <2>5
<1> QED BY <1>1, FrontierInvariant, PTL

\* closest_recall_table picks the first of the points nearest to the target.
THEOREM AlwaysClosestIsFirstNearest == FrontierSpec => []ClosestIsFirstNearest
<1>1. FrontierIInv => ClosestIsFirstNearest
  BY ParetoAssumption DEF FrontierIInv, BestInv, ClosestIsFirstNearest, Points
<1> QED BY <1>1, FrontierInvariant, PTL
=============================================================================
