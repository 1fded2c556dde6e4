------------------------------- MODULE TopK --------------------------------
(***************************************************************************)
(* How a query of the TapeANN engine ranks the vectors of its clusters     *)
(* (process_cluster in benchmark_search.cpp, and the recall computation at *)
(* the end of the query loop).  A vector passes three layers: a Hamming    *)
(* filter on bit masks, a lower bound on the distance from its first 16    *)
(* dimensions, and the full distance.  The K best are kept in a bounded    *)
(* max-heap of (distance, id) pairs.                                       *)
(*                                                                         *)
(* Vectors are identified by their ids, so the heap is a set of ids.       *)
(* Distances are abstracted to 0 .. MaxDist: only their order matters.     *)
(***************************************************************************)
EXTENDS Integers, FiniteSets

CONSTANTS
  Ids,        \* vectors of the clusters that the query reads
  K,          \* results per query (10)
  Threshold,  \* bitmask_threshold (45)
  MaxHamming,
  MaxDist

ASSUME IdsAssumption == Ids \subseteq Nat /\ IsFiniteSet(Ids)

ASSUME BoundsAssumption ==
  /\ K \in Nat \ {0}
  /\ Threshold \in Nat
  /\ MaxHamming \in Nat
  /\ MaxDist \in Nat

VARIABLES
  hamming,       \* of each vector's bit mask to the query's
  partial,       \* l2_partial_16d
  dist,          \* l2_distance_simd_int8_asymmetric
  true_nn,       \* ground truth of the query, once it has been looked up
  todo,          \* vectors not visited yet
  scan,          \* what the loop has computed so far, a record
  matches        \* of the drained heap, -1 before

vectorVars == <<hamming, partial, dist>>
rankVars == <<vectorVars, true_nn, todo, scan, matches>>

\* std::pair comparison of the heap's elements.
Above(x, y) == dist[x] > dist[y] \/ (dist[x] = dist[y] /\ x > y)

\* top_k.top(): the largest pair.
Top(h) == CHOOSE x \in h : \A y \in h \ {x} : Above(x, y)

Worst(h) == dist[Top(h)]

ScanType == [heap : SUBSET Ids, worst : 0 .. MaxDist + 1, avoided : Nat]

\* Nothing scanned.  The limit stands for numeric_limits<float>::max().
Empty == [heap |-> {}, worst |-> MaxDist + 1, avoided |-> 0]

\* One iteration of the loop over a cluster's records.
Avoid(s) == [s EXCEPT !.avoided = @ + 1]

\* Fault: the bound is not refreshed.
ReplaceStaleBound(s, v) ==
  [s EXCEPT !.heap = (s.heap \ {Top(s.heap)}) \cup {v}]

Push(s, v) ==
  LET h == s.heap \cup {v}
  IN  [s EXCEPT !.heap = h, !.worst = IF Cardinality(h) = K THEN Worst(h) ELSE @]

Replace(s, v) ==
  LET h == (s.heap \ {Top(s.heap)}) \cup {v}
  IN  [s EXCEPT !.heap = h, !.worst = Worst(h)]

Full(s) == Cardinality(s.heap) >= K

Offer(s, v) ==
  IF hamming[v] > Threshold THEN Avoid(s)
  ELSE IF Full(s) /\ partial[v] >= s.worst THEN Avoid(s)
  ELSE IF ~Full(s) THEN Push(s, v)
  ELSE IF dist[v] < s.worst THEN Replace(s, v)
  ELSE s

\* The partial distance sums squares of a subset of the dimensions, in the
\* same order and with the same rounding, so it never exceeds the full one.
RankInit ==
  /\ hamming \in [Ids -> 0 .. MaxHamming]
  /\ dist \in [Ids -> 0 .. MaxDist]
  /\ partial \in [Ids -> 0 .. MaxDist]
  /\ \A v \in Ids : partial[v] <= dist[v]
  /\ true_nn = {}
  /\ todo = Ids
  /\ scan = Empty
  /\ matches = -1

\* Clusters complete in any order, so a vector may come at any time.
Visit(v) ==
  /\ v \in todo
  /\ todo' = todo \ {v}
  /\ scan' = Offer(scan, v)
  /\ UNCHANGED <<vectorVars, true_nn, matches>>

\* Drain the heap and count the results that are true neighbours.
Answer ==
  /\ todo = {}
  /\ matches = -1
  /\ true_nn' \in SUBSET Ids
  /\ matches' = Cardinality(scan.heap \cap true_nn')
  /\ UNCHANGED <<vectorVars, todo, scan>>

\* The query has been answered.
Answered == matches # -1 /\ UNCHANGED rankVars

RankNext == (\E v \in todo : Visit(v)) \/ Answer \/ Answered

RankSpec == RankInit /\ [][RankNext]_rankVars
----------------------------------------------------------------------------
\* Type invariant.
RankTypeOK ==
  /\ hamming \in [Ids -> 0 .. MaxHamming]
  /\ dist \in [Ids -> 0 .. MaxDist]
  /\ partial \in [Ids -> 0 .. MaxDist]
  /\ true_nn \subseteq Ids
  /\ todo \subseteq Ids
  /\ scan \in ScanType
  /\ matches \in {-1} \cup Nat

\* Visited vectors that pass the Hamming filter.
Kept == {v \in Ids \ todo : hamming[v] <= Threshold}

\* Layer 2 and the bounded heap lose nothing: at any time the heap holds K of
\* the visited vectors that pass layer 1 (all of them while there are fewer),
\* and none left out is nearer than one kept.
HeapHoldsNearest ==
  /\ scan.heap \subseteq Kept
  /\ Cardinality(scan.heap) <= K
  /\ Cardinality(scan.heap) < K => scan.heap = Kept
  /\ \A x \in Kept \ scan.heap : \A y \in scan.heap : dist[y] <= dist[x]

\* heap_worst, the bound that prunes in layer 2, is the distance of the worst
\* result whenever the heap is full.
BoundIsWorst ==
  Full(scan) => \A y \in scan.heap : dist[y] <= scan.worst /\ \E z \in scan.heap : dist[z] = scan.worst

\* The K nearest of the vectors that pass layer 1, ties broken by id.
Nearest == {v \in Kept : Cardinality({u \in Kept : Above(v, u)}) < K}

\* The recall of a query does not depend on the order in which its reads
\* complete, unless a vector left out of the K nearest is as near as one of
\* them.
RecallUnlessTied ==
  matches # -1 =>
    \/ \E x \in Nearest, y \in Kept \ Nearest : dist[x] = dist[y]
    \/ matches = Cardinality(Nearest \cap true_nn)

\* Inductive invariant.
RankIInv ==
  /\ RankTypeOK
  /\ \A v \in Ids : partial[v] <= dist[v]
  /\ HeapHoldsNearest
  /\ Full(scan) => scan.worst = Worst(scan.heap)
============================================================================
