---------------------------- MODULE ListProofs -----------------------------
(***************************************************************************)
(* What the operations on three lists preserve, for lists of every length: *)
(* the candidate queue of a search (module NeighborQueue), the ranges of   *)
(* tags that validate a runbook (module RunbookRanges), and the free slots *)
(* of a streaming index (module TagSlots).                                 *)
(***************************************************************************)
EXTENDS NeighborQueue, RunbookRanges, TagSlots, WellFoundedInduction, FiniteSetTheorems, TLAPS

\* An entry of a queue.
Entry == [id : Int, dist : Nat, visited : BOOLEAN]

\* A queue that a program can hold.
Queue ==
  [items : Seq(Entry), capacity : Nat \ {0}, cursor : Nat, auto : BOOLEAN, l : Nat]

\* What insertions and visits preserve.
QueueInv(q) ==
  /\ q \in Queue
  /\ Sorted(q)
  /\ WithinCapacity(q)
  /\ PassedAreVisited(q)

\* Every set of numbers that is not empty has a least one.
LEMMA LeastExists ==
  ASSUME NEW T \in SUBSET Nat, T # {}
  PROVE  \E m \in T : \A k \in T : m <= k
<1>1. PICK m \in T : \A k \in T : <<k, m>> \notin OpToRel(<, Nat)
  BY NatLessThanWellFounded, WFMin, Zenon
<1>2. \A k \in T : ~(k < m)
  BY <1>1, Zenon DEF OpToRel
<1> QED BY <1>2

\* The sequence t is s with e inserted at place i.
Placed(t, s, i, e) ==
  /\ Len(t) = Len(s) + 1
  /\ \A j \in 1 .. Len(s) + 1 : t[j] = IF j < i THEN s[j] ELSE IF j = i THEN e ELSE s[j - 1]

\* What inserting an element into a sequence gives.
LEMMA PlaceFacts ==
  ASSUME NEW S, NEW s \in Seq(S), NEW e \in S, NEW i \in 1 .. Len(s) + 1
  PROVE  Place(s, i, e) \in Seq(S) /\ Placed(Place(s, i, e), s, i, e)
<1> DEFINE a == SubSeq(s, 1, i - 1)
           b == SubSeq(s, i, Len(s))
           c == a \o <<e>>
<1>1. a \in Seq(S) /\ Len(a) = i - 1 /\ \A j \in 1 .. i - 1 : a[j] = s[j]
  OBVIOUS
<1>2. b \in Seq(S) /\ Len(b) = Len(s) - i + 1 /\ \A j \in 1 .. Len(s) - i + 1 : b[j] = s[i + j - 1]
  OBVIOUS
<1>3. Place(s, i, e) = c \o b
  BY Zenon DEF Place
<1>4. c \in Seq(S) /\ Len(c) = i /\ \A j \in 1 .. i : c[j] = IF j < i THEN s[j] ELSE e
  <2> HIDE DEF a
  <2> QED BY <1>1
<1> HIDE DEF a, b, c
<1>5. (c \o b) \in Seq(S) /\ Len(c \o b) = Len(s) + 1
  <2>1. c \in Seq(S) /\ b \in Seq(S) /\ Len(c) = i /\ Len(b) = Len(s) - i + 1
    BY <1>2, <1>4, Zenon
  <2>2. (c \o b) \in Seq(S) /\ Len(c \o b) = Len(c) + Len(b)
    BY <2>1
  <2> QED BY <2>1, <2>2
<1>6. ASSUME NEW j \in 1 .. Len(s) + 1
      PROVE  (c \o b)[j] = IF j < i THEN s[j] ELSE IF j = i THEN e ELSE s[j - 1]
  <2>1. CASE j <= i
    BY <1>2, <1>4, <2>1
  <2>2. CASE j > i
    BY <1>2, <1>4, <2>2
  <2>3. j <= i \/ j > i
    OBVIOUS
  <2> QED BY <2>1, <2>2, <2>3, Zenon
<1> QED BY <1>3, <1>5, <1>6, Zenon DEF Placed

\* get_lower_bound of a sorted queue cuts it in two.
LEMMA LowerBoundFacts ==
  ASSUME NEW q, q \in Queue, Sorted(q), NEW d \in Nat
  PROVE  /\ LowerBound(q, d) \in 1 .. Size(q) + 1
         /\ \A j \in 1 .. LowerBound(q, d) - 1 : q.items[j].dist < d
         /\ \A j \in LowerBound(q, d) .. Size(q) : q.items[j].dist >= d
<1> DEFINE n == Size(q)
           T == {i \in 1 .. n + 1 : i <= n => q.items[i].dist >= d}
<1>1. n \in Nat /\ \A j \in 1 .. n : q.items[j].dist \in Nat
  <2>1. q.items \in Seq(Entry)
    BY Zenon DEF Queue
  <2>2. n \in Nat /\ \A j \in 1 .. n : q.items[j] \in Entry
    BY <2>1 DEF Size
  <2> QED BY <2>2, Zenon DEF Entry
<1>2. n + 1 \in T /\ T \in SUBSET Nat
  BY <1>1
<1>3. PICK m \in T : \A k \in T : m <= k
  <2> HIDE DEF T
  <2> QED BY <1>2, LeastExists, Zenon
<1>4. \A j \in 1 .. m - 1 : q.items[j].dist < d
  <2>1. ASSUME NEW j \in 1 .. m - 1 PROVE q.items[j].dist < d
    BY <1>1, <1>3
  <2> QED BY <2>1, Zenon
<1>5. /\ m \in 1 .. n + 1
      /\ \A j \in 1 .. m - 1 : q.items[j].dist < d
      /\ m <= n => q.items[m].dist >= d
  BY <1>3, <1>4, Zenon
<1>6. /\ LowerBound(q, d) \in 1 .. n + 1
      /\ \A j \in 1 .. LowerBound(q, d) - 1 : q.items[j].dist < d
      /\ LowerBound(q, d) <= n => q.items[LowerBound(q, d)].dist >= d
  BY <1>5, Zenon DEF LowerBound
<1> DEFINE lb == LowerBound(q, d)
<1> HIDE DEF lb
<1>7. ASSUME NEW j \in lb .. n PROVE q.items[j].dist >= d
  <2>1. lb \in 1 .. n + 1 /\ (lb <= n => q.items[lb].dist >= d)
    BY <1>6, Zenon DEF lb
  <2>2. q.items[lb].dist <= q.items[j].dist
    BY <1>1, <1>7, <2>1 DEF Sorted
  <2> QED BY <1>1, <1>7, <2>1, <2>2
<1> QED BY <1>6, <1>7, Zenon DEF lb

\* The entry that insert makes.
NewEntry(nbr) == [id |-> nbr.id, dist |-> nbr.dist, visited |-> FALSE]

\* What insert keeps of a queue that takes the new entry: everything, or all but
\* the last entry, and then the new one does not come last.
Kept(q) == IF Size(q) = GrownCapacity(q) THEN SubSeq(q.items, 1, Size(q) - 1) ELSE q.items

\* A queue that takes a new entry has room for it after what it drops.
LEMMA KeptFacts ==
  ASSUME NEW q, QueueInv(q), NEW d \in Nat, ~(IsFull(q) /\ q.items[Size(q)].dist < d)
  PROVE  /\ Kept(q) \in Seq(Entry)
         /\ Len(Kept(q)) <= Size(q)
         /\ Len(Kept(q)) + 1 <= GrownCapacity(q)
         /\ LowerBound(q, d) \in 1 .. Len(Kept(q)) + 1
         /\ \A j \in 1 .. Len(Kept(q)) : Kept(q)[j] = q.items[j]
         /\ GrownCapacity(q) \in Nat \ {0}
         /\ Len(Kept(q)) < Size(q) => IsFull(q) /\ Len(Kept(q)) = Size(q) - 1
<1> DEFINE n == Size(q)
           i == LowerBound(q, d)
<1>1. q.items \in Seq(Entry) /\ n \in Nat /\ n = Len(q.items) /\ q.capacity \in Nat \ {0} /\ q.auto \in BOOLEAN
  BY DEF QueueInv, Queue, Size
<1>2. n <= q.capacity
  BY Zenon DEF QueueInv, WithinCapacity
<1>3. /\ i \in 1 .. n + 1
      /\ \A j \in 1 .. i - 1 : q.items[j].dist < d
      /\ \A j \in i .. n : q.items[j].dist >= d
  BY LowerBoundFacts, Zenon DEF QueueInv
<1>4. GrownCapacity(q) \in Nat \ {0} /\ GrownCapacity(q) >= q.capacity
      /\ (q.auto /\ n = q.capacity => GrownCapacity(q) > n)
      /\ (~(q.auto /\ n = q.capacity) => GrownCapacity(q) = q.capacity)
  BY <1>1 DEF GrownCapacity, Greatest
<1>5. CASE n = GrownCapacity(q)
  <2>1. ~q.auto /\ n = q.capacity /\ n >= 1
    BY <1>1, <1>2, <1>4, <1>5
  <2>2. IsFull(q)
    BY <2>1, Zenon DEF IsFull
  <2>3. Kept(q) = SubSeq(q.items, 1, n - 1)
    BY <1>1, <1>5, Zenon DEF Kept, Size
  <2>4. Kept(q) \in Seq(Entry) /\ Len(Kept(q)) = n - 1 /\ \A j \in 1 .. n - 1 : Kept(q)[j] = q.items[j]
    <3>1. n - 1 \in Nat /\ n - 1 <= Len(q.items) /\ n - 1 \in 0 .. Len(q.items)
      BY <1>1, <2>1
    <3>2. \A s \in Seq(Entry), b \in Nat : b <= Len(s) =>
             /\ SubSeq(s, 1, b) \in Seq(Entry) /\ Len(SubSeq(s, 1, b)) = b
             /\ \A j \in 1 .. b : SubSeq(s, 1, b)[j] = s[j]
      BY SMTT(30)
    <3> HIDE DEF n
    <3> QED BY <1>1, <2>3, <3>1, <3>2
  <2>5. ~(q.items[n].dist < d)
    BY <1>1, <2>2, Zenon DEF Size
  <2>6. i <= n
    BY <1>1, <1>3, <2>1, <2>5
  <2> QED BY <1>1, <1>3, <1>4, <1>5, <2>1, <2>2, <2>4, <2>6
<1>6. CASE n # GrownCapacity(q)
  <2>1. Kept(q) = q.items
    BY <1>6, Zenon DEF Kept
  <2>2. n + 1 <= GrownCapacity(q)
    BY <1>1, <1>2, <1>4, <1>6
  <2> QED BY <1>1, <1>3, <1>4, <2>1, <2>2
<1> QED BY <1>5, <1>6, Zenon

\* The queue that insert returns when it does not reject the neighbour.
Inserted(q, nbr) ==
  [q EXCEPT !.items = Place(Kept(q), LowerBound(q, nbr.dist), NewEntry(nbr)),
            !.capacity = GrownCapacity(q),
            !.cursor = Least(@, LowerBound(q, nbr.dist) - 1)]

\* insert either rejects the neighbour or returns the queue above.
LEMMA InsertCases ==
  ASSUME NEW q, NEW nbr
  PROVE  Insert(q, nbr) = IF nbr.dist = NaN \/ (IsFull(q) /\ q.items[Size(q)].dist < nbr.dist)
                          THEN q ELSE Inserted(q, nbr)
BY Zenon DEF Insert, Inserted, Kept, NewEntry

\* The queue that insert returns: the entries it keeps, the new one in its place.
LEMMA InsertedFacts ==
  ASSUME NEW q, QueueInv(q), NEW nbr \in [id : Int, dist : Nat \cup {NaN}],
         ~(nbr.dist = NaN \/ (IsFull(q) /\ q.items[Size(q)].dist < nbr.dist))
  PROVE
    /\ nbr.dist \in Nat /\ NewEntry(nbr) \in Entry /\ NewEntry(nbr).dist = nbr.dist
    /\ Kept(q) \in Seq(Entry) /\ Len(Kept(q)) \in Nat /\ Len(Kept(q)) <= Size(q)
    /\ Len(Kept(q)) + 1 <= GrownCapacity(q) /\ GrownCapacity(q) \in Nat \ {0}
    /\ LowerBound(q, nbr.dist) \in 1 .. Len(Kept(q)) + 1
    /\ \A j \in 1 .. Len(Kept(q)) : Kept(q)[j] = q.items[j]
    /\ Inserted(q, nbr).items \in Seq(Entry) /\ Len(Inserted(q, nbr).items) = Len(Kept(q)) + 1
    /\ \A j \in 1 .. Len(Kept(q)) + 1 :
         Inserted(q, nbr).items[j] = IF j < LowerBound(q, nbr.dist) THEN Kept(q)[j]
                                     ELSE IF j = LowerBound(q, nbr.dist) THEN NewEntry(nbr)
                                     ELSE Kept(q)[j - 1]
    /\ Inserted(q, nbr).capacity = GrownCapacity(q)
    /\ Inserted(q, nbr).cursor = Least(q.cursor, LowerBound(q, nbr.dist) - 1)
    /\ Inserted(q, nbr).auto = q.auto /\ Inserted(q, nbr).l = q.l
<1> DEFINE d == nbr.dist
           i == LowerBound(q, d)
           m == Len(Kept(q))
           r == Inserted(q, nbr)
<1>1. d \in Nat /\ NewEntry(nbr) \in Entry /\ NewEntry(nbr).dist = d
  BY Zenon DEF NewEntry, Entry
<1>2. /\ Kept(q) \in Seq(Entry) /\ m \in Nat /\ m <= Size(q)
      /\ m + 1 <= GrownCapacity(q) /\ GrownCapacity(q) \in Nat \ {0}
      /\ i \in 1 .. m + 1
      /\ \A j \in 1 .. m : Kept(q)[j] = q.items[j]
  <2>1. ~(IsFull(q) /\ q.items[Size(q)].dist < d)
    BY Zenon
  <2> HIDE DEF d
  <2>2. /\ Kept(q) \in Seq(Entry) /\ m <= Size(q) /\ m + 1 <= GrownCapacity(q)
        /\ i \in 1 .. m + 1 /\ GrownCapacity(q) \in Nat \ {0}
        /\ \A j \in 1 .. m : Kept(q)[j] = q.items[j]
    BY <1>1, <2>1, KeptFacts, ZenonT(30)
  <2>3. m \in Nat
    BY <2>2
  <2> QED BY <2>2, <2>3, Zenon
<1>3. /\ r.items \in Seq(Entry) /\ Len(r.items) = m + 1
      /\ \A j \in 1 .. m + 1 :
           r.items[j] = IF j < i THEN Kept(q)[j] ELSE IF j = i THEN NewEntry(nbr) ELSE Kept(q)[j - 1]
  <2>1. r.items = Place(Kept(q), i, NewEntry(nbr))
    BY Zenon DEF Inserted, QueueInv, Queue
  <2> HIDE DEF d, i, r
  <2>2. i \in 1 .. Len(Kept(q)) + 1 /\ m = Len(Kept(q))
    BY <1>2, Zenon
  <2> HIDE DEF m
  <2>3. r.items \in Seq(Entry) /\ Placed(r.items, Kept(q), i, NewEntry(nbr))
    <3>1. Kept(q) \in Seq(Entry) /\ NewEntry(nbr) \in Entry /\ i \in 1 .. Len(Kept(q)) + 1
      BY <1>1, <1>2, <2>2, Zenon
    <3> QED BY <2>1, <3>1, PlaceFacts, Zenon
  <2> QED BY <2>2, <2>3, Zenon DEF Placed
<1>4. r.capacity = GrownCapacity(q) /\ r.cursor = Least(q.cursor, i - 1) /\ r.auto = q.auto /\ r.l = q.l
  BY Zenon DEF Inserted, QueueInv, Queue
<1> QED BY <1>1, <1>2, <1>3, <1>4, Zenon

\* NeighborPriorityQueue::insert keeps the queue sorted and within its capacity,
\* and never leaves an entry that has not been expanded behind the cursor.
THEOREM InsertKeepsInv ==
  ASSUME NEW q, QueueInv(q), NEW nbr \in [id : Int, dist : Nat \cup {NaN}]
  PROVE  QueueInv(Insert(q, nbr))
<1> DEFINE d == nbr.dist
           i == LowerBound(q, d)
           m == Len(Kept(q))
           r == Inserted(q, nbr)
<1>1. CASE d = NaN \/ (IsFull(q) /\ q.items[Size(q)].dist < d)
  BY <1>1, InsertCases, Zenon
<1>2. CASE ~(d = NaN \/ (IsFull(q) /\ q.items[Size(q)].dist < d))
  <2>0. ~(nbr.dist = NaN \/ (IsFull(q) /\ q.items[Size(q)].dist < nbr.dist))
    BY <1>2, Zenon
  <2>1. d \in Nat /\ NewEntry(nbr) \in Entry /\ NewEntry(nbr).dist = d
    BY <2>0, InsertedFacts, Zenon
  <2>2. /\ Kept(q) \in Seq(Entry) /\ m \in Nat /\ m <= Size(q)
        /\ m + 1 <= GrownCapacity(q) /\ GrownCapacity(q) \in Nat \ {0}
        /\ i \in 1 .. m + 1
        /\ \A j \in 1 .. m : Kept(q)[j] = q.items[j]
    BY <2>0, InsertedFacts
  <2>3. /\ r.items \in Seq(Entry) /\ Len(r.items) = m + 1
        /\ \A j \in 1 .. m + 1 :
             r.items[j] = IF j < i THEN Kept(q)[j] ELSE IF j = i THEN NewEntry(nbr) ELSE Kept(q)[j - 1]
    BY <2>0, InsertedFacts, ZenonT(30)
  <2>4. r.capacity = GrownCapacity(q) /\ r.cursor = Least(q.cursor, i - 1) /\ r.auto = q.auto /\ r.l = q.l
    BY <2>0, InsertedFacts, Zenon
  <2>5. q.cursor \in Nat /\ q.cursor \in 0 .. Size(q) /\ Size(q) \in Nat
        /\ \A j \in 1 .. q.cursor : q.items[j].visited
    BY DEF QueueInv, PassedAreVisited, Queue, Size
  <2>6. r.cursor \in Nat /\ r.cursor <= i - 1 /\ r.cursor <= q.cursor
    BY <2>2, <2>4, <2>5 DEF Least
  <2>7. r \in Queue
    BY <2>2, <2>3, <2>4, <2>6, Zenon DEF QueueInv, Queue, Inserted
  <2>8. WithinCapacity(r)
    BY <2>2, <2>3, <2>4, Zenon DEF WithinCapacity, Size
  <2>9. PassedAreVisited(r)
    <3>1. r.cursor \in 0 .. Size(r)
      BY <2>2, <2>3, <2>6 DEF Size
    <3>2. ASSUME NEW j \in 1 .. r.cursor PROVE r.items[j].visited
      <4>1. j \in 1 .. m /\ j < i /\ j \in 1 .. q.cursor /\ j \in 1 .. m + 1
        BY <2>2, <2>5, <2>6, <3>2
      <4>2. r.items[j] = q.items[j]
        BY <2>2, <2>3, <4>1, Zenon
      <4> QED BY <2>5, <4>1, <4>2, Zenon
    <3> QED BY <3>1, <3>2, Zenon DEF PassedAreVisited
  <2>10. Sorted(r)
    <3>1. /\ \A j \in 1 .. i - 1 : q.items[j].dist < d
          /\ \A j \in i .. Size(q) : q.items[j].dist >= d
          /\ \A j \in 1 .. Size(q) : q.items[j].dist \in Nat
          /\ \A j, k \in 1 .. Size(q) : j < k => q.items[j].dist <= q.items[k].dist
      <4>1. q.items \in Seq(Entry)
        BY Zenon DEF QueueInv, Queue
      <4>2. \A j \in 1 .. Size(q) : q.items[j] \in Entry
        BY <4>1 DEF Size
      <4>3. \A j \in 1 .. Size(q) : q.items[j].dist \in Nat
        BY <4>2, Zenon DEF Entry
      <4> QED BY <2>1, <4>3, LowerBoundFacts, Zenon DEF QueueInv, Sorted
    <3> DEFINE D(j) == IF j < i THEN q.items[j].dist ELSE IF j = i THEN d ELSE q.items[j - 1].dist
    <3>2. \A j \in 1 .. m + 1 : r.items[j].dist = D(j)
      <4> SUFFICES ASSUME NEW j \in 1 .. m + 1 PROVE r.items[j].dist = D(j)
        BY Zenon
      <4> HIDE DEF d, i, m, r
      <4>1. CASE j < i
        <5>1. j \in 1 .. m /\ r.items[j] = Kept(q)[j]
          BY <2>2, <2>3, <4>1
        <5> QED BY <2>2, <4>1, <5>1, Zenon
      <4>2. CASE j = i
        BY <2>1, <2>3, <4>2
      <4>3. CASE j > i
        <5>1. j - 1 \in 1 .. m /\ ~(j < i) /\ j # i /\ r.items[j] = Kept(q)[j - 1]
          BY <2>2, <2>3, <4>3
        <5> QED BY <2>2, <5>1, Zenon
      <4> QED BY <2>2, <4>1, <4>2, <4>3
    <3>3. \A j, k \in 1 .. m + 1 : j < k => D(j) <= D(k)
      <4> HIDE DEF d, i, m, r
      <4> SUFFICES ASSUME NEW j \in 1 .. m + 1, NEW k \in 1 .. m + 1, j < k
                   PROVE  D(j) <= D(k)
        BY Zenon
      <4>1. CASE k < i
        <5>1. j \in 1 .. Size(q) /\ k \in 1 .. Size(q) /\ D(j) = q.items[j].dist /\ D(k) = q.items[k].dist
          BY <2>2, <2>5, <4>1
        <5> HIDE DEF D
        <5> QED BY <3>1, <5>1, Zenon
      <4>2. CASE k = i
        BY <2>1, <2>2, <2>5, <3>1, <4>2
      <4>3. CASE k > i /\ j < i
        <5>1. j \in 1 .. i - 1 /\ k - 1 \in i .. Size(q) /\ j \in 1 .. Size(q) /\ k - 1 \in 1 .. Size(q)
          BY <2>2, <2>5, <4>3
        <5>2. D(j) = q.items[j].dist /\ D(k) = q.items[k - 1].dist
          BY <2>2, <4>3
        <5>3. q.items[j].dist < d /\ q.items[k - 1].dist >= d
          BY <3>1, <5>1, Zenon
        <5>4. q.items[j].dist \in Nat /\ q.items[k - 1].dist \in Nat
          BY <3>1, <5>1, Zenon
        <5> HIDE DEF D
        <5> QED BY <2>1, <5>2, <5>3, <5>4
      <4>4. CASE k > i /\ j = i
        BY <2>1, <2>2, <2>5, <3>1, <4>4
      <4>5. CASE k > i /\ j > i
        <5>1. j - 1 \in 1 .. Size(q) /\ k - 1 \in 1 .. Size(q) /\ j - 1 < k - 1
          BY <2>2, <2>5, <4>5
        <5>2. D(j) = q.items[j - 1].dist /\ D(k) = q.items[k - 1].dist
          BY <2>2, <4>5
        <5> HIDE DEF D
        <5> QED BY <3>1, <5>1, <5>2, Zenon
      <4> QED BY <2>2, <4>1, <4>2, <4>3, <4>4, <4>5
    <3> HIDE DEF D, r, m, i, d
    <3>4. \A j, k \in 1 .. Len(r.items) : j < k => r.items[j].dist <= r.items[k].dist
      BY <2>2, <2>3, <3>2, <3>3
    <3> QED BY <3>4, Zenon DEF Sorted, Size
  <2> QED BY <1>2, <2>7, <2>8, <2>9, <2>10, InsertCases, Zenon DEF QueueInv
<1> QED BY <1>1, <1>2, Zenon

\* insert leaves the cursor on an entry that has not been expanded, if it is on one:
\* with InsertKeepsInv, on the closest of them.
THEOREM InsertKeepsCursorOnClosest ==
  ASSUME NEW q, QueueInv(q), CursorUnvisited(q), NEW nbr \in [id : Int, dist : Nat \cup {NaN}]
  PROVE  CursorUnvisited(Insert(q, nbr))
<1> DEFINE i == LowerBound(q, nbr.dist)
           m == Len(Kept(q))
           r == Inserted(q, nbr)
<1>1. CASE nbr.dist = NaN \/ (IsFull(q) /\ q.items[Size(q)].dist < nbr.dist)
  BY <1>1, InsertCases, Zenon
<1>2. CASE ~(nbr.dist = NaN \/ (IsFull(q) /\ q.items[Size(q)].dist < nbr.dist))
  <2>1. /\ m \in Nat /\ m <= Size(q) /\ i \in 1 .. m + 1
        /\ \A j \in 1 .. m : Kept(q)[j] = q.items[j]
        /\ Len(r.items) = m + 1 /\ r.cursor = Least(q.cursor, i - 1)
    BY <1>2, InsertedFacts
  <2>2. \A j \in 1 .. m + 1 :
          r.items[j] = IF j < i THEN Kept(q)[j] ELSE IF j = i THEN NewEntry(nbr) ELSE Kept(q)[j - 1]
    BY <1>2, InsertedFacts, ZenonT(30)
  <2>3. q.cursor \in Nat /\ Size(q) \in Nat /\ ~NewEntry(nbr).visited
    BY DEF QueueInv, Queue, Size, NewEntry
  <2> HIDE DEF i, m, r
  <2>4. CursorUnvisited(r)
    <3>1. CASE q.cursor >= i - 1
      <4>1. r.cursor + 1 = i /\ i \in 1 .. m + 1
        BY <2>1, <2>3, <3>1 DEF Least
      <4>2. r.items[r.cursor + 1] = NewEntry(nbr)
        BY <2>2, <4>1
      <4> QED BY <2>3, <4>2, Zenon DEF CursorUnvisited
    <3>2. CASE q.cursor < i - 1
      <4>1. r.cursor = q.cursor /\ q.cursor + 1 < i /\ q.cursor + 1 \in 1 .. m /\ q.cursor < Size(q)
        BY <2>1, <2>3, <3>2 DEF Least
      <4>2. r.items[r.cursor + 1] = q.items[q.cursor + 1]
        BY <2>1, <2>2, <4>1
      <4> QED BY <4>1, <4>2, Zenon DEF CursorUnvisited
    <3> QED BY <2>1, <2>3, <3>1, <3>2
  <2> QED BY <1>2, <2>4, InsertCases, Zenon DEF r
<1> QED BY <1>1, <1>2, Zenon

\* closest_notvisited keeps the queue sorted and within its capacity, every entry
\* that the cursor has passed is one it has handed out, and the cursor is on the
\* closest entry that it has not.
THEOREM VisitClosestKeepsInv ==
  ASSUME NEW q, QueueInv(q), HasNotVisitedNode(q)
  PROVE  QueueInv(VisitClosest(q)) /\ CursorUnvisited(VisitClosest(q))
<1> DEFINE n == Size(q)
           c0 == q.cursor
           marked == [q.items EXCEPT ![c0 + 1].visited = TRUE]
           P(c) == /\ \A j \in c0 + 2 .. c : marked[j].visited
                   /\ c < n => ~marked[c + 1].visited
           next == CHOOSE c \in c0 + 1 .. n : P(c)
           r == [q EXCEPT !.items = marked, !.cursor = next]
<1>1. /\ q.items \in Seq(Entry) /\ n \in Nat /\ n = Len(q.items) /\ c0 \in Nat
      /\ q.capacity \in Nat \ {0} /\ q.l \in Nat
      /\ \A j \in 1 .. c0 : q.items[j].visited
  BY DEF QueueInv, Queue, Size, PassedAreVisited
<1>2. c0 < n /\ c0 + 1 \in 1 .. n
  BY <1>1 DEF HasNotVisitedNode, Least
<1>3. \A j \in 1 .. n : q.items[j] \in Entry
  BY <1>1
<1>4. /\ marked \in Seq(Entry) /\ Len(marked) = n
      /\ marked[c0 + 1].visited
      /\ \A j \in 1 .. n : j # c0 + 1 => marked[j] = q.items[j]
      /\ \A j \in 1 .. n : marked[j].dist = q.items[j].dist /\ marked[j].visited \in BOOLEAN
  <2>1. [q.items[c0 + 1] EXCEPT !.visited = TRUE] \in Entry
    BY <1>2, <1>3, Zenon DEF Entry
  <2>2. /\ marked \in Seq(Entry) /\ Len(marked) = n
        /\ marked[c0 + 1] = [q.items[c0 + 1] EXCEPT !.visited = TRUE]
        /\ \A j \in 1 .. n : j # c0 + 1 => marked[j] = q.items[j]
    BY <1>1, <1>2, <2>1
  <2> HIDE DEF marked, n, c0
  <2>3. marked[c0 + 1].visited /\ marked[c0 + 1].dist = q.items[c0 + 1].dist
    BY <1>2, <1>3, <2>2, Zenon DEF Entry
  <2>4. ASSUME NEW j \in 1 .. n
        PROVE  marked[j].dist = q.items[j].dist /\ marked[j].visited \in BOOLEAN
    <3>1. marked[j] \in Entry
      BY <2>2
    <3>2. marked[j].visited \in BOOLEAN
      BY <3>1, Zenon DEF Entry
    <3>3. marked[j].dist = q.items[j].dist
      BY <2>2, <2>3, Zenon
    <3> QED BY <3>2, <3>3, Zenon
  <2> QED BY <2>2, <2>3, <2>4, Zenon
<1> HIDE DEF marked
<1>5. next \in c0 + 1 .. n /\ P(next)
  <2> DEFINE T == {c \in c0 + 1 .. n : c < n => ~marked[c + 1].visited}
  <2>1. T \in SUBSET Nat /\ n \in T
    BY <1>1, <1>2
  <2>2. PICK m \in T : \A k \in T : m <= k
    BY <2>1, LeastExists, Zenon
  <2>3. m \in c0 + 1 .. n /\ (m < n => ~marked[m + 1].visited)
    BY <2>2, Zenon
  <2>4. ASSUME NEW j \in c0 + 2 .. m PROVE marked[j].visited
    <3>1. j - 1 \in c0 + 1 .. n /\ j - 1 < n /\ j - 1 < m /\ (j - 1) + 1 = j /\ m \in Nat
      BY <1>1, <2>3
    <3>2. j - 1 \notin T
      BY <2>2, <3>1
    <3> QED BY <3>1, <3>2, Zenon
  <2>5. P(m)
    BY <2>3, <2>4, Zenon
  <2> QED BY <2>3, <2>5, Zenon
<1> HIDE DEF next
<1>6. VisitClosest(q) = r
  BY Zenon DEF VisitClosest, next, marked
<1>7. r.items = marked /\ r.cursor = next /\ r.capacity = q.capacity /\ Size(r) = n
  BY <1>4, Zenon DEF QueueInv, Queue, Size
<1>8. r \in Queue
  <2>1. next \in Nat /\ marked \in Seq(Entry) /\ q \in Queue
    BY <1>1, <1>4, <1>5 DEF QueueInv
  <2> QED BY <2>1, Zenon DEF Queue
<1> HIDE DEF r
<1>9. Sorted(r)
  BY <1>4, <1>7, Zenon DEF QueueInv, Sorted
<1>10. WithinCapacity(r)
  BY <1>7, Zenon DEF QueueInv, WithinCapacity
<1>11. PassedAreVisited(r)
  <2>1. r.cursor \in 0 .. Size(r)
    BY <1>1, <1>5, <1>7
  <2>2. ASSUME NEW j \in 1 .. next PROVE marked[j].visited
    <3>1. CASE j <= c0
      <4>1. j \in 1 .. c0 /\ j \in 1 .. n /\ j # c0 + 1
        BY <1>1, <1>2, <1>5, <3>1
      <4>2. marked[j] = q.items[j] /\ q.items[j].visited
        BY <1>1, <1>4, <4>1, Zenon
      <4> QED BY <4>2, Zenon
    <3>2. CASE j = c0 + 1
      BY <1>4, <3>2, Zenon
    <3>3. CASE j > c0 + 1
      BY <1>1, <1>5, <3>3
    <3> QED BY <1>1, <1>5, <3>1, <3>2, <3>3
  <2> QED BY <1>7, <2>1, <2>2, Zenon DEF PassedAreVisited
<1>12. CursorUnvisited(r)
  BY <1>5, <1>7, Zenon DEF CursorUnvisited
<1> QED BY <1>6, <1>8, <1>9, <1>10, <1>11, <1>12, Zenon DEF QueueInv

\* insert loses nothing that is nearer than what it keeps: an entry of the queue,
\* and the new neighbour, is in the queue afterwards, unless the queue is full of
\* entries that are no further away.
THEOREM InsertKeepsNearest ==
  ASSUME NEW q, QueueInv(q), NEW nbr \in [id : Int, dist : Nat],
         NEW e \in {q.items[j] : j \in 1 .. Size(q)} \cup {NewEntry(nbr)}
  PROVE  LET r == Insert(q, nbr)
         IN  \/ \E k \in 1 .. Size(r) : r.items[k] = e
             \/ IsFull(r) /\ \A k \in 1 .. Size(r) : r.items[k].dist <= e.dist
<1> DEFINE d == nbr.dist
           i == LowerBound(q, d)
           m == Len(Kept(q))
           r == Insert(q, nbr)
<1>1. d \in Nat /\ nbr \in [id : Int, dist : Nat \cup {NaN}] /\ d # NaN /\ NewEntry(nbr).dist = d
      /\ NewEntry(nbr) \in Entry
  BY DEF NaN, NewEntry, Entry
<1>2. /\ q.items \in Seq(Entry) /\ Size(q) \in Nat /\ Size(q) = Len(q.items)
      /\ \A j \in 1 .. Size(q) : q.items[j].dist \in Nat
      /\ \A j, k \in 1 .. Size(q) : j < k => q.items[j].dist <= q.items[k].dist
  <2>1. q.items \in Seq(Entry) /\ Size(q) \in Nat /\ Size(q) = Len(q.items)
    BY DEF QueueInv, Queue, Size
  <2>2. \A j \in 1 .. Size(q) : q.items[j] \in Entry
    BY <2>1
  <2>3. \A j \in 1 .. Size(q) : q.items[j].dist \in Nat
    BY <2>2, Zenon DEF Entry
  <2> QED BY <2>1, <2>3, Zenon DEF QueueInv, Sorted
<1>3. CASE IsFull(q) /\ q.items[Size(q)].dist < d
  <2>1. r = q
    BY <1>3, InsertCases, Zenon
  <2>2. CASE e = NewEntry(nbr)
    <3>1. Size(q) >= 1
      BY <1>2, <1>3 DEF IsFull, QueueInv, Queue
    <3>2. \A k \in 1 .. Size(q) : q.items[k].dist <= q.items[Size(q)].dist
      BY <1>2, <3>1
    <3>3. \A k \in 1 .. Size(q) : q.items[k].dist <= d
      BY <1>1, <1>2, <1>3, <3>1, <3>2
    <3> QED BY <1>1, <1>3, <2>1, <2>2, <3>3, Zenon
  <2>3. CASE e # NewEntry(nbr)
    BY <2>1, <2>3, Zenon
  <2> QED BY <2>2, <2>3, Zenon
<1>4. CASE ~(IsFull(q) /\ q.items[Size(q)].dist < d)
  <2>1. r = Inserted(q, nbr)
    BY <1>1, <1>4, InsertCases, Zenon
  <2>2. QueueInv(r)
    BY <1>1, InsertKeepsInv, Zenon
  <2> HIDE DEF d
  <2>3. /\ Kept(q) \in Seq(Entry) /\ m <= Size(q) /\ i \in 1 .. m + 1
        /\ \A j \in 1 .. m : Kept(q)[j] = q.items[j]
        /\ m < Size(q) => IsFull(q) /\ m = Size(q) - 1
    BY <1>1, <1>4, KeptFacts, ZenonT(30)
  <2>4. m \in Nat
    BY <2>3
  <2>5. /\ Size(r) = m + 1
        /\ \A j \in 1 .. m + 1 :
             r.items[j] = IF j < i THEN Kept(q)[j] ELSE IF j = i THEN NewEntry(nbr) ELSE Kept(q)[j - 1]
    <3>1. r.items = Place(Kept(q), i, NewEntry(nbr))
      BY <2>1, Zenon DEF Inserted, QueueInv, Queue, d
    <3>2. Kept(q) \in Seq(Entry) /\ NewEntry(nbr) \in Entry /\ i \in 1 .. Len(Kept(q)) + 1
      BY <1>1, <2>3, Zenon
    <3> HIDE DEF i, r
    <3>3. Placed(r.items, Kept(q), i, NewEntry(nbr))
      BY <3>1, <3>2, PlaceFacts, Zenon
    <3> QED BY <3>3, Zenon DEF Placed, Size
  <2> HIDE DEF i, r, m
  <2>6. CASE e = NewEntry(nbr)
    <3>1. i \in 1 .. Size(r) /\ r.items[i] = e
      BY <2>3, <2>4, <2>5, <2>6
    <3> QED BY <3>1, Zenon DEF r
  <2>7. ASSUME NEW j \in 1 .. Size(q), e = q.items[j], j <= m
        PROVE  \E k \in 1 .. Size(r) : r.items[k] = e
    <3>1. CASE j < i
      <4>1. j \in 1 .. m + 1 /\ j \in 1 .. m
        BY <1>2, <2>4, <2>7
      <4> QED BY <2>3, <2>5, <2>7, <3>1, <4>1, Zenon
    <3>2. CASE j >= i
      <4>1. j + 1 \in 1 .. m + 1 /\ ~(j + 1 < i) /\ j + 1 # i /\ (j + 1) - 1 = j /\ j \in 1 .. m
        <5>1. i \in 1 .. m + 1
          BY <2>3, Zenon
        <5> QED BY <2>4, <2>7, <3>2, <5>1
      <4>2. r.items[j + 1] = Kept(q)[j]
        BY <2>5, <4>1
      <4> QED BY <2>3, <2>5, <2>7, <4>1, <4>2, Zenon
    <3> QED BY <2>3, <2>4, <3>1, <3>2
  <2>8. ASSUME NEW j \in 1 .. Size(q), e = q.items[j], j > m
        PROVE  IsFull(r) /\ \A k \in 1 .. Size(r) : r.items[k].dist <= e.dist
    <3>1. j = Size(q) /\ IsFull(q) /\ m = Size(q) - 1
      BY <1>2, <2>3, <2>4, <2>8
    <3>2. d <= e.dist
      BY <1>1, <1>2, <1>4, <2>8, <3>1 DEF d
    <3>3. \A k \in 1 .. m : Kept(q)[k].dist <= e.dist
      <4> SUFFICES ASSUME NEW k \in 1 .. m PROVE Kept(q)[k].dist <= e.dist
        BY Zenon
      <4>1. k \in 1 .. Size(q) /\ k < Size(q) /\ Size(q) \in 1 .. Size(q)
        BY <1>2, <2>4, <3>1
      <4>2. q.items[k].dist <= q.items[Size(q)].dist
        BY <1>2, <4>1, Zenon
      <4> QED BY <2>3, <2>8, <3>1, <4>2, Zenon
    <3>4. ASSUME NEW k \in 1 .. Size(r) PROVE r.items[k].dist <= e.dist
      <4>1. CASE k < i
        BY <2>3, <2>4, <2>5, <3>3, <4>1
      <4>2. CASE k = i
        BY <1>1, <2>5, <3>2, <4>2
      <4>3. CASE k > i
        <5>1. k - 1 \in 1 .. m /\ r.items[k] = Kept(q)[k - 1]
          BY <2>3, <2>4, <2>5, <4>3
        <5> QED BY <3>3, <5>1, Zenon
      <4> QED BY <2>3, <2>4, <2>5, <4>1, <4>2, <4>3
    <3>5. r.auto = q.auto /\ r.capacity = q.capacity
      BY <2>1, <3>1, Zenon DEF Inserted, QueueInv, Queue, GrownCapacity, IsFull
    <3>6. IsFull(r)
      BY <1>2, <2>5, <3>1, <3>5 DEF IsFull
    <3> QED BY <3>4, <3>6, Zenon
  <2>9. CASE e # NewEntry(nbr)
    <3>1. PICK j \in 1 .. Size(q) : e = q.items[j]
      BY <2>9, Zenon
    <3>2. j <= m \/ j > m
      BY <1>2, <2>4
    <3>3. \/ \E k \in 1 .. Size(r) : r.items[k] = e
          \/ IsFull(r) /\ \A k \in 1 .. Size(r) : r.items[k].dist <= e.dist
      BY <2>7, <2>8, <3>1, <3>2, Zenon
    <3> QED BY <3>3, Zenon DEF r
  <2> QED BY <2>6, <2>9, Zenon
<1> QED BY <1>3, <1>4, Zenon
----------------------------------------------------------------------------
(* The ranges of a runbook. *)

\* Ranges that are not empty, as a runbook has them.
Ranges == {r \in [start : Nat, end : Nat] : r.start < r.end}

\* Ranges in increasing order that do not overlap, and such ranges with gaps between.
Ordered(a) == a \in Seq(Ranges) /\ \A i, j \in 1 .. Len(a) : i < j => a[i].end <= a[j].start
Apart(a) == a \in Seq(Ranges) /\ \A i, j \in 1 .. Len(a) : i < j => a[i].end < a[j].start

\* The tags of some ranges, and of the first n of them.
TagsTo(a, n) == UNION {Members(a[i]) : i \in 1 .. n}
TagsOf(a) == TagsTo(a, Len(a))

\* A tag belongs to a list of ranges when it is in one of them.
LEMMA TagsMember ==
  ASSUME NEW a, NEW n \in Nat, NEW x
  PROVE  x \in TagsTo(a, n) <=> \E i \in 1 .. n : x \in Members(a[i])
BY Zenon DEF TagsTo

\* The ends of ranges as numbers.
LEMMA ApartFacts ==
  ASSUME NEW a, Apart(a)
  PROVE  /\ Len(a) \in Nat
         /\ \A k \in 1 .. Len(a) : a[k].start \in Nat /\ a[k].end \in Nat /\ a[k].start < a[k].end
         /\ \A j, k \in 1 .. Len(a) : j < k => a[j].end < a[k].start
BY DEF Apart, Ranges

\* Validate::find stops at the first range that is not wholly in front of the tags.
LEMMA FindFacts ==
  ASSUME NEW a, Apart(a), NEW r \in Ranges
  PROVE  /\ Find(a, r).at \in 1 .. Len(a) + 1
         /\ \A k \in 1 .. Find(a, r).at - 1 : a[k].end <= r.start
         /\ Find(a, r).in => Find(a, r).at <= Len(a) /\ Overlaps(r, a[Find(a, r).at])
         /\ ~Find(a, r).in => \A k \in Find(a, r).at .. Len(a) : r.end <= a[k].start
<1> DEFINE hits == {i \in 1 .. Len(a) : Overlaps(r, a[i]) \/ a[i].start >= r.end}
           m == CHOOSE j \in hits : \A k \in hits : j <= k
<1>0. /\ Len(a) \in Nat
      /\ \A k \in 1 .. Len(a) : a[k].start \in Nat /\ a[k].end \in Nat /\ a[k].start < a[k].end
      /\ r.start \in Nat /\ r.end \in Nat /\ r.start < r.end
  BY DEF Apart, Ranges
<1>1. CASE hits = {}
  <2>1. Find(a, r) = [in |-> FALSE, at |-> Len(a) + 1]
    BY <1>1, Zenon DEF Find
  <2>2. \A k \in 1 .. Len(a) : a[k].end <= r.start
    BY <1>0, <1>1 DEF Overlaps, Covers, Members
  <2> QED
    BY <1>0, <2>1, <2>2
<1>2. CASE hits # {}
  <2>1. m \in hits /\ \A k \in hits : m <= k
    <3>1. hits \in SUBSET Nat
      BY <1>0
    <3>2. \E j \in hits : \A k \in hits : j <= k
      BY <1>2, <3>1, LeastExists, Zenon
    <3> QED
      BY <3>2, Zenon
  <2>2. Find(a, r) = [in |-> Overlaps(r, a[m]), at |-> m]
    BY <1>2, Zenon DEF Find
  <2>m. m \in 1 .. Len(a) /\ (Overlaps(r, a[m]) \/ a[m].start >= r.end)
    BY <2>1, Zenon
  <2> HIDE DEF m
  <2>3. \A k \in 1 .. Len(a) : k < m => k \notin hits
    <3> HIDE DEF hits
    <3> QED
      BY <1>0, <2>m, <2>1
  <2>4. ASSUME NEW k \in 1 .. m - 1 PROVE a[k].end <= r.start
    <3>1. k \in 1 .. Len(a) /\ k < m
      BY <1>0, <2>m
    <3>2. k \notin hits
      BY <2>3, <3>1, Zenon
    <3>3. ~Overlaps(r, a[k]) /\ ~(a[k].start >= r.end)
      BY <3>1, <3>2, Zenon
    <3> QED
      BY <1>0, <3>1, <3>3 DEF Overlaps, Covers, Members
  <2>5. ~Overlaps(r, a[m]) => \A k \in m .. Len(a) : r.end <= a[k].start
    BY <1>0, <2>m DEF Apart
  <2> QED
    BY <1>0, <2>m, <2>2, <2>4, <2>5
<1> QED
  BY <1>1, <1>2, Zenon

\* A stage is accepted exactly when its tags are all new, or all live.
LEMMA AcceptsExactly ==
  ASSUME NEW v, Apart(v.active), NEW r \in Ranges
  PROVE  /\ CanInsert(v, r) <=> (Members(r) \cap TagsOf(v.active) = {})
         /\ CanReplace(v, r) <=> (Members(r) \subseteq TagsOf(v.active))
<1> DEFINE a == v.active
           at == Find(a, r).at
<1>0. /\ Len(a) \in Nat
      /\ \A k \in 1 .. Len(a) : a[k].start \in Nat /\ a[k].end \in Nat /\ a[k].start < a[k].end
      /\ \A j, k \in 1 .. Len(a) : j < k => a[j].end < a[k].start
      /\ r.start \in Nat /\ r.end \in Nat /\ r.start < r.end
  BY ApartFacts, Zenon DEF Ranges
<1>1. /\ at \in 1 .. Len(a) + 1
      /\ \A k \in 1 .. at - 1 : a[k].end <= r.start
      /\ Find(a, r).in => at <= Len(a) /\ Overlaps(r, a[at])
      /\ ~Find(a, r).in => \A k \in at .. Len(a) : r.end <= a[k].start
  BY FindFacts, Zenon
<1>t. \A x : x \in TagsOf(a) <=> \E i \in 1 .. Len(a) : x \in Members(a[i])
  BY <1>0, TagsMember, Zenon DEF TagsOf
<1> HIDE DEF a, at
<1>2. ASSUME ~Find(a, r).in PROVE Members(r) \cap TagsOf(a) = {}
  <2> SUFFICES ASSUME NEW x \in Members(r), NEW i \in 1 .. Len(a), x \in Members(a[i]) PROVE FALSE
    BY <1>t, Zenon
  <2> QED
    BY <1>0, <1>1, <1>2 DEF Members
<1>3. ASSUME Find(a, r).in PROVE Members(r) \cap TagsOf(a) # {}
  <2>1. at \in 1 .. Len(a) /\ Overlaps(r, a[at])
    BY <1>0, <1>1, <1>3
  <2>2. \/ a[at].start \in Members(r) /\ a[at].start \in Members(a[at])
        \/ r.start \in Members(r) /\ r.start \in Members(a[at])
    <3>1. a[at].start \in Nat /\ a[at].end \in Nat /\ a[at].start < a[at].end
      BY <1>0, <2>1, Zenon
    <3> QED
      BY <1>0, <2>1, <3>1 DEF Overlaps, Covers, Members
  <2> QED
    BY <1>t, <2>1, <2>2, Zenon
<1>4. ASSUME Find(a, r).in, StrictlyContains(a[at], r) PROVE Members(r) \subseteq TagsOf(a)
  <2>1. Members(r) \subseteq Members(a[at])
    BY <1>0, <1>1, <1>4 DEF StrictlyContains, Members
  <2> QED
    BY <1>1, <1>4, <1>t, <2>1
<1>5. ASSUME Members(r) \subseteq TagsOf(a) PROVE Find(a, r).in /\ StrictlyContains(a[at], r)
  <2>1. r.start \in Members(r) /\ Members(r) # {}
    BY <1>0 DEF Members
  <2>2. Find(a, r).in
    BY <1>2, <1>5, <2>1, Zenon
  <2>3. PICK k \in 1 .. Len(a) : r.start \in Members(a[k])
    BY <1>5, <1>t, <2>1, Zenon
  <2>4. r.end <= a[k].end
    <3> SUFFICES ASSUME a[k].end < r.end PROVE FALSE
      BY <1>0
    <3>1. a[k].end \in Members(r)
      BY <1>0, <2>3 DEF Members
    <3>2. PICK j \in 1 .. Len(a) : a[k].end \in Members(a[j])
      BY <1>5, <1>t, <3>1, Zenon
    <3>3. a[k].start \in Nat /\ a[j].start <= a[k].end /\ a[k].end < a[j].end
          /\ a[k].start < a[k].end /\ a[j].end \in Nat /\ a[j].start \in Nat /\ a[k].end \in Nat
      BY <1>0, <2>3, <3>2 DEF Members
    <3>4. /\ j < k => a[j].end < a[k].start
          /\ k < j => a[k].end < a[j].start
      BY <1>0, Zenon
    <3> QED
      BY <3>3, <3>4
  <2>5. at = k
    <3>1. at <= Len(a) /\ Overlaps(r, a[at]) /\ at \in 1 .. Len(a)
      BY <1>0, <1>1, <2>2
    <3>2. ~(k < at)
      BY <1>0, <1>1, <2>3 DEF Members
    <3>3. ~(at < k)
      <4> SUFFICES ASSUME at < k PROVE FALSE
        BY Zenon
      <4>1. /\ a[at].end < a[k].start /\ a[at].start < a[at].end
            /\ a[at].start \in Nat /\ a[at].end \in Nat /\ a[k].start \in Nat
        BY <1>0, <3>1, Zenon
      <4>2. a[k].start <= r.start /\ r.start \in Nat
        BY <1>0, <2>3 DEF Members
      <4> QED
        BY <3>1, <4>1, <4>2 DEF Members, Overlaps, Covers
    <3> QED
      BY <1>0, <3>1, <3>2, <3>3
  <2> QED
    BY <1>0, <2>2, <2>3, <2>4, <2>5 DEF StrictlyContains, Members
<1> QED
  BY <1>2, <1>3, <1>4, <1>5, Zenon DEF CanInsert, CanReplace, a, at

\* What g makes of the elements of s, one after the other, from b on; h[i] is what it
\* has made of the first i.
Foldable(D, E, g, b, n, s) ==
  g \in [D -> [E -> D]] /\ b \in D /\ n \in Nat /\ \A i \in 1 .. n : s[i] \in E
IsFold(h, D, g, b, n, s) ==
  h \in [0 .. n -> D] /\ h[0] = b /\ \A i \in 1 .. n : h[i] = g[h[i - 1]][s[i]]

\* A function given by recursion exists.
LEMMA FoldExists ==
  ASSUME NEW D, NEW E, NEW g, NEW b, NEW n, NEW s, Foldable(D, E, g, b, n, s)
  PROVE  \E h : IsFold(h, D, g, b, n, s)
<1> USE DEF Foldable, IsFold
<1> DEFINE Good(m, h) == h[0] = b /\ \A i \in 1 .. m : h[i] = g[h[i - 1]][s[i]]
           T == {m \in 0 .. n : ~\E h \in [0 .. m -> D] : Good(m, h)}
<1> SUFFICES ASSUME ~\E h \in [0 .. n -> D] : Good(n, h) PROVE FALSE
  BY Zenon
<1>1. T # {}
  <2>1. n \in T
    OBVIOUS
  <2> QED
    BY <2>1, Zenon
<1>2. PICK m \in T : \A k \in T : m <= k
  <2>1. T \in SUBSET Nat
    OBVIOUS
  <2> HIDE DEF T
  <2> QED
    BY <1>1, <2>1, LeastExists, Zenon
<1>3. m \in 0 .. n /\ ~\E h \in [0 .. m -> D] : Good(m, h)
  BY <1>2, Zenon
<1>4. m # 0
  <2> SUFFICES ASSUME m = 0 PROVE FALSE
    BY Zenon
  <2> DEFINE h == [i \in 0 .. 0 |-> b]
  <2>1. h \in [0 .. 0 -> D] /\ Good(0, h)
    OBVIOUS
  <2> QED
    BY <1>3, <2>1, Zenon
<1>5. m - 1 \in 0 .. n /\ m - 1 \notin T
  <2> HIDE DEF T, Good
  <2>1. m - 1 \in 0 .. n /\ ~(m <= m - 1)
    BY <1>3, <1>4
  <2> QED
    BY <1>2, <2>1, Zenon
<1>6. PICK h \in [0 .. m - 1 -> D] : Good(m - 1, h)
  BY <1>5, Zenon
<1> DEFINE h2 == [i \in 0 .. m |-> IF i = m THEN g[h[m - 1]][s[m]] ELSE h[i]]
<1>7. s[m] \in E /\ h[m - 1] \in D
  BY <1>3, <1>4, <1>6
<1>8. h2 \in [0 .. m -> D]
  BY <1>3, <1>4, <1>6, <1>7
<1>9. /\ \A i \in 0 .. m - 1 : h2[i] = h[i]
      /\ h2[m] = g[h[m - 1]][s[m]] /\ m - 1 \in 0 .. m - 1
  BY <1>3, <1>4
<1> HIDE DEF h2
<1>10. h2[0] = b
  BY <1>3, <1>4, <1>6, <1>9
<1>11. ASSUME NEW i \in 1 .. m PROVE h2[i] = g[h2[i - 1]][s[i]]
  <2>1. CASE i = m
    BY <1>9, <2>1, Zenon
  <2>2. CASE i # m
    <3>1. i \in 0 .. m - 1 /\ i - 1 \in 0 .. m - 1 /\ i \in 1 .. m - 1
      BY <1>3, <1>4, <2>2
    <3> QED
      BY <1>6, <1>9, <3>1, Zenon
  <2> QED
    BY <2>1, <2>2, Zenon
<1> QED
  BY <1>3, <1>8, <1>10, <1>11, Zenon

\* One element of a sequence changed.
LEMMA ReplaceFacts ==
  ASSUME NEW S, NEW s \in Seq(S), NEW i \in 1 .. Len(s), NEW e \in S
  PROVE  /\ [s EXCEPT ![i] = e] \in Seq(S) /\ Len([s EXCEPT ![i] = e]) = Len(s)
         /\ [s EXCEPT ![i] = e][i] = e
         /\ \A k \in 1 .. Len(s) : k # i => [s EXCEPT ![i] = e][k] = s[k]
OBVIOUS

\* What an iteration of compact makes.
LEMMA MergeType ==
  ASSUME NEW d \in Seq(Ranges), NEW r \in Ranges
  PROVE  Merge(d, r) \in Seq(Ranges)
<1> DEFINE n == Len(d)
<1>1. CASE n > 0 /\ d[n].end = r.start
  <2>1. n \in 1 .. Len(d) /\ d[n] \in Ranges
    BY <1>1
  <2>2. Interval(d[n].start, r.end) \in Ranges
    BY <1>1, <2>1 DEF Interval, Ranges
  <2>3. [d EXCEPT ![n] = Interval(d[n].start, r.end)] \in Seq(Ranges)
    BY <2>1, <2>2, ReplaceFacts, Zenon
  <2> QED
    BY <1>1, <2>3, Zenon DEF Merge
<1>2. CASE ~(n > 0 /\ d[n].end = r.start)
  BY <1>2 DEF Merge
<1> QED
  BY <1>1, <1>2, Zenon

\* The loop of compact, as a function of how far it has come.
LEMMA CompactLoop ==
  ASSUME NEW a \in Seq(Ranges)
  PROVE  \E done \in [0 .. Len(a) -> Seq(Ranges)] :
           /\ done[0] = <<>>
           /\ \A i \in 1 .. Len(a) : done[i] = Merge(done[i - 1], a[i])
           /\ Compact(a) = done[Len(a)]
<1> DEFINE body(d) == [i \in 0 .. Len(a) |-> IF i = 0 THEN <<>> ELSE Merge(d[i - 1], a[i])]
           loop == CHOOSE d : d = body(d)
           g == [d \in Seq(Ranges) |-> [r \in Ranges |-> Merge(d, r)]]
<1>1. Compact(a) = loop[Len(a)]
  BY Zenon DEF Compact
<1>2. g \in [Seq(Ranges) -> [Ranges -> Seq(Ranges)]]
  BY MergeType, Zenon
<1>3. <<>> \in Seq(Ranges) /\ Len(a) \in Nat /\ \A i \in 1 .. Len(a) : a[i] \in Ranges
  OBVIOUS
<1>4. PICK h \in [0 .. Len(a) -> Seq(Ranges)] :
        h[0] = <<>> /\ \A i \in 1 .. Len(a) : h[i] = g[h[i - 1]][a[i]]
  <2>1. Foldable(Seq(Ranges), Ranges, g, <<>>, Len(a), a)
    BY <1>2, <1>3, Zenon DEF Foldable
  <2>2. \E h : IsFold(h, Seq(Ranges), g, <<>>, Len(a), a)
    BY <2>1, FoldExists, Zenon
  <2> QED
    BY <2>2, Zenon DEF IsFold
<1>5. \A i \in 1 .. Len(a) : h[i] = Merge(h[i - 1], a[i])
  <2> SUFFICES ASSUME NEW i \in 1 .. Len(a) PROVE h[i] = Merge(h[i - 1], a[i])
    BY Zenon
  <2>1. h[i - 1] \in Seq(Ranges) /\ a[i] \in Ranges
    <3>1. i - 1 \in 0 .. Len(a)
      BY <1>3
    <3> QED
      BY <1>3, <1>4, <3>1, Zenon
  <2> QED
    BY <1>4, <2>1, Zenon
<1>6. h = body(h)
  BY <1>3, <1>4, <1>5
<1>7. loop = body(loop)
  BY <1>6, Zenon
<1> HIDE DEF loop, g
<1>8. \A i \in 0 .. Len(a) : loop[i] = IF i = 0 THEN <<>> ELSE Merge(loop[i - 1], a[i])
  BY <1>7, Zenon
<1>9. \A i \in 0 .. Len(a) : loop[i] = h[i]
  <2> DEFINE T == {i \in 0 .. Len(a) : loop[i] # h[i]}
  <2> SUFFICES ASSUME T # {} PROVE FALSE
    BY Zenon
  <2>1. PICK m \in T : \A k \in T : m <= k
    <3>1. T \in SUBSET Nat
      OBVIOUS
    <3> HIDE DEF T
    <3> QED
      BY <3>1, LeastExists, Zenon
  <2>2. m \in 0 .. Len(a) /\ loop[m] # h[m]
    BY <2>1, Zenon
  <2>3. m # 0
    BY <1>4, <1>8, <2>2, Zenon
  <2>4. m - 1 \in 0 .. Len(a) /\ m \in 1 .. Len(a) /\ m - 1 \notin T
    BY <2>1, <2>2, <2>3
  <2>5. loop[m - 1] = h[m - 1]
    BY <2>4, Zenon
  <2> QED
    BY <1>5, <1>8, <2>2, <2>3, <2>4, <2>5, Zenon
<1>10. Compact(a) = h[Len(a)]
  BY <1>1, <1>3, <1>9
<1> QED
  BY <1>4, <1>5, <1>10, Zenon

\* Induction up to n.
Inductive(n, T) == n \in Nat /\ 0 \in T /\ \A i \in 1 .. n : i - 1 \in T => i \in T

LEMMA UpTo ==
  ASSUME NEW n, NEW T, Inductive(n, T)
  PROVE  \A i \in 0 .. n : i \in T
<1> USE DEF Inductive
<1> DEFINE U == {i \in 0 .. n : i \notin T}
<1> SUFFICES ASSUME U # {} PROVE FALSE
  BY Zenon
<1>1. PICK m \in U : \A k \in U : m <= k
  <2>1. U \in SUBSET Nat
    OBVIOUS
  <2> HIDE DEF U
  <2> QED
    BY <2>1, LeastExists, Zenon
<1>2. m \in 0 .. n /\ m \notin T
  BY <1>1, Zenon
<1>3. m \in 1 .. n /\ m - 1 \in 0 .. n /\ m - 1 \notin U
  <2> HIDE DEF U
  <2>1. m \in 1 .. n /\ m - 1 \in 0 .. n /\ ~(m <= m - 1)
    BY <1>2
  <2> QED
    BY <1>1, <2>1, Zenon
<1> QED
  BY <1>2, <1>3, Zenon

\* What compact has made of the first i ranges.
Compacted(a, i, d) ==
  /\ Apart(d)
  /\ TagsOf(d) = TagsTo(a, i)
  /\ IF i = 0 THEN d = <<>> ELSE Len(d) > 0 /\ d[Len(d)].end = a[i].end

\* Ordered ranges, pairwise.
LEMMA OrderedFacts ==
  ASSUME NEW a, Ordered(a)
  PROVE  /\ Len(a) \in Nat
         /\ \A k \in 1 .. Len(a) : a[k].start \in Nat /\ a[k].end \in Nat /\ a[k].start < a[k].end
         /\ \A j, k \in 1 .. Len(a) : j < k => a[j].end <= a[k].start
BY DEF Ordered, Ranges

\* One step of compact.
LEMMA MergeKeeps ==
  ASSUME NEW a, Ordered(a), NEW i \in 1 .. Len(a), NEW d, Compacted(a, i - 1, d)
  PROVE  Compacted(a, i, Merge(d, a[i]))
<1> DEFINE c == Merge(d, a[i])
           n == Len(d)
<1>a. /\ Len(a) \in Nat /\ a[i] \in Ranges
      /\ a[i].start \in Nat /\ a[i].end \in Nat /\ a[i].start < a[i].end
      /\ i # 1 => i - 1 \in 1 .. Len(a) /\ a[i - 1].end <= a[i].start
  BY OrderedFacts DEF Ordered
<1>d. /\ d \in Seq(Ranges) /\ n \in Nat
      /\ \A k \in 1 .. n : d[k].start \in Nat /\ d[k].end \in Nat /\ d[k].start < d[k].end
      /\ \A j, k \in 1 .. n : j < k => d[j].end < d[k].start
  BY ApartFacts, Zenon DEF Compacted, Apart
<1>e. /\ i = 1 => d = <<>> /\ n = 0
      /\ i # 1 => n > 0 /\ d[n].end = a[i - 1].end
  BY <1>a, <1>d DEF Compacted
<1>t. TagsTo(a, i) = TagsOf(d) \cup Members(a[i])
  <2>1. TagsTo(a, i) = TagsTo(a, i - 1) \cup Members(a[i])
    <3>1. i - 1 \in Nat /\ i \in Nat /\ \A k : k \in 1 .. i <=> k \in 1 .. i - 1 \/ k = i
      BY <1>a
    <3> QED
      BY <3>1, Zenon DEF TagsTo
  <2> QED
    BY <2>1, Zenon DEF Compacted
<1> HIDE DEF n
<1>1. CASE n > 0 /\ d[n].end = a[i].start
  <2> DEFINE r == Interval(d[n].start, a[i].end)
  <2>0. n \in 1 .. n /\ d[n].start \in Nat /\ d[n].end \in Nat /\ d[n].start < d[n].end
    BY <1>1, <1>d
  <2>2. c = [d EXCEPT ![n] = r]
    BY <1>1, Zenon DEF Merge, n
  <2>3. r \in Ranges /\ r.start = d[n].start /\ r.end = a[i].end
    BY <1>1, <1>a, <2>0 DEF Interval, Ranges
  <2> HIDE DEF r
  <2>5. c \in Seq(Ranges) /\ Len(c) = n /\ c[n] = r /\ \A k \in 1 .. n - 1 : c[k] = d[k]
    <3>1. n \in 1 .. Len(d) /\ \A k \in 1 .. n - 1 : k \in 1 .. Len(d) /\ k # n
      BY <1>1, <1>d DEF n
    <3>2. /\ c \in Seq(Ranges) /\ Len(c) = Len(d) /\ c[n] = r
          /\ \A k \in 1 .. Len(d) : k # n => c[k] = d[k]
      BY <1>d, <2>2, <2>3, <3>1, ReplaceFacts
    <3> QED
      BY <3>1, <3>2, Zenon DEF n
  <2> HIDE DEF c
  <2>6. Apart(c)
    <3> SUFFICES ASSUME NEW j \in 1 .. n, NEW k \in 1 .. n, j < k PROVE c[j].end < c[k].start
      BY <2>5, Zenon DEF Apart
    <3>0. j \in 1 .. n - 1
      BY <1>d
    <3>1. c[j] = d[j] /\ d[j].end < d[k].start
      BY <1>d, <2>5, <3>0, Zenon
    <3>2. c[k].start = d[k].start
      <4>1. k = n \/ k \in 1 .. n - 1
        BY <1>d
      <4> QED
        BY <2>3, <2>5, <4>1, Zenon
    <3> QED
      BY <3>1, <3>2, Zenon
  <2>7. TagsOf(c) = TagsOf(d) \cup Members(a[i])
    <3>1. Members(r) = Members(d[n]) \cup Members(a[i])
      <4>1. \A x : x \in Members(r) <=> x \in Members(d[n]) \/ x \in Members(a[i])
        BY <1>1, <1>a, <2>0, <2>3 DEF Members
      <4> QED
        BY <4>1, Zenon
    <3>2. \A k : k \in 1 .. n <=> k \in 1 .. n - 1 \/ k = n
      BY <1>1, <1>d
    <3> QED
      BY <2>5, <3>1, <3>2 DEF TagsOf, TagsTo, n
  <2> QED
    BY <1>1, <1>a, <1>t, <2>3, <2>5, <2>6, <2>7 DEF Compacted, c
<1>2. CASE ~(n > 0 /\ d[n].end = a[i].start)
  <2>1. c = Append(d, a[i])
    BY <1>2, <1>d, Zenon DEF Merge, n
  <2>2. c \in Seq(Ranges) /\ Len(c) = n + 1 /\ c[n + 1] = a[i] /\ \A k \in 1 .. n : c[k] = d[k]
    <3> HIDE DEF c
    <3> QED
      BY <1>a, <1>d, <2>1 DEF n
  <2> HIDE DEF c
  <2>3. n > 0 => d[n].end < a[i].start
    BY <1>2, <1>a, <1>d, <1>e
  <2>4. ASSUME NEW k \in 1 .. n PROVE d[k].end < a[i].start
    <3>1. CASE k = n
      BY <1>d, <2>3, <3>1
    <3>2. CASE k # n
      <4>1. n \in 1 .. n /\ k < n /\ n > 0
        BY <1>d, <3>2
      <4>2. d[k].end < d[n].start /\ d[n].start < d[n].end
        BY <1>d, <4>1, Zenon
      <4> QED
        BY <1>a, <1>d, <2>3, <4>1, <4>2
    <3> QED
      BY <3>1, <3>2, Zenon
  <2>5. Apart(c)
    <3> SUFFICES ASSUME NEW j \in 1 .. n + 1, NEW k \in 1 .. n + 1, j < k
                 PROVE  c[j].end < c[k].start
      BY <2>2, Zenon DEF Apart
    <3>1. CASE k = n + 1
      BY <1>d, <2>2, <2>4, <3>1
    <3>2. CASE k # n + 1
      BY <1>d, <2>2, <3>2
    <3> QED
      BY <3>1, <3>2, Zenon
  <2>6. TagsOf(c) = TagsOf(d) \cup Members(a[i])
    <3>1. \A k : k \in 1 .. n + 1 <=> k \in 1 .. n \/ k = n + 1
      BY <1>d
    <3> QED
      BY <2>2, <3>1, Zenon DEF TagsOf, TagsTo, n
  <2> QED
    BY <1>a, <1>d, <1>t, <2>2, <2>5, <2>6 DEF Compacted, c
<1> QED
  BY <1>1, <1>2, Zenon

\* Validate::compact leaves gaps between the ranges, and the same tags in them.
LEMMA CompactFacts ==
  ASSUME NEW a, Ordered(a)
  PROVE  Apart(Compact(a)) /\ TagsOf(Compact(a)) = TagsOf(a)
<1>1. a \in Seq(Ranges) /\ Len(a) \in Nat
  BY DEF Ordered
<1>2. PICK done : /\ done[0] = <<>>
                  /\ \A i \in 1 .. Len(a) : done[i] = Merge(done[i - 1], a[i])
                  /\ Compact(a) = done[Len(a)]
  BY <1>1, CompactLoop, Zenon
<1> DEFINE T == {i \in 0 .. Len(a) : Compacted(a, i, done[i])}
<1>3. 0 \in T
  <2>1. Apart(<<>>)
    BY DEF Apart
  <2>2. TagsOf(<<>>) = TagsTo(a, 0)
    BY DEF TagsOf, TagsTo
  <2> QED
    BY <1>1, <1>2, <2>1, <2>2 DEF Compacted
<1>4. \A i \in 1 .. Len(a) : i - 1 \in T => i \in T
  BY <1>1, <1>2, MergeKeeps
<1> HIDE DEF T
<1>5. Len(a) \in T
  <2>1. Inductive(Len(a), T)
    BY <1>1, <1>3, <1>4, Zenon DEF Inductive
  <2>2. \A i \in 0 .. Len(a) : i \in T
    BY <2>1, UpTo, Zenon
  <2> QED
    BY <1>1, <2>2
<1> QED
  BY <1>1, <1>2, <1>5, Zenon DEF T, Compacted, TagsOf

\* The sequence u is s followed by t.
Joins(u, s, t) ==
  /\ Len(u) = Len(s) + Len(t)
  /\ \A k \in 1 .. Len(s) : u[k] = s[k]
  /\ \A k \in 1 .. Len(t) : u[Len(s) + k] = t[k]

\* What a concatenation is made of.
LEMMA ConcatFacts ==
  ASSUME NEW S, NEW s \in Seq(S), NEW t \in Seq(S)
  PROVE  s \o t \in Seq(S) /\ Joins(s \o t, s, t)
<1>1. s \o t \in Seq(S) /\ Len(s \o t) = Len(s) + Len(t)
  OBVIOUS
<1>2. \A k \in 1 .. Len(s) : (s \o t)[k] = s[k]
  OBVIOUS
<1>3. ASSUME NEW k \in 1 .. Len(t) PROVE (s \o t)[Len(s) + k] = t[k]
  OBVIOUS
<1> QED
  BY <1>1, <1>2, <1>3, Zenon DEF Joins

\* The sequence c is a with the elements from i on, as far as j, replaced by those of p.
Splices(c, a, i, j, p) ==
  /\ Len(c) = Len(a) - (j - i) + Len(p)
  /\ \A k \in 1 .. i - 1 : c[k] = a[k]
  /\ \A k \in 1 .. Len(p) : c[i - 1 + k] = p[k]
  /\ \A k \in j .. Len(a) : c[k - (j - i) + Len(p)] = a[k]

\* What Vec::splice leaves.
LEMMA SpliceFacts ==
  ASSUME NEW S, NEW a \in Seq(S), NEW p \in Seq(S),
         NEW i \in 1 .. Len(a) + 1, NEW j \in i .. Len(a) + 1, NEW c, c = Splice(a, i, j, p)
  PROVE  c \in Seq(S) /\ Splices(c, a, i, j, p)
<1> DEFINE f == SubSeq(a, 1, i - 1)
           g == SubSeq(a, j, Len(a))
           q == f \o p
<1>0. Len(a) \in Nat /\ Len(p) \in Nat /\ i \in Nat /\ j \in Nat
  OBVIOUS
<1>1. f \in Seq(S) /\ Len(f) = i - 1 /\ \A k \in 1 .. i - 1 : f[k] = a[k]
  OBVIOUS
<1>2. g \in Seq(S) /\ Len(g) = Len(a) - j + 1 /\ \A k \in 1 .. Len(a) - j + 1 : g[k] = a[j - 1 + k]
  OBVIOUS
<1> HIDE DEF f, g
<1>3. /\ q \in Seq(S) /\ Len(q) = Len(f) + Len(p)
      /\ \A k \in 1 .. Len(f) : q[k] = f[k]
      /\ \A k \in 1 .. Len(p) : q[Len(f) + k] = p[k]
  <2>1. q \in Seq(S) /\ Joins(q, f, p)
    BY <1>1, ConcatFacts, Zenon
  <2> QED
    BY <2>1, Zenon DEF Joins
<1> HIDE DEF q
<1>4. /\ c \in Seq(S) /\ Len(c) = Len(q) + Len(g)
      /\ \A k \in 1 .. Len(q) : c[k] = q[k]
      /\ \A k \in 1 .. Len(g) : c[Len(q) + k] = g[k]
  <2>1. c = q \o g
    BY Zenon DEF q, f, g, Splice
  <2>2. c \in Seq(S) /\ Joins(c, q, g)
    BY <1>2, <1>3, <2>1, ConcatFacts, Zenon
  <2> QED
    BY <2>2, Zenon DEF Joins
<1>5. Len(q) = i - 1 + Len(p) /\ Len(c) = Len(a) - (j - i) + Len(p)
  BY <1>0, <1>1, <1>2, <1>3, <1>4
<1>6. ASSUME NEW k \in 1 .. i - 1 PROVE c[k] = a[k]
  <2>1. k \in 1 .. Len(f) /\ k \in 1 .. Len(q)
    BY <1>0, <1>1, <1>5
  <2> QED
    BY <1>1, <1>3, <1>4, <2>1, Zenon
<1>7. ASSUME NEW k \in 1 .. Len(p) PROVE c[i - 1 + k] = p[k]
  <2>1. Len(f) + k = i - 1 + k /\ i - 1 + k \in 1 .. Len(q)
    BY <1>0, <1>1, <1>5
  <2> QED
    BY <1>3, <1>4, <2>1, Zenon
<1>8. ASSUME NEW k \in j .. Len(a) PROVE c[k - (j - i) + Len(p)] = a[k]
  <2>1. /\ k - j + 1 \in 1 .. Len(g) /\ j - 1 + (k - j + 1) = k
        /\ Len(q) + (k - j + 1) = k - (j - i) + Len(p)
    BY <1>0, <1>2, <1>5
  <2>2. g[k - j + 1] = a[j - 1 + (k - j + 1)] /\ c[Len(q) + (k - j + 1)] = g[k - j + 1]
    BY <1>2, <1>4, <2>1, Zenon
  <2> QED
    BY <2>1, <2>2, Zenon
<1> QED
  BY <1>4, <1>5, <1>6, <1>7, <1>8, Zenon DEF Splices

\* A new range goes between those in front of it and those behind it.
LEMMA InsertRange ==
  ASSUME NEW a, Apart(a), NEW r \in Ranges, ~Find(a, r).in
  PROVE  LET at == Find(a, r).at
             b  == Splice(a, at, at, <<r>>)
         IN  Ordered(b) /\ TagsOf(b) = TagsOf(a) \cup Members(r)
<1> DEFINE at == Find(a, r).at
           b == Splice(a, at, at, <<r>>)
<1>0. /\ a \in Seq(Ranges) /\ Len(a) \in Nat
      /\ \A k \in 1 .. Len(a) : a[k].start \in Nat /\ a[k].end \in Nat /\ a[k].start < a[k].end
      /\ \A j, k \in 1 .. Len(a) : j < k => a[j].end < a[k].start
      /\ r.start \in Nat /\ r.end \in Nat /\ r.start < r.end
  BY ApartFacts, Zenon DEF Ranges, Apart
<1>1. /\ at \in 1 .. Len(a) + 1
      /\ \A k \in 1 .. at - 1 : a[k].end <= r.start
      /\ \A k \in at .. Len(a) : r.end <= a[k].start
  BY FindFacts, Zenon
<1> HIDE DEF at
<1>2. /\ b \in Seq(Ranges) /\ Len(b) = Len(a) + 1
      /\ \A j \in 1 .. at - 1 : b[j] = a[j]
      /\ b[at] = r
      /\ \A j \in at + 1 .. Len(a) + 1 : b[j] = a[j - 1]
  <2>1. <<r>> \in Seq(Ranges) /\ Len(<<r>>) = 1 /\ <<r>>[1] = r /\ at \in at .. Len(a) + 1
    BY <1>0, <1>1
  <2>2. b \in Seq(Ranges) /\ Splices(b, a, at, at, <<r>>)
    BY <1>0, <1>1, <2>1, SpliceFacts, Zenon
  <2> HIDE DEF b
  <2>3. /\ Len(b) = Len(a) - (at - at) + 1
        /\ \A k \in 1 .. at - 1 : b[k] = a[k]
        /\ \A k \in 1 .. 1 : b[at - 1 + k] = <<r>>[k]
        /\ \A k \in at .. Len(a) : b[k - (at - at) + 1] = a[k]
    BY <2>1, <2>2, Zenon DEF Splices
  <2>4. Len(b) = Len(a) + 1 /\ at - 1 + 1 = at /\ 1 \in 1 .. 1
    BY <1>0, <1>1, <2>3
  <2>5. ASSUME NEW j \in at + 1 .. Len(a) + 1 PROVE b[j] = a[j - 1]
    <3>1. j - 1 \in at .. Len(a) /\ (j - 1) - (at - at) + 1 = j
      BY <1>0, <1>1
    <3> QED
      BY <2>3, <3>1, Zenon
  <2>6. b[at] = r
    BY <2>1, <2>3, <2>4, Zenon
  <2> QED
    BY <2>2, <2>3, <2>4, <2>5, <2>6, Zenon
<1> HIDE DEF b
<1>n. Len(a) \in Nat /\ at \in 1 .. Len(a) + 1
  BY <1>0, <1>1, Zenon
<1>3. ASSUME NEW j \in 1 .. Len(a) + 1, NEW k \in 1 .. Len(a) + 1, j < k
      PROVE  b[j].end <= b[k].start
  <2>1. CASE j < at /\ k < at
    <3>1. b[j] = a[j] /\ b[k] = a[k] /\ j \in 1 .. Len(a) /\ k \in 1 .. Len(a)
      BY <1>0, <1>1, <1>2, <2>1
    <3>2. a[j].end < a[k].start /\ a[j].end \in Nat /\ a[k].start \in Nat
      BY <1>0, <1>3, <3>1, Zenon
    <3> QED
      BY <3>1, <3>2
  <2>2. CASE j < at /\ k = at
    <3>1. b[j] = a[j] /\ b[k] = r /\ j \in 1 .. at - 1
      BY <1>0, <1>1, <1>2, <2>2
    <3> QED
      BY <1>1, <3>1, Zenon
  <2>3. CASE j < at /\ k > at
    <3>1. /\ j \in 1 .. at - 1 /\ k \in at + 1 .. Len(a) + 1
          /\ j \in 1 .. Len(a) /\ k - 1 \in 1 .. Len(a) /\ j < k - 1
      BY <1>n, <2>3
    <3>2. b[j] = a[j] /\ b[k] = a[k - 1]
      BY <1>2, <3>1, Zenon
    <3>3. a[j].end < a[k - 1].start /\ a[j].end \in Nat /\ a[k - 1].start \in Nat
      BY <1>0, <3>1, Zenon
    <3> QED
      BY <3>2, <3>3
  <2>4. CASE j = at
    <3>0. k \in at + 1 .. Len(a) + 1 /\ k - 1 \in at .. Len(a)
      BY <1>0, <1>1, <1>3, <2>4
    <3>1. b[j] = r /\ b[k] = a[k - 1]
      BY <1>2, <2>4, <3>0, Zenon
    <3> QED
      BY <1>1, <3>0, <3>1, Zenon
  <2>5. CASE j > at
    <3>1. b[j] = a[j - 1] /\ b[k] = a[k - 1] /\ j - 1 \in 1 .. Len(a) /\ k - 1 \in 1 .. Len(a)
          /\ j - 1 < k - 1
      BY <1>0, <1>1, <1>2, <1>3, <2>5
    <3> QED
      BY <1>0, <3>1
  <2> QED
    BY <1>1, <1>3, <2>1, <2>2, <2>3, <2>4, <2>5
<1>4. Ordered(b)
  BY <1>2, <1>3, Zenon DEF Ordered
<1>5. ASSUME NEW x PROVE x \in TagsOf(b) <=> x \in TagsOf(a) \/ x \in Members(r)
  <2>1. /\ x \in TagsOf(a) <=> \E k \in 1 .. Len(a) : x \in Members(a[k])
        /\ x \in TagsOf(b) <=> \E k \in 1 .. Len(a) + 1 : x \in Members(b[k])
    <3>1. Len(a) + 1 \in Nat /\ TagsOf(a) = TagsTo(a, Len(a)) /\ TagsOf(b) = TagsTo(b, Len(a) + 1)
      BY <1>0, <1>2 DEF TagsOf
    <3> QED
      BY <1>0, <3>1, TagsMember
  <2>2. ASSUME NEW k \in 1 .. Len(a) + 1, x \in Members(b[k])
        PROVE  x \in TagsOf(a) \/ x \in Members(r)
    <3>1. b[k] = r \/ \E j \in 1 .. Len(a) : b[k] = a[j]
      <4>1. CASE k < at
        BY <1>0, <1>1, <1>2, <4>1
      <4>2. CASE k = at
        BY <1>0, <1>1, <1>2, <4>2, Zenon
      <4>3. CASE k > at
        <5>1. k - 1 \in 1 .. Len(a) /\ b[k] = a[k - 1]
          BY <1>0, <1>1, <1>2, <4>3
        <5> QED
          BY <5>1, Zenon
      <4> QED
        BY <1>1, <4>1, <4>2, <4>3
    <3> QED
      BY <2>1, <2>2, <3>1, Zenon
  <2>3. ASSUME NEW k \in 1 .. Len(a), x \in Members(a[k]) PROVE x \in TagsOf(b)
    <3>1. \E j \in 1 .. Len(a) + 1 : b[j] = a[k]
      <4>1. CASE k < at
        <5>1. k \in 1 .. Len(a) + 1 /\ b[k] = a[k]
          BY <1>0, <1>1, <1>2, <4>1
        <5> QED
          BY <5>1, Zenon
      <4>2. CASE k >= at
        <5>0. k + 1 \in at + 1 .. Len(a) + 1 /\ k + 1 \in 1 .. Len(a) + 1 /\ (k + 1) - 1 = k
          BY <1>0, <1>1, <4>2
        <5>1. k + 1 \in 1 .. Len(a) + 1 /\ b[k + 1] = a[k]
          BY <1>2, <5>0, Zenon
        <5> QED
          BY <5>1, Zenon
      <4> QED
        BY <1>1, <4>1, <4>2
    <3> QED
      BY <2>1, <2>3, <3>1, Zenon
  <2>4. b[at] = r /\ at \in 1 .. Len(a) + 1
    BY <1>1, <1>2, Zenon
  <2> QED
    BY <2>1, <2>2, <2>3, <2>4, Zenon
<1> QED
  BY <1>4, <1>5, Zenon DEF b, at

\* What is left of a range that contains those removed.
LEMMA RemoveRangeFacts ==
  ASSUME NEW x \in Ranges, NEW r \in Ranges, StrictlyContains(x, r)
  PROVE  /\ Apart(RemoveRange(x, r))
         /\ TagsOf(RemoveRange(x, r)) = Members(x) \ Members(r)
         /\ \A k \in 1 .. Len(RemoveRange(x, r)) :
              x.start <= RemoveRange(x, r)[k].start /\ RemoveRange(x, r)[k].end <= x.end
<1> DEFINE p == RemoveRange(x, r)
           low == Interval(x.start, r.start)
           high == Interval(r.end, x.end)
<1>0. /\ x.start \in Nat /\ x.end \in Nat /\ r.start \in Nat /\ r.end \in Nat
      /\ x.start <= r.start /\ r.start < r.end /\ r.end <= x.end
  BY Zenon DEF Ranges, StrictlyContains
<1>1. /\ low.start = x.start /\ low.end = r.start /\ high.start = r.end /\ high.end = x.end
      /\ x.start < r.start => low \in Ranges
      /\ r.end < x.end => high \in Ranges
  BY <1>0, Zenon DEF Interval, Ranges
<1>2. Overlaps(x, r)
  BY <1>0 DEF Overlaps, Covers, Members
<1>3. /\ x.start = r.start /\ x.end = r.end => p = <<>>
      /\ x.start = r.start /\ r.end < x.end => p = <<high>>
      /\ x.start < r.start /\ x.end = r.end => p = <<low>>
      /\ x.start < r.start /\ r.end < x.end => p = <<low, high>>
  <2>1. StrictlyContains(r, x) <=> x.start = r.start /\ x.end = r.end
    BY <1>0 DEF StrictlyContains
  <2>2. /\ r.start <= x.start <=> x.start = r.start
        /\ r.end >= x.end <=> x.end = r.end
        /\ x.start < r.start => x.start # r.start
        /\ r.end < x.end => x.end # r.end
    BY <1>0
  <2> HIDE DEF low, high
  <2>3. p = IF ~Overlaps(x, r) THEN <<x>>
            ELSE IF StrictlyContains(r, x) THEN <<>>
            ELSE IF r.start <= x.start THEN <<high>>
            ELSE IF r.end >= x.end THEN <<low>>
            ELSE <<low, high>>
    BY Zenon DEF RemoveRange, low, high
  <2> HIDE DEF p
  <2>4. x.start = r.start /\ x.end = r.end => p = <<>>
    BY <1>2, <2>1, <2>3, Zenon
  <2>5. x.start = r.start /\ r.end < x.end => p = <<high>>
    BY <1>2, <2>1, <2>2, <2>3, Zenon
  <2>6. x.start < r.start /\ x.end = r.end => p = <<low>>
    BY <1>2, <2>1, <2>2, <2>3, Zenon
  <2>7. x.start < r.start /\ r.end < x.end => p = <<low, high>>
    BY <1>2, <2>1, <2>2, <2>3, Zenon
  <2> QED
    BY <2>4, <2>5, <2>6, <2>7, Zenon
<1>4. \A t : t \in Members(x) \ Members(r) <=> t \in Members(low) \/ t \in Members(high)
  BY <1>0, <1>1 DEF Members
<1>5. /\ x.start = r.start => Members(low) = {}
      /\ x.end = r.end => Members(high) = {}
  BY <1>0, <1>1 DEF Members
<1> HIDE DEF p, low, high
<1>6. CASE x.start = r.start /\ x.end = r.end
  BY <1>3, <1>4, <1>5, <1>6 DEF Apart, TagsOf, TagsTo, p
<1>7. CASE x.start = r.start /\ r.end < x.end
  <2>1. p = <<high>> /\ Len(p) = 1 /\ p[1] = high /\ high \in Ranges
    BY <1>1, <1>3, <1>7
  <2>2. Apart(p)
    BY <2>1 DEF Apart
  <2>3. TagsOf(p) = Members(high)
    BY <2>1 DEF TagsOf, TagsTo
  <2> QED
    BY <1>0, <1>1, <1>4, <1>5, <1>7, <2>1, <2>2, <2>3 DEF p
<1>8. CASE x.start < r.start /\ x.end = r.end
  <2>1. p = <<low>> /\ Len(p) = 1 /\ p[1] = low /\ low \in Ranges
    BY <1>1, <1>3, <1>8
  <2>2. Apart(p)
    BY <2>1 DEF Apart
  <2>3. TagsOf(p) = Members(low)
    BY <2>1 DEF TagsOf, TagsTo
  <2> QED
    BY <1>0, <1>1, <1>4, <1>5, <1>8, <2>1, <2>2, <2>3 DEF p
<1>9. CASE x.start < r.start /\ r.end < x.end
  <2>1. /\ p = <<low, high>> /\ Len(p) = 2 /\ p[1] = low /\ p[2] = high
        /\ low \in Ranges /\ high \in Ranges
    BY <1>1, <1>3, <1>9
  <2>2. 1 .. 2 = {1, 2}
    OBVIOUS
  <2>3. p \in Seq(Ranges) /\ low.end < high.start
    BY <1>0, <1>1, <2>1
  <2>4. Apart(p)
    BY <2>1, <2>2, <2>3 DEF Apart
  <2>5. TagsOf(p) = Members(low) \cup Members(high)
    BY <2>1, <2>2, Zenon DEF TagsOf, TagsTo
  <2> QED
    BY <1>0, <1>1, <1>4, <1>9, <2>1, <2>2, <2>4, <2>5 DEF p
<1> QED
  BY <1>0, <1>6, <1>7, <1>8, <1>9

\* Validate::delete takes the tags out, and nothing else.
LEMMA DeleteRange ==
  ASSUME NEW a, Apart(a), NEW r \in Ranges, NEW i \in 1 .. Len(a), StrictlyContains(a[i], r),
         NEW c, c = Splice(a, i, i + 1, RemoveRange(a[i], r))
  PROVE  Apart(c) /\ TagsOf(c) = TagsOf(a) \ Members(r)
<1> DEFINE p == RemoveRange(a[i], r)
           n == Len(p)
<1>0. /\ a \in Seq(Ranges) /\ Len(a) \in Nat /\ a[i] \in Ranges /\ i \in Nat
      /\ \A k \in 1 .. Len(a) : a[k].start \in Nat /\ a[k].end \in Nat /\ a[k].start < a[k].end
      /\ \A j, k \in 1 .. Len(a) : j < k => a[j].end < a[k].start
  <2>1. a \in Seq(Ranges)
    BY Zenon DEF Apart
  <2> QED
    BY <2>1, ApartFacts
<1>1. /\ Apart(p)
      /\ TagsOf(p) = Members(a[i]) \ Members(r)
      /\ \A k \in 1 .. n : a[i].start <= p[k].start /\ p[k].end <= a[i].end
  BY <1>0, RemoveRangeFacts, Zenon
<1> HIDE DEF p
<1>3. /\ n \in Nat
      /\ \A k \in 1 .. n : p[k].start \in Nat /\ p[k].end \in Nat /\ p[k].start < p[k].end
      /\ \A j, k \in 1 .. n : j < k => p[j].end < p[k].start
  BY <1>1, ApartFacts, Zenon
<1>2. /\ c \in Seq(Ranges) /\ Len(c) = Len(a) - 1 + n
      /\ \A k \in 1 .. i - 1 : c[k] = a[k]
      /\ \A k \in 1 .. n : c[i - 1 + k] = p[k]
      /\ \A k \in i + 1 .. Len(a) : c[k - 1 + n] = a[k]
  <2>1. p \in Seq(Ranges)
    BY <1>1, Zenon DEF Apart
  <2>2. c = Splice(a, i, i + 1, p) /\ i \in 1 .. Len(a) + 1 /\ i + 1 \in i .. Len(a) + 1
    BY <1>0 DEF p
  <2>3. c \in Seq(Ranges) /\ Splices(c, a, i, i + 1, p)
    BY <1>0, <2>1, <2>2, SpliceFacts, Zenon
  <2>4. i + 1 - i = 1
    BY <1>0
  <2>5. Len(c) = Len(a) - 1 + n
    BY <2>3, <2>4 DEF Splices
  <2>6. ASSUME NEW k \in i + 1 .. Len(a) PROVE c[k - 1 + n] = a[k]
    <3>1. c[k - (i + 1 - i) + Len(p)] = a[k]
      BY <2>3 DEF Splices
    <3> QED
      BY <2>4, <3>1, Zenon
  <2> QED
    BY <2>3, <2>5, <2>6, Zenon DEF Splices
<1> HIDE DEF n
\* Where an element of c comes from.
<1> DEFINE Same(k, m) == m \in 1 .. i - 1 /\ k = m /\ c[k] = a[m]
           Piece(k, m) == m \in 1 .. n /\ k = i - 1 + m /\ c[k] = p[m]
           Moved(k, m) == m \in i + 1 .. Len(a) /\ k = m - 1 + n /\ c[k] = a[m]
<1>n. Len(a) \in Nat /\ i \in Nat /\ i <= Len(a) /\ n \in Nat /\ Len(c) = Len(a) - 1 + n
  BY <1>0, <1>2, <1>3
<1>4. ASSUME NEW k \in 1 .. Len(c)
      PROVE  \E m \in Nat : Same(k, m) \/ Piece(k, m) \/ Moved(k, m)
  <2>1. CASE k < i
    <3>1. k \in 1 .. i - 1 /\ k \in Nat
      BY <1>n, <2>1
    <3>2. Same(k, k)
      BY <1>2, <3>1, Zenon
    <3> QED
      BY <3>1, <3>2, Zenon
  <2>2. CASE k >= i /\ k < i + n
    <3>1. k - i + 1 \in 1 .. n /\ i - 1 + (k - i + 1) = k /\ k - i + 1 \in Nat
      BY <1>n, <2>2
    <3>2. Piece(k, k - i + 1)
      BY <1>2, <3>1, Zenon
    <3> QED
      BY <3>1, <3>2, Zenon
  <2>3. CASE k >= i + n
    <3>1. k - n + 1 \in i + 1 .. Len(a) /\ (k - n + 1) - 1 + n = k /\ k - n + 1 \in Nat
      BY <1>n, <2>3
    <3>2. Moved(k, k - n + 1)
      BY <1>2, <3>1, Zenon
    <3> QED
      BY <3>1, <3>2, Zenon
  <2>4. k < i \/ (k >= i /\ k < i + n) \/ k >= i + n
    BY <1>n
  <2> QED
    BY <2>1, <2>2, <2>3, <2>4, Zenon
<1>a. ASSUME NEW m \in 1 .. Len(a)
      PROVE  /\ m < i => a[m].end < a[i].start
             /\ i < m => a[i].end < a[m].start
  BY <1>0, Zenon
<1>5. ASSUME NEW j \in 1 .. Len(c), NEW k \in 1 .. Len(c), j < k PROVE c[j].end < c[k].start
  <2>1. PICK x \in Nat : Same(j, x) \/ Piece(j, x) \/ Moved(j, x)
    BY <1>4, Zenon
  <2>2. PICK y \in Nat : Same(k, y) \/ Piece(k, y) \/ Moved(k, y)
    BY <1>4, Zenon
  <2>i. a[i].start \in Nat /\ a[i].end \in Nat /\ a[i].start < a[i].end
    BY <1>0, Zenon
  <2>3. CASE Same(j, x) /\ Piece(k, y)
    <3>1. c[j].end < a[i].start /\ c[j].end \in Nat
      BY <1>0, <1>a, <2>3
    <3>2. a[i].start <= c[k].start /\ c[k].start \in Nat
      BY <1>1, <1>3, <2>3, Zenon
    <3> QED
      BY <2>i, <3>1, <3>2
  <2>4. CASE Piece(j, x) /\ Moved(k, y)
    <3>1. a[i].end < c[k].start /\ c[k].start \in Nat
      BY <1>0, <1>a, <2>4
    <3>2. c[j].end <= a[i].end /\ c[j].end \in Nat
      BY <1>1, <1>3, <2>4, Zenon
    <3> QED
      BY <2>i, <3>1, <3>2
  <2>5. CASE Piece(j, x) /\ Piece(k, y)
    <3>1. x < y
      BY <1>n, <1>5, <2>5
    <3> QED
      BY <1>3, <2>5, <3>1, Zenon
  <2>6. CASE (Same(j, x) \/ Moved(j, x)) /\ (Same(k, y) \/ Moved(k, y))
    <3>1. x \in 1 .. Len(a) /\ y \in 1 .. Len(a)
      BY <1>n, <2>6
    <3>2. x < y
      BY <1>n, <1>5, <2>6
    <3>3. c[j] = a[x] /\ c[k] = a[y]
      BY <2>6, Zenon
    <3> QED
      BY <1>0, <3>1, <3>2, <3>3, Zenon
  <2>7. ~(Piece(j, x) /\ Same(k, y)) /\ ~(Moved(j, x) /\ Piece(k, y))
    BY <1>n, <1>5
  <2> QED
    BY <2>1, <2>2, <2>3, <2>4, <2>5, <2>6, <2>7, Zenon
<1>6. Apart(c)
  BY <1>2, <1>5, Zenon DEF Apart
<1>7. ASSUME NEW x PROVE x \in TagsOf(c) <=> x \in TagsOf(a) /\ x \notin Members(r)
  <2>1. /\ x \in TagsOf(a) <=> \E k \in 1 .. Len(a) : x \in Members(a[k])
        /\ x \in TagsOf(c) <=> \E k \in 1 .. Len(c) : x \in Members(c[k])
        /\ x \in TagsOf(p) <=> \E k \in 1 .. n : x \in Members(p[k])
    <3>1. Len(c) \in Nat
      BY <1>2
    <3> QED
      BY <1>0, <1>3, <3>1, TagsMember, Zenon DEF TagsOf, n
  <2>2. Members(r) \subseteq Members(a[i])
    BY <1>0 DEF Members, StrictlyContains, Ranges
  <2>3. ASSUME NEW k \in 1 .. Len(a), k # i, x \in Members(a[k]) PROVE x \notin Members(a[i])
    <3>1. k < i \/ i < k
      BY <1>0, <2>3
    <3> QED
      BY <1>0, <1>a, <2>3, <3>1 DEF Members
  <2>4. ASSUME x \in TagsOf(c) PROVE x \in TagsOf(a) /\ x \notin Members(r)
    <3>1. PICK k \in 1 .. Len(c) : x \in Members(c[k])
      BY <2>1, <2>4, Zenon
    <3>2. PICK m \in Nat : Same(k, m) \/ Piece(k, m) \/ Moved(k, m)
      BY <1>4, Zenon
    <3>3. CASE Same(k, m) \/ Moved(k, m)
      <4>1. m \in 1 .. Len(a) /\ m # i /\ x \in Members(a[m])
        BY <1>n, <3>1, <3>3
      <4> QED
        BY <2>1, <2>2, <2>3, <4>1, Zenon
    <3>4. CASE Piece(k, m)
      <4>1. x \in TagsOf(p)
        BY <2>1, <3>1, <3>4, Zenon
      <4>2. i \in 1 .. Len(a) /\ x \in Members(a[i]) /\ x \notin Members(r)
        BY <1>1, <4>1, Zenon
      <4> QED
        BY <2>1, <4>2, Zenon
    <3> QED
      BY <3>2, <3>3, <3>4, Zenon
  <2>5. ASSUME NEW k \in 1 .. Len(a), x \in Members(a[k]), x \notin Members(r)
        PROVE  x \in TagsOf(c)
    <3>1. CASE k < i
      <4>1. k \in 1 .. i - 1 /\ k \in 1 .. Len(c)
        BY <1>n, <3>1
      <4> QED
        BY <1>2, <2>1, <2>5, <4>1, Zenon
    <3>2. CASE k = i
      <4>1. x \in TagsOf(p)
        BY <1>1, <2>5, <3>2, Zenon
      <4>2. PICK m \in 1 .. n : x \in Members(p[m])
        BY <2>1, <4>1, Zenon
      <4>3. i - 1 + m \in 1 .. Len(c)
        BY <1>n
      <4> QED
        BY <1>2, <2>1, <4>2, <4>3, Zenon
    <3>3. CASE k > i
      <4>1. k \in i + 1 .. Len(a) /\ k - 1 + n \in 1 .. Len(c)
        BY <1>n, <3>3
      <4> QED
        BY <1>2, <2>1, <2>5, <4>1, Zenon
    <3> QED
      BY <1>0, <3>1, <3>2, <3>3
  <2> QED
    BY <2>1, <2>4, <2>5, Zenon
<1> QED
  BY <1>6, <1>7, Zenon

(***************************************************************************)
(* What Validate keeps: its ranges are apart and hold the live tags, and   *)
(* its counters are those of the live tags.                                *)
(***************************************************************************)
Tracks(v, held) ==
  /\ v = [active |-> v.active, current |-> v.current, max |-> v.max, maxTag |-> v.maxTag]
  /\ Apart(v.active)
  /\ TagsOf(v.active) = held
  /\ IsFiniteSet(held) /\ v.current = Cardinality(held)
  /\ v.max \in Nat /\ v.current <= v.max
  /\ v.maxTag \in Int /\ \A t \in held : t <= v.maxTag

\* The tags of a range are as many as it is long.
LEMMA MembersFacts ==
  ASSUME NEW r \in Ranges
  PROVE  /\ IsFiniteSet(Members(r)) /\ Cardinality(Members(r)) = r.end - r.start
         /\ r.start \in Nat /\ r.end \in Nat /\ r.start < r.end
         /\ r.start \in Members(r)
<1>1. r.start \in Nat /\ r.end \in Nat /\ r.start < r.end
  BY Zenon DEF Ranges
<1>2. IsFiniteSet(Members(r)) /\ Cardinality(Members(r)) = r.end - r.start
  <2>1. PICK lo, hi \in Int : lo = r.start /\ hi = r.end - 1
    BY <1>1
  <2>2. IsFiniteSet(lo .. hi) /\ Cardinality(lo .. hi) = (IF lo > hi THEN 0 ELSE hi - lo + 1)
    BY FS_Interval, Zenon
  <2>3. Members(r) = lo .. hi
    BY <2>1, Zenon DEF Members
  <2>4. Cardinality(lo .. hi) = r.end - r.start
    BY <1>1, <2>1, <2>2
  <2> QED
    BY <2>2, <2>3, <2>4, Zenon
<1> QED
  BY <1>1, <1>2 DEF Members

\* Validate::new tracks no tags.
LEMMA NewTracks == Tracks(NewValidate, {})
<1>1. TagsOf(<<>>) = {}
  BY DEF TagsOf, TagsTo
<1>2. Apart(<<>>)
  BY DEF Apart
<1> QED
  BY <1>1, <1>2, FS_EmptySet DEF Tracks, NewValidate

\* Validate::insert of a range that it accepts.
LEMMA InsertTracks ==
  ASSUME NEW v, NEW held, Tracks(v, held), NEW r \in Ranges, CanInsert(v, r)
  PROVE  Tracks(ValidateInsert(v, r), held \cup Members(r))
<1> DEFINE at == Find(v.active, r).at
           b == Splice(v.active, at, at, <<r>>)
           w == ValidateInsert(v, r)
           n == v.current + (r.end - r.start)
<1>1. /\ Apart(v.active) /\ TagsOf(v.active) = held
      /\ IsFiniteSet(held) /\ v.current = Cardinality(held)
      /\ v.max \in Nat /\ v.current <= v.max
      /\ v.maxTag \in Int /\ \A t \in held : t <= v.maxTag
  BY Zenon DEF Tracks
<1>2. Apart(Compact(b)) /\ TagsOf(Compact(b)) = held \cup Members(r)
  BY <1>1, InsertRange, CompactFacts, Zenon DEF CanInsert
<1>3. /\ IsFiniteSet(Members(r)) /\ Cardinality(Members(r)) = r.end - r.start
      /\ r.start \in Nat /\ r.end \in Nat /\ r.start < r.end
  BY MembersFacts, Zenon
<1>4. Members(r) \cap held = {}
  BY <1>1, AcceptsExactly, Zenon
<1>5. Cardinality(held) \in Nat
  BY <1>1, FS_CardinalityType, Zenon
<1>6. IsFiniteSet(held \cup Members(r)) /\ Cardinality(held \cup Members(r)) = n
  <2>1. held \cap Members(r) = {}
    BY <1>4, Zenon
  <2>2. /\ IsFiniteSet(held \cup Members(r))
        /\ Cardinality(held \cup Members(r)) =
             Cardinality(held) + Cardinality(Members(r)) - Cardinality(held \cap Members(r))
    BY <1>1, <1>3, FS_Union, Zenon
  <2>3. Cardinality(held \cap Members(r)) = 0
    BY <2>1, FS_EmptySet, Zenon
  <2> QED
    BY <1>1, <1>3, <1>5, <2>2, <2>3
<1>7. /\ w = [active |-> w.active, current |-> w.current, max |-> w.max, maxTag |-> w.maxTag]
      /\ w.active = Compact(b) /\ w.current = n
      /\ w.max = (IF n > v.max THEN n ELSE v.max)
      /\ w.maxTag = (IF r.end - 1 > v.maxTag THEN r.end - 1 ELSE v.maxTag)
  BY Zenon DEF ValidateInsert, Counted
<1> HIDE DEF w, b
<1>8. w.max \in Nat /\ w.current <= w.max
  BY <1>1, <1>3, <1>5, <1>7
<1>9. w.maxTag \in Int /\ w.maxTag >= v.maxTag /\ w.maxTag >= r.end - 1
  BY <1>1, <1>3, <1>7
<1>10. ASSUME NEW t \in held \cup Members(r) PROVE t <= w.maxTag
  <2>1. CASE t \in held
    <3>1. t \in Nat
      <4>1. PICK k \in 1 .. Len(v.active) : t \in Members(v.active[k])
        BY <1>1, <2>1, Zenon DEF TagsOf, TagsTo
      <4>2. v.active[k].start \in Nat /\ v.active[k].end \in Nat
        BY <1>1, <4>1, ApartFacts, Zenon
      <4> QED
        BY <4>1, <4>2 DEF Members
    <3> QED
      BY <1>1, <1>9, <2>1, <3>1
  <2>2. CASE t \in Members(r)
    BY <1>3, <1>9, <2>2 DEF Members
  <2> QED
    BY <2>1, <2>2, Zenon
<1>11. w.current = Cardinality(held \cup Members(r))
  BY <1>6, <1>7, Zenon
<1> QED
  BY <1>2, <1>6, <1>7, <1>8, <1>9, <1>10, <1>11, Zenon DEF Tracks, w

\* Validate::delete of a range that it accepts.
LEMMA DeleteTracks ==
  ASSUME NEW v, NEW held, Tracks(v, held), NEW r \in Ranges, CanReplace(v, r)
  PROVE  Tracks(ValidateDelete(v, r), held \ Members(r))
<1> DEFINE i == Find(v.active, r).at
           c == Splice(v.active, i, i + 1, RemoveRange(v.active[i], r))
           w == ValidateDelete(v, r)
           n == v.current - (r.end - r.start)
<1>1. /\ v = [active |-> v.active, current |-> v.current, max |-> v.max, maxTag |-> v.maxTag]
      /\ Apart(v.active) /\ TagsOf(v.active) = held
      /\ IsFiniteSet(held) /\ v.current = Cardinality(held)
      /\ v.max \in Nat /\ v.current <= v.max
      /\ v.maxTag \in Int /\ \A t \in held : t <= v.maxTag
  BY Zenon DEF Tracks
<1>2. /\ w.active = c /\ w.current = n /\ w.max = v.max /\ w.maxTag = v.maxTag
      /\ w = [active |-> w.active, current |-> w.current, max |-> w.max, maxTag |-> w.maxTag]
  BY <1>1, Zenon DEF ValidateDelete
<1>3. i \in 1 .. Len(v.active) /\ StrictlyContains(v.active[i], r)
  BY <1>1, FindFacts DEF CanReplace
<1> HIDE DEF w, i
<1>4. Apart(c) /\ TagsOf(c) = held \ Members(r)
  BY <1>1, <1>3, DeleteRange
<1> HIDE DEF c
<1>5. Members(r) \subseteq held
  BY <1>1, AcceptsExactly, Zenon
<1>6. /\ IsFiniteSet(Members(r)) /\ Cardinality(Members(r)) = r.end - r.start
      /\ r.start \in Nat /\ r.end \in Nat /\ r.start < r.end
  BY MembersFacts, Zenon
<1>7. Cardinality(held) \in Nat
  BY <1>1, FS_CardinalityType, Zenon
<1>8. IsFiniteSet(held \ Members(r)) /\ Cardinality(held \ Members(r)) = n
  <2>1. held \cap Members(r) = Members(r)
    BY <1>5, Zenon
  <2>2. /\ IsFiniteSet(held \ Members(r))
        /\ Cardinality(held \ Members(r)) = Cardinality(held) - Cardinality(held \cap Members(r))
    BY <1>1, FS_Difference, Zenon
  <2> QED
    BY <1>1, <1>6, <1>7, <2>1, <2>2, Zenon
<1>9. n <= v.max
  BY <1>1, <1>6, <1>7
<1> QED
  BY <1>1, <1>2, <1>4, <1>8, <1>9, Zenon DEF Tracks, w

\* What Validate accepts is decided by the live tags.
LEMMA TracksExactly ==
  ASSUME NEW v, NEW held, Tracks(v, held), NEW S \in SUBSET Ranges
  PROVE  Exact(v, held, S)
<1>1. /\ Apart(v.active) /\ TagsOf(v.active) = held
      /\ v.current = Cardinality(held) /\ v.current <= v.max
      /\ \A t \in held : t <= v.maxTag
  BY Zenon DEF Tracks
<1>2. UNION {Members(v.active[i]) : i \in 1 .. Len(v.active)} = held
  BY <1>1, Zenon DEF TagsOf, TagsTo
<1>3. ASSUME NEW i \in 1 .. Len(v.active) - 1 PROVE v.active[i].end < v.active[i + 1].start
  <2>1. Len(v.active) \in Nat
    BY <1>1, ApartFacts, Zenon
  <2>2. i \in 1 .. Len(v.active) /\ i + 1 \in 1 .. Len(v.active) /\ i < i + 1
    BY <2>1
  <2> QED
    BY <1>1, <2>2, Zenon DEF Apart
<1>4. ASSUME NEW r \in S
      PROVE  /\ CanInsert(v, r) <=> (Members(r) \cap held = {})
             /\ CanReplace(v, r) <=> (Members(r) \subseteq held)
  BY <1>1, AcceptsExactly, Zenon
<1> QED
  BY <1>1, <1>2, <1>3, <1>4, Zenon DEF Exact
----------------------------------------------------------------------------
(***************************************************************************)
(* What TagSlotManager keeps: a slot is free, or has a tag; the slot of a  *)
(* tag has that tag.                                                       *)
(***************************************************************************)
BookInv(b) ==
  /\ b = [empty |-> b.empty, deleted |-> b.deleted, slotOf |-> b.slotOf, tagOf |-> b.tagOf]
  /\ b.empty \in Seq(Nat) /\ IsInjective(b.empty)
  /\ IsFiniteSet(b.deleted) /\ b.deleted \subseteq DOMAIN b.tagOf /\ DOMAIN b.tagOf \subseteq Nat
  /\ Range(b.empty) \cap DOMAIN b.tagOf = {}
  /\ \A t \in DOMAIN b.slotOf : b.slotOf[t] \in DOMAIN b.tagOf /\ b.tagOf[b.slotOf[t]] = t

\* Slots that were taken and have no tag yet.
Taken(b, slots) ==
  /\ slots \in Seq(Nat) /\ IsInjective(slots)
  /\ Range(slots) \cap Range(b.empty) = {}
  /\ Range(slots) \cap DOMAIN b.tagOf = {}

\* The members of a sequence are its elements.
LEMMA RangeMember ==
  ASSUME NEW S, NEW s \in Seq(S), NEW x
  PROVE  x \in Range(s) <=> \E k \in 1 .. Len(s) : x = s[k]
BY DEF Range

\* A sequence without repetition, by its indices.
LEMMA InjectiveMember ==
  ASSUME NEW S, NEW s \in Seq(S)
  PROVE  IsInjective(s) <=> \A j, k \in 1 .. Len(s) : s[j] = s[k] => j = k
BY DEF IsInjective

\* The fields of the book.
LEMMA BookFields ==
  ASSUME NEW b, BookInv(b)
  PROVE  \E e, d, s, t : b = [empty |-> e, deleted |-> d, slotOf |-> s, tagOf |-> t]
BY Zenon DEF BookInv

\* get_n_empty_slots
LEMMA TakeKeepsBook ==
  ASSUME NEW b, BookInv(b), NEW n \in Nat, HasEmptySlots(b, n)
  PROVE  LET c == TakeEmptySlots(b, n)
         IN  /\ BookInv(c) /\ Taken(c, EmptySlots(b, n)) /\ Len(EmptySlots(b, n)) = n
             /\ Len(c.empty) = Len(b.empty) - n
             /\ c.deleted = b.deleted /\ c.slotOf = b.slotOf /\ c.tagOf = b.tagOf
<1> DEFINE c == TakeEmptySlots(b, n)
           e == b.empty
           m == Len(e)
           f == SubSeq(e, 1, n)
           g == SubSeq(e, n + 1, m)
<1>0. /\ e \in Seq(Nat) /\ m \in Nat /\ n <= m
      /\ \A j, k \in 1 .. m : e[j] = e[k] => j = k
      /\ \A k \in 1 .. m : e[k] \notin DOMAIN b.tagOf
  <2>1. e \in Seq(Nat) /\ IsInjective(e) /\ Range(e) \cap DOMAIN b.tagOf = {}
    BY Zenon DEF BookInv
  <2>2. \A j, k \in 1 .. m : e[j] = e[k] => j = k
    BY <2>1, InjectiveMember, Zenon
  <2>3. \A k \in 1 .. m : e[k] \notin DOMAIN b.tagOf
    BY <2>1, RangeMember, Zenon
  <2> QED
    BY <2>1, <2>2, <2>3 DEF BookInv, HasEmptySlots
<1>1. c = [empty |-> g, deleted |-> b.deleted, slotOf |-> b.slotOf, tagOf |-> b.tagOf]
  <2>1. PICK e1, d1, s1, t1 : b = [empty |-> e1, deleted |-> d1, slotOf |-> s1, tagOf |-> t1]
    BY BookFields, Zenon
  <2>2. PICK x : x = g
    BY Zenon
  <2>3. c = [b EXCEPT !.empty = x]
    BY <2>2, Zenon DEF TakeEmptySlots
  <2> HIDE DEF c, g
  <2>4. c = [empty |-> x, deleted |-> d1, slotOf |-> s1, tagOf |-> t1]
    BY <2>1, <2>3, Zenon
  <2> QED
    BY <2>1, <2>2, <2>4, Zenon
<1>2. EmptySlots(b, n) = f
  BY Zenon DEF EmptySlots
<1>3. f \in Seq(Nat) /\ Len(f) = n /\ \A k \in 1 .. n : f[k] = e[k]
  <2>1. f \in Seq(Nat) /\ Len(f) = n
    BY <1>0
  <2>2. \A k \in 1 .. n : f[k] = e[k]
    BY <1>0
  <2> QED
    BY <2>1, <2>2, Zenon
<1>4. g \in Seq(Nat) /\ Len(g) = m - n /\ \A k \in 1 .. m - n : g[k] = e[n + k]
  <2>1. g \in Seq(Nat) /\ Len(g) = m - n
    BY <1>0
  <2>2. \A k \in 1 .. m - n : g[k] = e[n + k]
    BY <1>0
  <2> QED
    BY <2>1, <2>2, Zenon
<1> HIDE DEF f, g, c, m
<1>5. /\ \A j, k \in 1 .. n : f[j] = f[k] => j = k
      /\ \A k \in 1 .. n : f[k] \notin DOMAIN b.tagOf
  <2>1. \A k \in 1 .. n : k \in 1 .. m
    BY <1>0
  <2> QED
    BY <1>0, <1>3, <2>1, Zenon
<1>6. /\ \A j, k \in 1 .. m - n : g[j] = g[k] => j = k
      /\ \A k \in 1 .. m - n : g[k] \notin DOMAIN b.tagOf
      /\ \A j \in 1 .. n, k \in 1 .. m - n : f[j] # g[k]
  <2>1. \A k \in 1 .. m - n : n + k \in 1 .. m
    BY <1>0
  <2>2. \A k \in 1 .. n : k \in 1 .. m
    BY <1>0
  <2>3. \A j, k \in 1 .. m - n : n + j = n + k => j = k
    BY <1>0
  <2>4. \A j \in 1 .. n, k \in 1 .. m - n : j # n + k
    BY <1>0
  <2>5. \A j, k \in 1 .. m - n : g[j] = g[k] => j = k
    BY <1>0, <1>4, <2>1, <2>3, Zenon
  <2>6. \A k \in 1 .. m - n : g[k] \notin DOMAIN b.tagOf
    BY <1>0, <1>4, <2>1, Zenon
  <2>7. \A j \in 1 .. n, k \in 1 .. m - n : f[j] # g[k]
    BY <1>0, <1>3, <1>4, <2>1, <2>2, <2>4, ZenonT(30)
  <2> QED
    BY <2>5, <2>6, <2>7, Zenon
<1>7. IsInjective(f) /\ IsInjective(g)
  <2>1. IsInjective(f)
    BY <1>3, <1>5, InjectiveMember, Zenon
  <2>2. IsInjective(g)
    BY <1>4, <1>6, InjectiveMember, Zenon
  <2> QED
    BY <2>1, <2>2, Zenon
<1>8. /\ Range(f) \cap Range(g) = {} /\ Range(f) \cap DOMAIN b.tagOf = {}
      /\ Range(g) \cap DOMAIN b.tagOf = {}
  <2>1. \A x : x \in Range(f) <=> \E k \in 1 .. n : x = f[k]
    BY <1>3, RangeMember
  <2>2. \A x : x \in Range(g) <=> \E k \in 1 .. m - n : x = g[k]
    BY <1>4, RangeMember
  <2>3. Range(f) \cap Range(g) = {}
    BY <1>6, <2>1, <2>2
  <2>4. Range(f) \cap DOMAIN b.tagOf = {}
    BY <1>5, <2>1
  <2>5. Range(g) \cap DOMAIN b.tagOf = {}
    BY <1>6, <2>2
  <2> QED
    BY <2>3, <2>4, <2>5, Zenon
<1>9. BookInv(c)
  BY <1>1, <1>4, <1>7, <1>8, Zenon DEF BookInv
<1>10. Taken(c, f)
  BY <1>1, <1>3, <1>7, <1>8, Zenon DEF Taken
<1> QED
  BY <1>1, <1>2, <1>3, <1>4, <1>9, <1>10 DEF c, m

\* assign_slots_to_tags, of different tags to slots that were taken.
LEMMA AssignKeepsBook ==
  ASSUME NEW b, BookInv(b), NEW slots, Taken(b, slots), NEW tags \in Seq(Nat), IsInjective(tags),
         Len(tags) = Len(slots), NEW c, c = AssignSlotsToTags(b, tags, slots)
  PROVE  /\ BookInv(c) /\ c.empty = b.empty /\ c.deleted = b.deleted
         /\ \A t \in DOMAIN c.slotOf :
              \/ t \in Range(tags) /\ c.slotOf[t] \in Range(slots)
              \/ t \notin Range(tags) /\ t \in DOMAIN b.slotOf /\ c.slotOf[t] = b.slotOf[t]
<1> DEFINE n == Len(tags)
           at(t) == Index(tags, t)
           by(s) == Index(slots, s)
<1>0. /\ n \in Nat /\ slots \in Seq(Nat) /\ Len(slots) = n
      /\ \A j, k \in 1 .. n : slots[j] = slots[k] => j = k
      /\ \A j, k \in 1 .. n : tags[j] = tags[k] => j = k
  <2>1. slots \in Seq(Nat) /\ IsInjective(slots)
    BY Zenon DEF Taken
  <2>2. \A j, k \in 1 .. n : slots[j] = slots[k] => j = k
    BY <2>1, InjectiveMember, Zenon
  <2>3. \A j, k \in 1 .. n : tags[j] = tags[k] => j = k
    BY InjectiveMember, Zenon
  <2> QED
    BY <2>1, <2>2, <2>3
<1>1. /\ c.empty = b.empty /\ c.deleted = b.deleted
      /\ c = [empty |-> c.empty, deleted |-> c.deleted, slotOf |-> c.slotOf, tagOf |-> c.tagOf]
  BY Zenon DEF AssignSlotsToTags
<1>2. ASSUME NEW t \in Range(tags)
      PROVE  slots[at(t)] \in Range(slots) /\ tags[by(slots[at(t)])] = t
  <2>1. \E i \in 1 .. n : tags[i] = t
    BY RangeMember, Zenon
  <2>2. at(t) \in 1 .. n /\ tags[at(t)] = t
    BY <2>1, Zenon DEF Index
  <2>3. PICK s : s = slots[at(t)]
    BY Zenon
  <2>4. s \in Range(slots)
    BY <1>0, <2>2, <2>3, RangeMember, Zenon
  <2>5. by(s) \in 1 .. n /\ slots[by(s)] = s
    BY <1>0, <2>2, <2>3, Zenon DEF Index
  <2>6. by(s) = at(t)
    BY <1>0, <2>2, <2>3, <2>5, Zenon
  <2> QED
    BY <2>2, <2>3, <2>4, <2>6, Zenon
<1>4. /\ DOMAIN c.slotOf = Range(tags) \cup DOMAIN b.slotOf
      /\ \A t \in Range(tags) : c.slotOf[t] = slots[at(t)]
      /\ \A t \in DOMAIN b.slotOf : t \notin Range(tags) => c.slotOf[t] = b.slotOf[t]
      /\ DOMAIN c.tagOf = Range(slots) \cup DOMAIN b.tagOf
      /\ \A s \in Range(slots) : c.tagOf[s] = tags[by(s)]
      /\ \A s \in DOMAIN b.tagOf : s \notin Range(slots) => c.tagOf[s] = b.tagOf[s]
  BY Zenon DEF AssignSlotsToTags
<1>5. Range(slots) \cap Range(b.empty) = {} /\ Range(slots) \cap DOMAIN b.tagOf = {}
  BY Zenon DEF Taken
<1>6. /\ b.empty \in Seq(Nat) /\ IsInjective(b.empty)
      /\ IsFiniteSet(b.deleted) /\ b.deleted \subseteq DOMAIN b.tagOf /\ DOMAIN b.tagOf \subseteq Nat
      /\ Range(b.empty) \cap DOMAIN b.tagOf = {}
      /\ \A t \in DOMAIN b.slotOf : b.slotOf[t] \in DOMAIN b.tagOf /\ b.tagOf[b.slotOf[t]] = t
  BY Zenon DEF BookInv
<1>7. ASSUME NEW t \in DOMAIN c.slotOf PROVE c.slotOf[t] \in DOMAIN c.tagOf /\ c.tagOf[c.slotOf[t]] = t
  <2>1. CASE t \in Range(tags)
    BY <1>2, <1>4, <2>1
  <2>2. CASE t \notin Range(tags)
    BY <1>4, <1>5, <1>6, <2>2
  <2> QED
    BY <2>1, <2>2, Zenon
<1>8. /\ b.deleted \subseteq DOMAIN c.tagOf /\ Range(b.empty) \cap DOMAIN c.tagOf = {}
      /\ DOMAIN c.tagOf \subseteq Nat
  <2>1. Range(slots) \subseteq Nat
    BY <1>0, RangeMember
  <2> QED
    BY <1>4, <1>5, <1>6, <2>1, Zenon
<1>9. BookInv(c)
  BY <1>1, <1>6, <1>7, <1>8, Zenon DEF BookInv
<1> QED
  BY <1>1, <1>2, <1>4, <1>9, Zenon

\* A sequence without repetition has as many members as elements.
LEMMA InjectiveCount ==
  ASSUME NEW S, NEW s \in Seq(S), IsInjective(s)
  PROVE  IsFiniteSet(Range(s)) /\ Cardinality(Range(s)) = Len(s)
<1>1. Len(s) \in Nat /\ DOMAIN s = 1 .. Len(s) /\ s \in [1 .. Len(s) -> Range(s)]
  BY DEF Range
<1>2. \A x \in Range(s) : \E k \in 1 .. Len(s) : s[k] = x
  BY <1>1, Zenon DEF Range
<1>3. s \in Bijection(1 .. Len(s), Range(s))
  BY <1>1, <1>2, Zenon DEF Bijection, Injection, Surjection
<1>4. ExistsBijection(1 .. Len(s), Range(s))
  BY <1>3, Zenon DEF ExistsBijection
<1>5. IsFiniteSet(Range(s))
  BY <1>1, <1>4, FS_NatBijection, Zenon
<1>6. Cardinality(Range(s)) = Len(s)
  BY <1>1, <1>4, FS_CountingElements, Zenon
<1> QED
  BY <1>5, <1>6, Zenon

\* mark_tags_deleted, of different tags whose slots are not deleted.
LEMMA MarkKeepsBook ==
  ASSUME NEW b, BookInv(b), NEW tags \in Seq(Nat), IsInjective(tags), HasSlots(b, tags),
         \A t \in Range(tags) : b.slotOf[t] \notin b.deleted,
         NEW c, c = MarkTagsDeleted(b, tags)
  PROVE  /\ BookInv(c) /\ c.empty = b.empty /\ c.slotOf = b.slotOf
         /\ \A s \in c.deleted : s \in b.deleted \/ \E t \in Range(tags) : s = b.slotOf[t]
         /\ Cardinality(c.deleted) = Cardinality(b.deleted) + Len(tags)
<1> DEFINE F == FindSlotsByTags(b, tags)
           n == Len(tags)
<1>1. /\ b.empty \in Seq(Nat) /\ IsInjective(b.empty)
      /\ IsFiniteSet(b.deleted) /\ b.deleted \subseteq DOMAIN b.tagOf /\ DOMAIN b.tagOf \subseteq Nat
      /\ Range(b.empty) \cap DOMAIN b.tagOf = {}
      /\ \A t \in DOMAIN b.slotOf : b.slotOf[t] \in DOMAIN b.tagOf /\ b.tagOf[b.slotOf[t]] = t
  BY Zenon DEF BookInv
<1>2. c = [empty |-> b.empty, deleted |-> b.deleted \cup Range(F), slotOf |-> b.slotOf, tagOf |-> b.tagOf]
  <2>1. PICK e1, d1, s1, t1 : b = [empty |-> e1, deleted |-> d1, slotOf |-> s1, tagOf |-> t1]
    BY BookFields, Zenon
  <2>2. PICK x : x = b.deleted \cup Range(F)
    BY Zenon
  <2>3. c = [b EXCEPT !.deleted = x]
    BY <2>2, Zenon DEF MarkTagsDeleted
  <2> HIDE DEF F
  <2>4. c = [empty |-> e1, deleted |-> x, slotOf |-> s1, tagOf |-> t1]
    BY <2>1, <2>3, Zenon
  <2> QED
    BY <2>1, <2>2, <2>4, Zenon
<1>3. n \in Nat /\ \A k \in 1 .. n : tags[k] \in Range(tags) /\ tags[k] \in DOMAIN b.slotOf
  BY RangeMember DEF HasSlots
<1>4. /\ F \in Seq(Nat) /\ Len(F) = n /\ \A k \in 1 .. n : F[k] = b.slotOf[tags[k]]
      /\ \A k \in 1 .. n : F[k] \in DOMAIN b.tagOf /\ b.tagOf[F[k]] = tags[k] /\ F[k] \notin b.deleted
  <2>1. \A k \in 1 .. n : b.slotOf[tags[k]] \in Nat
    BY <1>1, <1>3, Zenon
  <2>2. F \in Seq(Nat) /\ Len(F) = n /\ \A k \in 1 .. n : F[k] = b.slotOf[tags[k]]
    BY <1>3, <2>1 DEF FindSlotsByTags
  <2> QED
    BY <1>1, <1>3, <2>2, Zenon
<1> HIDE DEF F
<1>5. IsInjective(F)
  <2>1. \A j, k \in 1 .. n : tags[j] = tags[k] => j = k
    BY InjectiveMember, Zenon
  <2>2. ASSUME NEW j \in 1 .. n, NEW k \in 1 .. n, F[j] = F[k] PROVE j = k
    <3>1. tags[j] = tags[k]
      BY <1>4, <2>2, Zenon
    <3> QED
      BY <2>1, <3>1, Zenon
  <2> QED
    BY <1>4, <2>2, InjectiveMember, Zenon
<1>6. IsFiniteSet(Range(F)) /\ Cardinality(Range(F)) = n
  BY <1>4, <1>5, InjectiveCount, Zenon
<1>7. \A s : s \in Range(F) <=> \E k \in 1 .. n : s = F[k]
  BY <1>4, RangeMember
<1>8. Range(F) \cap b.deleted = {} /\ Range(F) \subseteq DOMAIN b.tagOf
  BY <1>4, <1>7
<1>9. /\ IsFiniteSet(b.deleted \cup Range(F))
      /\ Cardinality(b.deleted \cup Range(F)) = Cardinality(b.deleted) + n
  <2>1. b.deleted \cap Range(F) = {}
    BY <1>8, Zenon
  <2>2. /\ IsFiniteSet(b.deleted \cup Range(F))
        /\ Cardinality(b.deleted \cup Range(F)) =
             Cardinality(b.deleted) + Cardinality(Range(F)) - Cardinality(b.deleted \cap Range(F))
    BY <1>1, <1>6, FS_Union, Zenon
  <2>3. Cardinality(b.deleted \cap Range(F)) = 0 /\ Cardinality(b.deleted) \in Nat
    BY <1>1, <2>1, FS_EmptySet, FS_CardinalityType, Zenon
  <2> QED
    BY <1>3, <1>6, <2>2, <2>3
<1>10. BookInv(c)
  BY <1>1, <1>2, <1>8, <1>9 DEF BookInv
<1>11. ASSUME NEW s \in c.deleted PROVE s \in b.deleted \/ \E t \in Range(tags) : s = b.slotOf[t]
  BY <1>2, <1>3, <1>4, <1>7
<1> QED
  BY <1>2, <1>9, <1>10, <1>11

\* consolidate
LEMMA ConsolidateKeepsBook ==
  ASSUME NEW b, BookInv(b), NEW order \in Seq(b.deleted), IsInjective(order),
         Len(order) = Cardinality(b.deleted), NEW c, c = Consolidate(b, order)
  PROVE  /\ BookInv(c) /\ c.deleted = {}
         /\ Len(c.empty) = Len(b.empty) + Cardinality(b.deleted)
<1> DEFINE e == b.empty
           gone == {b.tagOf[slot] : slot \in b.deleted \cap DOMAIN b.tagOf}
           f == e \o order
<1>1. /\ e \in Seq(Nat) /\ IsInjective(e)
      /\ b.deleted \subseteq DOMAIN b.tagOf /\ DOMAIN b.tagOf \subseteq Nat
      /\ Range(e) \cap DOMAIN b.tagOf = {}
      /\ \A t \in DOMAIN b.slotOf : b.slotOf[t] \in DOMAIN b.tagOf /\ b.tagOf[b.slotOf[t]] = t
  BY Zenon DEF BookInv
<1>2. /\ c = [empty |-> c.empty, deleted |-> c.deleted, slotOf |-> c.slotOf, tagOf |-> c.tagOf]
      /\ c.empty = f /\ c.deleted = {}
      /\ DOMAIN c.slotOf = DOMAIN b.slotOf \ gone
      /\ \A t \in DOMAIN b.slotOf \ gone : c.slotOf[t] = b.slotOf[t]
      /\ DOMAIN c.tagOf = DOMAIN b.tagOf \ b.deleted
      /\ \A s \in DOMAIN b.tagOf \ b.deleted : c.tagOf[s] = b.tagOf[s]
  BY Zenon DEF Consolidate, Restrict
<1>3. order \in Seq(Nat)
  BY <1>1
<1>4. /\ f \in Seq(Nat) /\ Len(f) = Len(e) + Len(order)
      /\ \A k \in 1 .. Len(e) : f[k] = e[k]
      /\ \A k \in 1 .. Len(order) : f[Len(e) + k] = order[k]
  <2>1. f \in Seq(Nat) /\ Joins(f, e, order)
    BY <1>1, <1>3, ConcatFacts, Zenon
  <2> QED
    BY <2>1, Zenon DEF Joins
<1> HIDE DEF f
<1>5. /\ Len(e) \in Nat /\ Len(order) \in Nat
      /\ \A k \in 1 .. Len(f) : k \in 1 .. Len(e) \/ \E m \in 1 .. Len(order) : k = Len(e) + m
  <2>1. Len(e) \in Nat /\ Len(order) \in Nat
    BY <1>1
  <2>2. ASSUME NEW k \in 1 .. Len(f), k \notin 1 .. Len(e)
        PROVE  k - Len(e) \in 1 .. Len(order) /\ k = Len(e) + (k - Len(e))
    BY <1>4, <2>1, <2>2
  <2> QED
    BY <2>1, <2>2, Zenon
<1>6. /\ \A j, k \in 1 .. Len(e) : e[j] = e[k] => j = k
      /\ \A j, k \in 1 .. Len(order) : order[j] = order[k] => j = k
      /\ \A j \in 1 .. Len(e), k \in 1 .. Len(order) : e[j] # order[k]
  <2>1. \A j, k \in 1 .. Len(e) : e[j] = e[k] => j = k
    BY <1>1, InjectiveMember, Zenon
  <2>2. \A j, k \in 1 .. Len(order) : order[j] = order[k] => j = k
    BY InjectiveMember, Zenon
  <2>3. \A j \in 1 .. Len(e) : e[j] \in Range(e)
    BY <1>1, RangeMember, Zenon
  <2>4. \A k \in 1 .. Len(order) : order[k] \in b.deleted
    BY <1>5
  <2>5. \A j \in 1 .. Len(e), k \in 1 .. Len(order) : e[j] # order[k]
    BY <1>1, <2>3, <2>4, Zenon
  <2> QED
    BY <2>1, <2>2, <2>5, Zenon
<1>7. ASSUME NEW j \in 1 .. Len(f), NEW k \in 1 .. Len(f), f[j] = f[k] PROVE j = k
  <2>1. j \in 1 .. Len(e) \/ \E m \in 1 .. Len(order) : j = Len(e) + m
    BY <1>5, Zenon
  <2>2. k \in 1 .. Len(e) \/ \E m \in 1 .. Len(order) : k = Len(e) + m
    BY <1>5, Zenon
  <2>3. CASE j \in 1 .. Len(e) /\ k \in 1 .. Len(e)
    BY <1>4, <1>6, <1>7, <2>3, Zenon
  <2>4. ASSUME j \in 1 .. Len(e), NEW m \in 1 .. Len(order), k = Len(e) + m PROVE FALSE
    <3>1. f[j] = e[j] /\ f[Len(e) + m] = order[m] /\ e[j] # order[m]
      BY <1>4, <1>6, <2>4, Zenon
    <3> QED
      BY ONLY <1>7, <2>4, <3>1, Zenon
  <2>5. ASSUME k \in 1 .. Len(e), NEW m \in 1 .. Len(order), j = Len(e) + m PROVE FALSE
    <3>1. f[k] = e[k] /\ f[Len(e) + m] = order[m] /\ e[k] # order[m]
      BY <1>4, <1>6, <2>5, Zenon
    <3> QED
      BY ONLY <1>7, <2>5, <3>1, Zenon
  <2>6. ASSUME NEW m \in 1 .. Len(order), j = Len(e) + m,
               NEW q \in 1 .. Len(order), k = Len(e) + q
        PROVE  j = k
    <3>1. f[Len(e) + m] = order[m] /\ f[Len(e) + q] = order[q]
      BY <1>4, Zenon
    <3>2. order[m] = order[q]
      BY ONLY <1>7, <2>6, <3>1, Zenon
    <3>3. m = q
      BY <1>6, <3>2, Zenon
    <3> QED
      BY <2>6, <3>3, Zenon
  <2> QED
    BY <2>1, <2>2, <2>3, <2>4, <2>5, <2>6, Zenon
<1>8. IsInjective(f)
  BY <1>4, <1>7, InjectiveMember, Zenon
<1>9. Range(f) \cap DOMAIN c.tagOf = {}
  <2>1. ASSUME NEW x \in Range(f) PROVE x \in Range(e) \/ x \in b.deleted
    <3>1. PICK k \in 1 .. Len(f) : x = f[k]
      BY <1>4, RangeMember
    <3>2. CASE k \in 1 .. Len(e)
      BY <1>1, <1>4, <3>1, <3>2, RangeMember, ZenonT(30)
    <3>3. ASSUME NEW m \in 1 .. Len(order), k = Len(e) + m PROVE x \in b.deleted
      BY <1>4, <1>5, <3>1, <3>3
    <3> QED
      BY <1>5, <3>2, <3>3, Zenon
  <2> QED
    BY <1>1, <1>2, <2>1, Zenon
<1>10. ASSUME NEW t \in DOMAIN c.slotOf PROVE c.slotOf[t] \in DOMAIN c.tagOf /\ c.tagOf[c.slotOf[t]] = t
  <2>1. t \in DOMAIN b.slotOf /\ t \notin gone /\ c.slotOf[t] = b.slotOf[t]
    BY <1>2, Zenon
  <2>2. b.slotOf[t] \in DOMAIN b.tagOf /\ b.tagOf[b.slotOf[t]] = t
    BY <1>1, <2>1, Zenon
  <2>3. b.slotOf[t] \notin b.deleted
    BY <2>1, <2>2, Zenon
  <2> QED
    BY <1>2, <2>1, <2>2, <2>3, Zenon
<1>11. DOMAIN c.tagOf \subseteq Nat /\ IsFiniteSet(c.deleted) /\ c.deleted \subseteq DOMAIN c.tagOf
  BY <1>1, <1>2, FS_EmptySet, Zenon
<1>12. BookInv(c)
  BY <1>2, <1>4, <1>8, <1>9, <1>10, <1>11, Zenon DEF BookInv
<1> QED
  BY <1>2, <1>4, <1>12, Zenon

(***************************************************************************)
(* The book between stages, while tags are inserted, and while tags are    *)
(* deleted: each slot is free, deleted, held by a live tag, or about to be *)
(* held or deleted, and no live tag has a slot that is deleted.            *)
(***************************************************************************)
SlotsAtRest(b, held, room) ==
  /\ BookInv(b) /\ IsFiniteSet(held)
  /\ \A t \in held : t \in DOMAIN b.slotOf => b.slotOf[t] \notin b.deleted
  /\ Len(b.empty) + Cardinality(b.deleted) + Cardinality(held) = room

SlotsFilling(b, held, tags, slots, room) ==
  /\ BookInv(b) /\ IsFiniteSet(held)
  /\ tags \in Seq(Nat) /\ IsInjective(tags) /\ Taken(b, slots) /\ Len(tags) = Len(slots)
  /\ \A t \in held : t \in DOMAIN b.slotOf => b.slotOf[t] \notin b.deleted \/ t \in Range(tags)
  /\ Len(b.empty) + Cardinality(b.deleted) + Cardinality(held) = room

SlotsLeaving(b, held, tags, room) ==
  /\ BookInv(b) /\ IsFiniteSet(held)
  /\ tags \in Seq(Nat) /\ IsInjective(tags) /\ HasSlots(b, tags) /\ Range(tags) \cap held = {}
  /\ \A t \in held \cup Range(tags) : t \in DOMAIN b.slotOf => b.slotOf[t] \notin b.deleted
  /\ Len(b.empty) + Cardinality(b.deleted) + Cardinality(held) + Len(tags) = room

\* TagSlotManager::new
LEMMA NewAtRest ==
  ASSUME NEW n \in Nat \ {0}
  PROVE  SlotsAtRest(NewBook(n), {}, n - 1)
<1> DEFINE b == NewBook(n)
<1>1. /\ b = [empty |-> b.empty, deleted |-> b.deleted, slotOf |-> b.slotOf, tagOf |-> b.tagOf]
      /\ b.empty = [i \in 1 .. n - 1 |-> i - 1] /\ b.deleted = {}
      /\ b.slotOf = <<>> /\ b.tagOf = <<>>
  BY Zenon DEF NewBook
<1> HIDE DEF b
<1>2. b.empty \in Seq(Nat) /\ Len(b.empty) = n - 1 /\ \A k \in 1 .. n - 1 : b.empty[k] = k - 1
  BY <1>1
<1>3. IsInjective(b.empty)
  <2>1. ASSUME NEW j \in 1 .. n - 1, NEW k \in 1 .. n - 1, b.empty[j] = b.empty[k] PROVE j = k
    BY <1>2, <2>1
  <2> QED
    BY <1>2, <2>1, InjectiveMember, Zenon
<1>4. DOMAIN b.slotOf = {} /\ DOMAIN b.tagOf = {}
  BY <1>1
<1>5. BookInv(b)
  BY <1>1, <1>2, <1>3, <1>4, FS_EmptySet, Zenon DEF BookInv
<1>6. Cardinality({}) = 0 /\ IsFiniteSet({})
  BY FS_EmptySet, Zenon
<1> QED
  BY <1>1, <1>2, <1>5, <1>6 DEF SlotsAtRest, b

\* The tags of a stage are as many as it is long.
LEMMA TagsCount ==
  ASSUME NEW held, IsFiniteSet(held), NEW tags \in Seq(Nat), IsInjective(tags)
  PROVE  /\ Cardinality(held) \in Nat /\ Len(tags) \in Nat
         /\ IsFiniteSet(held \cup Range(tags)) /\ IsFiniteSet(held \ Range(tags))
         /\ Range(tags) \cap held = {} =>
              Cardinality(held \cup Range(tags)) = Cardinality(held) + Len(tags)
         /\ Range(tags) \subseteq held =>
              Cardinality(held \ Range(tags)) = Cardinality(held) - Len(tags)
<1>1. IsFiniteSet(Range(tags)) /\ Cardinality(Range(tags)) = Len(tags)
  BY InjectiveCount, Zenon
<1>2. Cardinality(held) \in Nat /\ Len(tags) \in Nat
  BY FS_CardinalityType
<1>3. /\ IsFiniteSet(held \cup Range(tags))
      /\ Cardinality(held \cup Range(tags)) =
           Cardinality(held) + Cardinality(Range(tags)) - Cardinality(held \cap Range(tags))
  BY <1>1, FS_Union, Zenon
<1>4. /\ IsFiniteSet(held \ Range(tags))
      /\ Cardinality(held \ Range(tags)) = Cardinality(held) - Cardinality(held \cap Range(tags))
  BY FS_Difference, Zenon
<1>5. ASSUME Range(tags) \cap held = {}
      PROVE  Cardinality(held \cup Range(tags)) = Cardinality(held) + Len(tags)
  <2>1. held \cap Range(tags) = {}
    BY <1>5, Zenon
  <2>2. Cardinality(held \cap Range(tags)) = 0
    BY <2>1, FS_EmptySet, Zenon
  <2> QED
    BY <1>1, <1>2, <1>3, <2>2
<1>6. ASSUME Range(tags) \subseteq held
      PROVE  Cardinality(held \ Range(tags)) = Cardinality(held) - Len(tags)
  <2>1. held \cap Range(tags) = Range(tags)
    BY <1>6, Zenon
  <2> QED
    BY <1>1, <1>4, <2>1, Zenon
<1> QED
  BY <1>2, <1>3, <1>4, <1>5, <1>6, Zenon

\* get_n_empty_slots, for different tags that are not live.
LEMMA TakeFills ==
  ASSUME NEW b, NEW held, NEW room \in Nat, SlotsAtRest(b, held, room),
         NEW tags \in Seq(Nat), IsInjective(tags), Range(tags) \cap held = {},
         HasEmptySlots(b, Len(tags))
  PROVE  SlotsFilling(TakeEmptySlots(b, Len(tags)), held \cup Range(tags), tags,
                      EmptySlots(b, Len(tags)), room)
<1>1. /\ BookInv(b) /\ IsFiniteSet(held)
      /\ \A t \in held : t \in DOMAIN b.slotOf => b.slotOf[t] \notin b.deleted
      /\ Len(b.empty) + Cardinality(b.deleted) + Cardinality(held) = room
  BY Zenon DEF SlotsAtRest
<1>2. PICK c, slots, n : c = TakeEmptySlots(b, Len(tags)) /\ slots = EmptySlots(b, Len(tags)) /\ n = Len(tags)
  BY Zenon
<1>3. n \in Nat
  BY <1>2
<1>4. /\ BookInv(c) /\ Taken(c, slots) /\ Len(slots) = n /\ Len(c.empty) = Len(b.empty) - n
      /\ c.deleted = b.deleted /\ c.slotOf = b.slotOf /\ c.tagOf = b.tagOf
  BY <1>1, <1>2, <1>3, TakeKeepsBook, Zenon
<1>5. /\ Cardinality(held) \in Nat /\ IsFiniteSet(held \cup Range(tags))
      /\ Cardinality(held \cup Range(tags)) = Cardinality(held) + n
  BY <1>1, <1>2, TagsCount, Zenon
<1>6. Len(b.empty) \in Nat /\ Cardinality(b.deleted) \in Nat
  BY <1>1, FS_CardinalityType DEF BookInv
<1>7. Len(c.empty) + Cardinality(c.deleted) + Cardinality(held \cup Range(tags)) = room
  BY <1>1, <1>3, <1>4, <1>5, <1>6
<1>8. \A t \in held \cup Range(tags) :
        t \in DOMAIN c.slotOf => c.slotOf[t] \notin c.deleted \/ t \in Range(tags)
  BY <1>1, <1>4, Zenon
<1> QED
  BY <1>2, <1>4, <1>5, <1>7, <1>8, Zenon DEF SlotsFilling

\* assign_slots_to_tags, for the tags that took the slots.
LEMMA AssignRests ==
  ASSUME NEW b, NEW held, NEW tags, NEW slots, NEW room, SlotsFilling(b, held, tags, slots, room)
  PROVE  SlotsAtRest(AssignSlotsToTags(b, tags, slots), held, room)
<1>1. /\ BookInv(b) /\ IsFiniteSet(held)
      /\ tags \in Seq(Nat) /\ IsInjective(tags) /\ Taken(b, slots) /\ Len(tags) = Len(slots)
      /\ \A t \in held : t \in DOMAIN b.slotOf => b.slotOf[t] \notin b.deleted \/ t \in Range(tags)
      /\ Len(b.empty) + Cardinality(b.deleted) + Cardinality(held) = room
  BY Zenon DEF SlotsFilling
<1>2. PICK c : c = AssignSlotsToTags(b, tags, slots)
  BY Zenon
<1>3. /\ BookInv(c) /\ c.empty = b.empty /\ c.deleted = b.deleted
      /\ \A t \in DOMAIN c.slotOf :
           \/ t \in Range(tags) /\ c.slotOf[t] \in Range(slots)
           \/ t \notin Range(tags) /\ t \in DOMAIN b.slotOf /\ c.slotOf[t] = b.slotOf[t]
  BY <1>1, <1>2, AssignKeepsBook
<1>4. b.deleted \subseteq DOMAIN b.tagOf /\ Range(slots) \cap DOMAIN b.tagOf = {}
  BY <1>1, Zenon DEF BookInv, Taken
<1>5. ASSUME NEW t \in held, t \in DOMAIN c.slotOf PROVE c.slotOf[t] \notin c.deleted
  BY <1>1, <1>3, <1>4, <1>5, Zenon
<1> QED
  BY <1>1, <1>2, <1>3, <1>5, Zenon DEF SlotsAtRest

\* The start of a deletion of different live tags.
LEMMA DeleteLeaves ==
  ASSUME NEW b, NEW held, NEW room \in Nat, SlotsAtRest(b, held, room),
         NEW tags \in Seq(Nat), IsInjective(tags), Range(tags) \subseteq held, HasSlots(b, tags)
  PROVE  SlotsLeaving(b, held \ Range(tags), tags, room)
<1>1. /\ BookInv(b) /\ IsFiniteSet(held)
      /\ \A t \in held : t \in DOMAIN b.slotOf => b.slotOf[t] \notin b.deleted
      /\ Len(b.empty) + Cardinality(b.deleted) + Cardinality(held) = room
  BY Zenon DEF SlotsAtRest
<1>2. /\ Cardinality(held) \in Nat /\ Len(tags) \in Nat /\ IsFiniteSet(held \ Range(tags))
      /\ Cardinality(held \ Range(tags)) = Cardinality(held) - Len(tags)
  BY <1>1, TagsCount, Zenon
<1>3. Len(b.empty) \in Nat /\ Cardinality(b.deleted) \in Nat
  BY <1>1, FS_CardinalityType DEF BookInv
<1>4. Len(b.empty) + Cardinality(b.deleted) + Cardinality(held \ Range(tags)) + Len(tags) = room
  BY <1>1, <1>2, <1>3
<1>5. /\ Range(tags) \cap (held \ Range(tags)) = {}
      /\ \A t \in (held \ Range(tags)) \cup Range(tags) :
           t \in DOMAIN b.slotOf => b.slotOf[t] \notin b.deleted
  BY <1>1, Zenon
<1> QED
  BY <1>1, <1>2, <1>4, <1>5, Zenon DEF SlotsLeaving

\* mark_tags_deleted, at the end of a deletion.
LEMMA MarkRests ==
  ASSUME NEW b, NEW held, NEW tags, NEW room \in Nat, SlotsLeaving(b, held, tags, room)
  PROVE  SlotsAtRest(MarkTagsDeleted(b, tags), held, room)
<1>1. /\ BookInv(b) /\ IsFiniteSet(held)
      /\ tags \in Seq(Nat) /\ IsInjective(tags) /\ HasSlots(b, tags) /\ Range(tags) \cap held = {}
      /\ \A t \in held \cup Range(tags) : t \in DOMAIN b.slotOf => b.slotOf[t] \notin b.deleted
      /\ Len(b.empty) + Cardinality(b.deleted) + Cardinality(held) + Len(tags) = room
  BY Zenon DEF SlotsLeaving
<1>2. PICK c : c = MarkTagsDeleted(b, tags)
  BY Zenon
<1>3. \A t \in Range(tags) : t \in DOMAIN b.slotOf /\ b.slotOf[t] \notin b.deleted
  BY <1>1, Zenon DEF HasSlots
<1>4. /\ BookInv(c) /\ c.empty = b.empty /\ c.slotOf = b.slotOf
      /\ \A s \in c.deleted : s \in b.deleted \/ \E t \in Range(tags) : s = b.slotOf[t]
      /\ Cardinality(c.deleted) = Cardinality(b.deleted) + Len(tags)
  BY <1>1, <1>2, <1>3, MarkKeepsBook
<1>5. \A t \in DOMAIN b.slotOf : b.tagOf[b.slotOf[t]] = t
  BY <1>1, Zenon DEF BookInv
<1>6. ASSUME NEW t \in held, t \in DOMAIN c.slotOf, c.slotOf[t] \in c.deleted PROVE FALSE
  <2>1. t \in DOMAIN b.slotOf /\ c.slotOf[t] = b.slotOf[t] /\ b.slotOf[t] \notin b.deleted
    BY <1>1, <1>4, <1>6, Zenon
  <2>2. PICK u \in Range(tags) : b.slotOf[t] = b.slotOf[u]
    BY <1>4, <1>6, <2>1, Zenon
  <2>3. u = t
    BY <1>3, <1>5, <2>1, <2>2, Zenon
  <2> QED
    BY <1>1, <2>3, Zenon
<1>7. /\ Len(b.empty) \in Nat /\ Cardinality(b.deleted) \in Nat /\ Cardinality(held) \in Nat
      /\ Len(tags) \in Nat
  BY <1>1, FS_CardinalityType DEF BookInv
<1>8. Len(c.empty) + Cardinality(c.deleted) + Cardinality(held) = room
  BY <1>1, <1>4, <1>7
<1> QED
  BY <1>1, <1>2, <1>4, <1>6, <1>8, Zenon DEF SlotsAtRest

\* consolidate, the deleted slots taken in any order.
LEMMA ConsolidateRests ==
  ASSUME NEW b, NEW held, NEW room \in Nat, SlotsAtRest(b, held, room),
         NEW order \in Seq(b.deleted), IsInjective(order), Len(order) = Cardinality(b.deleted)
  PROVE  SlotsAtRest(Consolidate(b, order), held, room)
<1>1. /\ BookInv(b) /\ IsFiniteSet(held)
      /\ Len(b.empty) + Cardinality(b.deleted) + Cardinality(held) = room
  BY Zenon DEF SlotsAtRest
<1>2. PICK c : c = Consolidate(b, order)
  BY Zenon
<1>3. BookInv(c) /\ c.deleted = {} /\ Len(c.empty) = Len(b.empty) + Cardinality(b.deleted)
  BY <1>1, <1>2, ConsolidateKeepsBook, Zenon
<1>4. Cardinality(c.deleted) = 0
  BY <1>3, FS_EmptySet, Zenon
<1>5. Len(b.empty) \in Nat /\ Cardinality(b.deleted) \in Nat /\ Cardinality(held) \in Nat
  BY <1>1, FS_CardinalityType DEF BookInv
<1>6. Len(c.empty) + Cardinality(c.deleted) + Cardinality(held) = room
  BY <1>1, <1>3, <1>4, <1>5
<1> QED
  BY <1>1, <1>2, <1>3, <1>6, Zenon DEF SlotsAtRest
============================================================================
