------------------------- MODULE TapeSearchProofs --------------------------
(***************************************************************************)
(* The inductive invariant of the TapeANN query loop (module TapeSearch),  *)
(* for every number of probes, clusters and queries and every ring depth   *)
(* that holds a batch; then what follows from it: the safety properties    *)
(* of the loop, and that it implements the abstract scan.                  *)
(***************************************************************************)
EXTENDS TapeSearch, FiniteSetTheorems, FunctionTheorems, TLAPS

\* Ring entries of different completions differ as long as the completions are
\* less than a ring apart (the masking of io_uring's free running counters).
LEMMA CqIndexDistinct ==
  ASSUME NEW n \in Nat, NEW m \in Nat, n < m, m - n < CqEntries
  PROVE  CqIndex(n) # CqIndex(m)
<1> DEFINE N == CqEntries
<1>1. N \in Nat /\ N > 0
  BY DepthAssumption, ProbesAssumption DEF CqEntries
<1> HIDE DEF N
<1>2. ASSUME NEW k \in Nat PROVE k = N * (k \div N) + (k % N) /\ k \div N \in Int /\ k % N \in 0 .. N - 1
  BY <1>1
<1>3. SUFFICES ASSUME n % N = m % N PROVE FALSE
  BY Zenon DEF CqIndex, N
<1> DEFINE a == n \div N  b == m \div N
<1>4. a \in Int /\ b \in Int /\ n = N * a + (n % N) /\ m = N * b + (m % N)
  BY <1>2, Zenon
<1> HIDE DEF a, b
<1>5. m - n = N * (b - a)
  BY <1>1, <1>2, <1>3, <1>4, SMTT(30)
<1>6. N * (b - a) > 0 /\ N * (b - a) < N
  BY <1>5 DEF N
<1>7. b - a \in Int /\ b - a > 0 /\ b - a < 1
  BY <1>1, <1>4, <1>6, SMTT(30)
<1> QED BY <1>7

LEMMA CqIndexType == \A n \in Nat : CqIndex(n) \in 0 .. CqEntries - 1
  BY DepthAssumption, ProbesAssumption DEF CqEntries, CqIndex

----------------------------------------------------------------------------
\* The ring and the pool start empty, so no round is in progress.
LEMMA InitIInv == Init => IInv
<1> SUFFICES ASSUME Init PROVE IInv
  BY Zenon
<1>1. 0 \in Slots /\ CqEntries \in Nat
  BY ProbesAssumption, DepthAssumption DEF Slots, CqEntries
<1>2. Rounds \in Nat
  BY QueriesAssumption DEF Rounds, WarmRounds
<1>3. TypeOK
  BY <1>1, <1>2, ProbesAssumption, SMTT(30) DEF Init, RingInit, TypeOK, Unset
<1>4. QuietInv /\ RoundInv /\ PostedInv /\ FreshInv
  BY Zenon DEF Init, RingInit, QuietInv, RoundInv, PostedInv, FreshInv
<1> QED BY <1>3, <1>4, Zenon DEF IInv

\* A batch is a sequence of well-typed requests.
LEMMA BatchType ==
  ASSUME NEW t \in Routes, round \in 0 .. Rounds - 1
  PROVE  Batch(t) \in Seq(RequestType) /\ Len(Batch(t)) = Probes
<1>1. ASSUME NEW n \in 1 .. Probes
      PROVE  Batch(t)[n] \in RequestType
  BY <1>1, ProbesAssumption DEF Batch, Request, RequestType, Routes, Slots, Unset
<1>2. Batch(t) = [n \in 1 .. Probes |-> Batch(t)[n]]
  BY Zenon DEF Batch
<1> QED BY <1>1, <1>2, ProbesAssumption

\* Submitting a round: the queue was empty, so the whole batch fits.
LEMMA SubmitIInv ==
  ASSUME IInv, NEW t \in Routes, Submit(t)
  PROVE  IInv'
<1> USE DEF IInv
<1>1. sq = << >> /\ inflight = {} /\ cqHead = cqTail /\ remaining = 0 /\ bNext = bEnd /\ scanned = {}
  BY Zenon DEF Submit, QuietInv
<1>2. FreeSqes >= Probes
  BY <1>1, DepthAssumption, ProbesAssumption DEF FreeSqes
<1>3. Rounds \in Nat /\ round \in 0 .. Rounds - 1
  BY QueriesAssumption DEF Submit, TypeOK, Rounds, WarmRounds
<1>4. Batch(t) \in Seq(RequestType) /\ Len(Batch(t)) = Probes
  BY <1>3, BatchType, Zenon
<1>5. sq' = Batch(t) /\ pc' = "drain" /\ remaining' = Probes /\ target' = t
  BY <1>1, <1>2, <1>4, SMTT(30) DEF Submit, Publish
<1>6. UNCHANGED <<inflight, cqRing, cqHead, cqTail, round, buffer, bNext, bEnd, scanned>>
  BY Zenon DEF Submit
<1>7. (Timed' <=> Timed) /\ Batch(t)' = Batch(t) /\ RequestType' = RequestType
  BY <1>6, SMTT(30) DEF Timed, Batch, Request, RequestType
<1>8. TypeOK'
  <2>1. total_ios' \in Nat
    BY <1>2, ProbesAssumption DEF Submit, TypeOK
  <2>2. target' \in [Slots -> Clusters \cup {Garbage}]
    BY <1>5, Zenon DEF Routes
  <2> QED BY <2>1, <2>2, <1>4, <1>5, <1>6, <1>7, ProbesAssumption, SMTT(30) DEF TypeOK
<1>9. QuietInv'
  BY <1>5, SMTT(30) DEF QuietInv
<1>10. RoundInv'
  <2>1. Cardinality(inflight') = 0 /\ IsFiniteSet(inflight')
    BY <1>1, <1>6, FS_EmptySet, SMTT(30)
  <2>2. \A n \in 1 .. Len(sq') : sq'[n] = Batch(t)[Probes - Len(sq') + n]
    BY <1>4, <1>5, ProbesAssumption, SMTT(30)
  <2>3. Batch(target)' = Batch(t)
    BY <1>5, <1>6, Zenon DEF Batch, Request, Timed
  <2>4. 0 <= Base'
    BY <1>5, <1>6, ProbesAssumption, SMTT(30) DEF Base, TypeOK
  <2> QED BY <2>1, <2>2, <2>3, <2>4, <1>1, <1>3, <1>4, <1>5, <1>6, ProbesAssumption, SMTT(30) DEF
             RoundInv, TypeOK
<1>11. Posted' = {} /\ Taken' = {} /\ Cursor' = Base'
  BY <1>1, <1>4, <1>5, <1>6, ProbesAssumption, SMTT(30) DEF Posted, Base, Taken, Place, Slots,
     Cursor, TypeOK
<1>12. PostedInv'
  BY <1>1, <1>6, <1>11, SMTT(30) DEF PostedInv, TypeOK
<1>13. FreshInv'
  BY <1>1, <1>5, <1>6, <1>11, ProbesAssumption, SMTT(30) DEF FreshInv, Base, TypeOK
<1> QED BY <1>8, <1>9, <1>10, <1>12, <1>13, SMTT(30)

\* Reads that the kernel has not moved stay what they are.
LEMMA RoundFrame ==
  ASSUME RoundInv, pc \in {"drain", "crashed"}, UNCHANGED <<sq, inflight, round, target>>
  PROVE  /\ (Timed' <=> Timed) /\ RequestType' = RequestType /\ Taken' = Taken
         /\ round' < Rounds
         /\ target' \in Routes
         /\ IsFiniteSet(inflight') /\ Cardinality(inflight) \in Nat
         /\ \A n \in 1 .. Len(sq') : sq'[n] = Batch(target)'[Probes - Len(sq') + n]
         /\ \A r \in inflight' : r.slot \in Taken' /\ r = Request(r.slot, target[r.slot])'
<1>1. (Timed' <=> Timed) /\ RequestType' = RequestType /\ Taken' = Taken
  BY Zenon DEF Timed, RequestType, Taken, Place
<1>2. Batch(target)' = Batch(target)
  BY <1>1, Zenon DEF Batch, Request
<1>3. ASSUME NEW r \in inflight
      PROVE  r.slot \in Taken' /\ r = Request(r.slot, target[r.slot])'
  BY <1>1, <1>3, Zenon DEF RoundInv, Request
<1> QED BY <1>1, <1>2, <1>3, FS_CardinalityType, SMTT(30) DEF RoundInv

\* The warm-up releases one completion and counts it.
LEMMA SeenIInv ==
  ASSUME IInv, Seen
  PROVE  IInv'
<1> USE DEF IInv
<1>1. /\ pc = "drain" /\ ~Timed /\ remaining > 0 /\ cqHead < cqTail
      /\ cqHead' = cqHead + 1 /\ remaining' = remaining - 1
      /\ UNCHANGED <<sq, inflight, cqRing, cqTail, pc, round, target, buffer, bNext, bEnd, scanned, total_ios>>
  BY Zenon DEF Seen, Advance
<1>2. (Timed' <=> Timed) /\ RequestType' = RequestType /\ Taken' = Taken
  BY <1>1, RoundFrame, Zenon
<1>3. TypeOK'
  BY <1>1, <1>2, ProbesAssumption, SMTT(30) DEF TypeOK
<1>4. RoundInv'
  <2>1. Cardinality(inflight) \in Nat /\ Len(sq) \in Nat
    BY <1>1, RoundFrame DEF TypeOK
  <2>2. /\ cqHead' <= cqTail'
        /\ Len(sq') + Cardinality(inflight') + (cqTail' - cqHead') = remaining'
        /\ bNext' = bEnd'
    BY <2>1, <1>1, SMTT(30) DEF RoundInv, TypeOK
  <2>3. 0 <= Base'
    BY <1>1, ProbesAssumption, SMTT(30) DEF RoundInv, Base, TypeOK
  <2> QED BY <2>2, <2>3, <1>1, RoundFrame, SMTT(30) DEF RoundInv
<1>5. QuietInv' /\ PostedInv' /\ FreshInv'
  BY <1>1, <1>2, Zenon DEF QuietInv, PostedInv, FreshInv
<1> QED BY <1>3, <1>4, <1>5, Zenon

\* The timed loop collects and releases what has been posted: the round's
\* completions keep their numbers, and the cursor stays where it is.
LEMMA ReapIInv ==
  ASSUME IInv, Reap
  PROVE  IInv'
<1> USE DEF IInv
<1> DEFINE count == IF cqTail - cqHead < remaining THEN cqTail - cqHead ELSE remaining
<1>1. /\ pc = "drain" /\ Timed /\ remaining > 0 /\ cqHead < cqTail /\ bNext = bEnd
      /\ cqHead' = cqHead + count /\ remaining' = remaining - count
      /\ bNext' = cqHead /\ bEnd' = cqHead + count
      /\ UNCHANGED <<sq, inflight, cqRing, cqTail, pc, round, target, buffer, scanned, total_ios>>
  BY Zenon DEF Reap, Advance
<1>2. Cardinality(inflight) \in Nat /\ Len(sq) \in Nat
  BY <1>1, FS_CardinalityType, SMTT(30) DEF RoundInv, TypeOK
<1>3. count = cqTail - cqHead /\ count \in Nat \ {0} /\ count <= remaining
  BY <1>1, <1>2 DEF RoundInv, TypeOK
<1> HIDE DEF count
<1>4. (Timed' <=> Timed) /\ RequestType' = RequestType /\ Taken' = Taken
  BY <1>1, RoundFrame, Zenon
<1>5. /\ Base' = Base /\ Posted' = Posted /\ Cursor' = Cursor
      /\ \A n : SlotAt(n)' = SlotAt(n)
  BY <1>1, <1>3, ProbesAssumption DEF Base, Posted, Cursor, SlotAt, TypeOK
<1>6. TypeOK'
  BY <1>1, <1>3, <1>4, ProbesAssumption, SMTT(30) DEF TypeOK
<1>7. RoundInv'
  <2>1. Len(sq) + Cardinality(inflight) + (cqTail - cqHead) = remaining
    BY <1>1, Zenon DEF RoundInv
  <2>2. cqHead \in Nat /\ cqTail \in Nat /\ remaining \in Nat
    BY ProbesAssumption DEF TypeOK
  <2>3. cqHead' = cqTail' /\ remaining' = Len(sq') + Cardinality(inflight')
    BY <1>1, <1>2, <1>3, <2>1, <2>2, SMTT(30)
  <2>4. /\ cqHead' <= cqTail'
        /\ Len(sq') + Cardinality(inflight') + (cqTail' - cqHead') = remaining'
    BY <1>1, <1>2, <2>2, <2>3, SMTT(30)
  <2> QED BY <2>4, <1>1, <1>4, <1>5, RoundFrame, SMTT(30) DEF RoundInv
<1>8. PostedInv'
  <2>1. Base <= cqHead
    BY <1>1, ProbesAssumption, SMTT(30) DEF Base, TypeOK
  <2> QED BY <2>1, <1>1, <1>3, <1>4, <1>5, SMTT(30) DEF PostedInv, TypeOK
<1>9. FreshInv'
  BY <1>1, <1>4, <1>5, SMTT(30) DEF FreshInv
<1>10. QuietInv'
  BY <1>1, Zenon DEF QuietInv
<1> QED BY <1>6, <1>7, <1>8, <1>9, <1>10, SMTT(30)

\* While the batch is being scored, the entry read next is a completion of this
\* round: it holds the slot the kernel posted there.
LEMMA CursorPosted ==
  ASSUME IInv, pc = "drain", Timed, bNext < bEnd
  PROVE  /\ bNext \in Posted /\ Cursor = bNext
         /\ BatchSlot = SlotAt(bNext) /\ BatchSlot \in Slots
<1>1. bNext \in Posted /\ Cursor = bNext
  BY ProbesAssumption DEF IInv, PostedInv, RoundInv, Posted, Base, Cursor, TypeOK
<1>2. BatchSlot = SlotAt(bNext)
  BY SMTT(30) DEF BatchSlot, SlotAt
<1> QED BY <1>1, <1>2, SMTT(30) DEF IInv, PostedInv, Taken

\* Scoring a slot moves the cursor over one completion.
LEMMA ScoreIInv ==
  ASSUME IInv, Score
  PROVE  IInv'
<1> USE DEF IInv
<1>1. /\ pc = "drain" /\ Timed /\ bNext < bEnd /\ bNext' = bNext + 1
      /\ UNCHANGED <<ringVars, round, target, buffer, remaining, bEnd, total_ios>>
  BY Zenon DEF Score
<1>2. UNCHANGED <<sq, inflight, cqRing, cqHead, cqTail>>
  BY <1>1, Zenon DEF ringVars
<1>3. /\ bNext \in Posted /\ Cursor = bNext
      /\ BatchSlot = SlotAt(bNext) /\ BatchSlot \in Slots
  BY <1>1, CursorPosted, SMTT(30)
<1>4. (Timed' <=> Timed) /\ RequestType' = RequestType /\ Taken' = Taken
  BY <1>1, <1>2, RoundFrame, SMTT(30)
<1>5. Base' = Base /\ Posted' = Posted /\ Cursor' = Cursor + 1 /\ \A n : SlotAt(n)' = SlotAt(n)
  BY <1>1, <1>2, <1>3, SMTT(30) DEF Base, Posted, Cursor, SlotAt, TypeOK, PostedInv
<1>6. /\ pc' \in {"drain", "crashed"}
      /\ pc' = "drain" => target[BatchSlot] \in Stored /\ scanned' = scanned \cup {buffer[BatchSlot]}
      /\ pc' = "crashed" => scanned' = scanned
  BY <1>1, Zenon DEF Score
<1>7. TypeOK'
  BY <1>1, <1>2, <1>3, <1>4, <1>6, SMTT(30) DEF TypeOK
<1>8. RoundInv'
  BY <1>1, <1>2, <1>4, <1>5, <1>6, RoundFrame, SMTT(30) DEF RoundInv
<1>9. PostedInv'
  <2>1. bNext' <= bEnd' /\ (bNext' < bEnd' => Base' <= bNext' /\ bEnd' = cqHead')
    BY <1>1, <1>2, <1>5, ProbesAssumption, SMTT(30) DEF PostedInv, Base, TypeOK
  <2>2. /\ \A n \in Posted : SlotAt(n) \in Taken
        /\ \A n \in Posted : \A r \in inflight : r.slot # SlotAt(n)
        /\ \A n, m \in Posted : SlotAt(n) = SlotAt(m) => n = m
        /\ \A s \in Taken : (\E r \in inflight : r.slot = s) \/ (\E n \in Posted : SlotAt(n) = s)
    BY <1>1, Zenon DEF PostedInv
  <2> HIDE DEF IInv
  <2>3. \A n \in Posted' : SlotAt(n)' \in Taken'
    BY <1>4, <1>5, <2>2, Zenon
  <2>4. \A n \in Posted' : \A r \in inflight' : r.slot # SlotAt(n)'
    BY <1>2, <1>5, <2>2, Zenon
  <2>5. \A n, m \in Posted' : SlotAt(n)' = SlotAt(m)' => n = m
    BY <1>5, <2>2, Zenon
  <2>6. \A s \in Taken' : (\E r \in inflight' : r.slot = s) \/ (\E n \in Posted' : SlotAt(n)' = s)
    BY <1>2, <1>4, <1>5, <2>2, Zenon
  <2> QED BY <2>1, <2>3, <2>4, <2>5, <2>6, Zenon DEF PostedInv
<1>10. FreshInv'
  <2> SUFFICES ASSUME pc' = "drain", ~ReadFaults PROVE FreshInv'
    BY Zenon DEF FreshInv
  <2>1. buffer[BatchSlot] = target[SlotAt(bNext)]
    BY <1>1, <1>3, <1>6, SMTT(30) DEF FreshInv
  <2>2. Base .. Cursor' - 1 = (Base .. Cursor - 1) \cup {bNext}
    BY <1>1, <1>3, <1>5, ProbesAssumption, SMTT(30) DEF Posted, Base, TypeOK
  <2> HIDE DEF IInv
  <2>3. scanned' = {target[SlotAt(n)] : n \in Base .. Cursor' - 1}
    BY <1>1, <1>6, <2>1, <2>2, SMTT(30) DEF FreshInv, IInv
  <2> QED BY <2>3, <1>1, <1>2, <1>4, <1>5, <1>6, SMTT(30) DEF FreshInv, IInv
<1>11. QuietInv'
  BY <1>6, Zenon DEF QuietInv
<1> QED BY <1>7, <1>8, <1>9, <1>10, <1>11, Zenon

\* A drain loop that has counted its last completion has left nothing behind.
LEMMA RoundOver ==
  ASSUME IInv, pc = "drain", remaining = 0
  PROVE  sq = << >> /\ inflight = {} /\ cqHead = cqTail
<1>1. /\ IsFiniteSet(inflight) /\ cqHead <= cqTail
      /\ Len(sq) + Cardinality(inflight) + (cqTail - cqHead) = 0
  BY Zenon DEF IInv, RoundInv
<1>2. Len(sq) \in Nat /\ Cardinality(inflight) \in Nat /\ cqHead \in Nat /\ cqTail \in Nat
  BY <1>1, FS_CardinalityType DEF IInv, TypeOK
<1>3. Len(sq) = 0 /\ Cardinality(inflight) = 0 /\ cqHead = cqTail
  BY <1>1, <1>2
<1>4. inflight = {}
  BY <1>1, <1>3, FS_EmptySet, Zenon
<1>5. sq = << >>
  BY <1>3 DEF IInv, TypeOK
<1> QED BY <1>3, <1>4, <1>5, SMTT(30)

\* A finished round leaves both rings and the kernel empty.
LEMMA FinishIInv ==
  ASSUME IInv, Finish
  PROVE  IInv'
<1> USE DEF IInv
<1>1. /\ pc = "drain" /\ remaining = 0 /\ bNext = bEnd /\ round' = round + 1
      /\ pc' \in {"route", "done"} /\ scanned' = {}
      /\ UNCHANGED <<sq, inflight, cqRing, cqHead, cqTail, target, buffer, remaining, bNext, bEnd, total_ios>>
  BY ProbesAssumption DEF Finish, ringVars, TypeOK
<1>2. sq = << >> /\ inflight = {} /\ cqHead = cqTail
  BY <1>1, RoundOver, SMTT(30)
<1>3. round' \in 0 .. Rounds
  BY <1>1, QueriesAssumption, SMTT(30) DEF RoundInv, TypeOK, Rounds, WarmRounds
<1>4. TypeOK'
  BY <1>1, <1>3, SMTT(30) DEF TypeOK, RequestType
<1>5. QuietInv' /\ RoundInv' /\ PostedInv' /\ FreshInv'
  <2>1. pc' \notin {"drain", "crashed"} /\ pc' # "drain"
    BY <1>1, Zenon
  <2>2. QuietInv'
    BY <1>1, <1>2, Zenon DEF QuietInv
  <2> QED BY <2>1, <2>2, Zenon DEF RoundInv, PostedInv, FreshInv
<1> QED BY <1>4, <1>5, Zenon

\* The oldest queued read is the next one of the batch.
LEMMA ConsumeIInv ==
  ASSUME IInv, KernelConsume
  PROVE  IInv'
<1> USE DEF IInv
<1> DEFINE r == Head(sq)  k == Probes - Len(sq) + 1
<1>1. /\ sq # << >> /\ pc # "crashed" /\ inflight' = inflight \cup {r} /\ sq' = Tail(sq)
      /\ UNCHANGED <<cqRing, cqHead, cqTail, pc, round, target, buffer, remaining, bNext, bEnd, scanned, total_ios>>
  BY Zenon DEF KernelConsume, Consume, progVars
<1>2. pc = "drain"
  BY <1>1, Zenon DEF QuietInv, TypeOK
<1>3. /\ Len(sq) \in Nat \ {0} /\ Len(sq') = Len(sq) - 1
      /\ \A n \in 1 .. Len(sq') : sq'[n] = sq[n + 1]
      /\ sq' \in Seq(RequestType) /\ r = sq[1] /\ r \in RequestType
  BY <1>1, SMTT(30) DEF TypeOK
<1>4. Cardinality(inflight) \in Nat /\ IsFiniteSet(inflight)
  BY <1>2, FS_CardinalityType, SMTT(30) DEF RoundInv
<1>5. Len(sq) <= Probes
  BY <1>2, <1>3, <1>4, ProbesAssumption, SMTT(30) DEF RoundInv, TypeOK
<1>6. k \in 1 .. Probes /\ r = Batch(target)[k]
  BY <1>2, <1>3, <1>5, ProbesAssumption, SMTT(30) DEF RoundInv
<1>7. /\ r.slot \in Slots /\ Place(r.slot) = k
      /\ r = Request(r.slot, target[r.slot])
  BY <1>6, ProbesAssumption DEF Batch, Request, Place, Slots
<1> HIDE DEF r, k
<1>8. (Timed' <=> Timed) /\ RequestType' = RequestType
  BY <1>1, Zenon DEF Timed, RequestType
<1>9. Taken' = Taken \cup {r.slot} /\ r.slot \notin Taken
  <2>1. \A s \in Slots : Place(s)' = Place(s) /\ Place(s) \in Int
    BY <1>8, ProbesAssumption DEF Place, Slots
  <2>2. \A s \in Slots : Place(s) = Place(r.slot) => s = r.slot
    BY <1>7, ProbesAssumption, SMTT(30) DEF Place, Slots
  <2> QED BY <2>1, <2>2, <1>3, <1>7, ProbesAssumption, SMTT(30) DEF Taken, k
<1>10. r \notin inflight /\ \A x \in inflight : x.slot # r.slot
  BY <1>2, <1>9, SMTT(30) DEF RoundInv
<1>11. IsFiniteSet(inflight') /\ Cardinality(inflight') = Cardinality(inflight) + 1
  BY <1>1, <1>4, <1>10, FS_AddElement, SMTT(30)
<1>12. TypeOK'
  BY <1>1, <1>3, <1>8, SMTT(30) DEF TypeOK
<1>13. QuietInv'
  BY <1>1, <1>2, Zenon DEF QuietInv
<1>14. Base' = Base /\ Posted' = Posted /\ Cursor' = Cursor /\ \A n : SlotAt(n)' = SlotAt(n)
  BY <1>1, SMTT(30) DEF Base, Posted, Cursor, SlotAt
<1>15. RoundInv'
  <2>1. Batch(target)' = Batch(target)
    BY <1>1, <1>8, SMTT(30) DEF Batch, Request
  <2>2. \A x \in inflight' : x.slot \in Taken' /\ x = Request(x.slot, target[x.slot])'
    BY <1>1, <1>2, <1>7, <1>8, <1>9, SMTT(30) DEF RoundInv, Request
  <2>3. \A n \in 1 .. Len(sq') : sq'[n] = Batch(target)'[Probes - Len(sq') + n]
    <3> SUFFICES ASSUME NEW n \in 1 .. Len(sq') PROVE sq'[n] = Batch(target)[Probes - Len(sq') + n]
      BY <2>1, Zenon
    <3>1. n + 1 \in 1 .. Len(sq) /\ Probes - Len(sq) + (n + 1) = Probes - Len(sq') + n
      BY <1>3, ProbesAssumption, SMTT(30)
    <3> QED BY <3>1, <1>2, <1>3, SMTT(30) DEF RoundInv
  <2>4. Len(sq') + Cardinality(inflight') + (cqTail' - cqHead') = remaining'
    BY <1>1, <1>2, <1>3, <1>4, <1>11, SMTT(30) DEF RoundInv, TypeOK
  <2> QED BY <2>2, <2>3, <2>4, <1>1, <1>2, <1>8, <1>11, <1>14, ZenonT(30) DEF RoundInv
<1>16. PostedInv'
  <2> SUFFICES ASSUME Timed PROVE PostedInv'
    BY <1>8, Zenon DEF PostedInv
  <2>1. /\ \A n \in Posted : SlotAt(n) \in Taken
        /\ \A n \in Posted : \A x \in inflight : x.slot # SlotAt(n)
        /\ \A n, m \in Posted : SlotAt(n) = SlotAt(m) => n = m
        /\ \A s \in Taken : (\E x \in inflight : x.slot = s) \/ (\E n \in Posted : SlotAt(n) = s)
        /\ bNext <= bEnd
        /\ bNext < bEnd => Base <= bNext /\ bEnd = cqHead
    BY <1>2, Zenon DEF PostedInv
  <2> HIDE DEF IInv
  <2>2. \A n \in Posted' : SlotAt(n)' \in Taken'
    BY <1>9, <1>14, <2>1, Zenon
  <2>3. ASSUME NEW n \in Posted', NEW x \in inflight' PROVE x.slot # SlotAt(n)'
    <3>1. n \in Posted /\ SlotAt(n)' = SlotAt(n) /\ SlotAt(n) \in Taken
      BY <1>14, <2>1, Zenon
    <3>2. CASE x \in inflight
      BY <2>1, <3>1, <3>2, Zenon
    <3>3. CASE x = r
      BY <1>9, <3>1, <3>3, Zenon
    <3> QED BY <1>1, <3>2, <3>3, Zenon
  <2>4. \A n, m \in Posted' : SlotAt(n)' = SlotAt(m)' => n = m
    BY <1>14, <2>1, Zenon
  <2>5. ASSUME NEW s \in Taken'
        PROVE  (\E x \in inflight' : x.slot = s) \/ (\E n \in Posted' : SlotAt(n)' = s)
    <3>1. CASE s = r.slot
      <4>1. r \in inflight'
        BY <1>1, Zenon
      <4> QED BY <3>1, <4>1, Zenon
    <3>2. CASE s \in Taken
      <4>1. (\E x \in inflight : x.slot = s) \/ (\E n \in Posted : SlotAt(n) = s)
        BY <2>1, <3>2, Zenon
      <4>2. inflight \subseteq inflight'
        BY <1>1, Zenon
      <4> QED BY <1>14, <4>1, <4>2, Zenon
    <3> QED BY <1>9, <3>1, <3>2, Zenon
  <2>6. bNext' <= bEnd' /\ (bNext' < bEnd' => Base' <= bNext' /\ bEnd' = cqHead')
    BY <1>1, <1>14, <2>1, Zenon
  <2> QED BY <2>2, <2>3, <2>4, <2>5, <2>6, Zenon DEF PostedInv
<1>17. FreshInv'
  BY <1>1, <1>8, <1>14, Zenon DEF FreshInv
<1> QED BY <1>12, <1>13, <1>15, <1>16, <1>17, SMTT(30)

\* A completion goes to an entry that no completion of the round occupies.
LEMMA CompleteIInv ==
  ASSUME IInv, NEW r \in inflight, KernelComplete(r)
  PROVE  IInv'
<1> USE DEF IInv
<1>1. /\ pc # "crashed" /\ inflight' = inflight \ {r}
      /\ cqRing' = [cqRing EXCEPT ![CqIndex(cqTail)] = r.data]
      /\ cqTail' = cqTail + 1
      /\ UNCHANGED <<sq, cqHead, pc, round, target, remaining, bNext, bEnd, scanned, total_ios>>
  BY Zenon DEF KernelComplete, Post
<1>2. pc = "drain"
  BY <1>1, SMTT(30) DEF QuietInv, TypeOK
<1>3. /\ r \in RequestType /\ r.slot \in Taken /\ r = Request(r.slot, target[r.slot])
      /\ r.slot \in Slots /\ r.cluster = target[r.slot] /\ r.data \in Slots
  <2>1. r \in RequestType
    BY Zenon DEF TypeOK
  <2>2. r.slot \in Taken /\ r = Request(r.slot, target[r.slot])
    BY <1>2, Zenon DEF RoundInv
  <2>3. r.slot \in Slots /\ r.data \in Slots
    BY ONLY <2>1, Zenon DEF RequestType
  <2>4. r.cluster = target[r.slot]
    BY ONLY <2>2 DEF Request
  <2> QED BY <2>1, <2>2, <2>3, <2>4, Zenon
<1>4. /\ IsFiniteSet(inflight) /\ Cardinality(inflight) \in Nat \ {0}
      /\ IsFiniteSet(inflight') /\ Cardinality(inflight') = Cardinality(inflight) - 1
  BY <1>1, <1>2, FS_CardinalityType, FS_EmptySet, FS_RemoveElement, ZenonT(30) DEF RoundInv
<1>5. /\ Base \in Nat /\ Base' = Base /\ cqTail \in Nat /\ Base <= cqTail
      /\ cqTail - Base < Probes
  <2>1. Len(sq) \in Nat /\ cqHead \in Nat /\ cqTail \in Nat /\ remaining \in Nat
    BY ProbesAssumption, SMTT(30) DEF TypeOK
  <2>2. Base \in Nat /\ Base' = Base
    <3>1. 0 <= Base
      BY <1>2, Zenon DEF RoundInv
    <3> QED BY <1>1, <2>1, <3>1, ProbesAssumption DEF Base
  <2>3. /\ Len(sq) + Cardinality(inflight) + (cqTail - cqHead) = remaining
        /\ cqHead <= cqTail /\ remaining <= Probes
    <3>1. Len(sq) + Cardinality(inflight) + (cqTail - cqHead) = remaining /\ cqHead <= cqTail
      BY <1>2, Zenon DEF RoundInv
    <3>2. remaining <= Probes
      BY ProbesAssumption DEF TypeOK
    <3> QED BY <3>1, <3>2, Zenon
  <2> QED BY <2>1, <2>2, <2>3, <1>4, ProbesAssumption, SMTT(30) DEF Base
<1>6. (Timed' <=> Timed) /\ RequestType' = RequestType /\ Taken' = Taken /\ Cursor' = Cursor
  BY <1>1, Zenon DEF Timed, RequestType, Taken, Place, Cursor
<1>7. Posted' = Posted \cup {cqTail} /\ cqTail \notin Posted
  BY <1>1, <1>5, SMTT(30) DEF Posted
<1>8. ASSUME NEW n \in Nat, n = cqTail
      PROVE  CqIndex(n) \in 0 .. CqEntries - 1 /\ SlotAt(n)' = r.data
  <2>1. CqIndex(n) \in 0 .. CqEntries - 1 /\ CqIndex(n)' = CqIndex(n)
    BY CqIndexType, SMTT(30) DEF CqIndex, CqEntries
  <2> QED BY <2>1, <1>1, <1>8, SMTT(30) DEF SlotAt, TypeOK
<1>9. ASSUME NEW n \in Posted
      PROVE  SlotAt(n)' = SlotAt(n)
  <2>1. n \in Nat /\ n < cqTail /\ cqTail - n < CqEntries
    BY <1>5, <1>9, ProbesAssumption, DepthAssumption, SMTT(30) DEF Posted, CqEntries
  <2>2. CqIndex(n) # CqIndex(cqTail)
    BY <2>1, <1>5, CqIndexDistinct, SMTT(30)
  <2>3. CqIndex(n) \in 0 .. CqEntries - 1 /\ CqIndex(n)' = CqIndex(n)
    BY <2>1, CqIndexType, SMTT(30) DEF CqIndex, CqEntries
  <2> QED BY <2>2, <2>3, <1>1, SMTT(30) DEF SlotAt, TypeOK
<1>10. /\ buffer' \in [Slots -> Clusters \cup {Garbage}]
       /\ \A s \in Slots : s # r.slot => buffer'[s] = buffer[s]
       /\ ~ReadFaults /\ target[r.slot] \in Stored => buffer'[r.slot] = target[r.slot]
  <2>1. /\ buffer \in [Slots -> Clusters \cup {Garbage}]
        /\ r.cluster \in Clusters /\ Stored \subseteq Clusters
    BY <1>3, ClustersAssumption, Zenon DEF TypeOK, RequestType
  <2>2. \/ r.cluster \in Stored /\ buffer' = [buffer EXCEPT ![r.slot] = r.cluster]
        \/ (r.cluster \notin Stored \/ ReadFaults) /\ buffer' = buffer
        \/ ReadFaults /\ buffer' = [buffer EXCEPT ![r.slot] = Garbage]
    BY Zenon DEF KernelComplete
  <2>3. CASE r.cluster \in Stored /\ buffer' = [buffer EXCEPT ![r.slot] = r.cluster]
    BY ONLY <1>3, <2>1, <2>3, Zenon
  <2>4. CASE (r.cluster \notin Stored \/ ReadFaults) /\ buffer' = buffer
    BY ONLY <1>3, <2>1, <2>4, Zenon
  <2>5. CASE ReadFaults /\ buffer' = [buffer EXCEPT ![r.slot] = Garbage]
    BY ONLY <1>3, <2>1, <2>5, Zenon
  <2> QED BY <2>2, <2>3, <2>4, <2>5, Zenon
<1>11. TypeOK'
  <2>1. cqRing' \in [0 .. CqEntries - 1 -> Slots]
    <3>1. cqRing \in [0 .. CqEntries - 1 -> Slots]
      BY Zenon DEF TypeOK
    <3> QED BY <1>1, <1>3, <3>1, Zenon
  <2>2. inflight' \subseteq RequestType' /\ sq' \in Seq(RequestType')
    BY <1>1, <1>6, Zenon DEF TypeOK
  <2>3. cqTail' \in Nat /\ CqEntries' = CqEntries
    BY <1>1, <1>5 DEF CqEntries
  <2>4. /\ cqHead \in Nat /\ pc \in {"route", "drain", "done", "crashed"} /\ round \in 0 .. Rounds
        /\ target \in [Slots -> Clusters \cup {Garbage}] /\ remaining \in 0 .. Probes
        /\ bNext \in Nat /\ bEnd \in Nat /\ scanned \subseteq Clusters \cup {Garbage} /\ total_ios \in Nat
    BY Zenon DEF TypeOK
  <2> HIDE DEF IInv
  <2> QED BY <1>1, <1>10, <2>1, <2>2, <2>3, <2>4, Zenon DEF TypeOK
<1>12. QuietInv'
  BY <1>1, <1>2, SMTT(30) DEF QuietInv
<1>13. RoundInv'
  <2>1. Batch(target)' = Batch(target)
    BY <1>1, <1>6, SMTT(30) DEF Batch, Request
  <2>2. \A x \in inflight' : x.slot \in Taken' /\ x = Request(x.slot, target[x.slot])'
    BY <1>1, <1>2, <1>6, SMTT(30) DEF RoundInv, Request
  <2>3. cqHead' <= cqTail' /\ Len(sq') + Cardinality(inflight') + (cqTail' - cqHead') = remaining'
    <3>1. /\ Len(sq) + Cardinality(inflight) + (cqTail - cqHead) = remaining
          /\ cqHead <= cqTail
      BY <1>2, SMTT(30) DEF RoundInv
    <3>2. Len(sq) \in Nat /\ cqHead \in Nat /\ cqTail \in Nat /\ remaining \in Nat
      BY ProbesAssumption DEF TypeOK
    <3> QED BY <3>1, <3>2, <1>1, <1>4, SMTT(30)
  <2> QED BY <2>1, <2>2, <2>3, <1>1, <1>2, <1>4, <1>5, <1>6, ZenonT(30) DEF RoundInv
<1>14. ASSUME Timed
       PROVE  PostedInv'
  <2>1. r.data = r.slot /\ \A n \in Nat : n = cqTail => SlotAt(n)' = r.slot
    BY <1>3, <1>8, <1>14, SMTT(30) DEF Request
  <2>2. \A x \in inflight' : x.slot # r.slot
    BY <1>1, <1>2, <1>3, SMTT(30) DEF RoundInv, Request
  <2>3. /\ \A n \in Posted : SlotAt(n) \in Taken
        /\ \A n \in Posted : \A x \in inflight : x.slot # SlotAt(n)
        /\ \A n, m \in Posted : SlotAt(n) = SlotAt(m) => n = m
        /\ \A s \in Taken : (\E x \in inflight : x.slot = s) \/ (\E n \in Posted : SlotAt(n) = s)
        /\ bNext <= bEnd
        /\ bNext < bEnd => Base <= bNext /\ bEnd = cqHead
    BY <1>2, <1>14, Zenon DEF PostedInv
  <2>4. \A n \in Posted : SlotAt(n) # r.slot
    BY <2>3, Zenon
  <2> HIDE DEF IInv
  <2>5. ASSUME NEW n \in Posted'
        PROVE  \/ n \in Posted /\ SlotAt(n)' = SlotAt(n)
               \/ n = cqTail /\ n \in Nat /\ SlotAt(n)' = r.slot
    BY <1>5, <1>7, <1>9, <2>1, Zenon
  <2>6. \A n \in Posted' : SlotAt(n)' \in Taken'
    BY <1>3, <1>6, <2>3, <2>5
  <2>7. ASSUME NEW n \in Posted', NEW x \in inflight' PROVE x.slot # SlotAt(n)'
    BY <1>1, <2>2, <2>3, <2>5, Zenon
  <2>8. ASSUME NEW n \in Posted', NEW m \in Posted', SlotAt(n)' = SlotAt(m)' PROVE n = m
    BY <2>3, <2>4, <2>5, <2>8
  <2>9. ASSUME NEW s \in Taken'
        PROVE  (\E x \in inflight' : x.slot = s) \/ (\E n \in Posted' : SlotAt(n)' = s)
    <3>1. CASE s = r.slot
      <4>1. \E n \in Posted' : n = cqTail /\ SlotAt(n)' = r.slot
        BY <1>5, <1>7, <2>1, Zenon
      <4> QED BY <3>1, <4>1, Zenon
    <3>2. CASE s # r.slot /\ \E x \in inflight : x.slot = s
      BY <1>1, <3>2, Zenon
    <3>3. CASE \E n \in Posted : SlotAt(n) = s
      BY <1>7, <1>9, <3>3, Zenon
    <3> QED BY <1>6, <2>3, <3>1, <3>2, <3>3, Zenon
  <2>10. bNext' <= bEnd' /\ (bNext' < bEnd' => Base' <= bNext' /\ bEnd' = cqHead')
    BY <1>1, <1>5, <2>3, Zenon
  <2> QED BY <2>6, <2>7, <2>8, <2>9, <2>10, Zenon DEF PostedInv
<1>15. ASSUME Timed
       PROVE  FreshInv'
  <2> SUFFICES ASSUME ~ReadFaults PROVE FreshInv'
    BY Zenon DEF FreshInv
  <2>1. \A n \in Nat : n = cqTail => SlotAt(n)' = r.slot
    BY <1>3, <1>8, <1>15 DEF Request
  <2>2. \A n \in Posted : SlotAt(n) \in Slots /\ SlotAt(n) # r.slot
    BY <1>2, <1>15, SMTT(30) DEF PostedInv, Taken
  <2>3. \A n \in Posted' : target[SlotAt(n)'] \in Stored => buffer'[SlotAt(n)'] = target[SlotAt(n)']
    <3> SUFFICES ASSUME NEW n \in Posted'
                 PROVE  target[SlotAt(n)'] \in Stored => buffer'[SlotAt(n)'] = target[SlotAt(n)']
      BY SMTT(30)
    <3>1. CASE n = cqTail
      BY <3>1, <2>1, <1>5, <1>10, SMTT(30)
    <3>2. CASE n \in Posted
      <4>1. SlotAt(n)' = SlotAt(n)
        BY <3>2, <1>9, SMTT(30)
      <4>2. buffer'[SlotAt(n)] = buffer[SlotAt(n)]
        BY <3>2, <2>2, <1>10, SMTT(30)
      <4>3. target[SlotAt(n)] \in Stored => buffer[SlotAt(n)] = target[SlotAt(n)]
        BY <3>2, <1>2, <1>15, SMTT(30) DEF FreshInv
      <4> QED BY <4>1, <4>2, <4>3, Zenon
    <3> QED BY <3>1, <3>2, <1>7, SMTT(30)
  <2>4. Base .. Cursor - 1 \subseteq Posted
    <3>1. bNext \in Nat /\ bEnd \in Nat /\ cqHead \in Nat
      BY Zenon DEF TypeOK
    <3>2. (bNext < bEnd => bEnd = cqHead) /\ cqHead <= cqTail
      BY <1>2, <1>15, Zenon DEF PostedInv, RoundInv
    <3>3. Cursor \in Nat /\ Cursor <= cqTail
      BY <1>5, <3>1, <3>2 DEF Cursor
    <3> QED BY <1>5, <3>3 DEF Posted
  <2>5. scanned' = {target[SlotAt(n)'] : n \in Base .. Cursor - 1}
    <3>1. scanned = {target[SlotAt(n)] : n \in Base .. Cursor - 1}
      BY <1>2, <1>15, Zenon DEF FreshInv
    <3>2. \A n \in Base .. Cursor - 1 : SlotAt(n)' = SlotAt(n)
      BY <1>9, <2>4, Zenon
    <3> HIDE DEF IInv
    <3> QED BY <1>1, <3>1, <3>2, Zenon
  <2>6. \A n \in Posted' : target'[SlotAt(n)'] \in Stored => buffer'[SlotAt(n)'] = target'[SlotAt(n)']
    BY <1>1, <2>3, Zenon
  <2>7. scanned' = {target'[SlotAt(n)'] : n \in Base' .. Cursor' - 1}
    BY <1>1, <1>5, <1>6, <2>5, Zenon
  <2> QED BY <2>6, <2>7, Zenon DEF FreshInv
<1>16. PostedInv' /\ FreshInv'
  <2> HIDE DEF IInv
  <2>1. CASE Timed
    BY <1>14, <1>15, <2>1, Zenon
  <2>2. CASE ~Timed
    <3>1. ~Timed'
      BY <1>6, <2>2, Zenon
    <3> QED BY <3>1, Zenon DEF PostedInv, FreshInv
  <2> QED BY <2>1, <2>2, Zenon
<1> QED BY <1>11, <1>12, <1>13, <1>16, SMTT(30)

----------------------------------------------------------------------------
\* No signal arrives while the warm-up pass waits, or there is no such pass.
WarmupUninterrupted == ~Interruptible \/ WarmRounds = 0

\* The invariant depends on the specification's variables only.
LEMMA StutterIInv ==
  ASSUME IInv, UNCHANGED vars
  PROVE  IInv'
<1>1. UNCHANGED <<sq, inflight, cqRing, cqHead, cqTail, pc, round, target, buffer, remaining, bNext, bEnd,
                  scanned, total_ios>>
  BY Zenon DEF vars, ringVars, progVars
<1>2. /\ (Timed' <=> Timed) /\ Base' = Base /\ Posted' = Posted /\ Cursor' = Cursor
      /\ Taken' = Taken /\ RequestType' = RequestType /\ \A n : SlotAt(n)' = SlotAt(n)
  BY <1>1, Zenon DEF Timed, Base, Posted, Cursor, Taken, Place, RequestType, SlotAt, CqIndex,
     CqEntries
<1>3. TypeOK'
  BY <1>1, <1>2, Zenon DEF IInv, TypeOK
<1>4. QuietInv'
  BY <1>1, SMTT(30) DEF IInv, QuietInv
<1>5. RoundInv'
  BY <1>1, <1>2, RoundFrame, ZenonT(30) DEF IInv, RoundInv
<1>6. PostedInv'
  BY <1>1, <1>2, SMTT(30) DEF IInv, PostedInv
<1>7. FreshInv'
  BY <1>1, <1>2, Zenon DEF IInv, FreshInv
<1> QED BY <1>3, <1>4, <1>5, <1>6, <1>7, SMTT(30) DEF IInv

\* Every step of the program or of the kernel preserves the invariant.
LEMMA NextIInv ==
  ASSUME WarmupUninterrupted, IInv, [Next]_vars
  PROVE  IInv'
<1>1. CASE \E t \in Routes : Submit(t)
  BY <1>1, SubmitIInv, Zenon
<1>2. CASE Seen
  BY <1>2, SeenIInv, SMTT(30)
<1>3. CASE SeenInterrupted
  BY <1>3, SMTT(30) DEF SeenInterrupted, WarmupUninterrupted, Timed, IInv, TypeOK
<1>4. CASE Reap
  BY <1>4, ReapIInv, Zenon
<1>5. CASE Score
  BY <1>5, ScoreIInv, Zenon
<1>6. CASE Finish
  BY <1>6, FinishIInv, Zenon
<1>7. CASE KernelConsume
  BY <1>7, ConsumeIInv, Zenon
<1>8. CASE KernelCompleteAny
  BY <1>8, CompleteIInv, Zenon DEF KernelCompleteAny
<1>9. CASE UNCHANGED vars
  BY <1>9, StutterIInv, Zenon
<1> QED BY <1>1, <1>2, <1>3, <1>4, <1>5, <1>6, <1>7, <1>8, <1>9, SMTT(30) DEF Next, Program,
           Kernel, Terminated, ReapInterrupted

\* The inductive invariant holds throughout every run of the engine.
THEOREM InductiveInvariant ==
  ASSUME WarmupUninterrupted
  PROVE  Spec => []IInv
<1>1. Init => IInv
  BY InitIInv, Zenon
<1>2. IInv /\ [Next]_vars => IInv'
  BY NextIInv, Zenon
<1> QED BY <1>1, <1>2, PTL DEF Spec
----------------------------------------------------------------------------
(* What follows from the invariant. *)

\* Type correctness of the query loop.
THEOREM TypeCorrect ==
  ASSUME WarmupUninterrupted
  PROVE  Spec => []TypeOK
<1>1. IInv => TypeOK
  BY SMTT(30) DEF IInv
<1> QED BY <1>1, InductiveInvariant, PTL

\* No submission entry is ever missing, whatever the ring depth rounds to, as
\* long as it is at least the number of probes.
THEOREM AlwaysBatchFits ==
  ASSUME WarmupUninterrupted
  PROVE  Spec => []BatchFits
<1>1. IInv => BatchFits
  BY DepthAssumption, ProbesAssumption DEF IInv, QuietInv, BatchFits, FreeSqes
<1> QED BY <1>1, InductiveInvariant, PTL

\* At most one batch of completions is posted after any completion of a round.
LEMMA PostedBound ==
  ASSUME IInv, pc \in {"drain", "crashed"}
  PROVE  cqTail - Base <= Probes
<1>1. /\ Len(sq) + Cardinality(inflight) + (cqTail - cqHead) = remaining
      /\ Len(sq) \in Nat /\ Cardinality(inflight) \in Nat
  BY FS_CardinalityType DEF IInv, RoundInv, TypeOK
<1> QED BY <1>1, ProbesAssumption, SMTT(30) DEF IInv, TypeOK, Base

\* Reading a completion entry after releasing it is harmless in this program:
\* for every ring at least as deep as the batch, the kernel does not come round
\* to an entry that is still to be read.
THEOREM AlwaysBatchNotLapped ==
  ASSUME WarmupUninterrupted
  PROVE  Spec => []BatchNotLapped
<1>1. ASSUME IInv PROVE BatchNotLapped
  <2> SUFFICES ASSUME bNext < bEnd PROVE cqTail - bNext <= CqEntries
    BY Zenon DEF BatchNotLapped
  <2>1. pc \in {"drain", "crashed"} /\ Timed
    BY <1>1, SMTT(30) DEF IInv, QuietInv, RoundInv, TypeOK
  <2>2. Base <= bNext /\ cqTail - Base <= Probes
    BY <1>1, <2>1, PostedBound, SMTT(30) DEF IInv, PostedInv
  <2> QED BY <1>1, <2>2, ProbesAssumption, DepthAssumption, SMTT(30) DEF IInv, TypeOK, Base,
             CqEntries
<1> QED BY <1>1, InductiveInvariant, PTL

\* The slot being scored belongs to the program: the kernel is done with it.
THEOREM AlwaysScoredSlotIdle ==
  ASSUME WarmupUninterrupted
  PROVE  Spec => []ScoredSlotIdle
<1>1. ASSUME IInv PROVE ScoredSlotIdle
  <2> SUFFICES ASSUME pc = "drain", Timed, bNext < bEnd
               PROVE  /\ \A r \in inflight : r.slot # BatchSlot
                      /\ \A n \in 1 .. Len(sq) : sq[n].slot # BatchSlot
    BY Zenon DEF ScoredSlotIdle
  <2>1. bNext \in Posted /\ BatchSlot = SlotAt(bNext)
    BY <1>1, CursorPosted, SMTT(30)
  <2>2. BatchSlot \in Taken /\ \A r \in inflight : r.slot # BatchSlot
    BY <1>1, <2>1, SMTT(30) DEF IInv, PostedInv
  <2>3. ASSUME NEW n \in 1 .. Len(sq) PROVE sq[n].slot # BatchSlot
    <3> DEFINE k == Probes - Len(sq) + n
    <3>1. Len(sq) \in Nat /\ Len(sq) <= Probes
      <4>1. /\ Len(sq) + Cardinality(inflight) + (cqTail - cqHead) = remaining
            /\ Len(sq) \in Nat /\ Cardinality(inflight) \in Nat /\ cqHead <= cqTail
        BY <1>1, FS_CardinalityType, SMTT(30) DEF IInv, RoundInv, TypeOK
      <4> QED BY <4>1, <1>1, ProbesAssumption, SMTT(30) DEF IInv, TypeOK
    <3>2. k \in 1 .. Probes /\ k > Probes - Len(sq) /\ sq[n] = Batch(target)[k]
      BY <1>1, <2>3, <3>1, ProbesAssumption, SMTT(30) DEF IInv, RoundInv
    <3>3. sq[n].slot = k - 1
      BY <3>2 DEF Batch, Request
    <3> QED BY <2>2, <3>1, <3>2, <3>3, ProbesAssumption, SMTT(30) DEF Taken, Place, Slots
  <2> QED BY <2>2, <2>3, SMTT(30)
<1> QED BY <1>1, InductiveInvariant, PTL

\* If reads succeed, a scored slot holds the records of its own query's cluster.
THEOREM AlwaysScoredSlotFresh ==
  ASSUME WarmupUninterrupted, ~ReadFaults
  PROVE  Spec => []ScoredSlotFresh
<1>1. IInv => ScoredSlotFresh
  BY CursorPosted, SMTT(30) DEF IInv, FreshInv, ScoredSlotFresh
<1> QED BY <1>1, InductiveInvariant, PTL

\* No query leaves a request or a completion behind for the next one.
THEOREM AlwaysQuietBetweenRounds ==
  ASSUME WarmupUninterrupted
  PROVE  Spec => []QuietBetweenRounds
<1>1. IInv => QuietBetweenRounds
  BY Zenon DEF IInv, QuietInv, QuietBetweenRounds
<1> QED BY <1>1, InductiveInvariant, PTL

----------------------------------------------------------------------------
\* Distinct slots read distinct clusters, so a query asks for Probes of them.
LEMMA RouteCardinality ==
  ASSUME NEW t \in Routes
  PROVE  /\ {t[s] : s \in Slots} \in SUBSET Clusters
         /\ Cardinality({t[s] : s \in Slots}) = Probes
<1> DEFINE C == {t[s] : s \in Slots}
<1>1. C \subseteq Clusters
  BY Zenon DEF Routes
<1>2. IsFiniteSet(Slots) /\ Cardinality(Slots) = Probes
  BY FS_Interval, ProbesAssumption DEF Slots
<1>3. t \in Bijection(Slots, C)
  <2>1. t \in [Slots -> C] /\ \A a, b \in Slots : t[a] = t[b] => a = b
    BY Zenon DEF Routes
  <2>2. \A c \in C : \E s \in Slots : t[s] = c
    BY Zenon
  <2> HIDE DEF C
  <2> QED BY <2>1, <2>2, Fun_IsBij, Zenon
<1>4. Cardinality(C) = Cardinality(Slots)
  BY <1>2, <1>3, FS_Bijection, Zenon DEF ExistsBijection
<1> QED BY <1>1, <1>2, <1>4, Zenon

\* When the last batch of a query has been scored, every slot has been.
LEMMA AllScored ==
  ASSUME IInv, pc = "drain", Timed, ~ReadFaults, remaining = 0, bNext = bEnd
  PROVE  scanned = {target[s] : s \in Slots}
<1>1. sq = << >> /\ inflight = {} /\ cqHead = cqTail
  BY RoundOver, Zenon
<1>2. Taken = Slots
  BY <1>1, ProbesAssumption DEF Taken, Place, Slots
<1>3. Base .. Cursor - 1 = Posted
  BY <1>1 DEF Posted, Cursor, IInv, TypeOK
<1>4. \A s \in Slots : \E n \in Posted : SlotAt(n) = s
  BY <1>1, <1>2, Zenon DEF IInv, PostedInv
<1>5. \A n \in Posted : SlotAt(n) \in Slots
  BY <1>2, Zenon DEF IInv, PostedInv
<1>6. scanned = {target[SlotAt(n)] : n \in Posted}
  BY <1>3, Zenon DEF IInv, FreshInv
<1> QED BY <1>4, <1>5, <1>6, Zenon

\* Every step of the engine is a step of the abstract scan or leaves it alone.
LEMMA StepRefines ==
  ASSUME WarmupUninterrupted, ~ReadFaults, Stored = Clusters, IInv, [Next]_vars
  PROVE  [Scan!ScanNext]_(Scan!scanVars)
<1> DEFINE A == Scan!scanVars
<1>0. Rounds \in Nat /\ WarmRounds \in Nat /\ NumQueries \in Nat /\ Rounds = WarmRounds + NumQueries /\ round \in Nat
  BY QueriesAssumption DEF Rounds, WarmRounds, IInv, TypeOK
<1>1. ASSUME NEW t \in Routes, Submit(t) PROVE Scan!Ask \/ UNCHANGED A
  <2>1. sq = << >> /\ FreeSqes >= Probes
    BY <1>1, DepthAssumption, ProbesAssumption, SMTT(30) DEF Submit, IInv, QuietInv, FreeSqes
  <2>2. pc = "route" /\ pc' = "drain" /\ target' = t /\ UNCHANGED <<round, scanned>> /\ (Timed' <=> Timed) /\ round < Rounds
    BY <1>1, <2>1, Zenon DEF Submit, Timed
  <2>3. CASE Timed
    <3>1. {t[s] : s \in Slots} \in {C \in SUBSET Clusters : Cardinality(C) = Probes}
      BY RouteCardinality, Zenon
    <3>2. round - WarmRounds < NumQueries
      BY <1>0, <2>2
    <3>3. (IF pc = "drain" /\ Timed THEN {target[s] : s \in Slots} ELSE {}) = {}
      BY <2>2, Zenon
    <3>4. (IF pc = "drain" /\ Timed THEN {target[s] : s \in Slots} ELSE {})' = {t[s] : s \in Slots}
      BY <2>2, <2>3, Zenon
    <3>5. (IF Timed THEN round - WarmRounds ELSE 0) < NumQueries
      BY <2>3, <3>2, Zenon
    <3>6. UNCHANGED <<IF Timed THEN round - WarmRounds ELSE 0, scanned>>
      BY <2>2, Zenon
    <3>7. \A C : Scan!Cardinality(C) = Cardinality(C)
      BY Zenon DEF Scan!Cardinality, Cardinality
    <3>8. Scan!Ask
      BY <3>1, <3>3, <3>4, <3>5, <3>6, <3>7, Zenon DEF Scan!Ask
    <3> QED BY <3>8, Zenon
  <2>4. CASE ~Timed
    BY <2>2, <2>4, Zenon DEF Scan!scanVars
  <2> QED BY <2>3, <2>4, Zenon
<1>2. CASE Seen
  BY <1>2, Zenon DEF Seen, Timed, Scan!scanVars
<1>3. CASE SeenInterrupted
  BY <1>3, Zenon DEF SeenInterrupted, Timed, Scan!scanVars
<1>4. CASE Reap
  BY <1>4, Zenon DEF Reap, Timed, Scan!scanVars
<1>5. ASSUME Score PROVE Scan!Scan
  <2>1. /\ pc = "drain" /\ Timed /\ bNext < bEnd
        /\ UNCHANGED <<round, target>> /\ (Timed' <=> Timed)
    BY <1>5, Zenon DEF Score, Timed
  <2>2. bNext \in Posted /\ Cursor = bNext /\ BatchSlot = SlotAt(bNext) /\ BatchSlot \in Slots
    BY <2>1, CursorPosted, Zenon
  <2>3. target \in Routes /\ target[BatchSlot] \in Stored
    BY <2>1, <2>2, SMTT(30) DEF IInv, RoundInv, Routes
  <2>4. pc' = "drain" /\ scanned' = scanned \cup {target[BatchSlot]}
    BY <1>5, <2>1, <2>2, <2>3, SMTT(30) DEF Score, IInv, FreshInv
  <2>5. target[BatchSlot] \notin scanned
    <3>1. scanned = {target[SlotAt(n)] : n \in Base .. bNext - 1}
      BY <2>1, <2>2, Zenon DEF IInv, FreshInv
    <3>2. ASSUME NEW n \in Base .. bNext - 1 PROVE target[SlotAt(n)] # target[BatchSlot]
      <4>1. n \in Posted /\ n # bNext
        BY <2>2, <3>2, SMTT(30) DEF Posted, IInv, TypeOK, Base
      <4>2. SlotAt(n) \in Slots /\ SlotAt(n) # BatchSlot
        BY <2>1, <2>2, <4>1, SMTT(30) DEF IInv, PostedInv, Taken
      <4> QED BY <2>2, <2>3, <4>2, SMTT(30) DEF Routes
    <3> QED BY <3>1, <3>2, Zenon
  <2> QED BY <2>1, <2>2, <2>4, <2>5, SMTT(30) DEF Scan!Scan
<1>6. ASSUME Finish PROVE Scan!Answer \/ UNCHANGED A
  <2>1. /\ pc = "drain" /\ remaining = 0 /\ bNext = bEnd /\ round' = round + 1
        /\ pc' # "drain" /\ scanned' = {}
    BY <1>6, ProbesAssumption, SMTT(30) DEF Finish, IInv, TypeOK
  <2>2. CASE Timed
    <3>1. Timed' /\ round' - WarmRounds = (round - WarmRounds) + 1
      BY <1>0, <2>1, <2>2, SMTT(30) DEF Timed
    <3>2. scanned = {target[s] : s \in Slots}
      BY <2>1, <2>2, AllScored, SMTT(30)
    <3>3. 0 \in Slots
      BY ProbesAssumption DEF Slots
    <3> QED BY <2>1, <2>2, <3>1, <3>2, <3>3, SMTT(30) DEF Scan!Answer
  <2>3. CASE ~Timed
    <3>1. scanned = {}
      BY <2>1, <2>3, Zenon DEF IInv, RoundInv
    <3>2. Timed' => round' - WarmRounds = 0
      BY <1>0, <2>1, <2>3 DEF Timed
    <3> QED BY <2>1, <2>3, <3>1, <3>2, SMTT(30) DEF Scan!scanVars
  <2> QED BY <2>2, <2>3, Zenon
<1>7. CASE KernelConsume
  BY <1>7, Zenon DEF KernelConsume, progVars, Timed, Scan!scanVars
<1>8. CASE KernelCompleteAny
  BY <1>8, Zenon DEF KernelCompleteAny, KernelComplete, Timed, Scan!scanVars
<1>9. CASE UNCHANGED vars
  BY <1>9, Zenon DEF vars, progVars, Timed, Scan!scanVars
<1> QED BY <1>1, <1>2, <1>3, <1>4, <1>5, <1>6, <1>7, <1>8, <1>9, SMTT(30) DEF Next, Program,
           Kernel, Terminated, ReapInterrupted, Scan!ScanNext

\* The engine implements the abstract scan: with every cluster stored, reads
\* that succeed and an uninterrupted warm-up, each timed query scores exactly
\* its own clusters, once each, before it is answered.
THEOREM EngineImplementsScan ==
  ASSUME WarmupUninterrupted, ~ReadFaults, Stored = Clusters
  PROVE  Spec => ImplementsScan
<1>1. Init => Scan!ScanInit
  <2> SUFFICES ASSUME Init PROVE Scan!ScanInit
    BY Zenon
  <2>1. pc = "route" /\ round = 0 /\ scanned = {} /\ WarmRounds \in Nat
    BY QueriesAssumption, Zenon DEF Init, WarmRounds
  <2> QED BY <2>1 DEF Scan!ScanInit, Timed
<1>2. IInv /\ [Next]_vars => [Scan!ScanNext]_(Scan!scanVars)
  BY StepRefines, Zenon
<1> QED BY <1>1, <1>2, InductiveInvariant, PTL DEF Spec, ImplementsScan, Scan!ScanSpec

\* A step that ends in a crash scores a cluster without a segment.
LEMMA CrashStep ==
  ASSUME IInv, CrashOnlyOnEmptyCluster, [Next]_vars
  PROVE  CrashOnlyOnEmptyCluster'
<1>1. ASSUME NEW t \in Routes, Submit(t) PROVE pc' # "crashed"
  <2>1. sq = << >>
    BY <1>1, Zenon DEF IInv, QuietInv, Submit
  <2>2. FreeSqes >= Probes
    BY <2>1, DepthAssumption, ProbesAssumption, SMTT(30) DEF FreeSqes
  <2> QED BY <1>1, <2>2, Zenon DEF Submit
<1>2. CASE Score
  <2>1. pc = "drain" /\ Timed /\ bNext < bEnd /\ target' = target
    BY <1>2, Zenon DEF Score
  <2>2. bNext \in Posted /\ BatchSlot = SlotAt(bNext)
    BY <2>1, CursorPosted, SMTT(30)
  <2>3. BatchSlot \in Slots
    BY <2>1, <2>2, SMTT(30) DEF IInv, PostedInv, Taken
  <2>4. pc' = "crashed" => target[BatchSlot] \notin Stored
    BY <1>2, <2>1, Zenon DEF Score
  <2> QED BY <2>1, <2>3, <2>4, SMTT(30) DEF CrashOnlyOnEmptyCluster
<1>3. CASE Seen \/ SeenInterrupted \/ Reap \/ KernelConsume \/ KernelCompleteAny \/ UNCHANGED vars
  <2>1. pc' = pc /\ target' = target
    BY <1>3, Zenon DEF Seen, SeenInterrupted, Reap, KernelConsume, KernelCompleteAny,
       KernelComplete, vars, progVars
  <2> QED BY <2>1, SMTT(30) DEF CrashOnlyOnEmptyCluster
<1>4. CASE Finish
  BY <1>4, Zenon DEF Finish, CrashOnlyOnEmptyCluster
<1> QED BY <1>1, <1>2, <1>3, <1>4, SMTT(30) DEF Next, Program, Kernel, Terminated, ReapInterrupted,
           CrashOnlyOnEmptyCluster

\* The engine dies only on a cluster that has a centroid and no segment.
THEOREM AlwaysCrashOnlyOnEmptyCluster ==
  ASSUME WarmupUninterrupted
  PROVE  Spec => []CrashOnlyOnEmptyCluster
<1>1. Init => CrashOnlyOnEmptyCluster
  BY Zenon DEF Init, CrashOnlyOnEmptyCluster
<1>2. IInv /\ CrashOnlyOnEmptyCluster /\ [Next]_vars => CrashOnlyOnEmptyCluster'
  BY CrashStep, Zenon
<1> QED BY <1>1, <1>2, InductiveInvariant, PTL DEF Spec

----------------------------------------------------------------------------
\* Reads issued so far, released or remaining; rounds that have issued theirs;
\* and what is counted of them.
Issued == cqHead + remaining

Submitted == IF pc \in {"drain", "crashed"} THEN round + 1 ELSE round

IosInv ==
  /\ Issued = Submitted * Probes
  /\ total_ios = IF Timed THEN Issued - WarmRounds * Probes ELSE 0

LEMMA WarmRoundsType == WarmRounds \in Nat /\ WarmRounds * Probes \in Nat
BY QueriesAssumption, ProbesAssumption DEF WarmRounds

\* Completions that the program releases leave the sum of the released and the
\* remaining ones alone; only a submission and the end of the warm-up matter.
LEMMA IosStep ==
  ASSUME WarmupUninterrupted, IInv, IosInv, [Next]_vars
  PROVE  IosInv'
<1>1. cqHead \in Nat /\ cqTail \in Nat /\ remaining \in Nat /\ round \in Nat /\ total_ios \in Nat /\ Probes \in Nat
  BY ProbesAssumption DEF IInv, TypeOK
<1>2. ASSUME NEW t \in Routes, Submit(t) PROVE IosInv'
  <2>1. sq = << >> /\ remaining = 0 /\ pc = "route"
    BY <1>2, Zenon DEF IInv, QuietInv, Submit
  <2>2. FreeSqes >= Probes
    BY <2>1, DepthAssumption, ProbesAssumption, SMTT(30) DEF FreeSqes
  <2>3. /\ pc' = "drain" /\ remaining' = Probes /\ cqHead' = cqHead /\ round' = round /\ (Timed' <=> Timed)
        /\ total_ios' = IF Timed THEN total_ios + Probes ELSE total_ios
    BY <1>2, <2>2, Zenon DEF Submit, Timed
  <2>4. Submitted = round /\ Submitted' = round + 1
    BY <2>1, <2>3, Zenon DEF Submitted
  <2>5. (round + 1) * Probes = round * Probes + Probes /\ round * Probes \in Nat
    BY <1>1
  <2>6. Issued \in Nat /\ Issued' = Issued + Probes
    BY <1>1, <2>1, <2>3, SMTT(30) DEF Issued
  <2>7. Issued' = Submitted' * Probes
    BY <1>1, <2>4, <2>5, <2>6, SMTT(30) DEF IosInv
  <2>8. total_ios' = IF Timed' THEN Issued' - WarmRounds * Probes ELSE 0
    BY <1>1, <2>3, <2>6, WarmRoundsType, SMTT(30) DEF IosInv
  <2> QED BY <2>7, <2>8, Zenon DEF IosInv
<1>3. CASE Seen \/ Reap
  <2>1. pc' = pc /\ round' = round /\ total_ios' = total_ios /\ Issued' = Issued
    <3>1. CASE Seen
      BY <1>1, <3>1 DEF Seen, Advance, Issued
    <3>2. CASE Reap
      <4> DEFINE count == IF cqTail - cqHead < remaining THEN cqTail - cqHead ELSE remaining
      <4>1. cqHead' = cqHead + count /\ remaining' = remaining - count
        BY <3>2, Zenon DEF Reap, Advance
      <4>2. count \in Int
        BY <1>1
      <4>3. pc' = pc /\ round' = round /\ total_ios' = total_ios
        BY <3>2, Zenon DEF Reap
      <4> HIDE DEF count
      <4> QED BY <1>1, <4>1, <4>2, <4>3, SMTT(30) DEF Issued
    <3> QED BY <1>3, <3>1, <3>2, SMTT(30)
  <2> QED BY <2>1, Zenon DEF IosInv, Submitted, Timed
<1>4. CASE Score
  <2>1. pc = "drain" /\ pc' \in {"drain", "crashed"} /\ UNCHANGED <<round, total_ios, cqHead, remaining>>
    BY <1>4, Zenon DEF Score, ringVars
  <2> QED BY <2>1, Zenon DEF IosInv, Submitted, Timed, Issued
<1>5. CASE Finish
  <2>1. /\ pc = "drain" /\ pc' \in {"route", "done"} /\ round' = round + 1
        /\ UNCHANGED <<total_ios, cqHead, remaining>>
    BY <1>5, Zenon DEF Finish, ringVars
  <2>2. Submitted' = Submitted /\ Submitted = round + 1 /\ Issued' = Issued
    BY <2>1, Zenon DEF Submitted, Issued
  <2>3. CASE Timed
    <3>1. Timed'
      BY <1>1, <2>1, <2>3, WarmRoundsType, SMTT(30) DEF Timed
    <3> QED BY <2>1, <2>2, <2>3, <3>1, SMTT(30) DEF IosInv
  <2>4. CASE ~Timed /\ ~Timed'
    BY <2>1, <2>2, <2>4, SMTT(30) DEF IosInv
  <2>5. CASE ~Timed /\ Timed'
    <3>1. round + 1 = WarmRounds
      BY <1>1, <2>1, <2>5, WarmRoundsType, SMTT(30) DEF Timed
    <3>2. Issued = WarmRounds * Probes /\ total_ios = 0
      BY <2>2, <2>5, <3>1, Zenon DEF IosInv
    <3>3. Issued' - WarmRounds * Probes = 0 /\ total_ios' = 0
      BY <2>1, <2>2, <3>2, WarmRoundsType, SMTT(30)
    <3> QED BY <2>2, <2>5, <3>3, Zenon DEF IosInv
  <2> QED BY <2>3, <2>4, <2>5, SMTT(30)
<1>6. CASE KernelConsume \/ KernelCompleteAny \/ UNCHANGED vars
  <2>1. UNCHANGED <<pc, round, total_ios, cqHead, remaining>>
    BY <1>6, Zenon DEF KernelConsume, Consume, KernelCompleteAny, KernelComplete, Post, vars,
       progVars, ringVars
  <2> QED BY <2>1, Zenon DEF IosInv, Submitted, Timed, Issued
<1>7. ~SeenInterrupted
  BY <1>1 DEF SeenInterrupted, WarmupUninterrupted, Timed
<1> QED BY <1>2, <1>3, <1>4, <1>5, <1>6, <1>7, SMTT(30) DEF Next, Program, Kernel, Terminated,
           ReapInterrupted

\* The reported number of reads is that of the timed queries, whatever the
\* warm-up has read before.
THEOREM AlwaysIosCounted ==
  ASSUME WarmupUninterrupted
  PROVE  Spec => []IosCounted
<1>1. Init => IosInv
  <2> SUFFICES ASSUME Init PROVE IosInv
    BY Zenon
  <2>1. cqHead = 0 /\ remaining = 0 /\ round = 0 /\ total_ios = 0 /\ pc = "route"
    BY Zenon DEF Init, RingInit
  <2>2. Submitted = 0 /\ 0 * Probes = 0
    BY <2>1, ProbesAssumption DEF Submitted
  <2>3. Timed => WarmRounds = 0
    BY <2>1, WarmRoundsType DEF Timed
  <2> QED BY <2>1, <2>2, <2>3, ProbesAssumption, SMTT(30) DEF IosInv, Issued
<1>2. IInv /\ IosInv /\ [Next]_vars => IosInv'
  BY IosStep, Zenon
<1>3. ASSUME IInv, IosInv PROVE IosCounted
  <2> SUFFICES ASSUME pc # "crashed"
               PROVE  total_ios = IF Timed THEN Len(sq) + Cardinality(inflight) + cqTail - WarmRounds * Probes
                                           ELSE 0
    BY Zenon DEF IosCounted
  <2>1. cqHead \in Nat /\ cqTail \in Nat /\ remaining \in Nat /\ Len(sq) \in Nat
    BY <1>3, ProbesAssumption, SMTT(30) DEF IInv, TypeOK
  <2>2. Cardinality(inflight) \in Nat /\ Len(sq) + Cardinality(inflight) + cqTail = Issued
    <3>1. CASE pc = "drain"
      <4>1. Len(sq) + Cardinality(inflight) + (cqTail - cqHead) = remaining /\ Cardinality(inflight) \in Nat
        BY <1>3, <3>1, FS_CardinalityType, Zenon DEF IInv, RoundInv
      <4> QED BY <2>1, <4>1, SMTT(30) DEF Issued
    <3>2. CASE pc \in {"route", "done"}
      <4>1. sq = << >> /\ inflight = {} /\ cqHead = cqTail /\ remaining = 0
        BY <1>3, <3>2, Zenon DEF IInv, QuietInv
      <4>2. Cardinality(inflight) = 0
        BY <4>1, FS_EmptySet, Zenon
      <4> QED BY <2>1, <4>1, <4>2 DEF Issued
    <3> QED BY <1>3, <3>1, <3>2, SMTT(30) DEF IInv, TypeOK
  <2>3. Len(sq) + Cardinality(inflight) + cqTail - WarmRounds * Probes = Issued - WarmRounds * Probes
    BY <2>1, <2>2, WarmRoundsType
  <2> QED BY <1>3, <2>3, Zenon DEF IosInv
<1> QED BY <1>1, <1>2, <1>3, InductiveInvariant, PTL DEF Spec
============================================================================
