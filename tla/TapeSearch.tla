---------------------------- MODULE TapeSearch -----------------------------
(***************************************************************************)
(* The query loop of the TapeANN search engine (benchmark_search.cpp,      *)
(* main): an optional warm-up pass and then the timed queries.  Each query *)
(* reads its Probes nearest clusters from the tape with one batch of       *)
(* asynchronous reads, one buffer slot per read, and scores the slots in   *)
(* the order in which the reads complete.                                  *)
(*                                                                         *)
(* Two actors share the rings and the buffer pool: the single program      *)
(* thread, and the kernel (module IoUring).  A round is one batch of reads *)
(* of the warm-up or of the timed loop.  The contents of a buffer slot are *)
(* abstracted to the cluster whose records they are.                       *)
(***************************************************************************)
EXTENDS IoUring, FiniteSets

Slots == 0 .. Probes - 1

WarmRounds == IF ~UseDirect /\ ~NoWarmup THEN WarmQueries ELSE 0

Rounds == WarmRounds + NumQueries

VARIABLES
  pc,         \* "route", "drain", "done" or "crashed"
  round,      \* rounds finished
  target,     \* target_clusters (cid in the warm-up loop), per slot
  buffer,     \* buffer_pool: whose records each slot holds
  remaining,  \* completions of this round still to be collected
  bNext,      \* the completion that cqe_batch[b] points to, b the loop index
  bEnd,       \* end of the collected completions
  scanned,    \* whose records process_cluster has scored for this query
  total_ios

progVars == <<pc, round, target, buffer, remaining, bNext, bEnd, scanned, total_ios>>
vars == <<ringVars, progVars>>

Timed == round >= WarmRounds

\* The user_data of a new ring is zero, and the warm-up loop never sets it.
Unset == 0

Init ==
  /\ RingInit(Unset)
  /\ pc = "route"
  /\ round = 0
  /\ target = [s \in Slots |-> Garbage]
  /\ buffer = [s \in Slots |-> Garbage]
  /\ remaining = 0
  /\ bNext = 0
  /\ bEnd = 0
  /\ scanned = {}
  /\ total_ios = 0

\* Faults: user_data paired with another slot; every read aimed at the start of the pool.
RequestMispaired(s, c) ==
  [data |-> Probes - 1 - s, slot |-> s, cluster |-> c, round |-> round]
RequestNoOffset(s, c) ==
  [data |-> s, slot |-> 0, cluster |-> c, round |-> round]

\* The read of one slot, as io_uring_prep_read and sqe_set_data describe it.
Request(s, c) ==
  [data |-> IF Timed THEN s ELSE Unset, slot |-> s, cluster |-> c, round |-> round]

\* The batch in submission order: the warm-up loop counts i down.
Batch(t) ==
  [n \in 1 .. Probes |-> LET s == IF Timed THEN n - 1 ELSE Probes - n
                         IN  Request(s, t[s])]

\* The probes nearest clusters are distinct; which ones depends on the query.
Routes == {t \in [Slots -> Clusters] : \A s, u \in Slots : t[s] = t[u] => s = u}

\* Route the query, prepare one read per slot and submit the batch.  The loop
\* does not test the result of io_uring_get_sqe: without a free entry it
\* writes through a null pointer.
Submit(t) ==
  /\ pc = "route"
  /\ round < Rounds
  /\ target' = t
  /\ IF FreeSqes >= Probes
     THEN /\ Publish(Batch(t))
          /\ pc' = "drain"
          /\ remaining' = Probes
          /\ total_ios' = IF Timed THEN total_ios + Probes ELSE total_ios
     ELSE /\ pc' = "crashed"
          /\ UNCHANGED <<sq, remaining, total_ios>>
  /\ UNCHANGED <<inflight, cqRing, cqHead, cqTail, round, buffer, bNext, bEnd, scanned>>

\* Warm-up: wait for one completion and release it unread.
Seen ==
  /\ pc = "drain" /\ ~Timed
  /\ remaining > 0
  /\ cqHead < cqTail
  /\ Advance(1)
  /\ remaining' = remaining - 1
  /\ UNCHANGED <<sq, inflight, cqRing, cqTail, pc, round, target, buffer, bNext, bEnd,
                 scanned, total_ios>>

\* Warm-up: the wait fails, cqe stays null, io_uring_cqe_seen does nothing and
\* the loop counts the completion all the same.
SeenInterrupted ==
  /\ Interruptible
  /\ pc = "drain" /\ ~Timed
  /\ remaining > 0
  /\ cqHead = cqTail
  /\ remaining' = remaining - 1
  /\ UNCHANGED <<ringVars, pc, round, target, buffer, bNext, bEnd, scanned, total_ios>>

\* Fault: the collected completions are not subtracted.
ReapUncounted ==
  /\ pc = "drain" /\ Timed
  /\ bNext = bEnd
  /\ remaining > 0
  /\ cqHead < cqTail
  /\ LET ready == cqTail - cqHead
         count == IF ready < remaining THEN ready ELSE remaining
     IN  /\ Advance(count)
         /\ bNext' = cqHead
         /\ bEnd' = cqHead + count
  /\ UNCHANGED <<sq, inflight, cqRing, cqTail, pc, round, target, buffer, remaining, scanned,
                 total_ios>>

\* Timed: wait for a completion, collect pointers to all that are there (not
\* more than remaining) and release them.
Reap ==
  /\ pc = "drain" /\ Timed
  /\ bNext = bEnd
  /\ remaining > 0
  /\ cqHead < cqTail
  /\ LET ready == cqTail - cqHead
         count == IF ready < remaining THEN ready ELSE remaining
     IN  /\ Advance(count)
         /\ remaining' = remaining - count
         /\ bNext' = cqHead
         /\ bEnd' = cqHead + count
  /\ UNCHANGED <<sq, inflight, cqRing, cqTail, pc, round, target, buffer, scanned, total_ios>>

\* Timed: an interrupted wait collects nothing, and the loop waits again.
ReapInterrupted ==
  /\ Interruptible
  /\ pc = "drain" /\ Timed
  /\ bNext = bEnd
  /\ remaining > 0
  /\ cqHead = cqTail
  /\ UNCHANGED vars

\* The slot that io_uring_cqe_get_data(cqe_batch[b]) returns, read after the
\* entry was released.
BatchSlot == cqRing[CqIndex(bNext)]

\* process_cluster on the slot of the next collected completion.  A cluster
\* without a segment has a null scale pointer.
Score ==
  /\ pc = "drain" /\ Timed
  /\ bNext < bEnd
  /\ bNext' = bNext + 1
  /\ IF target[BatchSlot] \in Stored
     THEN scanned' = scanned \cup {buffer[BatchSlot]} /\ UNCHANGED pc
     ELSE pc' = "crashed" /\ UNCHANGED scanned
  /\ UNCHANGED <<ringVars, round, target, buffer, remaining, bEnd, total_ios>>

\* Faults: the query is answered with what has completed so far; the results
\* of a query are carried over to the next.
FinishEarly ==
  /\ pc = "drain"
  /\ round' = round + 1
  /\ pc' = IF round + 1 = Rounds THEN "done" ELSE "route"
  /\ scanned' = {}
  /\ UNCHANGED <<ringVars, target, buffer, remaining, bNext, bEnd, total_ios>>
FinishKeepsResults ==
  /\ pc = "drain"
  /\ remaining = 0
  /\ bNext = bEnd
  /\ round' = round + 1
  /\ pc' = IF round + 1 = Rounds THEN "done" ELSE "route"
  /\ UNCHANGED <<ringVars, target, buffer, remaining, bNext, bEnd, scanned, total_ios>>

\* End of an iteration of either loop.
Finish ==
  /\ pc = "drain"
  /\ remaining <= 0
  /\ bNext = bEnd
  /\ round' = round + 1
  /\ pc' = IF round + 1 = Rounds THEN "done" ELSE "route"
  /\ scanned' = {}
  /\ UNCHANGED <<ringVars, target, buffer, remaining, bNext, bEnd, total_ios>>

\* The kernel takes a published read.
KernelConsume == pc # "crashed" /\ Consume /\ UNCHANGED progVars

\* The kernel completes a read.  The program never looks at cqe->res, so a
\* failed read leaves the slot as it was and a short one leaves it torn.  The
\* read of a cluster without a segment has length zero.
KernelComplete(r) ==
  /\ pc # "crashed"
  /\ Post(r)
  /\ \/ /\ r.cluster \in Stored
        /\ buffer' = [buffer EXCEPT ![r.slot] = r.cluster]
     \/ /\ r.cluster \notin Stored \/ ReadFaults
        /\ buffer' = buffer
     \/ /\ r.cluster \in Stored /\ ReadFaults
        /\ buffer' = [buffer EXCEPT ![r.slot] = Garbage]
  /\ UNCHANGED <<pc, round, target, remaining, bNext, bEnd, scanned, total_ios>>

KernelCompleteAny == \E r \in inflight : KernelComplete(r)

Program ==
  \/ \E t \in Routes : Submit(t)
  \/ Seen
  \/ SeenInterrupted
  \/ Reap
  \/ ReapInterrupted
  \/ Score
  \/ Finish

Kernel == KernelConsume \/ KernelCompleteAny

\* The process has ended.
Terminated == pc \in {"done", "crashed"} /\ UNCHANGED vars

Next == Program \/ Kernel \/ Terminated

Spec == Init /\ [][Next]_vars

\* The program thread runs whenever it is not blocked; the kernel takes every
\* published read and completes every one it has taken.
Fairness ==
  /\ WF_vars(Program)
  /\ WF_vars(KernelConsume)
  /\ WF_vars(KernelCompleteAny)

FairSpec == Spec /\ Fairness
----------------------------------------------------------------------------
RequestType ==
  [data : Slots, slot : Slots, cluster : Clusters, round : 0 .. Rounds - 1]

\* Type invariant of the query loop and of the rings it drives.
TypeOK ==
  /\ sq \in Seq(RequestType)
  /\ inflight \subseteq RequestType
  /\ cqRing \in [0 .. CqEntries - 1 -> Slots]
  /\ cqHead \in Nat
  /\ cqTail \in Nat
  /\ pc \in {"route", "drain", "done", "crashed"}
  /\ round \in 0 .. Rounds
  /\ target \in [Slots -> Clusters \cup {Garbage}]
  /\ buffer \in [Slots -> Clusters \cup {Garbage}]
  /\ remaining \in 0 .. Probes
  /\ bNext \in Nat
  /\ bEnd \in Nat
  /\ scanned \subseteq Clusters \cup {Garbage}
  /\ total_ios \in Nat

\* Whenever the prepare loop starts, the submission queue has room for a whole
\* batch: no io_uring_get_sqe call of the loop returns the null pointer that
\* the code never tests for.
BatchFits == pc = "route" => FreeSqes >= Probes

\* The drain loop reads the user_data of collected completions after it has
\* released them to the kernel (cq_advance comes before cqe_get_data).  The
\* kernel has never come round the ring to an entry still to be read.
BatchNotLapped == bNext < bEnd => cqTail - bNext <= CqEntries

\* process_cluster never runs on a slot that the kernel may still write: no
\* read into the slot is queued or in flight while its completion is scored.
ScoredSlotIdle ==
  pc = "drain" /\ Timed /\ bNext < bEnd =>
    /\ \A r \in inflight : r.slot # BatchSlot
    /\ \A n \in 1 .. Len(sq) : sq[n].slot # BatchSlot

\* If reads succeed, process_cluster finds in a slot the records of the cluster
\* that active_infos names for it: never those of an earlier query or of the
\* warm-up, which used the same slots.
ScoredSlotFresh ==
  pc = "drain" /\ Timed /\ bNext < bEnd /\ target[BatchSlot] \in Stored =>
    buffer[BatchSlot] = target[BatchSlot]

\* Between two queries nothing of the earlier one is left behind: no entry in
\* either ring, no request in flight that could later complete into a slot.
QuietBetweenRounds ==
  pc \in {"route", "done"} => sq = << >> /\ inflight = {} /\ cqHead = cqTail

\* total_ios, from which the benchmark reports IOs per query, is the number of
\* reads that the timed queries alone have handed to the kernel.
IosCounted ==
  pc # "crashed" =>
    total_ios = IF Timed THEN Len(sq) + Cardinality(inflight) + cqTail - WarmRounds * Probes
                         ELSE 0

\* A timed run implements the abstract scan: every query scores exactly the
\* clusters it was routed to, once each, before it is answered.
Scan == INSTANCE ClusterScan WITH
  q <- IF Timed THEN round - WarmRounds ELSE 0,
  asked <- IF pc = "drain" /\ Timed THEN {target[s] : s \in Slots} ELSE {}

ImplementsScan == Scan!ScanSpec

\* The engine dies only on a cluster that has a centroid and no segment (its
\* scale pointer is null), never for want of a submission entry.
CrashOnlyOnEmptyCluster ==
  pc = "crashed" => \E s \in Slots : target[s] \notin Stored

\* Every run ends: no query waits for a completion that never comes.
EventuallyDone == <>(pc = "done")

----------------------------------------------------------------------------
(***************************************************************************)
(* The inductive invariant behind the safety properties.  The completions  *)
(* of the current round are the ones numbered from Base on; each read of   *)
(* the round is in exactly one of three places: still in sq, in flight, or *)
(* in the completion ring at or after Base.                                *)
(***************************************************************************)
Base == cqHead + remaining - Probes

Posted == Base .. cqTail - 1

SlotAt(n) == cqRing[CqIndex(n)]

\* Place of a slot's read in the batch, and the reads the kernel has taken.
Place(s) == IF Timed THEN s + 1 ELSE Probes - s

Taken == {s \in Slots : Place(s) <= Probes - Len(sq)}

\* The first completion of the round that has not been scored.
Cursor == IF bNext < bEnd THEN bNext ELSE cqHead

\* No round is in progress.
QuietInv ==
  pc \in {"route", "done"} =>
    /\ sq = << >> /\ inflight = {}
    /\ cqHead = cqTail /\ remaining = 0
    /\ bNext = bEnd
    /\ scanned = {}

\* The reads of the round in progress, wherever they are.
RoundInv ==
  pc \in {"drain", "crashed"} =>
    /\ round < Rounds
    /\ target \in Routes
    /\ IsFiniteSet(inflight)
    /\ 0 <= Base
    /\ cqHead <= cqTail
    /\ Len(sq) + Cardinality(inflight) + (cqTail - cqHead) = remaining
    /\ \A n \in 1 .. Len(sq) : sq[n] = Batch(target)[Probes - Len(sq) + n]
    /\ \A r \in inflight : r.slot \in Taken /\ r = Request(r.slot, target[r.slot])
    /\ ~Timed => bNext = bEnd /\ scanned = {}

\* The completions of the timed round in progress.
PostedInv ==
  pc \in {"drain", "crashed"} /\ Timed =>
    /\ \A n \in Posted : SlotAt(n) \in Taken
    /\ \A n \in Posted : \A r \in inflight : r.slot # SlotAt(n)
    /\ \A n, m \in Posted : SlotAt(n) = SlotAt(m) => n = m
    /\ \A s \in Taken : (\E r \in inflight : r.slot = s) \/ (\E n \in Posted : SlotAt(n) = s)
    /\ bNext <= bEnd
    /\ bNext < bEnd => Base <= bNext /\ bEnd = cqHead

\* What has been read and scored, provided reads succeed.
FreshInv ==
  pc = "drain" /\ Timed /\ ~ReadFaults =>
    /\ \A n \in Posted : target[SlotAt(n)] \in Stored => buffer[SlotAt(n)] = target[SlotAt(n)]
    /\ scanned = {target[SlotAt(n)] : n \in Base .. Cursor - 1}

\* The inductive invariant, for runs whose warm-up waits are not interrupted.
IInv == TypeOK /\ QuietInv /\ RoundInv /\ PostedInv /\ FreshInv
============================================================================
