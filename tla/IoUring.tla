------------------------------ MODULE IoUring ------------------------------
(***************************************************************************)
(* The part of the Linux io_uring interface that the search engine uses:   *)
(* a submission queue, the requests the kernel is working on, and the      *)
(* completion ring.  The code is not in this repository (liburing and the  *)
(* kernel); it is modelled from the calls in benchmark_search.cpp.         *)
(*                                                                         *)
(* Submission entries are copied by the kernel when it consumes them, so   *)
(* the submission side is a queue.  The completion side is a real ring:    *)
(* the program keeps POINTERS into it, and the kernel reuses an entry as   *)
(* soon as cqHead has moved past it.                                       *)
(***************************************************************************)
EXTENDS TapeParams, Sequences

VARIABLES
  sq,        \* published entries that the kernel has not consumed yet
  inflight,  \* requests consumed and not completed
  cqRing,    \* user_data of the completion entries
  cqHead,    \* completions released by the program (free running counter)
  cqTail     \* completions posted by the kernel (free running counter)

ringVars == <<sq, inflight, cqRing, cqHead, cqTail>>

\* The kernel makes the completion ring twice as deep as the submission queue.
CqEntries == 2 * SqEntries

\* The ring entry that holds the n-th completion.
CqIndex(n) == n % CqEntries

\* How many io_uring_get_sqe calls succeed before one returns NULL.
FreeSqes == SqEntries - Len(sq)

RingInit(NoData) ==
  /\ sq = << >>
  /\ inflight = {}
  /\ cqRing = [n \in 0 .. CqEntries - 1 |-> NoData]
  /\ cqHead = 0
  /\ cqTail = 0

\* get_sqe/prep_read for each request of a batch, then io_uring_submit: the
\* entries become visible to the kernel together, when the tail is stored.
Publish(requests) == sq' = sq \o requests

\* The submission thread takes the oldest entry.  Without SQPOLL the kernel
\* takes all of them inside io_uring_submit: the same steps, taken at once.
Consume ==
  /\ sq # << >>
  /\ inflight' = inflight \cup {Head(sq)}
  /\ sq' = Tail(sq)
  /\ UNCHANGED <<cqRing, cqHead, cqTail>>

\* The kernel finishes a request, in any order, and posts its user_data.  It
\* never overwrites an entry the program has not released.
Post(r) ==
  /\ r \in inflight
  /\ cqTail - cqHead < CqEntries
  /\ inflight' = inflight \ {r}
  /\ cqRing' = [cqRing EXCEPT ![CqIndex(cqTail)] = r.data]
  /\ cqTail' = cqTail + 1
  /\ UNCHANGED <<sq, cqHead>>

\* io_uring_cq_advance: n entries go back to the kernel.
Advance(n) == cqHead' = cqHead + n

============================================================================
