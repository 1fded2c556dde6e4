---------------------------- MODULE FreeSpaceMap ----------------------------
(***************************************************************************)
(* The map of free internal ids of a Garnet vector set                     *)
(* (DiskANN/diskann-garnet/src/fsm.rs).  The map itself is kept in the      *)
(* server, in blocks of BLOCK_SIZE_IDS bits; a single read, write or        *)
(* read-modify-write of a block is atomic.  In memory there are a flag, a   *)
(* bounded queue of ids to use again, the number of blocks, under a lock,   *)
(* and the counter that mints new ids.                                      *)
(*                                                                         *)
(* fsm[t] is the activation of next_id or mark_free that thread t is in:   *)
(* "idle" before the call, "ok" or "err" from its end until the caller      *)
(* takes the result.  The steps of a thread are the atomic operations of    *)
(* the code; a check of next_id or max_block that other threads can only    *)
(* make weaker is taken together with the lock it follows.                  *)
(***************************************************************************)
EXTENDS Integers, Sequences, FiniteSets

CONSTANTS Threads,      \* the threads that use the map
          BlockSize,    \* BLOCK_SIZE_IDS
          FastSize,     \* FAST_SIZE, the capacity of fast_free_list
          MaxErrors     \* bound on the operations of the server that fail

ASSUME BlockSizePositive == BlockSize \in Nat \ {0}
ASSUME FastSizePositive == FastSize \in Nat \ {0}
ASSUME MaxErrorsNat == MaxErrors \in Nat

VARIABLES used,         \* in the server: the ids whose bit is set
          blocks,       \* in the server: the number of blocks
          hasFree,      \* has_free_ids
          freeList,     \* fast_free_list
          maxBlock,     \* max_block
          lock,         \* {t} while t holds the write lock of max_block
          nextId,       \* next_id
          fsm,          \* the call of every thread
          errors        \* failures so far

fsmVars == <<used, blocks, hasFree, freeList, maxBlock, lock, nextId, fsm, errors>>

BlockOf(id) == id \div BlockSize

IdsOf(block) == (block * BlockSize) .. (block * BlockSize + BlockSize - 1)

\* The members of a set of ids, in order.
Ascending(S) ==
    CHOOSE s \in [1..Cardinality(S) -> S] : \A i, j \in 1..Cardinality(S) : i < j => s[i] < s[j]

Descending(S) == [i \in 1..Cardinality(S) |-> Ascending(S)[Cardinality(S) + 1 - i]]

IdleCall == [pc |-> "idle", op |-> "none", id |-> 0, minted |-> FALSE,
             block |-> 0, todo |-> <<>>, found |-> FALSE]

NextIdCall == [IdleCall EXCEPT !.pc = "next", !.op = "next"]

MarkFreeCall(id) == [IdleCall EXCEPT !.pc = "check", !.op = "free", !.id = id]

At(t, pc) == fsm[t].pc = pc

Goto(t, pc) == fsm' = [fsm EXCEPT ![t].pc = pc]

\* An operation of the server fails, and with it the call.
ServerFails(t) == /\ errors < MaxErrors
                  /\ errors' = errors + 1
                  /\ Goto(t, "err")

-----------------------------------------------------------------------------
(* new and load_state *)

\* The blocks are read downwards, to block `from`: the last id in use, and the
\* ids below it that are not, in the order they are found, as far as the queue
\* has room for them.
LastUsed(from) ==
    LET seen == {i \in used : BlockOf(i) >= from}
    IN  IF seen = {} THEN -1 ELSE CHOOSE i \in seen : \A j \in seen : j <= i

FreeBelow(from) ==
    Descending({i \in 0..LastUsed(from) : i \notin used /\ BlockOf(i) >= from})

UpTo(s, n) == SubSeq(s, 1, IF Len(s) < n THEN Len(s) ELSE n)

\* new, on the blocks that there are in the server; without any, the first one
\* is written.
FsmInit ==
    /\ maxBlock = blocks - 1
    /\ nextId = LastUsed(0) + 1
    /\ freeList = UpTo(FreeBelow(0), FastSize)
    /\ hasFree = (freeList # <<>>)
    /\ lock = {}
    /\ fsm = [t \in Threads |-> IdleCall]
    /\ errors = 0

\* A block that cannot be read, from - 1, ends the scan without an error.
LoadState(from) ==
    /\ maxBlock' = blocks - 1
    /\ nextId' = LastUsed(from) + 1
    /\ freeList' = UpTo(FreeBelow(from), FastSize)
    /\ hasFree' = (freeList' # <<>>)

\* The process ends, with whatever calls were in progress, and another one
\* opens the map.  What fails to be read then counts as one failure.
Reopen ==
    /\ \/ LoadState(0) /\ UNCHANGED errors
       \/ /\ errors < MaxErrors
          /\ errors' = errors + 1
          /\ \E from \in 0..blocks : LoadState(from)
    /\ lock' = {}
    /\ fsm' = [t \in Threads |-> IdleCall]
    /\ UNCHANGED <<used, blocks>>

-----------------------------------------------------------------------------
(* next_id: an id to use again, from the queue or from a scan *)

LoadFlag(t) ==
    /\ At(t, "next")
    /\ Goto(t, IF hasFree THEN "pop" ELSE "mint")
    /\ UNCHANGED <<used, blocks, hasFree, freeList, maxBlock, lock, nextId, errors>>

\* Before a refill an empty queue leads to the scan, after it to a new id.
Pop(t) ==
    /\ fsm[t].pc \in {"pop", "popRefilled"}
    /\ IF freeList # <<>>
       THEN /\ freeList' = Tail(freeList)
            /\ fsm' = [fsm EXCEPT ![t].pc = "check", ![t].id = Head(freeList)]
       ELSE /\ Goto(t, IF At(t, "pop") THEN "refill" ELSE "mint")
            /\ UNCHANGED freeList
    /\ UNCHANGED <<used, blocks, hasFree, maxBlock, lock, nextId, errors>>

\* refill_fast_free_list: the write lock, and another look at the queue.
RefillLock(t) ==
    /\ At(t, "refill")
    /\ lock = {}
    /\ IF freeList # <<>>
       THEN /\ Goto(t, "popRefilled")
            /\ UNCHANGED lock
       ELSE /\ fsm' = [fsm EXCEPT ![t].pc = "scan", ![t].block = 0, ![t].found = FALSE]
            /\ lock' = {t}
    /\ UNCHANGED <<used, blocks, hasFree, freeList, maxBlock, nextId, errors>>

\* The next block is read.  The last one, maxBlock, is not in the range.
ScanBlock(t) ==
    /\ At(t, "scan")
    /\ fsm[t].block < maxBlock
    /\ fsm' = [fsm EXCEPT ![t].pc = "push", ![t].block = @ + 1,
                          ![t].todo = Ascending(IdsOf(fsm[t].block) \ used)]
    /\ UNCHANGED <<used, blocks, hasFree, freeList, maxBlock, lock, nextId, errors>>

ScanFails(t) ==
    /\ At(t, "scan")
    /\ fsm[t].block < maxBlock
    /\ ServerFails(t)
    /\ lock' = {}
    /\ UNCHANGED <<used, blocks, hasFree, freeList, maxBlock, nextId>>

\* Its free ids go to the queue one by one; a full queue ends the scan.
ScanPush(t) ==
    /\ At(t, "push")
    /\ IF fsm[t].todo = <<>>
       THEN /\ Goto(t, "scan")
            /\ UNCHANGED <<hasFree, freeList>>
       ELSE /\ hasFree' = TRUE
            /\ IF Len(freeList) < FastSize
               THEN /\ freeList' = Append(freeList, Head(fsm[t].todo))
                    /\ fsm' = [fsm EXCEPT ![t].found = TRUE, ![t].todo = Tail(@)]
               ELSE /\ fsm' = [fsm EXCEPT ![t].found = TRUE, ![t].todo = <<>>, ![t].pc = "scanned"]
                    /\ UNCHANGED freeList
    /\ UNCHANGED <<used, blocks, maxBlock, lock, nextId, errors>>

ScanEnd(t) ==
    /\ \/ At(t, "scanned")
       \/ At(t, "scan") /\ fsm[t].block = maxBlock
    /\ hasFree' = (hasFree /\ fsm[t].found)
    /\ lock' = {}
    /\ fsm' = [fsm EXCEPT ![t].pc = IF fsm[t].found THEN "popRefilled" ELSE "mint",
                          ![t].block = 0, ![t].found = FALSE]
    /\ UNCHANGED <<used, blocks, freeList, maxBlock, nextId, errors>>

-----------------------------------------------------------------------------
(* next_id: a new id, and a block for it *)

Mint(t) ==
    /\ At(t, "mint")
    /\ nextId' = nextId + 1
    /\ fsm' = [fsm EXCEPT ![t].pc = "room", ![t].id = nextId, ![t].minted = TRUE]
    /\ UNCHANGED <<used, blocks, hasFree, freeList, maxBlock, lock, errors>>

Room(t) ==
    /\ At(t, "room")
    /\ lock = {}
    /\ Goto(t, IF BlockOf(fsm[t].id) > maxBlock THEN "expand" ELSE "check")
    /\ UNCHANGED <<used, blocks, hasFree, freeList, maxBlock, lock, nextId, errors>>

\* expand_to, under the write lock: a block of zeroes, unless it is there by
\* now, or an earlier one is missing.
ExpandTo(t) ==
    /\ At(t, "expand")
    /\ lock = {}
    /\ IF BlockOf(fsm[t].id) = maxBlock + 1
       THEN \/ /\ used' = used \ IdsOf(maxBlock + 1)
               /\ blocks' = maxBlock + 2
               /\ maxBlock' = maxBlock + 1
               /\ Goto(t, "check")
               /\ UNCHANGED errors
            \/ /\ ServerFails(t)
               /\ UNCHANGED <<used, blocks, maxBlock>>
       ELSE /\ Goto(t, IF BlockOf(fsm[t].id) > maxBlock THEN "err" ELSE "check")
            /\ UNCHANGED <<used, blocks, maxBlock, errors>>
    /\ UNCHANGED <<hasFree, freeList, lock, nextId>>

-----------------------------------------------------------------------------
(* mark_id, for both values of its flag *)

MarkCheck(t) ==
    /\ At(t, "check")
    /\ lock = {}
    /\ Goto(t, IF fsm[t].id >= nextId \/ BlockOf(fsm[t].id) > maxBlock THEN "err" ELSE "rmw")
    /\ UNCHANGED <<used, blocks, hasFree, freeList, maxBlock, lock, nextId, errors>>

\* Where a call goes on after the read-modify-write.  next_id has its id when
\* the bit was clear; a new id that is taken leads to another new one, a queued
\* one back to the queue.  mark_free has an id to queue when the bit was set.
AfterMark(t, changed) ==
    CASE fsm[t].op = "next" /\ changed -> "ok"
      [] fsm[t].op = "next" /\ ~changed -> IF fsm[t].minted THEN "mint" ELSE "pop"
      [] fsm[t].op = "free" /\ changed -> "queue"
      [] OTHER -> "ok"

\* A fault: next_id takes every id that it could write.
MarkIdBlind(t) ==
    /\ At(t, "rmw")
    /\ used' = IF fsm[t].op = "next" THEN used \cup {fsm[t].id} ELSE used \ {fsm[t].id}
    /\ Goto(t, AfterMark(t, TRUE))
    /\ UNCHANGED <<blocks, hasFree, freeList, maxBlock, lock, nextId, errors>>

MarkId(t) ==
    /\ At(t, "rmw")
    /\ \/ /\ used' = IF fsm[t].op = "next" THEN used \cup {fsm[t].id} ELSE used \ {fsm[t].id}
          /\ Goto(t, AfterMark(t, used' # used))
          /\ UNCHANGED errors
       \/ /\ ServerFails(t)
          /\ UNCHANGED used
    /\ UNCHANGED <<blocks, hasFree, freeList, maxBlock, lock, nextId>>

\* A full queue drops the id.
QueueFreed(t) ==
    /\ At(t, "queue")
    /\ freeList' = IF Len(freeList) < FastSize THEN Append(freeList, fsm[t].id) ELSE freeList
    /\ Goto(t, "flag")
    /\ UNCHANGED <<used, blocks, hasFree, maxBlock, lock, nextId, errors>>

FlagFreed(t) ==
    /\ At(t, "flag")
    /\ hasFree' = TRUE
    /\ Goto(t, "ok")
    /\ UNCHANGED <<used, blocks, freeList, maxBlock, lock, nextId, errors>>

FsmStep(t) ==
    \/ LoadFlag(t) \/ Pop(t) \/ RefillLock(t) \/ ScanBlock(t) \/ ScanFails(t) \/ ScanPush(t) \/ ScanEnd(t)
    \/ Mint(t) \/ Room(t) \/ ExpandTo(t) \/ MarkCheck(t) \/ MarkId(t) \/ QueueFreed(t) \/ FlagFreed(t)

-----------------------------------------------------------------------------
(* What a caller sees of the map *)

\* is_free, once max_block can be read: an id out of range is an error.
IsUsed(id) == id < nextId /\ BlockOf(id) <= maxBlock /\ id \in used

\* Thread t has been given an id that it has not taken yet.
Got(t) == At(t, "ok") /\ fsm[t].op = "next"

\* Thread t is about to clear the bit of an id, or could not.
Freeing(t) == fsm[t].op = "free" /\ fsm[t].pc \in {"check", "rmw", "err"}
=============================================================================
