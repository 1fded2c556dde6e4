------------------------- MODULE FreeSpaceMapProofs -------------------------
(***************************************************************************)
(* No internal id is given out twice, for every number of threads, every    *)
(* size of the blocks and of the queue, and any failures and restarts.      *)
(*                                                                         *)
(* The queue, the flag and the counter next_id need no invariant: whatever  *)
(* id they offer, the read-modify-write of its bit decides.  What has to be *)
(* shown is that every id is with one owner at most, and that the write of  *)
(* a new block of zeroes clears no bit that is set.                         *)
(***************************************************************************)
EXTENDS IdClients, TLAPS

\* An id is with thread t: it was just given out, or is being given back.
Owns(t) == Got(t) \/ Freeing(t)

Fields == {"pc", "op", "id", "minted", "block", "todo", "found"}

Shape == /\ fsm = [t \in Threads |-> fsm[t]]
         /\ \A t \in Threads : DOMAIN fsm[t] = Fields

\* The id lies in a block that is there.
InBlocks(id) == \A b \in Nat : b > maxBlock => id \notin IdsOf(b)

\* mark_free runs mark_id only, and only mark_free queues an id.
FreePcs == {"check", "rmw", "err", "queue", "flag", "ok"}

WellFormed(r) ==
    /\ r.pc = "idle" \/ r.op \in {"next", "free"}
    /\ r.op = "free" => r.pc \in FreePcs
    /\ r.pc \in {"queue", "flag"} => r.op = "free"

OneOwner ==
    /\ held \subseteq used
    /\ \A t \in Threads : Owns(t) => fsm[t].id \in used \ held
    /\ \A t, u \in Threads : t # u /\ Owns(t) /\ Owns(u) => fsm[t].id # fsm[u].id

IInv ==
    /\ Shape
    /\ blocks \in Nat /\ maxBlock = blocks - 1
    /\ \A id \in used : InBlocks(id)
    /\ \A t \in Threads : At(t, "rmw") => InBlocks(fsm[t].id)
    /\ \A t \in Threads : WellFormed(fsm[t])
    /\ OneOwner

-----------------------------------------------------------------------------

\* The ids of a block are those that indexes_for_id finds in it.
LEMMA BlockOfIds ==
  ASSUME NEW b \in Nat, NEW id \in IdsOf(b)
  PROVE  id \in Nat /\ BlockOf(id) = b
<1>1. BlockSize \in Nat /\ BlockSize > 0
  BY BlockSizePositive
<1>2. b * BlockSize \in Nat
  BY <1>1
<1>3. id \in Int /\ b * BlockSize <= id /\ id < b * BlockSize + BlockSize
  BY <1>1, <1>2 DEF IdsOf
<1>4. id \in Nat
  BY <1>2, <1>3
<1>5. id \div BlockSize \in Nat
  BY <1>1, <1>4
<1>6. /\ (id \div BlockSize) * BlockSize <= id
      /\ id < (id \div BlockSize) * BlockSize + BlockSize
  BY <1>1, <1>4
<1>7. ASSUME NEW p \in Nat, NEW q \in Nat, p < q
      PROVE  p * BlockSize + BlockSize <= q * BlockSize
  BY <1>1, <1>7
<1>8. id \div BlockSize = b
  <2> DEFINE d == id \div BlockSize
  <2>1. d \in Nat /\ d * BlockSize <= id /\ id < d * BlockSize + BlockSize
    BY <1>5, <1>6
  <2>2. d * BlockSize \in Int
    BY <1>1, <2>1
  <2> HIDE DEF d
  <2>3. ~(d < b)
    BY <1>1, <1>2, <1>3, <1>7, <2>1, <2>2, SMTT(30)
  <2>4. ~(b < d)
    BY <1>1, <1>2, <1>3, <1>7, <2>1, <2>2, SMTT(30)
  <2>5. d = b
    BY <2>1, <2>3, <2>4
  <2> QED
    BY <2>5 DEF d
<1> QED
  BY <1>4, <1>8 DEF BlockOf

\* Ids below the end of the blocks lie in a block that is there.
LEMMA InBlocksBelow ==
  ASSUME NEW n \in Nat, maxBlock = n - 1, NEW id \in 0..(n * BlockSize - 1)
  PROVE  InBlocks(id)
<1>1. BlockSize \in Nat /\ BlockSize > 0
  BY BlockSizePositive
<1> SUFFICES ASSUME NEW b \in Nat, b > maxBlock, id \in IdsOf(b)
             PROVE  FALSE
  BY DEF InBlocks
<1>2. b >= n
  OBVIOUS
<1>3. n * BlockSize \in Nat /\ b * BlockSize \in Nat
  BY <1>1
<1>4. n * BlockSize <= b * BlockSize
  BY <1>1, <1>2
<1>5. id >= b * BlockSize
  BY <1>1, <1>3 DEF IdsOf
<1> QED
  BY <1>3, <1>4, <1>5

\* A check that indexes_for_id passes.
LEMMA InBlocksChecked ==
  ASSUME maxBlock \in Int, NEW id, ~(BlockOf(id) > maxBlock)
  PROVE  InBlocks(id)
<1> SUFFICES ASSUME NEW b \in Nat, b > maxBlock, id \in IdsOf(b)
             PROVE  FALSE
  BY DEF InBlocks
<1>1. BlockOf(id) = b
  BY BlockOfIds
<1> QED
  BY <1>1

\* What a call owns, by its record.
OwnsAs(r) == \/ r.pc = "ok" /\ r.op = "next"
             \/ r.op = "free" /\ r.pc \in {"check", "rmw", "err"}

LEMMA OwnsRecord ==
  ASSUME NEW t
  PROVE  Owns(t) <=> OwnsAs(fsm[t])
BY DEF Owns, OwnsAs, Got, Freeing, At

LEMMA OwnsRecordNext ==
  ASSUME NEW t
  PROVE  Owns(t)' <=> OwnsAs(fsm'[t])
BY DEF Owns, OwnsAs, Got, Freeing, At

\* A step within a call that owns nothing new.
LEMMA SilentStep ==
  ASSUME IInv, NEW t \in Threads, NEW r,
         DOMAIN r = Fields,
         fsm' = [fsm EXCEPT ![t] = r],
         UNCHANGED <<used, blocks, maxBlock, held>>,
         WellFormed(r),
         OwnsAs(r) => Owns(t) /\ r.id = fsm[t].id,
         r.pc = "rmw" => InBlocks(r.id)
  PROVE  IInv'
<1>1. fsm'[t] = r /\ \A u \in Threads \ {t} : fsm'[u] = fsm[u]
  BY DEF IInv, Shape
<1>2. Shape'
  BY <1>1 DEF IInv, Shape
<1>3. \A id : InBlocks(id)' <=> InBlocks(id)
  BY DEF InBlocks, IdsOf
<1>4. (\A id \in used : InBlocks(id))'
  BY <1>3 DEF IInv
<1>5. (\A u \in Threads : At(u, "rmw") => InBlocks(fsm[u].id))'
  BY <1>1, <1>3 DEF IInv, At
<1>6. (\A u \in Threads : WellFormed(fsm[u]))'
  BY <1>1 DEF IInv, WellFormed
<1>7. \A u \in Threads : Owns(u)' => Owns(u) /\ fsm'[u].id = fsm[u].id
  BY <1>1, OwnsRecord, OwnsRecordNext
<1>8. OneOwner'
  BY <1>7 DEF IInv, OneOwner
<1> QED
  BY <1>2, <1>4, <1>5, <1>6, <1>8, SMTT(30) DEF IInv

\* The steps that change neither the bits nor the blocks.
SilentActions(t) ==
    \/ LoadFlag(t) \/ Pop(t) \/ RefillLock(t) \/ ScanBlock(t) \/ ScanFails(t) \/ ScanPush(t) \/ ScanEnd(t)
    \/ Mint(t) \/ Room(t) \/ MarkCheck(t) \/ QueueFreed(t) \/ FlagFreed(t)

LEMMA SilentKeepsInv ==
  ASSUME IInv, NEW t \in Threads, SilentActions(t), UNCHANGED held
  PROVE  IInv'
<1>0. DOMAIN fsm[t] = Fields /\ WellFormed(fsm[t])
  BY DEF IInv, Shape
<1>m. maxBlock \in Int
  BY DEF IInv
<1>o. Owns(t) <=> OwnsAs(fsm[t])
  BY OwnsRecord
<1>a. ASSUME NEW r,
             fsm' = [fsm EXCEPT ![t] = r], UNCHANGED <<used, blocks, maxBlock>>,
             DOMAIN r = Fields, r.op = fsm[t].op,
             fsm[t].pc \notin FreePcs \cup {"idle"},
             r.pc \notin {"ok", "rmw", "queue", "flag"}
      PROVE  IInv'
  <2>1. fsm[t].op # "free"
    BY <1>0, <1>a DEF WellFormed
  <2>3. WellFormed(r)
    BY <1>0, <1>a, <2>1 DEF WellFormed
  <2>2. ~OwnsAs(r)
    BY <1>a, <2>1 DEF OwnsAs
  <2> QED
    BY <1>a, <2>2, <2>3, SilentStep, ZenonT(30)
<1>b. ASSUME NEW pc,
             Goto(t, pc), UNCHANGED <<used, blocks, maxBlock>>,
             fsm[t].pc \notin FreePcs \cup {"idle"},
             pc \notin {"ok", "rmw", "queue", "flag"}
      PROVE  IInv'
  <2> DEFINE r == [fsm[t] EXCEPT !.pc = pc]
  <2>1. fsm' = [fsm EXCEPT ![t] = r]
    BY <1>b DEF Goto
  <2>2. DOMAIN r = Fields /\ r.op = fsm[t].op /\ r.pc = pc
    BY <1>0 DEF Fields
  <2> HIDE DEF r
  <2> QED
    BY <1>a, <1>b, <2>1, <2>2, ZenonT(30)
<1>1. CASE LoadFlag(t)
  BY <1>1, <1>b DEF LoadFlag, At, FreePcs
<1>2. CASE Pop(t)
  <2>0. fsm[t].pc \notin FreePcs \cup {"idle"}
    BY <1>2 DEF Pop, FreePcs
  <2>1. CASE freeList # <<>>
    <3> DEFINE r == [fsm[t] EXCEPT !.pc = "check", !.id = Head(freeList)]
    <3>1. fsm' = [fsm EXCEPT ![t] = r]
      BY <1>2, <2>1, ZenonT(30) DEF Pop
    <3>2. DOMAIN r = Fields /\ r.op = fsm[t].op /\ r.pc = "check"
      BY <1>0 DEF Fields
    <3> HIDE DEF r
    <3> QED
      BY <1>2, <1>a, <2>0, <3>1, <3>2, ZenonT(30) DEF Pop
  <2>2. CASE freeList = <<>>
    BY <1>2, <1>b, <2>0, <2>2 DEF Pop
  <2> QED
    BY <2>1, <2>2
<1>3. CASE RefillLock(t)
  <2>0. fsm[t].pc \notin FreePcs \cup {"idle"}
    BY <1>3 DEF RefillLock, At, FreePcs
  <2>1. CASE freeList # <<>>
    BY <1>3, <1>b, <2>0, <2>1, SMTT(30) DEF RefillLock
  <2>2. CASE freeList = <<>>
    <3> DEFINE r == [fsm[t] EXCEPT !.pc = "scan", !.block = 0, !.found = FALSE]
    <3>1. fsm' = [fsm EXCEPT ![t] = r]
      BY <1>3, <2>2, ZenonT(30) DEF RefillLock
    <3>2. DOMAIN r = Fields /\ r.op = fsm[t].op /\ r.pc = "scan"
      BY <1>0 DEF Fields
    <3> HIDE DEF r
    <3> QED
      BY <1>3, <1>a, <2>0, <3>1, <3>2, ZenonT(30) DEF RefillLock
  <2> QED
    BY <2>1, <2>2
<1>4. CASE ScanBlock(t)
  <2>0. fsm[t].pc \notin FreePcs \cup {"idle"}
    BY <1>4, ZenonT(30) DEF ScanBlock, At, FreePcs
  <2> DEFINE todo == Ascending(IdsOf(fsm[t].block) \ used)
             r == [fsm[t] EXCEPT !.pc = "push", !.block = @ + 1, !.todo = todo]
  <2>1. fsm' = [fsm EXCEPT ![t].pc = "push", ![t].block = @ + 1, ![t].todo = todo]
    BY <1>4, ZenonT(30) DEF ScanBlock
  <2> HIDE DEF todo
  <2>2. fsm' = [fsm EXCEPT ![t] = r]
    BY <2>1, ZenonT(30)
  <2>3. DOMAIN r = Fields /\ r.op = fsm[t].op /\ r.pc = "push"
    BY <1>0 DEF Fields
  <2> HIDE DEF r
  <2>4. UNCHANGED <<used, blocks, maxBlock>>
    BY <1>4, ZenonT(30) DEF ScanBlock
  <2> QED
    BY <1>a, <2>0, <2>2, <2>3, <2>4, ZenonT(30)
<1>5. CASE ScanFails(t)
  BY <1>5, <1>b DEF ScanFails, ServerFails, At, FreePcs
<1>6. CASE ScanPush(t)
  <2>0. fsm[t].pc \notin FreePcs \cup {"idle"} /\ UNCHANGED <<used, blocks, maxBlock>>
    BY <1>6 DEF ScanPush, At, FreePcs
  <2>1. CASE fsm[t].todo = <<>>
    BY <1>6, <1>b, <2>0, <2>1, SMTT(30) DEF ScanPush
  <2>2. CASE fsm[t].todo # <<>> /\ Len(freeList) < FastSize
    <3> DEFINE r == [fsm[t] EXCEPT !.found = TRUE, !.todo = Tail(@)]
    <3>1. fsm' = [fsm EXCEPT ![t] = r]
      BY <1>6, <2>2, ZenonT(30) DEF ScanPush
    <3>2. DOMAIN r = Fields /\ r.op = fsm[t].op /\ r.pc = "push"
      BY <1>0, <1>6 DEF Fields, ScanPush, At
    <3> HIDE DEF r
    <3> QED
      BY <1>a, <2>0, <3>1, <3>2, ZenonT(30)
  <2>3. CASE fsm[t].todo # <<>> /\ ~(Len(freeList) < FastSize)
    <3> DEFINE r == [fsm[t] EXCEPT !.found = TRUE, !.todo = <<>>, !.pc = "scanned"]
    <3>1. fsm' = [fsm EXCEPT ![t] = r]
      BY <1>6, <2>3, ZenonT(30) DEF ScanPush
    <3>2. DOMAIN r = Fields /\ r.op = fsm[t].op /\ r.pc = "scanned"
      BY <1>0 DEF Fields
    <3> HIDE DEF r
    <3> QED
      BY <1>a, <2>0, <3>1, <3>2, ZenonT(30)
  <2> QED
    BY <2>1, <2>2, <2>3, SMTT(30)
<1>7. CASE ScanEnd(t)
  <2>0. fsm[t].pc \notin FreePcs \cup {"idle"} /\ UNCHANGED <<used, blocks, maxBlock>>
    BY <1>7 DEF ScanEnd, At, FreePcs
  <2> DEFINE to == IF fsm[t].found THEN "popRefilled" ELSE "mint"
             r == [fsm[t] EXCEPT !.pc = to, !.block = 0, !.found = FALSE]
  <2>1. fsm' = [fsm EXCEPT ![t] = r]
    BY <1>7, ZenonT(30) DEF ScanEnd
  <2>2. DOMAIN r = Fields /\ r.op = fsm[t].op /\ r.pc = to
    BY <1>0 DEF Fields
  <2>3. to \notin {"ok", "rmw", "queue", "flag"}
    OBVIOUS
  <2> HIDE DEF r, to
  <2> QED
    BY <1>a, <2>0, <2>1, <2>2, <2>3, ZenonT(30)
<1>8. CASE Mint(t)
  <2>0. fsm[t].pc \notin FreePcs \cup {"idle"} /\ UNCHANGED <<used, blocks, maxBlock>>
    BY <1>8 DEF Mint, At, FreePcs
  <2> DEFINE r == [fsm[t] EXCEPT !.pc = "room", !.id = nextId, !.minted = TRUE]
  <2>1. fsm' = [fsm EXCEPT ![t] = r]
    BY <1>8, ZenonT(30) DEF Mint
  <2>2. DOMAIN r = Fields /\ r.op = fsm[t].op /\ r.pc = "room"
    BY <1>0 DEF Fields
  <2> HIDE DEF r
  <2> QED
    BY <1>a, <2>0, <2>1, <2>2, ZenonT(30)
<1>9. CASE Room(t)
  BY <1>9, <1>b DEF Room, At, FreePcs
<1>c. ASSUME NEW pc, Goto(t, pc), UNCHANGED <<used, blocks, maxBlock>>,
             fsm[t].pc # "idle", pc \in FreePcs \ {"queue"},
             pc = "flag" => fsm[t].op = "free",
             OwnsAs([fsm[t] EXCEPT !.pc = pc]) => OwnsAs(fsm[t]),
             pc = "rmw" => InBlocks(fsm[t].id)
      PROVE  IInv'
  <2> DEFINE r == [fsm[t] EXCEPT !.pc = pc]
  <2>1. fsm' = [fsm EXCEPT ![t] = r]
    BY <1>c DEF Goto
  <2>2. DOMAIN r = Fields /\ r.op = fsm[t].op /\ r.pc = pc /\ r.id = fsm[t].id
    BY <1>0 DEF Fields
  <2>3. OwnsAs(r) => Owns(t)
    BY <1>c, <1>o
  <2> HIDE DEF r
  <2>4. WellFormed(r)
    BY <1>0, <1>c, <2>2 DEF WellFormed
  <2> QED
    BY <1>c, <2>1, <2>2, <2>3, <2>4, SilentStep, ZenonT(30)
<1>10. CASE MarkCheck(t)
  <2>1. CASE fsm[t].id >= nextId \/ BlockOf(fsm[t].id) > maxBlock
    BY <1>0, <1>10, <1>c, <2>1 DEF MarkCheck, At, OwnsAs, FreePcs, Fields
  <2>2. CASE ~(fsm[t].id >= nextId \/ BlockOf(fsm[t].id) > maxBlock)
    <3>1. InBlocks(fsm[t].id)
      BY <1>m, <2>2, InBlocksChecked
    <3> QED
      BY <1>0, <1>10, <1>c, <2>2, <3>1, SMTT(30) DEF MarkCheck, At, OwnsAs, FreePcs, Fields
  <2> QED
    BY <2>1, <2>2
<1>q. fsm[t].pc \in {"queue", "flag"} => fsm[t].op = "free"
  BY <1>0 DEF WellFormed
<1>11. CASE QueueFreed(t)
  BY <1>0, <1>11, <1>c, <1>q, SMTT(30) DEF QueueFreed, At, OwnsAs, FreePcs, Fields
<1>12. CASE FlagFreed(t)
  BY <1>0, <1>12, <1>c, <1>q, SMTT(30) DEF FlagFreed, At, OwnsAs, FreePcs, Fields
<1> QED
  BY <1>1, <1>2, <1>3, <1>4, <1>5, <1>6, <1>7, <1>8, <1>9, <1>10, <1>11, <1>12, SMTT(30) DEF SilentActions

-----------------------------------------------------------------------------

\* The bit decides: an id is given out when its bit was clear.
LEMMA MarkIdKeepsInv ==
  ASSUME IInv, NEW t \in Threads, MarkId(t), UNCHANGED held
  PROVE  IInv'
<1>0. /\ DOMAIN fsm[t] = Fields /\ WellFormed(fsm[t])
      /\ fsm[t].pc = "rmw" /\ InBlocks(fsm[t].id)
      /\ UNCHANGED <<blocks, maxBlock>>
  BY DEF IInv, Shape, MarkId, At
<1>o. Owns(t) <=> OwnsAs(fsm[t])
  BY OwnsRecord
<1> DEFINE x == fsm[t].id
           To(pc) == [fsm[t] EXCEPT !.pc = pc]
<1>t. \A pc : /\ DOMAIN To(pc) = Fields
              /\ To(pc).op = fsm[t].op /\ To(pc).id = x /\ To(pc).pc = pc
  BY <1>0 DEF Fields
<1>g. \A pc : Goto(t, pc) => fsm' = [fsm EXCEPT ![t] = To(pc)]
  BY DEF Goto
<1>b. \A id : InBlocks(id)' <=> InBlocks(id)
  BY <1>0 DEF InBlocks, IdsOf
<1> HIDE DEF To
<1>1. CASE ServerFails(t) /\ UNCHANGED used
  <2>1. fsm' = [fsm EXCEPT ![t] = To("err")]
    BY <1>1, <1>g DEF ServerFails
  <2>2. WellFormed(To("err")) /\ (OwnsAs(To("err")) => Owns(t))
    BY <1>0, <1>o, <1>t DEF WellFormed, OwnsAs, FreePcs
  <2> QED
    BY <1>0, <1>1, <1>t, <2>1, <2>2, SilentStep, ZenonT(30)
<1>2. CASE fsm[t].op = "next" /\ x \in used /\ used' = used /\ Goto(t, AfterMark(t, FALSE))
  <2> DEFINE pc == AfterMark(t, FALSE)
  <2>1. pc \in {"mint", "pop"}
    BY <1>2 DEF AfterMark
  <2>2. fsm' = [fsm EXCEPT ![t] = To(pc)]
    BY <1>2, <1>g, ZenonT(30)
  <2> HIDE DEF pc
  <2>3. WellFormed(To(pc)) /\ ~OwnsAs(To(pc)) /\ To(pc).pc # "rmw"
    BY <1>0, <1>2, <1>t, <2>1 DEF WellFormed, OwnsAs, FreePcs
  <2> QED
    BY <1>0, <1>2, <1>t, <2>2, <2>3, SilentStep, ZenonT(30)
<1>3. CASE fsm[t].op = "next" /\ x \notin used /\ used' = used \cup {x} /\ Goto(t, AfterMark(t, TRUE))
  <2>1. AfterMark(t, TRUE) = "ok"
    BY <1>3 DEF AfterMark
  <2>2. fsm' = [fsm EXCEPT ![t] = To("ok")]
    BY <1>3, <1>g, <2>1, ZenonT(30)
  <2>3. fsm'[t] = To("ok") /\ \A u \in Threads \ {t} : fsm'[u] = fsm[u]
    BY <2>2 DEF IInv, Shape
  <2>4. Shape'
    BY <1>t, <2>2, <2>3 DEF IInv, Shape
  <2>5. (\A id \in used : InBlocks(id))'
    BY <1>0, <1>3, <1>b DEF IInv
  <2>6. (\A u \in Threads : At(u, "rmw") => InBlocks(fsm[u].id))'
    BY <1>b, <1>t, <2>3, SMTT(30) DEF IInv, At
  <2>7. (\A u \in Threads : WellFormed(fsm[u]))'
    BY <1>0, <1>t, <2>3, <1>3, SMTT(30) DEF IInv, WellFormed, FreePcs
  <2>8. \A u \in Threads \ {t} : Owns(u)' => Owns(u) /\ fsm'[u].id = fsm[u].id
    BY <2>3, OwnsRecord, OwnsRecordNext
  <2>9. fsm'[t].id = x
    BY <1>t, <2>3
  <2>10. held' \subseteq used' /\ x \in used' \ held'
    BY <1>3 DEF IInv, OneOwner
  <2>11. \A u \in Threads \ {t} : Owns(u)' => fsm'[u].id \in used' \ held' /\ fsm'[u].id # x
    BY <1>3, <2>8 DEF IInv, OneOwner
  <2>12. \A u, v \in Threads \ {t} : u # v /\ Owns(u)' /\ Owns(v)' => fsm'[u].id # fsm'[v].id
    BY <2>8 DEF IInv, OneOwner
  <2>13. OneOwner'
    BY <2>9, <2>10, <2>11, <2>12, SMTT(30) DEF OneOwner
  <2> QED
    BY <1>0, <2>4, <2>5, <2>6, <2>7, <2>13, SMTT(30) DEF IInv
<1>4. CASE fsm[t].op = "free" /\ used' = used \ {x} /\ Goto(t, AfterMark(t, TRUE))
  <2>1. AfterMark(t, TRUE) = "queue"
    BY <1>4 DEF AfterMark
  <2>2. fsm' = [fsm EXCEPT ![t] = To("queue")]
    BY <1>4, <1>g, <2>1, ZenonT(30)
  <2>3. fsm'[t] = To("queue") /\ \A u \in Threads \ {t} : fsm'[u] = fsm[u]
    BY <2>2 DEF IInv, Shape
  <2>4. Shape'
    BY <1>t, <2>2, <2>3 DEF IInv, Shape
  <2>5. (\A id \in used : InBlocks(id))'
    BY <1>4, <1>b, SMTT(30) DEF IInv
  <2>6. (\A u \in Threads : At(u, "rmw") => InBlocks(fsm[u].id))'
    BY <1>b, <1>t, <2>3, SMTT(30) DEF IInv, At
  <2>7. (\A u \in Threads : WellFormed(fsm[u]))'
    BY <1>0, <1>t, <2>3, <1>4, SMTT(30) DEF IInv, WellFormed, FreePcs
  <2>8. ~Owns(t)'
    BY <1>t, <2>3, OwnsRecordNext, SMTT(30) DEF OwnsAs
  <2>9. \A u \in Threads \ {t} : Owns(u)' => Owns(u) /\ fsm'[u].id = fsm[u].id
    BY <2>3, OwnsRecord, OwnsRecordNext, SMTT(30)
  <2>10. Owns(t)
    BY <1>0, <1>4, <1>o, SMTT(30) DEF OwnsAs
  <2>11. held' \subseteq used'
    BY <1>4, <2>10, SMTT(30) DEF IInv, OneOwner
  <2>12. \A u \in Threads : Owns(u)' => fsm'[u].id \in used' \ held'
    BY <1>4, <2>8, <2>9, <2>10, SMTT(30) DEF IInv, OneOwner
  <2>13. \A u, v \in Threads : u # v /\ Owns(u)' /\ Owns(v)' => fsm'[u].id # fsm'[v].id
    BY <2>8, <2>9, SMTT(30) DEF IInv, OneOwner
  <2>14. OneOwner'
    BY <2>11, <2>12, <2>13, SMTT(30) DEF OneOwner
  <2> QED
    BY <1>0, <2>4, <2>5, <2>6, <2>7, <2>14 DEF IInv
<1>5. fsm[t].op \in {"next", "free"}
  BY <1>0, SMTT(30) DEF WellFormed
<1>6. fsm[t].op = "free" => x \in used
  BY <1>0, <1>o, SMTT(30) DEF OwnsAs, IInv, OneOwner
<1>7. CASE /\ used' = IF fsm[t].op = "next" THEN used \cup {x} ELSE used \ {x}
           /\ Goto(t, AfterMark(t, used' # used))
  <2>1. CASE fsm[t].op = "next" /\ x \in used
    <3>1. used' = used /\ (used' # used <=> FALSE)
      BY <1>7, <2>1
    <3> QED
      BY <1>2, <1>7, <2>1, <3>1, ZenonT(30)
  <2>2. CASE fsm[t].op = "next" /\ x \notin used
    <3>1. used' = used \cup {x} /\ (used' # used <=> TRUE)
      BY <1>7, <2>2
    <3> QED
      BY <1>3, <1>7, <2>2, <3>1, ZenonT(30)
  <2>3. CASE fsm[t].op = "free"
    <3>1. used' = used \ {x} /\ (used' # used <=> TRUE)
      BY <1>6, <1>7, <2>3
    <3> QED
      BY <1>4, <1>7, <2>3, <3>1, ZenonT(30)
  <2> QED
    BY <1>5, <2>1, <2>2, <2>3, SMTT(30)
<1> QED
  BY <1>1, <1>7 DEF MarkId

\* A new block of zeroes clears nothing: no id in use lies beyond max_block.
LEMMA ExpandKeepsInv ==
  ASSUME IInv, NEW t \in Threads, ExpandTo(t), UNCHANGED held
  PROVE  IInv'
<1>0. DOMAIN fsm[t] = Fields /\ WellFormed(fsm[t]) /\ fsm[t].pc = "expand"
  BY DEF IInv, Shape, ExpandTo, At
<1>f. fsm[t].op # "free"
  BY <1>0 DEF WellFormed, FreePcs
<1> DEFINE To(pc) == [fsm[t] EXCEPT !.pc = pc]
<1>t. \A pc : /\ DOMAIN To(pc) = Fields
              /\ To(pc).op = fsm[t].op /\ To(pc).id = fsm[t].id /\ To(pc).pc = pc
  BY <1>0 DEF Fields
<1>g. \A pc : Goto(t, pc) => fsm' = [fsm EXCEPT ![t] = To(pc)]
  BY DEF Goto
<1> HIDE DEF To
<1>w. \A pc \in {"err", "check"} : WellFormed(To(pc)) /\ ~OwnsAs(To(pc)) /\ To(pc).pc # "rmw"
  BY <1>0, <1>f, <1>t, SMTT(30) DEF WellFormed, OwnsAs, FreePcs
<1>1. ASSUME NEW pc \in {"err", "check"}, Goto(t, pc), UNCHANGED <<used, blocks, maxBlock>>
      PROVE  IInv'
  BY <1>1, <1>g, <1>t, <1>w, SilentStep, SMTT(30)
<1>2. CASE /\ used' = used \ IdsOf(maxBlock + 1) /\ blocks' = maxBlock + 2
           /\ maxBlock' = maxBlock + 1 /\ Goto(t, "check")
  <2>0. blocks \in Nat /\ maxBlock = blocks - 1
    BY DEF IInv
  <2>1. used' = used
    <3>1. maxBlock + 1 \in Nat /\ maxBlock + 1 > maxBlock
      BY <2>0
    <3>2. \A id \in used : id \notin IdsOf(maxBlock + 1)
      BY <3>1 DEF IInv, InBlocks
    <3> QED
      BY <1>2, <3>2
  <2>2. \A id : InBlocks(id) => InBlocks(id)'
    BY <1>2, <2>0 DEF InBlocks, IdsOf
  <2>3. fsm' = [fsm EXCEPT ![t] = To("check")]
    BY <1>2, <1>g
  <2>4. fsm'[t] = To("check") /\ \A u \in Threads \ {t} : fsm'[u] = fsm[u]
    BY <2>3 DEF IInv, Shape
  <2>5. Shape'
    BY <1>t, <2>3, <2>4, SMTT(30) DEF IInv, Shape
  <2>6. (\A id \in used : InBlocks(id))'
    BY <2>1, <2>2, SMTT(30) DEF IInv
  <2>7. (\A u \in Threads : At(u, "rmw") => InBlocks(fsm[u].id))'
    BY <1>t, <2>2, <2>4, SMTT(30) DEF IInv, At
  <2>8. (\A u \in Threads : WellFormed(fsm[u]))'
    BY <1>w, <2>4, SMTT(30) DEF IInv, WellFormed
  <2>9. \A u \in Threads : Owns(u)' => Owns(u) /\ fsm'[u].id = fsm[u].id
    BY <1>w, <2>4, OwnsRecord, OwnsRecordNext, SMTT(30)
  <2>10. OneOwner'
    BY <2>1, <2>9 DEF IInv, OneOwner
  <2>11. blocks' \in Nat /\ maxBlock' = blocks' - 1
    BY <1>2, <2>0
  <2> QED
    BY <2>5, <2>6, <2>7, <2>8, <2>10, <2>11, SMTT(30) DEF IInv
<1> QED
  BY <1>1, <1>2, SMTT(30) DEF ExpandTo, ServerFails

-----------------------------------------------------------------------------

\* A thread's call begins or ends.
LEMMA ClientStep ==
  ASSUME IInv, NEW t \in Threads, NEW r,
         DOMAIN r = Fields, WellFormed(r), r.pc # "rmw",
         fsm' = [fsm EXCEPT ![t] = r],
         UNCHANGED <<used, blocks, maxBlock>>,
         \* what the thread owns comes from itself or from the held ids
         \/ ~OwnsAs(r) /\ held' \subseteq held
         \/ ~OwnsAs(r) /\ Owns(t) /\ held' = held \cup {fsm[t].id}
         \/ r.id \in held /\ held' = held \ {r.id}
         \/ Owns(t) /\ r.id = fsm[t].id /\ held' = held
  PROVE  IInv'
<1>1. fsm'[t] = r /\ \A u \in Threads \ {t} : fsm'[u] = fsm[u]
  BY DEF IInv, Shape
<1>2. Shape'
  BY <1>1 DEF IInv, Shape
<1>3. \A id : InBlocks(id)' <=> InBlocks(id)
  BY DEF InBlocks, IdsOf
<1>4. (\A id \in used : InBlocks(id))'
  BY <1>3 DEF IInv
<1>5. (\A u \in Threads : At(u, "rmw") => InBlocks(fsm[u].id))'
  BY <1>1, <1>3, SMTT(30) DEF IInv, At
<1>6. (\A u \in Threads : WellFormed(fsm[u]))'
  BY <1>1 DEF IInv, WellFormed
<1>7. \A u \in Threads \ {t} : Owns(u)' => Owns(u) /\ fsm'[u].id = fsm[u].id
  BY <1>1, OwnsRecord, OwnsRecordNext
<1>8. Owns(t)' <=> OwnsAs(r)
  BY <1>1, OwnsRecordNext, SMTT(30)
<1>9. /\ held \subseteq used
      /\ \A u \in Threads : Owns(u) => fsm[u].id \in used \ held
      /\ \A u, v \in Threads : u # v /\ Owns(u) /\ Owns(v) => fsm[u].id # fsm[v].id
  BY DEF IInv, OneOwner
<1>10. held' \subseteq used'
  BY <1>9
<1>11. \A u \in Threads \ {t} : Owns(u)' => fsm'[u].id \in used' \ held'
  BY <1>7, <1>9
<1>12. Owns(t)' => fsm'[t].id \in used' \ held'
  BY <1>1, <1>8, <1>9
<1>13. \A u \in Threads \ {t} : Owns(u)' /\ Owns(t)' => fsm'[u].id # fsm'[t].id
  BY <1>1, <1>7, <1>8, <1>9, SMTT(30)
<1>14. \A u, v \in Threads \ {t} : u # v /\ Owns(u)' /\ Owns(v)' => fsm'[u].id # fsm'[v].id
  BY <1>7, <1>9, SMTT(30)
<1>15. OneOwner'
  BY <1>10, <1>11, <1>12, <1>13, <1>14, SMTT(30) DEF OneOwner
<1> QED
  BY <1>2, <1>4, <1>5, <1>6, <1>15, SMTT(30) DEF IInv

LEMMA CallsShape ==
  /\ DOMAIN IdleCall = Fields /\ IdleCall.pc = "idle" /\ IdleCall.op = "none"
  /\ DOMAIN NextIdCall = Fields /\ NextIdCall.pc = "next" /\ NextIdCall.op = "next"
  /\ \A id : /\ DOMAIN MarkFreeCall(id) = Fields /\ MarkFreeCall(id).pc = "check"
             /\ MarkFreeCall(id).op = "free" /\ MarkFreeCall(id).id = id
BY DEF IdleCall, NextIdCall, MarkFreeCall, Fields

LEMMA ClientKeepsInv ==
  ASSUME IInv, NEW t \in Threads,
         CallNextId(t) \/ CallMarkFree(t) \/ Return(t) \/ ReturnAndFree(t)
  PROVE  IInv'
<1>0. UNCHANGED <<used, blocks, maxBlock>>
  BY DEF CallNextId, CallMarkFree, Return, ReturnAndFree, OthersUnchanged
<1>w. /\ WellFormed(IdleCall) /\ ~OwnsAs(IdleCall)
      /\ WellFormed(NextIdCall) /\ ~OwnsAs(NextIdCall)
      /\ \A id : WellFormed(MarkFreeCall(id))
  BY CallsShape DEF WellFormed, OwnsAs, FreePcs
<1>1. CASE CallNextId(t)
  BY <1>0, <1>1, <1>w, CallsShape, ClientStep, ZenonT(30) DEF CallNextId
<1>2. CASE CallMarkFree(t)
  <2>1. PICK id \in held : fsm' = [fsm EXCEPT ![t] = MarkFreeCall(id)] /\ held' = held \ {id}
    BY <1>2, ZenonT(30) DEF CallMarkFree
  <2> QED
    BY <1>0, <1>w, <2>1, CallsShape, ClientStep, ZenonT(30)
<1>3. CASE Return(t)
  <2>1. CASE held' = held
    BY <1>0, <1>3, <1>w, <2>1, CallsShape, ClientStep, ZenonT(30) DEF Return
  <2>2. CASE (Got(t) \/ Freeing(t)) /\ held' = held \cup {fsm[t].id}
    <3>1. Owns(t)
      BY <2>2, SMTT(30) DEF Owns
    <3> QED
      BY <1>0, <1>3, <1>w, <2>2, <3>1, CallsShape, ClientStep, ZenonT(30) DEF Return
  <2> QED
    BY <1>3, <2>1, <2>2 DEF Return
<1>4. CASE ReturnAndFree(t)
  <2>1. Owns(t)
    BY <1>4 DEF ReturnAndFree, Owns
  <2> QED
    BY <1>0, <1>4, <1>w, <2>1, CallsShape, ClientStep, ZenonT(30) DEF ReturnAndFree
<1> QED
  BY <1>1, <1>2, <1>3, <1>4, SMTT(30)

\* A restart gives up every call in progress and what it owned.
LEMMA RestartKeepsInv ==
  ASSUME IInv, Restart
  PROVE  IInv'
<1>1. /\ fsm' = [t \in Threads |-> IdleCall] /\ UNCHANGED <<used, blocks>>
      /\ maxBlock' = blocks - 1 /\ held' \subseteq held
  BY DEF Restart, Reopen, LoadState
<1>2. maxBlock' = maxBlock
  BY <1>1 DEF IInv
<1>3. Shape'
  BY <1>1, CallsShape, SMTT(30) DEF Shape
<1>4. (\A id \in used : InBlocks(id))'
  BY <1>1, <1>2, SMTT(30) DEF IInv, InBlocks, IdsOf
<1>5. (\A u \in Threads : At(u, "rmw") => InBlocks(fsm[u].id))'
  BY <1>1, CallsShape, SMTT(30) DEF At
<1>6. (\A u \in Threads : WellFormed(fsm[u]))'
  BY <1>1, CallsShape, SMTT(30) DEF WellFormed
<1>7. \A u \in Threads : ~Owns(u)'
  BY <1>1, CallsShape, OwnsRecordNext, SMTT(30) DEF OwnsAs
<1>8. OneOwner'
  BY <1>1, <1>7, SMTT(30) DEF IInv, OneOwner
<1> QED
  BY <1>1, <1>3, <1>4, <1>5, <1>6, <1>8, SMTT(30) DEF IInv

LEMMA InitInv == ClientInit => IInv
<1> SUFFICES ASSUME ClientInit PROVE IInv
  OBVIOUS
<1>1. /\ fsm = [t \in Threads |-> IdleCall] /\ maxBlock = blocks - 1
      /\ blocks \in Nat /\ used \subseteq 0..(blocks * BlockSize - 1) /\ held \subseteq used
  BY DEF ClientInit, FsmInit
<1>2. \A id \in used : InBlocks(id)
  BY <1>1, InBlocksBelow
<1>3. Shape
  BY <1>1, CallsShape DEF Shape
<1>4. \A u \in Threads : ~At(u, "rmw") /\ WellFormed(fsm[u]) /\ ~Owns(u)
  BY <1>1, CallsShape, OwnsRecord, SMTT(30) DEF At, WellFormed, OwnsAs
<1> QED
  BY <1>1, <1>2, <1>3, <1>4, SMTT(30) DEF IInv, OneOwner

LEMMA NextInv == IInv /\ [ClientNext]_clientVars => IInv'
<1> SUFFICES ASSUME IInv, [ClientNext]_clientVars PROVE IInv'
  BY SMTT(30)
<1>1. CASE UNCHANGED clientVars
  BY <1>1 DEF clientVars, fsmVars, IInv, Shape, InBlocks, IdsOf, At, WellFormed, OneOwner, Owns, Got, Freeing
<1>2. ASSUME NEW t \in Threads, FsmStep(t), UNCHANGED held
      PROVE  IInv'
  BY <1>2, SilentKeepsInv, MarkIdKeepsInv, ExpandKeepsInv, SMTT(30) DEF FsmStep, SilentActions
<1>3. CASE Elsewhere
  <2>1. held' \subseteq held /\ UNCHANGED <<fsm, used, blocks, maxBlock>>
    BY <1>3 DEF Elsewhere, OthersUnchanged
  <2> QED
    BY <2>1 DEF IInv, Shape, InBlocks, IdsOf, At, WellFormed, OneOwner, Owns, Got, Freeing
<1> QED
  BY <1>1, <1>2, <1>3, ClientKeepsInv, RestartKeepsInv, SMTT(30) DEF ClientNext

\* No id is given out twice (FreeSpaceMap::next_id), whatever the number of
\* threads, the sizes of the blocks and of the queue, and the failures.
THEOREM IdsHeldOnce == ClientSpec => []HeldOnce
<1>1. IInv => HeldOnce
  <2> SUFFICES ASSUME IInv PROVE HeldOnce
    OBVIOUS
  <2>1. held \subseteq used
    BY DEF IInv, OneOwner
  <2>2. \A t \in Threads : Got(t) => fsm[t].id \in used \ held
    BY DEF IInv, OneOwner, Owns
  <2>3. \A t \in Threads : Got(t) =>
            \A u \in Threads \ {t} : (Got(u) \/ Freeing(u)) => fsm[u].id # fsm[t].id
    BY DEF IInv, OneOwner, Owns
  <2> QED
    BY <2>1, <2>2, <2>3 DEF HeldOnce
<1> QED
  BY <1>1, InitInv, NextInv, PTL DEF ClientSpec
=============================================================================
