---------------------------- MODULE GarnetProofs ----------------------------
(***************************************************************************)
(* Vector sets of Garnet for every number of threads and elements, every   *)
(* size of the blocks, every number of operations, failures and restarts:  *)
(* the provider keeps to the contract of the free space map, records are   *)
(* not mixed up, and the start point stays.                                *)
(*                                                                         *)
(* Each of the three needs the others.  The provider may give an id back   *)
(* because no other owner has it; that is so because the map gave it out   *)
(* once; and the map can promise this only to a provider that keeps to the *)
(* contract.  So the inductive invariant joins that of the map (module     *)
(* FreeSpaceMapProofs, with Held for the ids that belong to someone) and   *)
(* the one below, and a step of the provider is first shown to be a step   *)
(* of the contract, which keeps the former, and then to keep the latter.   *)
(***************************************************************************)
EXTENDS GarnetContract, TLAPS

OpFields == {"kind", "eid", "pc", "id", "ok"}

OpShape ==
    /\ op = [t \in Threads |-> op[t]]
    /\ \A t \in Threads : DOMAIN op[t] = OpFields

\* Operations on one external id do not overlap.
Exclusive ==
    \A t, u \in Threads :
        t # u /\ op[t].pc # "idle" /\ op[u].pc # "idle" => op[t].eid # op[u].eid

\* Which call of the map an operation is in.
NextPcs == {"startId", "id"}
FreePcs == {"startBack", "undo", "free"}

CallMatches(r, call) ==
    /\ r.pc \notin NextPcs \cup FreePcs => call.pc = "idle"
    /\ r.pc \in NextPcs => call.op = "next"
    /\ r.pc \in FreePcs => call.op = "free"
    /\ r.pc = "free" => call.id = r.id

CallsMatch == \A t \in Threads : CallMatches(op[t], fsm[t])

\* Where a thread sets the start point, and where it relies on it.
SettingPcs == {"start", "startId", "startBack", "startVector", "startList"}
RelyingPcs == {"startList", "attributes", "id", "vector", "extMap", "intMap", "undo", "link"}

StartPoint ==
    /\ \A t \in Threads : op[t].pc \in SettingPcs => state = "SettingStartPoints"
    /\ \A t, u \in Threads : op[t].pc \in SettingPcs /\ op[u].pc \in SettingPcs => t = u
    /\ \A t \in Threads : op[t].pc = "startVector" => 0 \notin DOMAIN vec
    /\ \A t \in Threads : op[t].pc \in RelyingPcs => 0 \in DOMAIN vec
    /\ state = "Ready" => 0 \in DOMAIN vec /\ 0 \in DOMAIN nbr

\* Where the internal id of the element has been found.
FoundPcs == {"used", "delete", "set", "free", "delExtMap", "delIntMap"}

IdsKnown ==
    /\ \A e \in DOMAIN int : int[e] # 0
    /\ \A t \in Threads : op[t].pc \in FoundPcs =>
          op[t].eid \in DOMAIN int /\ op[t].id = int[op[t].eid]
    /\ \A t \in Threads : op[t].pc \in {"delAttributes", "delVector"} => op[t].id # 0

\* Elements that are stored and being stored have ids of their own.
Stored(e) == e \in DOMAIN int /\ ~Removing(e)

IdsApart ==
    /\ \A e, f : Stored(e) /\ Stored(f) /\ int[e] = int[f] => e = f
    /\ \A t \in Threads : Inserting(t) => op[t].id # 0
    /\ \A t \in Threads : \A e : Inserting(t) /\ Stored(e) => op[t].id # int[e]
    /\ \A t, u \in Threads : Inserting(t) /\ Inserting(u) /\ op[t].id = op[u].id => t = u

\* What the records under an internal id say.
ExtOf(i, e) == i \in DOMAIN ext => ext[i] = e
VecOf(i, e) == i \in DOMAIN vec => vec[i] = e

\* A removal that cannot free the id leaves the element as it was, so that its
\* records must be its own until the bit is cleared.
RecordsOwn ==
    /\ \A e : Stored(e) => ExtOf(int[e], e) /\ VecOf(int[e], e)
    /\ \A t \in Threads : op[t].pc = "free" /\ Freeing(t) =>
          ExtOf(op[t].id, op[t].eid) /\ VecOf(op[t].id, op[t].eid)
    /\ \A t \in Threads : Inserting(t) /\ op[t].pc # "vector" => VecOf(op[t].id, op[t].eid)
    /\ \A t \in Threads : Inserting(t) /\ op[t].pc = "intMap" => ExtOf(op[t].id, op[t].eid)

IInv == OpShape /\ Exclusive /\ CallsMatch /\ StartPoint /\ IdsKnown /\ IdsApart /\ RecordsOwn

\* What the invariant of the map says of the ids, and of the calls.
CallFields == {"pc", "op", "id", "minted", "block", "todo", "found"}

OneOwner ==
    /\ Held \subseteq used
    /\ fsm = [t \in Threads |-> fsm[t]]
    /\ \A t \in Threads : DOMAIN fsm[t] = CallFields
    /\ \A t \in Threads : fsm[t].op = "free" =>
          fsm[t].pc \in {"check", "rmw", "err", "queue", "flag", "ok"}
    /\ \A t \in Threads : Got(t) \/ Freeing(t) => fsm[t].id \notin Held

-----------------------------------------------------------------------------
(* What a step of a thread does to the operations and to the ids that belong *)
(* to someone.                                                              *)

\* Thread t goes on with the operation r.
Goes(t, r) == DOMAIN r = OpFields /\ op' = [op EXCEPT ![t] = r]

LEMMA GoesFrame ==
  ASSUME OpShape, NEW t \in Threads, NEW r, Goes(t, r)
  PROVE  OpShape' /\ op'[t] = r /\ \A u \in Threads \ {t} : op'[u] = op[u]
BY Zenon DEF OpShape, Goes

LEMMA StepGoes ==
  ASSUME OpShape, NEW t \in Threads, NEW pc, Step(t, pc)
  PROVE  \E r : /\ Goes(t, r) /\ r.pc = pc /\ r.kind = op[t].kind
                /\ r.eid = op[t].eid /\ r.id = op[t].id /\ r.ok = op[t].ok
<1> DEFINE r == [op[t] EXCEPT !.pc = pc]
<1>1. op' = [op EXCEPT ![t] = r]
  BY Zenon DEF Step
<1>2. DOMAIN r = OpFields /\ r.pc = pc /\ r.kind = op[t].kind
      /\ r.eid = op[t].eid /\ r.id = op[t].id /\ r.ok = op[t].ok
  BY Zenon DEF OpShape, OpFields
<1> HIDE DEF r
<1> QED
  BY <1>1, <1>2, Zenon DEF Goes

LEMMA FinishGoes ==
  ASSUME NEW t \in Threads, NEW ok, Finish(t, ok)
  PROVE  Goes(t, NoOp) /\ NoOp.pc = "idle" /\ NoOp.kind = "none"
BY Zenon DEF Finish, Goes, NoOp, OpFields

\* The ids that belong to an operation.
UnmappingPcs == {"free", "delExtMap", "delIntMap"}
InsertingPcs == {"vector", "extMap", "intMap"}
InsertingAs(r) == r.kind = "insert" /\ r.pc \in InsertingPcs
Share(r) == {x \in {r.id} : InsertingAs(r)} \cup {x \in {0} : r.pc = "startVector"}

LEMMA HeldMembers ==
  \A x : x \in Held <=> \/ \E e : Stored(e) /\ int[e] = x
                        \/ \E u \in Threads : x \in Share(op[u])
                        \/ x = 0 /\ 0 \in DOMAIN vec
BY Zenon DEF Held, Stored, Share, InsertingAs, InsertingPcs, Inserting

LEMMA HeldMembersNext ==
  \A x : x \in Held' <=> \/ \E e : Stored(e)' /\ int'[e] = x
                         \/ \E u \in Threads : x \in Share(op'[u])
                         \/ x = 0 /\ 0 \in DOMAIN vec'
BY Zenon DEF Held, Stored, Share, InsertingAs, InsertingPcs, Inserting

\* An operation that begins or ends nothing that has to do with the IntMap.
LEMMA MoveHeld ==
  ASSUME OpShape, NEW t \in Threads, NEW r, Goes(t, r), UNCHANGED int,
         r.pc \in UnmappingPcs \/ op[t].pc \in UnmappingPcs =>
           r.pc \in UnmappingPcs /\ op[t].pc \in UnmappingPcs /\ r.eid = op[t].eid
  PROVE  /\ \A e : Stored(e)' <=> Stored(e)
         /\ \A x : x \in Held /\ x \notin Share(op[t])
                   /\ (x = 0 /\ x \in DOMAIN vec => x \in DOMAIN vec')
              => x \in Held'
         /\ \A x : x \in Held' /\ x \notin Share(r)
                   /\ (x = 0 /\ x \in DOMAIN vec' => x \in DOMAIN vec)
              => x \in Held
         /\ \A x \in Share(r) : x \in Held'
         /\ \A x \in Share(op[t]) : x \in Held
<1>1. op'[t] = r /\ \A u \in Threads \ {t} : op'[u] = op[u]
  BY GoesFrame, Zenon
<1>2. \A e : Removing(e)' <=> Removing(e)
  BY <1>1, Zenon DEF Removing, Unmapping, UnmappingPcs
<1>3. \A e : Stored(e)' <=> Stored(e)
  BY <1>2, Zenon DEF Stored
<1> QED
  BY <1>1, <1>3, HeldMembers, HeldMembersNext, Zenon

-----------------------------------------------------------------------------
(* Steps that leave the IntMap as it is.  Such a step writes at most the      *)
(* records under the id w: that of the start point or of an element that is   *)
(* being stored.                                                             *)

\* The operation goes on with its element, or is the only one on it.
MoveAlone(t, r) ==
    r.pc # "idle" => \/ op[t].pc # "idle" /\ r.eid = op[t].eid
                     \/ \A u \in Threads : op[u].pc # "idle" => op[u].eid # r.eid

MoveCall(t, r) ==
    /\ CallMatches(r, fsm'[t])
    /\ \A u \in Threads \ {t} : fsm'[u] = fsm[u]

MoveStart(t, r) ==
    /\ \/ state' = state /\ (r.pc \in SettingPcs => op[t].pc \in SettingPcs)
       \/ state = "NoStartPoints" /\ state' = "SettingStartPoints"
       \/ op[t].pc \in SettingPcs /\ r.pc \notin SettingPcs
    /\ state' = "Ready" => state = "Ready" \/ (0 \in DOMAIN vec' /\ 0 \in DOMAIN nbr')
    /\ 0 \in DOMAIN vec => 0 \in DOMAIN vec'
    /\ 0 \in DOMAIN nbr => 0 \in DOMAIN nbr'
    /\ 0 \in DOMAIN vec' => 0 \in DOMAIN vec \/ op[t].pc = "startVector"
    /\ r.pc = "startVector" => 0 \notin DOMAIN vec'
    /\ r.pc \in RelyingPcs => 0 \in DOMAIN vec'

MoveId(t, r) ==
    /\ r.pc \in FoundPcs => r.eid \in DOMAIN int /\ r.id = int[r.eid]
    /\ r.pc \in {"delAttributes", "delVector"} => r.id # 0
    /\ r.pc \in UnmappingPcs =>
          r.eid = op[t].eid /\ op[t].pc \in UnmappingPcs \cup {"delete"}
    /\ op[t].pc \in UnmappingPcs /\ r.pc \notin UnmappingPcs =>
          op[t].pc = "free" /\ Freeing(t) /\ r.pc = "idle"
    /\ InsertingAs(r) =>
          \/ Inserting(t) /\ r.id = op[t].id /\ r.eid = op[t].eid
          \/ r.pc = "vector" /\ r.id # 0 /\ r.id \notin Held
    /\ UNCHANGED int

MoveRecords(t, r, w) ==
    /\ w = 0 \/ (Inserting(t) /\ w = op[t].id)
    /\ \A i, e : i # w /\ ExtOf(i, e) => ExtOf(i, e)'
    /\ \A i, e : i # w /\ VecOf(i, e) => VecOf(i, e)'
    /\ InsertingAs(r) /\ r.pc # "vector" => VecOf(r.id, r.eid)'
    /\ InsertingAs(r) /\ r.pc = "intMap" => ExtOf(r.id, r.eid)'
    /\ r.pc = "free" => op[t].pc = "delete"

Move(t, r, w) ==
    /\ Goes(t, r) /\ MoveAlone(t, r) /\ MoveCall(t, r)
    /\ MoveStart(t, r) /\ MoveId(t, r) /\ MoveRecords(t, r, w)

LEMMA MoveKeepsInv ==
  ASSUME IInv, OneOwner, NEW t \in Threads, NEW r, NEW w, Move(t, r, w)
  PROVE  IInv'
<1>1. /\ OpShape' /\ op'[t] = r
      /\ \A u \in Threads \ {t} : op'[u] = op[u] /\ fsm'[u] = fsm[u]
  BY GoesFrame, Zenon DEF IInv, Move, MoveCall
<1> USE <1>1
<1>2. Exclusive'
  BY DEF IInv, Exclusive, Move, MoveAlone
<1>3. CallsMatch'
  BY ZenonT(30) DEF IInv, CallsMatch, Move, MoveCall, CallMatches
<1>4. StartPoint'
  <2> USE <1>1 DEF IInv, StartPoint, Move, MoveStart
  <2>1. (\A u \in Threads : op[u].pc \in SettingPcs => state = "SettingStartPoints")'
    BY Zenon DEF SettingPcs
  <2>2. (\A u, v \in Threads : op[u].pc \in SettingPcs /\ op[v].pc \in SettingPcs => u = v)'
    BY Zenon
  <2>3. (\A u \in Threads : op[u].pc = "startVector" => 0 \notin DOMAIN vec)'
    BY Zenon DEF SettingPcs
  <2>4. (\A u \in Threads : op[u].pc \in RelyingPcs => 0 \in DOMAIN vec)'
    BY Zenon
  <2>5. (state = "Ready" => 0 \in DOMAIN vec /\ 0 \in DOMAIN nbr)'
    BY Zenon
  <2> QED
    BY <2>1, <2>2, <2>3, <2>4, <2>5, Zenon
<1>5. int' = int /\ IdsKnown'
  BY Zenon DEF IInv, IdsKnown, Move, MoveId
<1>6. \A u \in Threads : op[u].pc = "free" /\ Freeing(u) =>
        /\ op[u].eid \in DOMAIN int /\ op[u].id = int[op[u].eid]
        /\ op[u].id \notin Held /\ op[u].id # 0
  BY DEF IInv, OneOwner, CallsMatch, CallMatches, IdsKnown, FoundPcs
\* An element that is stored was stored, or could not be removed.
<1>7. \A e : Stored(e)' => Stored(e) \/ (e = op[t].eid /\ op[t].pc = "free" /\ Freeing(t))
  <2> SUFFICES ASSUME NEW e, Stored(e)', ~Stored(e)
               PROVE  e = op[t].eid /\ op[t].pc = "free" /\ Freeing(t)
    BY Zenon
  <2>1. e \in DOMAIN int /\ Removing(e) /\ ~Removing(e)'
    BY <1>5, Zenon DEF Stored
  <2>2. PICK u \in Threads : op[u].pc \in UnmappingPcs /\ op[u].eid = e
    BY <2>1, Zenon DEF Removing, Unmapping, UnmappingPcs
  <2>3. u = t
    BY <1>1, <2>1, <2>2, Zenon DEF Removing, Unmapping, UnmappingPcs
  <2>4. r.pc \in UnmappingPcs => r.eid = e
    BY <2>2, <2>3, Zenon DEF Move, MoveId
  <2>5. r.pc \notin UnmappingPcs
    BY <1>1, <2>1, <2>4, Zenon DEF Removing, Unmapping, UnmappingPcs
  <2> QED
    BY <2>2, <2>3, <2>5, Zenon DEF Move, MoveId
<1>8. \A u \in Threads : Inserting(u)' =>
         /\ \/ Inserting(u) /\ op'[u].id = op[u].id /\ op'[u].eid = op[u].eid
            \/ u = t /\ op'[u].pc = "vector" /\ op'[u].id # 0 /\ op'[u].id \notin Held
  BY <1>1, Zenon DEF Inserting, InsertingAs, InsertingPcs, Move, MoveId
<1>9. \A e : Stored(e) => int[e] \in Held
  BY HeldMembers, Zenon
<1>10. \A u \in Threads : Inserting(u) => op[u].id \in Held
  BY HeldMembers, Zenon DEF Share, InsertingAs, InsertingPcs, Inserting
<1>11. IdsApart'
  <2>1. (\A e, f : Stored(e) /\ Stored(f) /\ int[e] = int[f] => e = f)'
    BY <1>5, <1>6, <1>7, <1>9 DEF IInv, IdsApart
  <2>2. (\A u \in Threads : Inserting(u) => op[u].id # 0)'
    BY <1>8, Zenon DEF IInv, IdsApart
  <2>3. (\A u \in Threads : \A e : Inserting(u) /\ Stored(e) => op[u].id # int[e])'
    <3> SUFFICES ASSUME NEW u \in Threads, NEW e, Inserting(u)', Stored(e)'
                 PROVE  op'[u].id # int[e]
      BY <1>5, Zenon
    <3>1. CASE Inserting(u) /\ op'[u].id = op[u].id
      BY <3>1, <1>6, <1>7, <1>10 DEF IInv, IdsApart
    <3>2. CASE u = t /\ op'[u].id \notin Held /\ op'[u].pc = "vector"
      <4>1. op[t].pc \notin UnmappingPcs
        BY <1>1, <3>2, Zenon DEF Move, MoveId, UnmappingPcs
      <4>2. Stored(e)
        BY <4>1, <1>7, Zenon DEF UnmappingPcs
      <4> QED
        BY <4>2, <3>2, <1>9, Zenon
    <3> QED
      BY <3>1, <3>2, <1>8, <1>10, Zenon
  <2>4. (\A u, v \in Threads : Inserting(u) /\ Inserting(v) /\ op[u].id = op[v].id => u = v)'
    BY <1>8, <1>10 DEF IInv, IdsApart
  <2> QED
    BY <2>1, <2>2, <2>3, <2>4, Zenon DEF IdsApart
<1>12. RecordsOwn'
  <2> USE DEF IInv, RecordsOwn, Move, MoveRecords
  <2>1. \A e : Stored(e) => int[e] # w
    BY DEF IdsKnown, IdsApart, Stored
  <2>2. \A u \in Threads : op[u].pc = "free" /\ Freeing(u) => op[u].id # w
    BY <1>6, <1>10
  <2>3. \A u \in Threads \ {t} : Inserting(u) => op[u].id # w
    BY Zenon DEF IdsApart
  <2>4. (\A e : Stored(e) => ExtOf(int[e], e) /\ VecOf(int[e], e))'
    BY <1>5, <1>6, <1>7, <2>1, <2>2
  <2>5. (\A u \in Threads : op[u].pc = "free" /\ Freeing(u) =>
            ExtOf(op[u].id, op[u].eid) /\ VecOf(op[u].id, op[u].eid))'
    <3> SUFFICES ASSUME NEW u \in Threads, op'[u].pc = "free", Freeing(u)'
                 PROVE  ExtOf(op[u].id, op[u].eid)' /\ VecOf(op[u].id, op[u].eid)'
      BY Zenon
    <3>1. CASE u # t
      <4>1. op[u].pc = "free" /\ Freeing(u)
        BY <1>1, <3>1, Zenon DEF Freeing
      <4> QED
        BY <1>1, <2>2, <3>1, <4>1, Zenon
    <3>2. CASE u = t
      <4>1. r.pc = "free" /\ op[t].pc = "delete" /\ r.eid = op[t].eid /\ r.id = int[r.eid]
        BY <1>1, <3>2, Zenon DEF MoveId, FoundPcs, UnmappingPcs
      <4>2. Stored(op[t].eid)
        BY <4>1, Zenon DEF Stored, Removing, Unmapping, Exclusive, IdsKnown, FoundPcs
      <4> QED
        BY <1>1, <2>1, <3>2, <4>1, <4>2
    <3> QED
      BY <3>1, <3>2, Zenon
  <2>6. (\A u \in Threads : Inserting(u) /\ op[u].pc # "vector" => VecOf(op[u].id, op[u].eid))'
    BY <1>1, <2>3, ZenonT(30) DEF Inserting, InsertingAs, InsertingPcs
  <2>7. (\A u \in Threads : Inserting(u) /\ op[u].pc = "intMap" => ExtOf(op[u].id, op[u].eid))'
    BY <1>1, <2>3, ZenonT(30) DEF Inserting, InsertingAs, InsertingPcs
  <2> QED
    BY <2>4, <2>5, <2>6, <2>7, Zenon
<1> QED
  BY <1>1, <1>2, <1>3, <1>4, <1>5, <1>11, <1>12, Zenon DEF IInv

\* The calls as the map sees them.
LEMMA Calls ==
  /\ IdleCall.pc = "idle" /\ NextIdCall.op = "next"
  /\ \A id : /\ MarkFreeCall(id).op = "free" /\ MarkFreeCall(id).pc = "check"
             /\ MarkFreeCall(id).id = id
BY Zenon DEF IdleCall, NextIdCall, MarkFreeCall

\* An operation that ends, or cannot go on.
LEMMA FinishKeepsInv ==
  ASSUME IInv, OneOwner, NEW t \in Threads, NEW ok, Finish(t, ok),
         op[t].pc \in UnmappingPcs => op[t].pc = "free" /\ Freeing(t),
         fsm' = [fsm EXCEPT ![t] = IdleCall] \/ (fsm' = fsm /\ fsm[t].pc = "idle"),
         UNCHANGED <<vec, ext, int>>, 0 \in DOMAIN nbr => 0 \in DOMAIN nbr',
         UNCHANGED state \/ (op[t].pc \in SettingPcs /\ state' = "NoStartPoints")
  PROVE  IInv'
<1>1. Goes(t, NoOp) /\ NoOp.pc = "idle" /\ NoOp.kind = "none"
  BY FinishGoes, Zenon
<1> USE <1>1
<1>2. MoveAlone(t, NoOp)
  BY Zenon DEF MoveAlone
<1>3. MoveCall(t, NoOp)
  BY Calls, Zenon DEF MoveCall, CallMatches, NextPcs, FreePcs, OneOwner
<1>4. MoveStart(t, NoOp)
  BY Zenon DEF MoveStart, SettingPcs, RelyingPcs
<1>5. MoveId(t, NoOp)
  BY Zenon DEF MoveId, FoundPcs, UnmappingPcs, InsertingAs
<1>6. MoveRecords(t, NoOp, 0)
  BY Zenon DEF MoveRecords, InsertingAs, ExtOf, VecOf
<1>7. Move(t, NoOp, 0)
  BY <1>2, <1>3, <1>4, <1>5, <1>6, Zenon DEF Move
<1> QED
  BY <1>7, MoveKeepsInv, Zenon

-----------------------------------------------------------------------------
(* The steps of the operations, one after the other. *)

LEMMA StutterKeepsInv ==
  ASSUME IInv, UNCHANGED <<fsm, terms, state, op>>
  PROVE  IInv'
BY DEF IInv, OpShape, Exclusive, CallsMatch, StartPoint, IdsKnown, IdsApart, Stored, Removing,
   Unmapping, Inserting, RecordsOwn, ExtOf, VecOf, Freeing, terms

\* ensure_index_ready_or_init and maybe_set_start_point.
LEMMA StartPointStepsKeepInv ==
  ASSUME IInv, OneOwner, NEW t \in Threads,
         EnsureReady(t) \/ ReadStartPoint(t) \/ TakeStartId(t)
         \/ StartIdWrong(t) \/ WriteStartVector(t) \/ WriteStartList(t)
  PROVE  IInv'
<1>0. OpShape /\ CallsMatch /\ StartPoint /\ IdsKnown
  BY Zenon DEF IInv
<1> USE <1>0
<1>1. CASE EnsureReady(t)
  <2> USE <1>1
  <2>0. fsm[t].pc = "idle"
    BY Zenon DEF EnsureReady, CallsMatch, CallMatches, NextPcs, FreePcs, Doing
  <2>1. CASE state = "Ready" /\ Step(t, "attributes") /\ UNCHANGED state
    <3> USE <2>1
    <3>1. PICK r : /\ Goes(t, r) /\ r.pc = "attributes" /\ r.kind = op[t].kind
                   /\ r.eid = op[t].eid /\ r.id = op[t].id
      BY StepGoes
    <3>2. Move(t, r, 0)
      BY <2>0, <3>1, Zenon DEF EnsureReady, Move, StartPoint, fsmVars, MoveAlone, MoveCall,
         MoveStart, MoveId, MoveRecords, CallMatches, NextPcs, FreePcs, SettingPcs, FoundPcs,
         UnmappingPcs, InsertingAs, InsertingPcs, ExtOf, VecOf, Doing, terms
    <3> QED
      BY <3>2, MoveKeepsInv, Zenon
  <2>2. CASE state = "NoStartPoints" /\ state' = "SettingStartPoints" /\ Step(t, "start")
    <3> USE <2>2
    <3>1. PICK r : /\ Goes(t, r) /\ r.pc = "start" /\ r.kind = op[t].kind
                   /\ r.eid = op[t].eid /\ r.id = op[t].id
      BY StepGoes
    <3>2. Move(t, r, 0)
      BY <2>0, <3>1, Zenon DEF EnsureReady, Move, fsmVars, MoveAlone, MoveCall, MoveStart, MoveId,
         MoveRecords, CallMatches, NextPcs, FreePcs, RelyingPcs, FoundPcs, UnmappingPcs,
         InsertingAs, InsertingPcs, ExtOf, VecOf, Doing, terms
    <3> QED
      BY <3>2, MoveKeepsInv, Zenon
  <2>3. CASE UNCHANGED <<state, op>>
    BY <2>3, StutterKeepsInv, Zenon DEF EnsureReady, fsmVars
  <2> QED
    BY <2>1, <2>2, <2>3, Zenon DEF EnsureReady
<1>2. CASE ReadStartPoint(t)
  <2> USE <1>2
  <2>0. fsm[t].pc = "idle"
    BY Zenon DEF ReadStartPoint, CallsMatch, CallMatches, NextPcs, FreePcs, Doing
  <2> USE <2>0
  <2>1. CASE {0} \subseteq DOMAIN vec \cap DOMAIN nbr /\ state' = "Ready"
            /\ Step(t, "attributes") /\ UNCHANGED fsm
    <3> USE <2>1
    <3>1. PICK r : /\ Goes(t, r) /\ r.pc = "attributes" /\ r.kind = op[t].kind
                   /\ r.eid = op[t].eid /\ r.id = op[t].id
      BY StepGoes
    <3>2. Move(t, r, 0)
      BY <3>1, Zenon DEF ReadStartPoint, Move, MoveAlone, MoveCall, MoveStart, MoveId, MoveRecords,
         CallMatches, NextPcs, FreePcs, SettingPcs, FoundPcs, UnmappingPcs, InsertingAs,
         InsertingPcs, ExtOf, VecOf, Doing, fsmRest, terms
    <3> QED
      BY <3>2, MoveKeepsInv, Zenon
  <2>2. CASE InitFails(t) /\ UNCHANGED fsm
    BY <2>2, FinishKeepsInv, Zenon DEF ReadStartPoint, InitFails, SettingPcs, UnmappingPcs, Doing,
       Written, fsmRest, terms
  <2>3. CASE fsm' = [fsm EXCEPT ![t] = NextIdCall] /\ Step(t, "startId") /\ UNCHANGED state
    <3> USE <2>3
    <3>1. PICK r : /\ Goes(t, r) /\ r.pc = "startId" /\ r.kind = op[t].kind
                   /\ r.eid = op[t].eid /\ r.id = op[t].id
      BY StepGoes
    <3>2. Move(t, r, 0)
      BY <3>1, Calls, Zenon DEF ReadStartPoint, Move, OneOwner, MoveAlone, MoveCall, MoveStart,
         MoveId, MoveRecords, CallMatches, NextPcs, FreePcs, SettingPcs, RelyingPcs, FoundPcs,
         UnmappingPcs, InsertingAs, InsertingPcs, ExtOf, VecOf, Doing, fsmRest, terms
    <3> QED
      BY <3>2, MoveKeepsInv, Zenon
  <2> QED
    BY <2>1, <2>2, <2>3, Zenon DEF ReadStartPoint, Written
<1>3. CASE TakeStartId(t)
  <2> USE <1>3
  <2>1. CASE fsm' = [fsm EXCEPT ![t] = IdleCall] /\ InitFails(t)
    BY <2>1, FinishKeepsInv, Zenon DEF TakeStartId, InitFails, SettingPcs, UnmappingPcs, Doing,
       fsmRest, terms
  <2>2. CASE At(t, "ok") /\ fsm[t].id = 0 /\ fsm' = [fsm EXCEPT ![t] = IdleCall]
            /\ Step(t, "startVector") /\ UNCHANGED state
    <3> USE <2>2
    <3>0. 0 \notin DOMAIN vec
      BY HeldMembers, Zenon DEF TakeStartId, CallsMatch, OneOwner, Got, CallMatches, NextPcs,
         FreePcs, Doing
    <3>1. PICK r : /\ Goes(t, r) /\ r.pc = "startVector" /\ r.kind = op[t].kind
                   /\ r.eid = op[t].eid /\ r.id = op[t].id
      BY StepGoes
    <3>2. Move(t, r, 0)
      BY <3>1, <3>0, Zenon DEF TakeStartId, Move, OneOwner, IdleCall, MoveAlone, MoveCall,
         MoveStart, MoveId, MoveRecords, CallMatches, NextPcs, FreePcs, SettingPcs, RelyingPcs,
         FoundPcs, UnmappingPcs, InsertingAs, InsertingPcs, ExtOf, VecOf, Doing, terms
    <3> QED
      BY <3>2, MoveKeepsInv, Zenon
  <2>3. CASE fsm' = [fsm EXCEPT ![t] = MarkFreeCall(fsm[t].id)]
            /\ Step(t, "startBack") /\ UNCHANGED state
    <3> USE <2>3
    <3>1. PICK r : /\ Goes(t, r) /\ r.pc = "startBack" /\ r.kind = op[t].kind
                   /\ r.eid = op[t].eid /\ r.id = op[t].id
      BY StepGoes
    <3>2. Move(t, r, 0)
      BY <3>1, Calls, Zenon DEF TakeStartId, Move, OneOwner, MoveAlone, MoveCall, MoveStart,
         MoveId, MoveRecords, CallMatches, NextPcs, FreePcs, SettingPcs, RelyingPcs, FoundPcs,
         UnmappingPcs, InsertingAs, InsertingPcs, ExtOf, VecOf, Doing, terms
    <3> QED
      BY <3>2, MoveKeepsInv, Zenon
  <2> QED
    BY <2>1, <2>2, <2>3, Zenon DEF TakeStartId
<1>4. CASE StartIdWrong(t)
  <2> USE <1>4
  <2>1. CASE fsm' = [fsm EXCEPT ![t] = IdleCall] /\ InitFails(t)
    BY <2>1, FinishKeepsInv, Zenon DEF StartIdWrong, InitFails, SettingPcs, UnmappingPcs, Doing,
       fsmRest, terms
  <2> QED
    BY <2>1, Zenon DEF StartIdWrong
<1>5. CASE WriteStartVector(t)
  <2> USE <1>5
  <2>0. fsm[t].pc = "idle"
    BY Zenon DEF WriteStartVector, CallsMatch, CallMatches, NextPcs, FreePcs, Doing
  <2>1. CASE vec' = Put(vec, 0, op[t].eid) /\ Step(t, "startList") /\ UNCHANGED state
    <3> USE <2>1
    <3>1. PICK r : /\ Goes(t, r) /\ r.pc = "startList" /\ r.kind = op[t].kind
                   /\ r.eid = op[t].eid /\ r.id = op[t].id
      BY StepGoes
    <3>2. Move(t, r, 0)
      BY <2>0, <3>1 DEF WriteStartVector, Move, Put, MoveAlone, MoveCall, MoveStart, MoveId,
         MoveRecords, CallMatches, NextPcs, FreePcs, SettingPcs, RelyingPcs, FoundPcs,
         UnmappingPcs, InsertingAs, InsertingPcs, ExtOf, VecOf, Doing
    <3> QED
      BY <3>2, MoveKeepsInv, Zenon
  <2>2. CASE InitFails(t) /\ UNCHANGED vec
    BY <2>0, <2>2, FinishKeepsInv, Zenon DEF WriteStartVector, InitFails, SettingPcs, UnmappingPcs,
       Doing, Written, fsmRest
  <2> QED
    BY <2>1, <2>2, Zenon DEF WriteStartVector, Written
<1>6. CASE WriteStartList(t)
  <2> USE <1>6
  <2>0. fsm[t].pc = "idle"
    BY Zenon DEF WriteStartList, CallsMatch, CallMatches, NextPcs, FreePcs, Doing
  <2>1. CASE nbr' = Put(nbr, 0, Empty) /\ state' = "Ready" /\ Step(t, "attributes")
    <3> USE <2>1
    <3>1. PICK r : /\ Goes(t, r) /\ r.pc = "attributes" /\ r.kind = op[t].kind
                   /\ r.eid = op[t].eid /\ r.id = op[t].id
      BY StepGoes
    <3>2. Move(t, r, 0)
      BY <2>0, <3>1 DEF WriteStartList, Move, Put, StartPoint, MoveAlone, MoveCall, MoveStart,
         MoveId, MoveRecords, CallMatches, NextPcs, FreePcs, SettingPcs, RelyingPcs, FoundPcs,
         UnmappingPcs, InsertingAs, InsertingPcs, ExtOf, VecOf, Doing, Written
    <3> QED
      BY <3>2, MoveKeepsInv, Zenon
  <2>2. CASE InitFails(t) /\ UNCHANGED nbr
    BY <2>0, <2>2, FinishKeepsInv, Zenon DEF WriteStartList, InitFails, MoveAlone, MoveCall,
       MoveStart, MoveId, MoveRecords, CallMatches, NextPcs, FreePcs, SettingPcs, RelyingPcs,
       FoundPcs, UnmappingPcs, InsertingAs, InsertingPcs, ExtOf, VecOf, Doing, Written, fsmRest,
       terms
  <2> QED
    BY <2>1, <2>2, Zenon DEF WriteStartList, Written
<1> QED
  BY <1>1, <1>2, <1>3, <1>4, <1>5, <1>6, Zenon

\* As StepGoes, when the operation learns the internal id or that a deletion failed.
StepTakes(t, pc, id) == op' = [op EXCEPT ![t] = [op[t] EXCEPT !.pc = pc, !.id = id]]
StepFails(t, pc) == op' = [op EXCEPT ![t] = [op[t] EXCEPT !.pc = pc, !.ok = FALSE]]

LEMMA StepTakesGoes ==
  ASSUME OpShape, NEW t \in Threads, NEW pc, NEW id, StepTakes(t, pc, id)
  PROVE  \E r : /\ Goes(t, r) /\ r.pc = pc /\ r.kind = op[t].kind
                /\ r.eid = op[t].eid /\ r.id = id
<1> DEFINE r == [op[t] EXCEPT !.pc = pc, !.id = id]
<1>1. op' = [op EXCEPT ![t] = r]
  BY Zenon DEF StepTakes
<1>2. DOMAIN r = OpFields /\ r.pc = pc /\ r.kind = op[t].kind /\ r.eid = op[t].eid /\ r.id = id
  BY Zenon DEF OpShape, OpFields
<1> HIDE DEF r
<1> QED
  BY <1>1, <1>2, Zenon DEF Goes

LEMMA StepFailsGoes ==
  ASSUME OpShape, NEW t \in Threads, NEW pc, StepFails(t, pc)
  PROVE  \E r : /\ Goes(t, r) /\ r.pc = pc /\ r.kind = op[t].kind
                /\ r.eid = op[t].eid /\ r.id = op[t].id
<1> DEFINE r == [op[t] EXCEPT !.pc = pc, !.ok = FALSE]
<1>1. op' = [op EXCEPT ![t] = r]
  BY Zenon DEF StepFails
<1>2. /\ DOMAIN r = OpFields /\ r.pc = pc /\ r.kind = op[t].kind
      /\ r.eid = op[t].eid /\ r.id = op[t].id
  BY Zenon DEF OpShape, OpFields
<1> HIDE DEF r
<1> QED
  BY <1>1, <1>2, Zenon DEF Goes

\* The id of an element that could not be stored is given back.
LEMMA UndoKeepsInv ==
  ASSUME IInv, OneOwner, NEW t \in Threads, Inserting(t), UndoInsert(t),
         UNCHANGED <<vec, ext, int, nbr, state>>
  PROVE  IInv'
<1>1. PICK r : /\ Goes(t, r) /\ r.pc = "undo" /\ r.kind = op[t].kind
               /\ r.eid = op[t].eid /\ r.id = op[t].id
  BY StepGoes DEF IInv, UndoInsert
<1>2. Move(t, r, 0)
  BY <1>1, Calls, Zenon DEF UndoInsert, Inserting, IInv, StartPoint, OneOwner, Move, MoveAlone,
     MoveCall, MoveStart, MoveId, MoveRecords, CallMatches, NextPcs, FreePcs, SettingPcs,
     RelyingPcs, FoundPcs, UnmappingPcs, InsertingAs, InsertingPcs, ExtOf, VecOf
<1> QED
  BY <1>2, MoveKeepsInv, Zenon

\* The attributes, set_element and set_neighbors; the IntMap comes later.
LEMMA InsertStepsKeepInv ==
  ASSUME IInv, OneOwner, NEW t \in Threads,
         WriteAttributes(t) \/ TakeId(t) \/ WriteVector(t)
         \/ WriteExtMap(t) \/ EndUndo(t) \/ Link(t)
  PROVE  IInv'
<1>0. OpShape /\ CallsMatch /\ StartPoint /\ IdsKnown
  BY Zenon DEF IInv
<1> USE <1>0
<1>1. CASE WriteAttributes(t)
  <2> USE <1>1
  <2>0. fsm[t].pc = "idle"
    BY Zenon DEF WriteAttributes, CallsMatch, CallMatches, NextPcs, FreePcs, Doing
  <2>1. CASE fsm' = [fsm EXCEPT ![t] = NextIdCall] /\ Step(t, "id")
    <3> USE <2>1
    <3>1. PICK r : /\ Goes(t, r) /\ r.pc = "id" /\ r.kind = op[t].kind
                   /\ r.eid = op[t].eid /\ r.id = op[t].id
      BY StepGoes
    <3>2. Move(t, r, 0)
      BY <2>0, <3>1, Calls, Zenon DEF WriteAttributes, Move, OneOwner, StartPoint, MoveAlone,
         MoveCall, MoveStart, MoveId, MoveRecords, CallMatches, NextPcs, FreePcs, SettingPcs,
         RelyingPcs, FoundPcs, UnmappingPcs, InsertingAs, InsertingPcs, ExtOf, VecOf, Doing
    <3> QED
      BY <3>2, MoveKeepsInv, Zenon
  <2>2. CASE Finish(t, FALSE) /\ UNCHANGED fsm
    BY <2>0, <2>2, FinishKeepsInv, Zenon DEF WriteAttributes, Doing, Written, fsmRest, UnmappingPcs
  <2> QED
    BY <2>1, <2>2, Zenon DEF WriteAttributes, Doing, Written, fsmRest
<1>2. CASE TakeId(t)
  <2> USE <1>2
  <2>1. CASE At(t, "ok") /\ op' = [op EXCEPT ![t].pc = "vector", ![t].id = fsm[t].id]
    <3> USE <2>1
    <3>0. fsm[t].id \notin Held /\ fsm[t].id # 0 /\ 0 \in DOMAIN vec
      BY HeldMembers, Zenon DEF TakeId, CallsMatch, OneOwner, Got, StartPoint, CallMatches,
         FreePcs, RelyingPcs, Doing
    <3> PICK id : id = fsm[t].id
      BY Zenon
    <3>a. StepTakes(t, "vector", id)
      BY Zenon DEF StepTakes, OpShape, OpFields
    <3>1. PICK r : /\ Goes(t, r) /\ r.pc = "vector" /\ r.kind = op[t].kind
                   /\ r.eid = op[t].eid /\ r.id = id
      BY <3>a, StepTakesGoes
    <3>2. Move(t, r, 0)
      BY <3>1, <3>0, Zenon DEF TakeId, Move, OneOwner, IdleCall, MoveAlone, MoveCall, MoveStart,
         MoveId, MoveRecords, CallMatches, NextPcs, FreePcs, SettingPcs, FoundPcs, UnmappingPcs,
         ExtOf, VecOf, Doing, terms
    <3> QED
      BY <3>2, MoveKeepsInv, Zenon
  <2>2. CASE Finish(t, FALSE)
    BY <2>2, FinishKeepsInv, Zenon DEF TakeId, Doing, terms, fsmRest, UnmappingPcs
  <2> QED
    BY <2>1, <2>2, Zenon DEF TakeId
<1>3. CASE WriteVector(t)
  <2> USE <1>3
  <2>0. fsm[t].pc = "idle"
    BY Zenon DEF WriteVector, CallsMatch, CallMatches, NextPcs, FreePcs, Doing
  <2>1. CASE vec' = Put(vec, op[t].id, op[t].eid) /\ Step(t, "extMap") /\ UNCHANGED fsm
    <3> USE <2>1
    <3>0. Inserting(t) /\ op[t].id # 0 /\ 0 \in DOMAIN vec
      BY Zenon DEF WriteVector, Inserting, IInv, IdsApart, StartPoint, RelyingPcs, Doing
    <3> PICK w : w = op[t].id
      BY Zenon
    <3>1. PICK r : /\ Goes(t, r) /\ r.pc = "extMap" /\ r.kind = op[t].kind
                   /\ r.eid = op[t].eid /\ r.id = op[t].id
      BY StepGoes
    <3>2. Move(t, r, w)
      BY <2>0, <3>1, <3>0 DEF WriteVector, Move, Put, MoveAlone, MoveCall, MoveStart, MoveId,
         MoveRecords, CallMatches, NextPcs, FreePcs, SettingPcs, FoundPcs, UnmappingPcs, ExtOf,
         VecOf, Doing
    <3> QED
      BY <3>2, MoveKeepsInv, Zenon
  <2>2. CASE UndoInsert(t) /\ UNCHANGED vec
    BY <2>2, UndoKeepsInv, Zenon DEF WriteVector, Inserting, Doing
  <2> QED
    BY <2>1, <2>2, Zenon DEF WriteVector, Doing, Written
<1>4. CASE WriteExtMap(t)
  <2> USE <1>4
  <2>0. fsm[t].pc = "idle"
    BY Zenon DEF WriteExtMap, CallsMatch, CallMatches, NextPcs, FreePcs, Doing
  <2>1. CASE ext' = Put(ext, op[t].id, op[t].eid) /\ Step(t, "intMap") /\ UNCHANGED fsm
    <3> USE <2>1
    <3>0. Inserting(t) /\ VecOf(op[t].id, op[t].eid) /\ 0 \in DOMAIN vec
      BY Zenon DEF WriteExtMap, Inserting, IInv, RecordsOwn, StartPoint, RelyingPcs, Doing
    <3> PICK w : w = op[t].id
      BY Zenon
    <3>1. PICK r : /\ Goes(t, r) /\ r.pc = "intMap" /\ r.kind = op[t].kind
                   /\ r.eid = op[t].eid /\ r.id = op[t].id
      BY StepGoes
    <3>2. Move(t, r, w)
      BY <2>0, <3>1, <3>0 DEF WriteExtMap, Move, Put, MoveAlone, MoveCall, MoveStart, MoveId,
         MoveRecords, CallMatches, NextPcs, FreePcs, SettingPcs, FoundPcs, UnmappingPcs, ExtOf,
         VecOf, Doing
    <3> QED
      BY <3>2, MoveKeepsInv, Zenon
  <2>2. CASE UndoInsert(t) /\ UNCHANGED ext
    BY <2>2, UndoKeepsInv, Zenon DEF WriteExtMap, Inserting, Doing
  <2> QED
    BY <2>1, <2>2, Zenon DEF WriteExtMap, Written
<1>5. CASE EndUndo(t)
  <2> USE <1>5
  <2>1. CASE Finish(t, FALSE)
    BY <2>1, FinishKeepsInv, Zenon DEF EndUndo, Doing, terms, fsmRest, UnmappingPcs
  <2> QED
    BY <2>1, Zenon DEF EndUndo
<1>6. CASE Link(t)
  <2> USE <1>6
  <2>0. fsm[t].pc = "idle"
    BY Zenon DEF Link, CallsMatch, CallMatches, NextPcs, FreePcs, Doing
  <2>1. CASE nbr' = Put(nbr, op[t].id, op[t].eid) /\ Finish(t, TRUE)
    <3> USE <2>1
    <3>1. 0 \in DOMAIN nbr => 0 \in DOMAIN nbr'
      BY Zenon DEF Put
    <3> QED
      BY <2>0, <3>1, FinishKeepsInv, Zenon DEF Link, Doing, fsmRest, UnmappingPcs
  <2>2. CASE Finish(t, FALSE) /\ UNCHANGED nbr
    BY <2>0, <2>2, FinishKeepsInv, Zenon DEF Link, Doing, fsmRest, UnmappingPcs
  <2> QED
    BY <2>1, <2>2, Zenon DEF Link
<1> QED
  BY <1>1, <1>2, <1>3, <1>4, <1>5, <1>6, Zenon

\* external_id_exists, set_attribute, and inplace_delete as far as mark_free.
LEMMA LookupStepsKeepInv ==
  ASSUME IInv, OneOwner, NEW t \in Threads,
         Lookup(t) \/ CheckUsed(t)
         \/ SetAttribute(t) \/ MarkFree(t) \/ MarkedFree(t)
  PROVE  IInv'
<1>0. OpShape /\ CallsMatch /\ StartPoint /\ IdsKnown
  BY Zenon DEF IInv
<1> USE <1>0
<1>1. CASE Lookup(t)
  <2> USE <1>1
  <2>0. fsm[t].pc = "idle"
    BY Zenon DEF Lookup, CallsMatch, CallMatches, NextPcs, FreePcs
  <2>1. CASE /\ op[t].eid \in DOMAIN int
             /\ op' = [op EXCEPT ![t].pc = "used", ![t].id = int[op[t].eid]]
    <3> USE <2>1
    <3> PICK id : id = int[op[t].eid]
      BY Zenon
    <3>a. StepTakes(t, "used", id)
      BY Zenon DEF StepTakes, OpShape, OpFields
    <3>0. op[t].eid \in DOMAIN int
      BY Zenon
    <3>1. PICK r : /\ Goes(t, r) /\ r.pc = "used" /\ r.kind = op[t].kind
                   /\ r.eid = op[t].eid /\ r.id = id
      BY <3>a, StepTakesGoes
    <3>2. Move(t, r, 0)
      BY <2>0, <3>1, <3>0, Zenon DEF Lookup, Move, MoveAlone, MoveCall, MoveStart, MoveId,
         MoveRecords, CallMatches, NextPcs, FreePcs, SettingPcs, RelyingPcs, UnmappingPcs,
         InsertingAs, InsertingPcs, ExtOf, VecOf, terms
    <3> QED
      BY <3>2, MoveKeepsInv, Zenon
  <2>2. CASE Finish(t, FALSE)
    BY <2>0, <2>2, FinishKeepsInv, Zenon DEF Lookup, terms, fsmRest, UnmappingPcs
  <2> QED
    BY <2>1, <2>2, Zenon DEF Lookup
<1>2. CASE CheckUsed(t)
  <2> USE <1>2
  <2>0. fsm[t].pc = "idle"
    BY Zenon DEF CheckUsed, CallsMatch, CallMatches, NextPcs, FreePcs
  <2>1. CASE Step(t, IF op[t].kind = "remove" THEN "delete" ELSE "set")
    <3> USE <2>1
    <3>1. PICK r : /\ Goes(t, r) /\ r.pc \in {"delete", "set"} /\ r.kind = op[t].kind
                   /\ r.eid = op[t].eid /\ r.id = op[t].id
      BY StepGoes
    <3>2. Move(t, r, 0)
      BY <2>0, <3>1, Zenon DEF CheckUsed, Move, IdsKnown, MoveAlone, MoveCall, MoveStart, MoveId,
         MoveRecords, CallMatches, NextPcs, FreePcs, SettingPcs, RelyingPcs, FoundPcs,
         UnmappingPcs, InsertingAs, InsertingPcs, ExtOf, VecOf, terms
    <3> QED
      BY <3>2, MoveKeepsInv, Zenon
  <2>2. CASE Finish(t, FALSE)
    BY <2>0, <2>2, FinishKeepsInv, Zenon DEF CheckUsed, Written, terms, fsmRest, UnmappingPcs
  <2> QED
    BY <2>1, <2>2, Zenon DEF CheckUsed, Written, terms, fsmRest
<1>3. CASE SetAttribute(t)
  <2> USE <1>3
  <2>0. fsm[t].pc = "idle"
    BY Zenon DEF SetAttribute, CallsMatch, CallMatches, NextPcs, FreePcs
  <2>1. CASE Finish(t, TRUE)
    BY <2>0, <2>1, FinishKeepsInv, Zenon DEF SetAttribute, fsmRest, UnmappingPcs
  <2>2. CASE Finish(t, FALSE)
    BY <2>0, <2>2, FinishKeepsInv, Zenon DEF SetAttribute, fsmRest, UnmappingPcs
  <2> QED
    BY <2>1, <2>2, Zenon DEF SetAttribute
<1>4. CASE MarkFree(t)
  <2> USE <1>4
  <2>0. fsm[t].pc = "idle"
    BY Zenon DEF MarkFree, CallsMatch, CallMatches, NextPcs, FreePcs
  <2>1. CASE /\ op[t].eid \in DOMAIN int /\ Step(t, "free")
             /\ fsm' = [fsm EXCEPT ![t] = MarkFreeCall(int[op[t].eid])]
    <3> USE <2>1
    <3>1. PICK r : /\ Goes(t, r) /\ r.pc = "free" /\ r.kind = op[t].kind
                   /\ r.eid = op[t].eid /\ r.id = op[t].id
      BY StepGoes
    <3>2. Move(t, r, 0)
      BY <2>0, <3>1, Calls, ZenonT(30) DEF MarkFree, Move, OneOwner, IdsKnown, MoveAlone, MoveCall,
         MoveStart, MoveId, MoveRecords, CallMatches, NextPcs, FreePcs, SettingPcs, RelyingPcs,
         FoundPcs, UnmappingPcs, InsertingAs, InsertingPcs, ExtOf, VecOf, terms
    <3> QED
      BY <3>2, MoveKeepsInv, Zenon
  <2>2. CASE Finish(t, FALSE) /\ UNCHANGED fsm
    BY <2>0, <2>2, FinishKeepsInv, Zenon DEF MarkFree, Written, terms, fsmRest, UnmappingPcs
  <2> QED
    BY <2>1, <2>2, Zenon DEF MarkFree, Written, terms, fsmRest
<1>5. CASE MarkedFree(t)
  <2> USE <1>5
  <2>1. CASE At(t, "ok") /\ Step(t, "delExtMap")
    <3> USE <2>1
    <3>1. PICK r : /\ Goes(t, r) /\ r.pc = "delExtMap" /\ r.kind = op[t].kind
                   /\ r.eid = op[t].eid /\ r.id = op[t].id
      BY StepGoes
    <3>2. Move(t, r, 0)
      BY <3>1, Calls, Zenon DEF MarkedFree, Move, OneOwner, IdsKnown, MoveAlone, MoveCall,
         MoveStart, MoveId, MoveRecords, CallMatches, NextPcs, FreePcs, SettingPcs, RelyingPcs,
         FoundPcs, UnmappingPcs, InsertingAs, InsertingPcs, ExtOf, VecOf, terms
    <3> QED
      BY <3>2, MoveKeepsInv, Zenon
  <2>2. CASE At(t, "err") /\ Finish(t, FALSE)
    <3> USE <2>2
    <3>1. op[t].pc = "free" /\ Freeing(t)
      BY Zenon DEF MarkedFree, At, Freeing, CallsMatch, CallMatches, FreePcs
    <3> QED
      BY <3>1, FinishKeepsInv, Zenon DEF MarkedFree, terms, fsmRest
  <2> QED
    BY <2>1, <2>2, Zenon DEF MarkedFree, At
<1> QED
  BY <1>1, <1>2, <1>3, <1>4, <1>5, Zenon

\* The records of a removed element go, but for the IntMap; the graph is repaired.
LEMMA DeleteStepsKeepInv ==
  ASSUME IInv, OneOwner, NEW t \in Threads,
         DeleteExtMap(t) \/ DeleteAttributes(t)
         \/ DeleteVector(t) \/ Unlink(t)
  PROVE  IInv'
<1>0. OpShape /\ CallsMatch /\ StartPoint /\ IdsKnown
  BY Zenon DEF IInv
<1> USE <1>0
<1>1. CASE DeleteExtMap(t)
  <2> USE <1>1
  <2>0. fsm[t].pc = "idle"
    BY Zenon DEF DeleteExtMap, CallsMatch, CallMatches, NextPcs, FreePcs
  <2>1. CASE ext' = Del(ext, op[t].id) /\ Step(t, "delIntMap")
    <3> USE <2>1
    <3>1. PICK r : /\ Goes(t, r) /\ r.pc = "delIntMap" /\ r.kind = op[t].kind
                   /\ r.eid = op[t].eid /\ r.id = op[t].id
      BY StepGoes
    <3>2. Move(t, r, 0)
      BY <2>0, <3>1 DEF DeleteExtMap, Move, Deletes, Del, IdsKnown, MoveAlone, MoveCall, MoveStart,
         MoveId, MoveRecords, CallMatches, NextPcs, FreePcs, SettingPcs, RelyingPcs, FoundPcs,
         UnmappingPcs, InsertingAs, InsertingPcs, ExtOf, VecOf, Doing, Written, fsmRest, terms
    <3> QED
      BY <3>2, MoveKeepsInv, Zenon
  <2>2. CASE UNCHANGED ext /\ op' = [op EXCEPT ![t].pc = "delIntMap", ![t].ok = FALSE]
    <3> USE <2>2
    <3>0. StepFails(t, "delIntMap")
      BY Zenon DEF StepFails, OpShape, OpFields
    <3>1. PICK r : /\ Goes(t, r) /\ r.pc = "delIntMap" /\ r.kind = op[t].kind
                   /\ r.eid = op[t].eid /\ r.id = op[t].id
      BY <3>0, StepFailsGoes
    <3>2. Move(t, r, 0)
      BY <2>0, <3>1, <3>0, Zenon DEF DeleteExtMap, Move, Deletes, IdsKnown, MoveAlone, MoveCall,
         MoveStart, MoveId, MoveRecords, CallMatches, NextPcs, FreePcs, SettingPcs, RelyingPcs,
         FoundPcs, UnmappingPcs, InsertingAs, InsertingPcs, ExtOf, VecOf
    <3> QED
      BY <3>2, MoveKeepsInv, Zenon
  <2> QED
    BY <2>1, <2>2, Zenon DEF DeleteExtMap, Deletes
<1>2. CASE DeleteAttributes(t)
  <2> USE <1>2
  <2>0. fsm[t].pc = "idle"
    BY Zenon DEF DeleteAttributes, CallsMatch, CallMatches, NextPcs, FreePcs
  <2>1. CASE attr' = attr \ {op[t].eid} /\ Step(t, "delVector")
    <3> USE <2>1
    <3>1. PICK r : /\ Goes(t, r) /\ r.pc = "delVector" /\ r.kind = op[t].kind
                   /\ r.eid = op[t].eid /\ r.id = op[t].id
      BY StepGoes
    <3>2. Move(t, r, 0)
      BY <2>0, <3>1, Zenon DEF DeleteAttributes, Move, Deletes, Del, IdsKnown, MoveAlone, MoveCall,
         MoveStart, MoveId, MoveRecords, CallMatches, NextPcs, FreePcs, SettingPcs, RelyingPcs,
         FoundPcs, UnmappingPcs, InsertingAs, InsertingPcs, ExtOf, VecOf
    <3> QED
      BY <3>2, MoveKeepsInv, Zenon
  <2>2. CASE UNCHANGED attr /\ op' = [op EXCEPT ![t].pc = "delVector", ![t].ok = FALSE]
    <3> USE <2>2
    <3>0. StepFails(t, "delVector")
      BY Zenon DEF StepFails, OpShape, OpFields
    <3>1. PICK r : /\ Goes(t, r) /\ r.pc = "delVector" /\ r.kind = op[t].kind
                   /\ r.eid = op[t].eid /\ r.id = op[t].id
      BY <3>0, StepFailsGoes
    <3>2. Move(t, r, 0)
      BY <2>0, <3>1, <3>0, Zenon DEF DeleteAttributes, Move, Deletes, IdsKnown, MoveAlone,
         MoveCall, MoveStart, MoveId, MoveRecords, CallMatches, NextPcs, FreePcs, SettingPcs,
         RelyingPcs, FoundPcs, UnmappingPcs, InsertingAs, InsertingPcs, ExtOf, VecOf
    <3> QED
      BY <3>2, MoveKeepsInv, Zenon
  <2> QED
    BY <2>1, <2>2, Zenon DEF DeleteAttributes, Deletes
<1>3. CASE DeleteVector(t)
  <2> USE <1>3
  <2>0. fsm[t].pc = "idle"
    BY Zenon DEF DeleteVector, CallsMatch, CallMatches, NextPcs, FreePcs
  <2>1. CASE vec' = Del(vec, op[t].id) /\ Step(t, "unlink")
    <3> USE <2>1
    <3>1. PICK r : /\ Goes(t, r) /\ r.pc = "unlink" /\ r.kind = op[t].kind
                   /\ r.eid = op[t].eid /\ r.id = op[t].id
      BY StepGoes
    <3>2. Move(t, r, 0)
      BY <2>0, <3>1 DEF DeleteVector, Move, Deletes, Del, IdsKnown, MoveAlone, MoveCall, MoveStart,
         MoveId, MoveRecords, CallMatches, NextPcs, FreePcs, SettingPcs, RelyingPcs, FoundPcs,
         UnmappingPcs, InsertingAs, InsertingPcs, ExtOf, VecOf, Doing, Written, fsmRest, terms
    <3> QED
      BY <3>2, MoveKeepsInv, Zenon
  <2>2. CASE UNCHANGED vec /\ op' = [op EXCEPT ![t].pc = "unlink", ![t].ok = FALSE]
    <3> USE <2>2
    <3>0. StepFails(t, "unlink")
      BY Zenon DEF StepFails, OpShape, OpFields
    <3>1. PICK r : /\ Goes(t, r) /\ r.pc = "unlink" /\ r.kind = op[t].kind
                   /\ r.eid = op[t].eid /\ r.id = op[t].id
      BY <3>0, StepFailsGoes
    <3>2. Move(t, r, 0)
      BY <2>0, <3>1, <3>0, Zenon DEF DeleteVector, Move, Deletes, IdsKnown, MoveAlone, MoveCall,
         MoveStart, MoveId, MoveRecords, CallMatches, NextPcs, FreePcs, SettingPcs, RelyingPcs,
         FoundPcs, UnmappingPcs, InsertingAs, InsertingPcs, ExtOf, VecOf
    <3> QED
      BY <3>2, MoveKeepsInv, Zenon
  <2> QED
    BY <2>1, <2>2, Zenon DEF DeleteVector, Deletes
<1>4. CASE Unlink(t)
  <2> USE <1>4
  <2>0. fsm[t].pc = "idle"
    BY Zenon DEF Unlink, CallsMatch, CallMatches, NextPcs, FreePcs
  <2>1. CASE nbr' = Put(nbr, op[t].id, Empty) /\ Finish(t, TRUE)
    <3> USE <2>1
    <3>1. 0 \in DOMAIN nbr => 0 \in DOMAIN nbr'
      BY Zenon DEF Put
    <3> QED
      BY <2>0, <3>1, FinishKeepsInv, Zenon DEF Unlink, fsmRest, UnmappingPcs
  <2>2. CASE Finish(t, FALSE) /\ UNCHANGED nbr
    BY <2>0, <2>2, FinishKeepsInv, Zenon DEF Unlink, fsmRest, UnmappingPcs
  <2> QED
    BY <2>1, <2>2, Zenon DEF Unlink
<1> QED
  BY <1>1, <1>2, <1>3, <1>4, Zenon

\* set_element: the element gets the new id, and its old one, if it had any, is
\* forgotten.
LEMMA WriteIntMapKeepsInv ==
  ASSUME IInv, OneOwner, NEW t \in Threads, WriteIntMap(t)
  PROVE  IInv'
<1>0. CASE UndoInsert(t) /\ UNCHANGED int
  BY <1>0, UndoKeepsInv, Zenon DEF WriteIntMap, Doing, Inserting
<1> SUFFICES ASSUME int' = Put(int, op[t].eid, op[t].id), Step(t, "link"), UNCHANGED fsm
             PROVE  IInv'
  BY <1>0, Zenon DEF WriteIntMap, Written
<1>1. PICK r : /\ Goes(t, r) /\ r.pc = "link" /\ r.kind = op[t].kind
               /\ r.eid = op[t].eid /\ r.id = op[t].id
  BY StepGoes DEF IInv
<1>2. /\ OpShape' /\ op'[t] = r /\ \A u \in Threads \ {t} : op'[u] = op[u]
      /\ UNCHANGED <<fsm, vec, ext, nbr, state>>
  BY <1>1, GoesFrame, Zenon DEF IInv, WriteIntMap, fsmRest
<1>3. op[t].pc = "intMap" /\ Inserting(t)
  BY Zenon DEF WriteIntMap, Doing, Inserting
<1>4. /\ DOMAIN int' = DOMAIN int \cup {op[t].eid} /\ int'[op[t].eid] = op[t].id
      /\ \A e \in DOMAIN int \ {op[t].eid} : int'[e] = int[e]
  BY Zenon DEF Put
\* Nobody else is at work on the element.
<1>5. \A u \in Threads \ {t} : op[u].pc # "idle" => op[u].eid # op[t].eid
  BY <1>3, Zenon DEF IInv, Exclusive
<1>6. \A e : Stored(e)' => e = op[t].eid \/ (e # op[t].eid /\ Stored(e) /\ int'[e] = int[e])
  BY <1>1, <1>2, <1>3, <1>4, Zenon DEF Stored, Removing, Unmapping
<1>7. \A u \in Threads : Inserting(u)' => u # t /\ Inserting(u) /\ op'[u] = op[u]
  BY <1>1, <1>2, Zenon DEF Inserting
<1>8. Exclusive' /\ CallsMatch'
  <2>1. Exclusive'
    BY <1>1, <1>2, <1>5 DEF Exclusive, IInv
  <2>2. CallMatches(r, fsm'[t])
    BY <1>1, <1>2, <1>3, Zenon DEF IInv, CallsMatch, CallMatches, NextPcs, FreePcs
  <2>3. CallsMatch'
    BY <1>2, <2>2, Zenon DEF IInv, CallsMatch, CallMatches
  <2> QED
    BY <2>1, <2>3, Zenon
<1>9. StartPoint'
  BY <1>1, <1>2, <1>3, Zenon DEF IInv, StartPoint, SettingPcs, RelyingPcs
<1>10. IdsKnown'
  <2>1. (\A e \in DOMAIN int : int[e] # 0)'
    BY <1>3, <1>4, ZenonT(30) DEF IInv, IdsKnown, IdsApart
  <2>2. \A u \in Threads : op'[u].pc \in FoundPcs =>
          op'[u].eid \in DOMAIN int' /\ op'[u].id = int'[op'[u].eid]
    <3> SUFFICES ASSUME NEW u \in Threads, op'[u].pc \in FoundPcs
                 PROVE  op'[u].eid \in DOMAIN int' /\ op'[u].id = int'[op'[u].eid]
      BY Zenon
    <3>1. u # t /\ op'[u] = op[u] /\ op[u].pc # "idle"
      BY <1>1, <1>2, Zenon DEF FoundPcs
    <3>2. op[u].eid \in DOMAIN int /\ op[u].id = int[op[u].eid] /\ op[u].eid # op[t].eid
      BY <1>5, <3>1, Zenon DEF IInv, IdsKnown
    <3> QED
      BY <1>4, <3>1, <3>2, Zenon
  <2>3. \A u \in Threads : op'[u].pc \in {"delAttributes", "delVector"} => op'[u].id # 0
    BY <1>1, <1>2, Zenon DEF IInv, IdsKnown
  <2> QED
    BY <2>1, <2>2, <2>3, Zenon DEF IdsKnown
<1>11. IdsApart'
  <2>0. IdsApart
    BY Zenon DEF IInv
  <2>1. \A e, f : Stored(e)' /\ Stored(f)' /\ int'[e] = int'[f] => e = f
    BY <1>3, <1>4, <1>6, <2>0 DEF IdsApart
  <2>2. \A u \in Threads : Inserting(u)' => op'[u].id # 0
    BY <1>7, <2>0, Zenon DEF IdsApart
  <2>3. \A u \in Threads : \A e : Inserting(u)' /\ Stored(e)' => op'[u].id # int'[e]
    BY <1>3, <1>4, <1>6, <1>7, <2>0 DEF IdsApart
  <2>4. \A u, v \in Threads : Inserting(u)' /\ Inserting(v)' /\ op'[u].id = op'[v].id => u = v
    BY <1>7, <2>0, Zenon DEF IdsApart
  <2> QED
    BY <2>1, <2>2, <2>3, <2>4, Zenon DEF IdsApart
<1>12. RecordsOwn'
  <2>0. ExtOf(op[t].id, op[t].eid) /\ VecOf(op[t].id, op[t].eid)
    BY <1>3, Zenon DEF IInv, RecordsOwn
  <2>1. (\A e : Stored(e) => ExtOf(int[e], e) /\ VecOf(int[e], e))'
    <3> SUFFICES ASSUME NEW e, Stored(e)'
                 PROVE  (ExtOf(int[e], e) /\ VecOf(int[e], e))'
      BY Zenon
    <3>1. CASE e = op[t].eid
      BY <1>2, <1>4, <2>0, <3>1, Zenon DEF ExtOf, VecOf
    <3>2. CASE Stored(e) /\ int'[e] = int[e]
      BY <1>2, <3>2, Zenon DEF IInv, RecordsOwn, ExtOf, VecOf
    <3> QED
      BY <1>6, <3>1, <3>2, Zenon
  <2>2. (\A u \in Threads : op[u].pc = "free" /\ Freeing(u) =>
            ExtOf(op[u].id, op[u].eid) /\ VecOf(op[u].id, op[u].eid))'
    BY <1>1, <1>2, ZenonT(30) DEF IInv, RecordsOwn, ExtOf, VecOf, Freeing
  <2>3. (\A u \in Threads : /\ Inserting(u) /\ op[u].pc # "vector" => VecOf(op[u].id, op[u].eid)
                            /\ Inserting(u) /\ op[u].pc = "intMap" => ExtOf(op[u].id, op[u].eid))'
    BY <1>2, <1>7, Zenon DEF IInv, RecordsOwn, ExtOf, VecOf
  <2> QED
    BY <2>1, <2>2, <2>3, Zenon DEF RecordsOwn
<1> QED
  BY <1>2, <1>8, <1>9, <1>10, <1>11, <1>12, Zenon DEF IInv

\* The removed element is no longer in the IntMap.
LEMMA DeleteIntMapKeepsInv ==
  ASSUME IInv, OneOwner, "intMap" \notin UnsafeDeletes, NEW t \in Threads, DeleteIntMap(t)
  PROVE  IInv'
<1>0. /\ op[t].pc = "delIntMap" /\ int' = Del(int, op[t].eid) /\ Step(t, "delAttributes")
      /\ UNCHANGED <<fsm, vec, ext, nbr, state>>
  BY Zenon DEF DeleteIntMap, Deletes
<1> USE <1>0
<1>1. PICK r : /\ Goes(t, r) /\ r.pc = "delAttributes" /\ r.kind = op[t].kind
               /\ r.eid = op[t].eid /\ r.id = op[t].id
  BY StepGoes DEF IInv
<1> USE <1>1
<1>2. OpShape' /\ op'[t] = r /\ \A u \in Threads \ {t} : op'[u] = op[u]
  BY GoesFrame, Zenon DEF IInv
<1> USE <1>2
<1>3. /\ DOMAIN int' = DOMAIN int \ {op[t].eid}
      /\ \A e \in DOMAIN int' : int'[e] = int[e]
  BY Zenon DEF Del
<1>4. \A u \in Threads \ {t} : op[u].pc # "idle" => op[u].eid # op[t].eid
  BY Zenon DEF IInv, Exclusive
<1>5. \A e : Stored(e)' => Stored(e) /\ int'[e] = int[e]
  BY <1>3, Zenon DEF Stored, Removing, Unmapping
<1>6. \A u \in Threads : Inserting(u)' => Inserting(u) /\ op'[u] = op[u]
  BY Zenon DEF Inserting
<1>7. Exclusive' /\ CallsMatch'
  <2>1. Exclusive'
    BY <1>4 DEF Exclusive, IInv
  <2>2. CallMatches(r, fsm'[t])
    BY Zenon DEF IInv, CallsMatch, CallMatches, NextPcs, FreePcs
  <2>3. CallsMatch'
    BY <2>2 DEF IInv, CallsMatch, CallMatches
  <2> QED
    BY <2>1, <2>3, Zenon
<1>8. StartPoint'
  BY Zenon DEF IInv, StartPoint, SettingPcs, RelyingPcs
<1>9. IdsKnown'
  <2>1. (\A e \in DOMAIN int : int[e] # 0)'
    BY <1>3, ZenonT(30) DEF IInv, IdsKnown
  <2>2. \A u \in Threads : op'[u].pc \in FoundPcs =>
          op'[u].eid \in DOMAIN int' /\ op'[u].id = int'[op'[u].eid]
    <3> SUFFICES ASSUME NEW u \in Threads, op'[u].pc \in FoundPcs
                 PROVE  op'[u].eid \in DOMAIN int' /\ op'[u].id = int'[op'[u].eid]
      BY Zenon
    <3>1. u # t /\ op'[u] = op[u] /\ op[u].pc # "idle"
      BY Zenon DEF FoundPcs
    <3>2. op[u].eid \in DOMAIN int /\ op[u].id = int[op[u].eid] /\ op[u].eid # op[t].eid
      BY <1>4, <3>1, Zenon DEF IInv, IdsKnown
    <3> QED
      BY <1>3, <3>1, <3>2
  <2>3. \A u \in Threads : op'[u].pc \in {"delAttributes", "delVector"} => op'[u].id # 0
    BY Zenon DEF IInv, IdsKnown, FoundPcs
  <2> QED
    BY <2>1, <2>2, <2>3, Zenon DEF IdsKnown
<1>10. IdsApart'
  <2>0. IdsApart
    BY Zenon DEF IInv
  <2>1. (\A e, f : Stored(e) /\ Stored(f) /\ int[e] = int[f] => e = f)'
    BY <1>5, <2>0, Zenon DEF IdsApart
  <2>2. (\A u \in Threads : Inserting(u) => op[u].id # 0)'
    BY <1>6, <2>0, Zenon DEF IdsApart
  <2>3. (\A u \in Threads : \A e : Inserting(u) /\ Stored(e) => op[u].id # int[e])'
    BY <1>5, <1>6, <2>0 DEF IdsApart
  <2>4. (\A u, v \in Threads : Inserting(u) /\ Inserting(v) /\ op[u].id = op[v].id => u = v)'
    BY <1>6, <2>0, Zenon DEF IdsApart
  <2> QED
    BY <2>1, <2>2, <2>3, <2>4, Zenon DEF IdsApart
<1>11. RecordsOwn'
  <2>1. (\A e : Stored(e) => ExtOf(int[e], e) /\ VecOf(int[e], e))'
    BY <1>5, Zenon DEF IInv, RecordsOwn, ExtOf, VecOf
  <2>2. (\A u \in Threads : op[u].pc = "free" /\ Freeing(u) =>
            ExtOf(op[u].id, op[u].eid) /\ VecOf(op[u].id, op[u].eid))'
    BY DEF IInv, RecordsOwn, ExtOf, VecOf, Freeing
  <2>3. (\A u \in Threads : /\ Inserting(u) /\ op[u].pc # "vector" => VecOf(op[u].id, op[u].eid)
                            /\ Inserting(u) /\ op[u].pc = "intMap" => ExtOf(op[u].id, op[u].eid))'
    BY <1>6 DEF IInv, RecordsOwn, ExtOf, VecOf
  <2> QED
    BY <2>1, <2>2, <2>3, Zenon DEF RecordsOwn
<1> QED
  BY <1>7, <1>8, <1>9, <1>10, <1>11, Zenon DEF IInv

LEMMA BeginKeepsInv ==
  ASSUME IInv, OneOwner, NEW t \in Threads, Begin(t)
  PROVE  IInv'
<1>1. PICK kind \in Kinds, e \in Elements :
        /\ \A u \in Threads : op[u].pc # "idle" => op[u].eid # e
        /\ op' = [op EXCEPT ![t] = [NoOp EXCEPT !.kind = kind, !.eid = e,
                                !.pc = IF kind = "insert" THEN "ensure" ELSE "exists"]]
  BY Zenon DEF Begin
<1> DEFINE r == [NoOp EXCEPT !.kind = kind, !.eid = e,
                             !.pc = IF kind = "insert" THEN "ensure" ELSE "exists"]
<1>2. r.eid = e /\ r.pc \in {"ensure", "exists"} /\ DOMAIN r = OpFields
  BY Zenon DEF NoOp, OpFields
<1>3. Goes(t, r)
  BY <1>1, <1>2, Zenon DEF Goes
<1> HIDE DEF r
<1>4. fsm[t].pc = "idle" /\ op[t].pc = "idle" /\ UNCHANGED <<fsm, terms, state>>
  BY Zenon DEF Begin, IInv, CallsMatch, CallMatches, NextPcs, FreePcs, fsmVars
<1>5. Move(t, r, 0)
  BY <1>1, <1>2, <1>3, <1>4, Zenon DEF Move, MoveAlone, MoveCall, MoveStart, MoveId, MoveRecords,
     CallMatches, NextPcs, FreePcs, SettingPcs, RelyingPcs, FoundPcs, UnmappingPcs, InsertingAs,
     InsertingPcs, ExtOf, VecOf, terms
<1> QED
  BY <1>5, MoveKeepsInv, Zenon

\* No operation survives the end of the process, and the records do.
LEMMA RestartKeepsInv ==
  ASSUME IInv, "intMap" \notin UnsafeDeletes, Restart
  PROVE  IInv'
<1>1. /\ \A t \in Threads : op'[t] = NoOp /\ fsm'[t] = IdleCall
      /\ op' = [t \in Threads |-> op'[t]]
      /\ UNCHANGED terms /\ \A t \in Threads : ~Unmapping(t)
      /\ state' # "SettingStartPoints"
      /\ state' = "Ready" => 0 \in DOMAIN vec /\ 0 \in DOMAIN nbr
  BY Zenon DEF Restart, Reopen, CreateState
<1> USE <1>1
<1>2. NoOp.pc = "idle" /\ NoOp.kind = "none" /\ DOMAIN NoOp = OpFields /\ IdleCall.pc = "idle"
  BY Zenon DEF NoOp, OpFields, IdleCall
<1> USE <1>2
<1>3. OpShape' /\ Exclusive' /\ CallsMatch'
  BY Zenon DEF OpShape, Exclusive, CallsMatch, CallMatches, NextPcs, FreePcs
<1>4. StartPoint' /\ IdsKnown'
  BY Zenon DEF IInv, StartPoint, IdsKnown, SettingPcs, RelyingPcs, FoundPcs, terms
<1>5. \A e : Stored(e)' <=> Stored(e)
  BY Zenon DEF Stored, Removing, Unmapping, terms
<1>6. \A t \in Threads : ~Inserting(t)'
  BY Zenon DEF Inserting
<1>7. IdsApart' /\ RecordsOwn'
  BY <1>5, <1>6, Zenon DEF IInv, IdsApart, RecordsOwn, ExtOf, VecOf, terms
<1> QED
  BY <1>3, <1>4, <1>7, Zenon DEF IInv

\* A step within a call of the map.
LEMMA FsmStepFrame ==
  ASSUME OneOwner, NEW t \in Threads, FsmStep(t)
  PROVE  /\ \A u \in Threads \ {t} : fsm'[u] = fsm[u]
         /\ fsm[t].pc # "idle" /\ fsm'[t].op = fsm[t].op
         /\ fsm[t].op = "free" => fsm'[t].id = fsm[t].id
         /\ Freeing(t)' => Freeing(t)
<1> USE DEF OneOwner, CallFields, At
<1>0. DOMAIN fsm[t] = CallFields
  BY Zenon
<1>1. CASE LoadFlag(t) \/ Room(t)
  BY <1>1 DEF LoadFlag, Room, Goto, Freeing
<1>2. CASE Pop(t)
  BY <1>2 DEF Pop, Goto, Freeing
<1>3. CASE RefillLock(t)
  BY <1>3 DEF RefillLock, Goto, Freeing
<1>4. CASE ScanBlock(t)
  BY <1>4, Zenon DEF ScanBlock, Freeing
<1>5. CASE ScanFails(t)
  BY <1>5, Zenon DEF ScanFails, ServerFails, Goto, Freeing
<1>6. CASE ScanPush(t)
  BY <1>6 DEF ScanPush, Goto, Freeing
<1>7. CASE ScanEnd(t)
  BY <1>7, Zenon DEF ScanEnd, Freeing
<1>8. CASE Mint(t)
  BY <1>8, Zenon DEF Mint, Freeing
<1>9. CASE ExpandTo(t)
  BY <1>9 DEF ExpandTo, ServerFails, Goto, Freeing
<1>10. CASE MarkCheck(t)
  BY <1>10, Zenon DEF MarkCheck, Goto, Freeing
<1>11. CASE MarkId(t)
  BY <1>11, ZenonT(30) DEF MarkId, ServerFails, Goto, Freeing
<1>12. CASE QueueFreed(t) \/ FlagFreed(t)
  BY <1>12, Zenon DEF QueueFreed, FlagFreed, Goto, Freeing
<1> QED
  BY <1>1, <1>2, <1>3, <1>4, <1>5, <1>6, <1>7, <1>8, <1>9, <1>10, <1>11, <1>12, Zenon DEF FsmStep

LEMMA FsmStepKeepsInv ==
  ASSUME IInv, OneOwner, NEW t \in Threads, FsmStep(t), UNCHANGED <<terms, state, op>>
  PROVE  IInv'
<1>1. /\ \A u \in Threads \ {t} : fsm'[u] = fsm[u]
      /\ fsm[t].pc # "idle" /\ fsm'[t].op = fsm[t].op
      /\ fsm[t].op = "free" => fsm'[t].id = fsm[t].id
      /\ Freeing(t)' => Freeing(t)
  BY FsmStepFrame, Zenon
<1>2. CallsMatch'
  BY <1>1, Zenon DEF IInv, CallsMatch, CallMatches, FreePcs
<1>3. \A u \in Threads : Freeing(u)' => Freeing(u)
  BY <1>1, Zenon DEF Freeing
<1>4. RecordsOwn'
  BY <1>3, Zenon DEF IInv, RecordsOwn, Stored, Removing, Unmapping, Inserting, ExtOf, VecOf, terms
<1>5. OpShape' /\ Exclusive' /\ StartPoint' /\ IdsKnown'
  BY Zenon DEF IInv, OpShape, Exclusive, StartPoint, IdsKnown, terms
<1>6. IdsApart'
  BY DEF IInv, IdsApart, Stored, Removing, Unmapping, Inserting, terms
<1> QED
  BY <1>2, <1>4, <1>5, <1>6, Zenon DEF IInv

\* Every step keeps the invariant, if the map keeps its promise.
LEMMA StepKeepsInv ==
  ASSUME IInv, OneOwner, "intMap" \notin UnsafeDeletes, [Next]_garnetVars
  PROVE  IInv'
<1>1. ASSUME NEW t \in Threads, Begin(t) PROVE IInv'
  BY <1>1, BeginKeepsInv, Zenon
<1>2. ASSUME NEW t \in Threads, ThreadStep(t) PROVE IInv'
  BY <1>2, FsmStepKeepsInv, StartPointStepsKeepInv, InsertStepsKeepInv, WriteIntMapKeepsInv,
     LookupStepsKeepInv, DeleteStepsKeepInv, DeleteIntMapKeepsInv, Zenon DEF ThreadStep
<1>3. CASE Restart
  BY <1>3, RestartKeepsInv, Zenon
<1>4. CASE UNCHANGED garnetVars
  BY <1>4, StutterKeepsInv, Zenon DEF garnetVars, fsmVars
<1> QED
  BY <1>1, <1>2, <1>3, <1>4, Zenon DEF Next, Over

LEMMA InitGivesInv ==
  ASSUME Init
  PROVE  IInv
<1>1. PICK store \in Stores :
        /\ used = store.used /\ blocks = store.blocks /\ int = store.int
        /\ ext = [i \in {int[e] : e \in DOMAIN int} |-> CHOOSE e \in DOMAIN int : int[e] = i]
        /\ vec = IF 0 \in used THEN Put(ext, 0, "start") ELSE ext
        /\ nbr = IF 0 \in used THEN Put(ext, 0, Empty) ELSE ext
  BY Zenon DEF Init
<1> USE <1>1
<1>2. /\ \A e \in DOMAIN int : int[e] \in used \ {0}
      /\ \A e, f \in DOMAIN int : int[e] = int[f] => e = f
  BY StoresAssumption, Zenon
<1> USE <1>2
<1>3. \A e \in DOMAIN int : ext[int[e]] = e /\ vec[int[e]] = e
  <2> SUFFICES ASSUME NEW e \in DOMAIN int PROVE ext[int[e]] = e /\ vec[int[e]] = e
    BY Zenon
  <2>1. ext[int[e]] = CHOOSE f \in DOMAIN int : int[f] = int[e]
    BY Zenon
  <2>2. ext[int[e]] \in DOMAIN int /\ int[ext[int[e]]] = int[e]
    BY <2>1, Zenon
  <2>3. ext[int[e]] = e
    BY <2>2, Zenon
  <2> QED
    BY <2>3, Zenon DEF Put
<1>4. /\ op = [t \in Threads |-> NoOp] /\ fsm = [t \in Threads |-> IdleCall]
      /\ state = IF 0 \in used THEN "Ready" ELSE "NoStartPoints"
  BY Zenon DEF Init, FsmInit
<1> USE <1>4
<1>5. /\ \A t \in Threads : op[t] = NoOp /\ fsm[t] = IdleCall
      /\ NoOp.pc = "idle" /\ NoOp.kind = "none" /\ DOMAIN NoOp = OpFields /\ IdleCall.pc = "idle"
  BY Zenon DEF NoOp, OpFields, IdleCall
<1> USE <1>5
<1>6. OpShape /\ Exclusive /\ CallsMatch
  BY Zenon DEF OpShape, Exclusive, CallsMatch, CallMatches, NextPcs, FreePcs
<1>7. StartPoint
  BY Zenon DEF StartPoint, SettingPcs, RelyingPcs, Put
<1>8. IdsKnown /\ IdsApart /\ RecordsOwn
  BY <1>3, Zenon DEF IdsKnown, IdsApart, RecordsOwn, FoundPcs, Stored, Inserting, ExtOf, VecOf
<1> QED
  BY <1>6, <1>7, <1>8, Zenon DEF IInv


-----------------------------------------------------------------------------
(* Every step is one that the contract of the map allows. *)

\* The steps of the contract, in terms of the map here.
Rest == UNCHANGED fsmRest /\ errors' \in {errors, errors + 1}

LEMMA ContractMoves ==
  ASSUME NEW t \in Threads, Rest
  PROVE  /\ UNCHANGED fsm /\ (Held' = Held \/ \E id \in Held : Held' = Held \ {id})
              => Contract!ClientNext
         /\ fsm[t].pc = "idle" /\ fsm' = [fsm EXCEPT ![t] = NextIdCall] /\ Held' = Held
              => Contract!ClientNext
         /\ \A id \in Held : fsm[t].pc = "idle" /\ fsm' = [fsm EXCEPT ![t] = MarkFreeCall(id)]
                             /\ Held' = Held \ {id}
              => Contract!ClientNext
         /\ fsm[t].pc \in {"ok", "err"} /\ fsm' = [fsm EXCEPT ![t] = IdleCall]
            /\ (Held' = Held \/ ((Got(t) \/ Freeing(t)) /\ Held' = Held \cup {fsm[t].id}))
              => Contract!ClientNext
         /\ Got(t) /\ fsm' = [fsm EXCEPT ![t] = MarkFreeCall(fsm[t].id)] /\ Held' = Held
              => Contract!ClientNext
<1> USE DEF Rest, fsmRest, Contract!OthersUnchanged, Contract!At, Contract!IdleCall, IdleCall,
            Contract!NextIdCall, NextIdCall, Contract!MarkFreeCall, MarkFreeCall,
            Contract!Got, Got, Contract!Freeing, Freeing, At
<1>1. UNCHANGED fsm /\ (Held' = Held \/ \E id \in Held : Held' = Held \ {id}) => Contract!Elsewhere
  BY Zenon DEF Contract!Elsewhere
<1>2. fsm[t].pc = "idle" /\ fsm' = [fsm EXCEPT ![t] = NextIdCall] /\ Held' = Held
        => Contract!CallNextId(t)
  BY Zenon DEF Contract!CallNextId
<1>3. \A id \in Held : fsm[t].pc = "idle" /\ fsm' = [fsm EXCEPT ![t] = MarkFreeCall(id)]
                       /\ Held' = Held \ {id}
        => Contract!CallMarkFree(t)
  BY Zenon DEF Contract!CallMarkFree
<1>4. fsm[t].pc \in {"ok", "err"} /\ fsm' = [fsm EXCEPT ![t] = IdleCall]
      /\ (Held' = Held \/ ((Got(t) \/ Freeing(t)) /\ Held' = Held \cup {fsm[t].id}))
        => Contract!Return(t)
  <2> SUFFICES ASSUME fsm[t].pc \in {"ok", "err"}, fsm' = [fsm EXCEPT ![t] = IdleCall],
                      Held' = Held \/ ((Got(t) \/ Freeing(t)) /\ Held' = Held \cup {fsm[t].id})
               PROVE  Contract!Return(t)
    BY Zenon
  <2>1. Held' \in {Held, IF Contract!Got(t) \/ Contract!Freeing(t)
                        THEN Held \cup {fsm[t].id} ELSE Held}
    BY Zenon
  <2> QED
    BY <2>1, Zenon DEF Contract!Return
<1>5. Got(t) /\ fsm' = [fsm EXCEPT ![t] = MarkFreeCall(fsm[t].id)] /\ Held' = Held
        => Contract!ReturnAndFree(t)
  BY Zenon DEF Contract!ReturnAndFree
<1> QED
  BY <1>1, <1>2, <1>3, <1>4, <1>5, Zenon DEF Contract!ClientNext

\* Most steps change nothing in whose the ids are.
LEMMA GoesHeld ==
  ASSUME OpShape, NEW t \in Threads, NEW r, Goes(t, r), UNCHANGED int,
         0 \in DOMAIN vec' <=> 0 \in DOMAIN vec,
         r.pc \in UnmappingPcs \/ op[t].pc \in UnmappingPcs =>
           r.pc \in UnmappingPcs /\ op[t].pc \in UnmappingPcs /\ r.eid = op[t].eid,
         InsertingAs(r) \/ Inserting(t) => InsertingAs(r) /\ Inserting(t) /\ r.id = op[t].id,
         r.pc # "startVector", op[t].pc # "startVector"
  PROVE  Held' = Held
<1>1. Share(r) = Share(op[t])
  BY Zenon DEF Share, InsertingAs, InsertingPcs, Inserting
<1> QED
  BY <1>1, MoveHeld, Zenon

LEMMA FinishHeld ==
  ASSUME OpShape, NEW t \in Threads, NEW ok, Finish(t, ok), UNCHANGED int,
         0 \in DOMAIN vec' <=> 0 \in DOMAIN vec,
         op[t].pc \notin UnmappingPcs \cup InsertingPcs, op[t].pc # "startVector"
  PROVE  Held' = Held
BY FinishGoes, GoesHeld, Zenon DEF UnmappingPcs, InsertingPcs, InsertingAs, Inserting

LEMMA StepHeld ==
  ASSUME OpShape, NEW t \in Threads, NEW pc, Step(t, pc), UNCHANGED int,
         0 \in DOMAIN vec' <=> 0 \in DOMAIN vec,
         op[t].pc \in UnmappingPcs <=> pc \in UnmappingPcs,
         op[t].pc \in InsertingPcs <=> pc \in InsertingPcs,
         op[t].pc # "startVector", pc # "startVector"
  PROVE  Held' = Held
<1>1. PICK r : /\ Goes(t, r) /\ r.pc = pc /\ r.kind = op[t].kind
               /\ r.eid = op[t].eid /\ r.id = op[t].id
  BY StepGoes
<1> QED
  BY <1>1, GoesHeld, Zenon DEF InsertingAs, Inserting, InsertingPcs

LEMMA StartPointStepsKeepContract ==
  ASSUME IInv, OneOwner, NEW t \in Threads,
         EnsureReady(t) \/ ReadStartPoint(t) \/ TakeStartId(t)
         \/ StartIdWrong(t) \/ WriteStartVector(t) \/ WriteStartList(t)
  PROVE  [Contract!ClientNext]_(Contract!clientVars)
<1>0. OpShape /\ CallsMatch /\ StartPoint
  BY Zenon DEF IInv
<1> USE <1>0
<1>1. CASE EnsureReady(t)
  <2> USE <1>1
  <2>1. Rest /\ UNCHANGED <<fsm, vec, int>> /\ op[t].pc = "ensure"
    BY Zenon DEF EnsureReady, Rest, fsmRest, Doing, terms, fsmVars
  <2> USE <2>1
  <2>2. Held' = Held
    <3>1. CASE Step(t, "attributes") \/ Step(t, "start")
      BY <3>1, StepHeld, Zenon DEF UnmappingPcs, InsertingPcs
    <3>2. CASE UNCHANGED op
      BY <3>2, Zenon DEF Held, Removing, Unmapping, Inserting
    <3> QED
      BY <3>1, <3>2, Zenon DEF EnsureReady
  <2> QED
    BY <2>2, ContractMoves, Zenon
<1>2. CASE ReadStartPoint(t)
  <2> USE <1>2
  <2>1. Rest /\ UNCHANGED <<vec, int>> /\ op[t].pc = "start" /\ fsm[t].pc = "idle"
    BY Zenon DEF ReadStartPoint, CallsMatch, CallMatches, NextPcs, FreePcs, Rest, fsmRest, Fails,
       Written, Unread, Doing, terms
  <2>2. Held' = Held
    BY <2>1, StepHeld, FinishHeld, Zenon DEF ReadStartPoint, InitFails, Doing, Written, Fails,
       Unread, Rest, fsmRest, terms, UnmappingPcs, InsertingPcs
  <2> QED
    BY <2>1, <2>2, ContractMoves, Zenon DEF ReadStartPoint
<1>3. CASE TakeStartId(t)
  <2> USE <1>3
  <2>1. Rest /\ UNCHANGED <<vec, int>> /\ op[t].pc = "startId" /\ fsm[t].op = "next"
    BY Zenon DEF TakeStartId, CallsMatch, CallMatches, NextPcs, Rest, Doing, terms
  <2> USE <2>1
  <2>2. CASE At(t, "err") /\ fsm' = [fsm EXCEPT ![t] = IdleCall] /\ InitFails(t)
    <3> USE <2>2
    <3>1. Held' = Held
      BY FinishHeld, Zenon DEF InitFails, UnmappingPcs, InsertingPcs
    <3> QED
      BY <3>1, ContractMoves, Zenon DEF At
  <2>3. CASE /\ At(t, "ok") /\ fsm[t].id = 0 /\ fsm' = [fsm EXCEPT ![t] = IdleCall]
             /\ Step(t, "startVector")
    <3> USE <2>3
    <3>1. PICK r : /\ Goes(t, r) /\ r.pc = "startVector" /\ r.kind = op[t].kind
                   /\ r.eid = op[t].eid /\ r.id = op[t].id
      BY StepGoes
    <3>2. Share(r) = {0} /\ Share(op[t]) = {}
      BY <3>1, Zenon DEF Share, InsertingAs, InsertingPcs
    <3>3. Held' = Held \cup {0}
      BY <3>1, <3>2, MoveHeld, Zenon DEF UnmappingPcs
    <3> QED
      BY <3>3, ContractMoves, Zenon DEF At, Got
  <2>4. CASE /\ At(t, "ok") /\ fsm' = [fsm EXCEPT ![t] = MarkFreeCall(fsm[t].id)]
             /\ Step(t, "startBack")
    <3> USE <2>4
    <3>1. Held' = Held
      BY StepHeld, Zenon DEF UnmappingPcs, InsertingPcs
    <3> QED
      BY <3>1, ContractMoves, Zenon DEF At, Got
  <2> QED
    BY <2>2, <2>3, <2>4, Zenon DEF TakeStartId
<1>4. CASE StartIdWrong(t)
  <2> USE <1>4
  <2>1. Rest /\ UNCHANGED <<vec, int>> /\ op[t].pc = "startBack"
    BY Zenon DEF StartIdWrong, Rest, fsmRest, Doing, terms
  <2>2. Held' = Held
    BY <2>1, FinishHeld, Zenon DEF StartIdWrong, InitFails, UnmappingPcs, InsertingPcs
  <2> QED
    BY <2>1, <2>2, ContractMoves, Zenon DEF StartIdWrong
<1>5. CASE WriteStartVector(t)
  <2> USE <1>5
  <2>1. Rest /\ UNCHANGED <<fsm, int>> /\ op[t].pc = "startVector"
    BY Zenon DEF WriteStartVector, Rest, fsmRest, Fails, Written, Doing
  <2> USE <2>1
  <2>2. Share(op[t]) = {0} /\ 0 \notin DOMAIN vec
    BY Zenon DEF Share, InsertingAs, StartPoint, InsertingPcs
  <2> USE <2>2
  <2>3. CASE vec' = Put(vec, 0, op[t].eid) /\ Step(t, "startList")
    <3> USE <2>3
    <3>1. PICK r : /\ Goes(t, r) /\ r.pc = "startList" /\ r.kind = op[t].kind
                   /\ r.eid = op[t].eid /\ r.id = op[t].id
      BY StepGoes
    <3>2. Share(r) = {} /\ 0 \in DOMAIN vec'
      BY <3>1, Zenon DEF Share, InsertingAs, Put, InsertingPcs
    <3>3. 0 \in Held /\ 0 \in Held'
      BY <3>2, HeldMembers, HeldMembersNext, Zenon
    <3>4. Held' = Held
      BY <3>1, <3>2, <3>3, MoveHeld, Zenon DEF UnmappingPcs
    <3> QED
      BY <3>4, ContractMoves, Zenon
  <2>4. CASE InitFails(t) /\ UNCHANGED vec
    <3> USE <2>4
    <3>1. Goes(t, NoOp) /\ NoOp.pc = "idle" /\ NoOp.kind = "none"
      BY FinishGoes, Zenon DEF InitFails
    <3> USE <3>1
    <3>2. Share(NoOp) = {}
      BY Zenon DEF Share, InsertingAs
    <3>3. \A u \in Threads : op'[u].pc # "startVector"
      BY GoesFrame DEF StartPoint, SettingPcs
    <3>4. \A e : Stored(e)' => int[e] # 0
      BY Zenon DEF IInv, IdsKnown, Stored
    <3>5. \A u \in Threads : 0 \notin Share(op'[u])
      BY <3>2, <3>3, GoesFrame DEF IInv, IdsApart, Share, InsertingAs, Inserting, InsertingPcs
    <3>6. 0 \notin Held' /\ 0 \in Held
      BY <3>4, <3>5, HeldMembers, HeldMembersNext, Zenon
    <3>7. Held' = Held \ {0}
      BY <3>2, <3>6, MoveHeld, Zenon DEF UnmappingPcs
    <3> QED
      BY <3>6, <3>7, ContractMoves, Zenon
  <2> QED
    BY <2>3, <2>4, Zenon DEF WriteStartVector, fsmRest, Fails, Written
<1>6. CASE WriteStartList(t)
  <2> USE <1>6
  <2>1. Rest /\ UNCHANGED <<fsm, vec, int>> /\ op[t].pc = "startList"
    BY Zenon DEF WriteStartList, Rest, Fails, Written, Doing
  <2>2. Held' = Held
    BY <2>1, StepHeld, FinishHeld, Zenon DEF WriteStartList, InitFails, Doing, Written, Fails,
       Rest, fsmRest, UnmappingPcs, InsertingPcs
  <2> QED
    BY <2>1, <2>2, ContractMoves, Zenon
<1> QED
  BY <1>1, <1>2, <1>3, <1>4, <1>5, <1>6, Zenon

\* The id that an insertion gives back is nobody else's.
LEMMA UndoKeepsContract ==
  ASSUME IInv, OneOwner, NEW t \in Threads, Inserting(t), UndoInsert(t),
         UNCHANGED <<fsmRest, vec, int>>
  PROVE  Contract!ClientNext
<1>1. Rest /\ fsm[t].pc = "idle" /\ OpShape
  BY Zenon DEF UndoInsert, Fails, Rest, Inserting, IInv, CallsMatch, CallMatches, NextPcs, FreePcs
<1> USE <1>1
<1>2. PICK r : /\ Goes(t, r) /\ r.pc = "undo" /\ r.kind = op[t].kind
               /\ r.eid = op[t].eid /\ r.id = op[t].id
  BY StepGoes DEF UndoInsert
<1> USE <1>2
<1>3. Share(r) = {} /\ Share(op[t]) = {op[t].id}
  BY Zenon DEF Share, InsertingAs, InsertingPcs, Inserting
<1> USE <1>3
<1>4. op'[t] = r /\ \A u \in Threads \ {t} : op'[u] = op[u]
  BY GoesFrame, Zenon
<1>5. op[t].pc \notin UnmappingPcs /\ r.pc \notin UnmappingPcs
  BY Zenon DEF Inserting, UnmappingPcs
<1>6. \A e : Stored(e)' <=> Stored(e)
  BY <1>5, MoveHeld, Zenon
<1>7. \A e : Stored(e)' => int'[e] # op[t].id
  BY <1>6, Zenon DEF IInv, IdsApart
<1>8. op[t].id # 0
  BY Zenon DEF IInv, IdsApart
<1>9. \A u \in Threads : op[t].id \notin Share(op'[u])
  BY <1>4, <1>8 DEF IInv, IdsApart, Share, InsertingAs, InsertingPcs, Inserting
<1>10. op[t].id \notin Held' /\ op[t].id \in Held
  BY <1>7, <1>8, <1>9, HeldMembers, HeldMembersNext, Zenon
<1>11. Held' = Held \ {op[t].id}
  BY <1>5, <1>10, MoveHeld, Zenon
<1> QED
  BY <1>10, <1>11, ContractMoves, Zenon DEF UndoInsert

\* The new id takes the place of the old one, which is forgotten.
LEMMA WriteIntMapKeepsContract ==
  ASSUME IInv, OneOwner, NEW t \in Threads, WriteIntMap(t)
  PROVE  Contract!ClientNext
<1>0. CASE UndoInsert(t) /\ UNCHANGED int
  BY <1>0, UndoKeepsContract, Zenon DEF WriteIntMap, Doing, Inserting
<1> SUFFICES ASSUME int' = Put(int, op[t].eid, op[t].id), Step(t, "link"),
                    UNCHANGED <<fsm, errors>>
             PROVE  Contract!ClientNext
  BY <1>0, Zenon DEF WriteIntMap, Written
<1>1. PICK r : /\ Goes(t, r) /\ r.pc = "link" /\ r.kind = op[t].kind
               /\ r.eid = op[t].eid /\ r.id = op[t].id
  BY StepGoes DEF IInv
<1> USE <1>1
<1>2. Rest /\ Inserting(t) /\ op[t].pc = "intMap" /\ UNCHANGED vec
  BY Zenon DEF WriteIntMap, Doing, Inserting, Rest
<1> USE <1>2
<1>3. op'[t] = r /\ \A u \in Threads \ {t} : op'[u] = op[u]
  BY GoesFrame, Zenon DEF IInv
<1> USE <1>3
<1>4. /\ DOMAIN int' = DOMAIN int \cup {op[t].eid} /\ int'[op[t].eid] = op[t].id
      /\ \A e \in DOMAIN int \ {op[t].eid} : int'[e] = int[e]
  BY Zenon DEF Put
<1> USE <1>4
<1>5. \A u \in Threads : Unmapping(u) => op[u].eid # op[t].eid
  BY Zenon DEF IInv, Exclusive, Unmapping
<1>6. \A u \in Threads : Unmapping(u)' <=> Unmapping(u)
  BY Zenon DEF Unmapping
<1>7. \A e : Removing(e)' <=> Removing(e)
  BY <1>6, ZenonT(30) DEF Removing
<1>8. \A e : Stored(e)' <=> Stored(e) \/ e = op[t].eid
  BY <1>5, <1>7 DEF Stored, Removing
<1>9. \A u \in Threads \ {t} : Share(op'[u]) = Share(op[u])
  BY Zenon
<1>10. Share(op'[t]) = {} /\ Share(op[t]) = {op[t].id}
  BY Zenon DEF Share, InsertingAs, InsertingPcs, Inserting
<1>11. ASSUME NEW x \in Held' PROVE x \in Held
  <2>1. CASE \E e : Stored(e)' /\ int'[e] = x
    BY <1>8, <1>10, <2>1, HeldMembers, Zenon DEF Stored
  <2>2. CASE \E u \in Threads : x \in Share(op'[u])
    BY <1>9, <1>10, <2>2, HeldMembers, Zenon
  <2>3. CASE x = 0 /\ 0 \in DOMAIN vec'
    BY <2>3, HeldMembers, Zenon
  <2> QED
    BY <1>11, <2>1, <2>2, <2>3, HeldMembersNext, Zenon
<1>12. ASSUME NEW x \in Held PROVE x \in Held' \/ (Stored(op[t].eid) /\ x = int[op[t].eid])
  <2>1. CASE \E e : Stored(e) /\ int[e] = x
    <3>1. PICK e : Stored(e) /\ int[e] = x
      BY <2>1
    <3>2. CASE e = op[t].eid
      BY <3>1, <3>2, Zenon
    <3>3. CASE e # op[t].eid
      <4>1. Stored(e)' /\ int'[e] = int[e]
        BY <1>8, <3>1, <3>3, Zenon DEF Stored
      <4> QED
        BY <3>1, <4>1, HeldMembersNext, Zenon
    <3> QED
      BY <3>2, <3>3, Zenon
  <2>2. CASE \E u \in Threads \ {t} : x \in Share(op[u])
    BY <1>9, <2>2, HeldMembersNext, Zenon
  <2>3. CASE x \in Share(op[t])
    BY <1>8, <1>10, <2>3, HeldMembersNext, Zenon DEF Stored
  <2>4. CASE x = 0 /\ 0 \in DOMAIN vec
    BY <2>4, HeldMembersNext, Zenon
  <2> QED
    BY <1>12, <2>1, <2>2, <2>3, <2>4, HeldMembers, Zenon
<1>13. Held' = Held \/ \E id \in Held : Held' = Held \ {id}
  BY <1>11, <1>12, Zenon
<1> QED
  BY <1>13, ContractMoves, Zenon

LEMMA InsertStepsKeepContract ==
  ASSUME IInv, OneOwner, NEW t \in Threads,
         WriteAttributes(t) \/ TakeId(t) \/ WriteVector(t)
         \/ WriteExtMap(t) \/ EndUndo(t) \/ Link(t)
  PROVE  Contract!ClientNext
<1>0. OpShape /\ CallsMatch
  BY Zenon DEF IInv
<1> USE <1>0
<1>1. CASE WriteAttributes(t)
  <2> USE <1>1
  <2>1. Rest /\ UNCHANGED <<vec, int>> /\ op[t].pc = "attributes" /\ fsm[t].pc = "idle"
    BY Zenon DEF WriteAttributes, CallsMatch, CallMatches, NextPcs, FreePcs, Rest, fsmRest, Fails,
       Written, Doing
  <2>2. Held' = Held
    BY <2>1, StepHeld, FinishHeld, Zenon DEF WriteAttributes, Doing, Written, Fails, Rest, fsmRest,
       UnmappingPcs, InsertingPcs
  <2> QED
    BY <2>1, <2>2, ContractMoves, Zenon DEF WriteAttributes
<1>2. CASE TakeId(t)
  <2> USE <1>2
  <2>1. /\ Rest /\ UNCHANGED <<vec, int>> /\ op[t].pc = "id" /\ fsm[t].op = "next"
        /\ fsm[t].pc \in {"ok", "err"} /\ fsm' = [fsm EXCEPT ![t] = IdleCall]
    BY Zenon DEF TakeId, CallsMatch, CallMatches, NextPcs, Rest, Doing, terms
  <2> USE <2>1
  <2>2. CASE At(t, "ok") /\ op' = [op EXCEPT ![t].pc = "vector", ![t].id = fsm[t].id]
    <3> USE <2>2
    <3> PICK id : id = fsm[t].id
      BY Zenon
    <3>1. StepTakes(t, "vector", id)
      BY Zenon DEF StepTakes, OpShape, OpFields
    <3>2. PICK r : /\ Goes(t, r) /\ r.pc = "vector" /\ r.kind = op[t].kind
                   /\ r.eid = op[t].eid /\ r.id = id
      BY <3>1, StepTakesGoes
    <3>3. Share(r) = {id} /\ Share(op[t]) = {}
      BY <3>2, Zenon DEF TakeId, Share, InsertingAs, Doing, InsertingPcs
    <3>4. Held' = Held \cup {id}
      BY <3>2, <3>3, MoveHeld, Zenon DEF UnmappingPcs
    <3> QED
      BY <3>4, ContractMoves, Zenon DEF At, Got
  <2>3. CASE Finish(t, FALSE)
    <3>1. Held' = Held
      BY <2>3, FinishHeld, Zenon DEF UnmappingPcs, InsertingPcs
    <3> QED
      BY <3>1, ContractMoves, Zenon
  <2> QED
    BY <2>2, <2>3, Zenon DEF TakeId
<1>3. CASE WriteVector(t)
  <2> USE <1>3
  <2>1. UNCHANGED <<fsmRest, int>> /\ op[t].pc = "vector" /\ Inserting(t)
    BY Zenon DEF WriteVector, Inserting, fsmRest, Doing
  <2> USE <2>1
  <2>2. CASE vec' = Put(vec, op[t].id, op[t].eid) /\ Written(t, "extMap") /\ UNCHANGED fsm
    <3> USE <2>2
    <3>1. 0 \in DOMAIN vec' <=> 0 \in DOMAIN vec
      BY Zenon DEF IInv, IdsApart, Put
    <3>2. Held' = Held
      BY <3>1, StepHeld, Zenon DEF Written, UnmappingPcs, InsertingPcs
    <3> QED
      BY <3>2, ContractMoves, Zenon DEF Rest, Written
  <2>3. CASE UndoInsert(t) /\ UNCHANGED vec
    BY <2>3, UndoKeepsContract, Zenon
  <2> QED
    BY <2>2, <2>3, Zenon DEF WriteVector
<1>4. CASE WriteExtMap(t)
  <2> USE <1>4
  <2>1. UNCHANGED <<fsmRest, vec, int>> /\ op[t].pc = "extMap" /\ Inserting(t)
    BY Zenon DEF WriteExtMap, Inserting, fsmRest, Doing
  <2> USE <2>1
  <2>2. CASE Written(t, "intMap") /\ UNCHANGED fsm
    <3> USE <2>2
    <3>1. Held' = Held
      BY StepHeld, Zenon DEF Written, UnmappingPcs, InsertingPcs
    <3> QED
      BY <3>1, ContractMoves, Zenon DEF Rest, Written
  <2>3. CASE UndoInsert(t)
    BY <2>3, UndoKeepsContract, Zenon
  <2> QED
    BY <2>2, <2>3, Zenon DEF WriteExtMap
<1>5. CASE EndUndo(t)
  <2> USE <1>5
  <2>1. Rest /\ UNCHANGED <<vec, int>> /\ op[t].pc = "undo" /\ Finish(t, FALSE)
    BY Zenon DEF EndUndo, Rest, fsmRest, Doing, terms
  <2>2. Held' = Held
    BY <2>1, FinishHeld, Zenon DEF UnmappingPcs, InsertingPcs
  <2> QED
    BY <2>1, <2>2, ContractMoves, Zenon DEF EndUndo
<1>6. CASE Link(t)
  <2> USE <1>6
  <2>1. Rest /\ UNCHANGED <<fsm, vec, int>> /\ op[t].pc = "link"
    BY Zenon DEF Link, Rest, fsmRest, Fails, Doing
  <2>2. Held' = Held
    BY <2>1, FinishHeld, Zenon DEF Link, UnmappingPcs, InsertingPcs
  <2> QED
    BY <2>1, <2>2, ContractMoves, Zenon
<1> QED
  BY <1>1, <1>2, <1>3, <1>4, <1>5, <1>6, Zenon

LEMMA RemoveStepsKeepContract ==
  ASSUME IInv, OneOwner, NEW t \in Threads,
         Lookup(t) \/ CheckUsed(t) \/ SetAttribute(t) \/ MarkFree(t) \/ MarkedFree(t)
  PROVE  Contract!ClientNext
<1>0. OpShape /\ CallsMatch /\ IdsKnown
  BY Zenon DEF IInv
<1> USE <1>0
<1>1. CASE Lookup(t)
  <2> USE <1>1
  <2>1. Rest /\ UNCHANGED <<fsm, vec, int>> /\ op[t].pc = "exists"
    BY Zenon DEF Lookup, Rest, fsmRest, Fails, Unread, terms
  <2> USE <2>1
  <2>2. CASE op' = [op EXCEPT ![t].pc = "used", ![t].id = int[op[t].eid]]
    <3> PICK id : id = int[op[t].eid]
      BY Zenon
    <3>1. StepTakes(t, "used", id)
      BY <2>2, Zenon DEF StepTakes, OpShape, OpFields
    <3>2. PICK r : /\ Goes(t, r) /\ r.pc = "used" /\ r.kind = op[t].kind
                   /\ r.eid = op[t].eid /\ r.id = id
      BY <3>1, StepTakesGoes
    <3>3. Held' = Held
      BY <3>2, GoesHeld, Zenon DEF InsertingAs, Inserting, UnmappingPcs, InsertingPcs
    <3> QED
      BY <3>3, ContractMoves, Zenon
  <2>3. CASE Finish(t, FALSE)
    <3>1. Held' = Held
      BY <2>3, FinishHeld, Zenon DEF UnmappingPcs, InsertingPcs
    <3> QED
      BY <3>1, ContractMoves, Zenon
  <2> QED
    BY <2>2, <2>3, Zenon DEF Lookup
<1>2. CASE CheckUsed(t)
  <2> USE <1>2
  <2>1. Rest /\ UNCHANGED <<fsm, vec, int>> /\ op[t].pc = "used"
    BY Zenon DEF CheckUsed, Rest, fsmRest, Fails, Written, terms
  <2>2. Step(t, "delete") \/ Step(t, "set") \/ Finish(t, FALSE)
    BY Zenon DEF CheckUsed, fsmRest, Fails, Written, terms
  <2>3. Held' = Held
    BY <2>1, <2>2, StepHeld, FinishHeld, Zenon DEF UnmappingPcs, InsertingPcs
  <2> QED
    BY <2>1, <2>3, ContractMoves, Zenon
<1>3. CASE SetAttribute(t)
  <2> USE <1>3
  <2>1. Rest /\ UNCHANGED <<fsm, vec, int>> /\ op[t].pc = "set"
    BY Zenon DEF SetAttribute, Rest, fsmRest, Fails
  <2>2. Held' = Held
    BY <2>1, FinishHeld, Zenon DEF SetAttribute, UnmappingPcs, InsertingPcs
  <2> QED
    BY <2>1, <2>2, ContractMoves, Zenon
<1>4. CASE MarkFree(t)
  <2> USE <1>4
  <2>1. Rest /\ UNCHANGED <<vec, int>> /\ op[t].pc = "delete" /\ fsm[t].pc = "idle"
    BY Zenon DEF MarkFree, CallsMatch, CallMatches, NextPcs, FreePcs, Rest, fsmRest, Fails,
       Written, Unread, terms
  <2> USE <2>1
  <2>2. CASE Finish(t, FALSE) /\ UNCHANGED fsm
    <3> USE <2>2
    <3>1. Held' = Held
      BY FinishHeld, Zenon DEF UnmappingPcs, InsertingPcs
    <3> QED
      BY <3>1, ContractMoves, Zenon
  <2>3. CASE /\ fsm' = [fsm EXCEPT ![t] = MarkFreeCall(int[op[t].eid])]
             /\ Step(t, "free")
    <3> USE <2>3
    <3>1. PICK r : /\ Goes(t, r) /\ r.pc = "free" /\ r.kind = op[t].kind
                   /\ r.eid = op[t].eid /\ r.id = op[t].id
      BY StepGoes
    <3> USE <3>1
    <3>2. op'[t] = r /\ \A u \in Threads \ {t} : op'[u] = op[u]
      BY GoesFrame, Zenon
    <3>3. Stored(op[t].eid)
      BY Zenon DEF IInv, Exclusive, IdsKnown, FoundPcs, Stored, Removing, Unmapping
    <3> USE <3>3
    <3>4. \A e : Stored(e)' <=> Stored(e) /\ e # op[t].eid
      BY <3>2, Zenon DEF Stored, Removing, Unmapping, Rest
    <3>5. \A u \in Threads : Share(op'[u]) = Share(op[u])
      BY <3>2, Zenon DEF Share, InsertingAs, Rest, InsertingPcs
    <3>6. \A u \in Threads : int[op[t].eid] \notin Share(op[u])
      BY Zenon DEF IInv, IdsKnown, IdsApart, Share, InsertingAs, Inserting, Stored, InsertingPcs
    <3>7. int[op[t].eid] \in Held /\ int[op[t].eid] # 0
      BY HeldMembers, Zenon DEF IdsKnown, Stored
    <3>8. Held' = Held \ {int[op[t].eid]}
      BY <3>4, <3>5, <3>6, <3>7, HeldMembers, HeldMembersNext, Zenon DEF IInv, IdsApart
    <3> QED
      BY <3>7, <3>8, ContractMoves, Zenon
  <2> QED
    BY <2>2, <2>3, Zenon DEF MarkFree, fsmRest, Fails, Written, Unread, terms
<1>5. CASE MarkedFree(t)
  <2> USE <1>5
  <2>1. /\ Rest /\ UNCHANGED <<vec, int>> /\ op[t].pc = "free"
        /\ fsm[t].pc \in {"ok", "err"} /\ fsm' = [fsm EXCEPT ![t] = IdleCall]
        /\ fsm[t].op = "free" /\ fsm[t].id = op[t].id
    BY Zenon DEF MarkedFree, CallsMatch, CallMatches, FreePcs, Rest, terms
  <2> USE <2>1
  <2>2. CASE Step(t, "delExtMap")
    <3>1. Held' = Held
      BY <2>2, StepHeld, Zenon DEF UnmappingPcs, InsertingPcs
    <3> QED
      BY <3>1, ContractMoves, Zenon
  <2>3. CASE At(t, "err") /\ Finish(t, FALSE)
    <3> USE <2>3
    <3>1. op'[t] = NoOp /\ NoOp.pc = "idle" /\ \A u \in Threads \ {t} : op'[u] = op[u]
      BY FinishGoes, GoesFrame, Zenon
    <3>2. op[t].eid \in DOMAIN int /\ op[t].id = int[op[t].eid]
      BY Zenon DEF IdsKnown, FoundPcs
    <3>3. \A e : Stored(e)' <=> Stored(e) \/ e = op[t].eid
      BY <3>1, <3>2, Zenon DEF IInv, Exclusive, Stored, Removing, Unmapping
    <3>4. \A u \in Threads : Share(op'[u]) = Share(op[u])
      BY <3>1, Zenon DEF Share, InsertingAs, NoOp, InsertingPcs
    <3>5. Held' = Held \cup {fsm[t].id}
      BY <3>2, <3>3, <3>4, HeldMembers, HeldMembersNext, Zenon
    <3> QED
      BY <3>5, ContractMoves, Zenon DEF At, Freeing
  <2> QED
    BY <2>2, <2>3, Zenon DEF MarkedFree, At
<1> QED
  BY <1>1, <1>2, <1>3, <1>4, <1>5, Zenon

LEMMA DeleteStepsKeepContract ==
  ASSUME IInv, OneOwner, "intMap" \notin UnsafeDeletes, NEW t \in Threads,
         DeleteExtMap(t) \/ DeleteIntMap(t) \/ DeleteAttributes(t) \/ DeleteVector(t) \/ Unlink(t)
  PROVE  Contract!ClientNext
<1>0. OpShape /\ IdsKnown
  BY Zenon DEF IInv
\* A deletion that does not touch the IntMap.
<1>1. ASSUME NEW pc, Step(t, pc) \/ StepFails(t, pc), UNCHANGED int,
             0 \in DOMAIN vec' <=> 0 \in DOMAIN vec,
             \/ op[t].pc = "delExtMap" /\ pc = "delIntMap"
             \/ op[t].pc = "delAttributes" /\ pc = "delVector"
             \/ op[t].pc = "delVector" /\ pc = "unlink"
      PROVE  Held' = Held
  <2>1. PICK r : /\ Goes(t, r) /\ r.pc = pc /\ r.kind = op[t].kind
                 /\ r.eid = op[t].eid /\ r.id = op[t].id
    BY <1>0, <1>1, StepGoes, StepFailsGoes
  <2> QED
    BY <1>0, <1>1, <2>1, GoesHeld, Zenon DEF InsertingAs, Inserting, UnmappingPcs, InsertingPcs
<1>2. CASE DeleteExtMap(t)
  <2>1. Rest /\ UNCHANGED <<fsm, vec, int>> /\ op[t].pc = "delExtMap"
    BY <1>2, Zenon DEF DeleteExtMap, Deletes, Rest, Fails
  <2>2. Step(t, "delIntMap") \/ StepFails(t, "delIntMap")
    BY <1>0, <1>2, Zenon DEF DeleteExtMap, Deletes, StepFails, OpShape, OpFields
  <2>3. Held' = Held
    BY <1>1, <2>1, <2>2, Zenon
  <2> QED
    BY <2>1, <2>3, ContractMoves, Zenon
<1>3. CASE DeleteAttributes(t)
  <2>1. Rest /\ UNCHANGED <<fsm, vec, int>> /\ op[t].pc = "delAttributes"
    BY <1>3, Zenon DEF DeleteAttributes, Deletes, Rest, Fails
  <2>2. Step(t, "delVector") \/ StepFails(t, "delVector")
    BY <1>0, <1>3, Zenon DEF DeleteAttributes, Deletes, StepFails, OpShape, OpFields
  <2>3. Held' = Held
    BY <1>1, <2>1, <2>2, Zenon
  <2> QED
    BY <2>1, <2>3, ContractMoves, Zenon
<1>4. CASE DeleteVector(t)
  <2>1. Rest /\ UNCHANGED <<fsm, int>> /\ op[t].pc = "delVector"
    BY <1>4, Zenon DEF DeleteVector, Deletes, Rest, Fails
  <2>2. Step(t, "unlink") \/ StepFails(t, "unlink")
    BY <1>0, <1>4, Zenon DEF DeleteVector, Deletes, StepFails, OpShape, OpFields
  <2>3. 0 \in DOMAIN vec' <=> 0 \in DOMAIN vec
    BY <1>0, <1>4, <2>1, Zenon DEF DeleteVector, Deletes, Del, IdsKnown
  <2>4. Held' = Held
    BY <1>1, <2>1, <2>2, <2>3, Zenon
  <2> QED
    BY <2>1, <2>4, ContractMoves, Zenon
<1>5. CASE Unlink(t)
  <2>1. Rest /\ UNCHANGED <<fsm, vec, int>> /\ op[t].pc = "unlink"
    BY <1>5, Zenon DEF Unlink, Rest, fsmRest, Fails
  <2>2. Held' = Held
    BY <1>0, <1>5, <2>1, FinishHeld, Zenon DEF Unlink, UnmappingPcs, InsertingPcs
  <2> QED
    BY <2>1, <2>2, ContractMoves, Zenon
\* The element that leaves the IntMap was no longer counted.
<1>6. CASE DeleteIntMap(t)
  <2>1. /\ Rest /\ UNCHANGED <<fsm, vec>> /\ op[t].pc = "delIntMap"
        /\ int' = Del(int, op[t].eid) /\ Step(t, "delAttributes")
    BY <1>6, Zenon DEF DeleteIntMap, Deletes, Rest
  <2>2. PICK r : /\ Goes(t, r) /\ r.pc = "delAttributes" /\ r.kind = op[t].kind
                 /\ r.eid = op[t].eid /\ r.id = op[t].id
    BY <1>0, <2>1, StepGoes
  <2>3. op'[t] = r /\ \A u \in Threads \ {t} : op'[u] = op[u]
    BY <1>0, <2>2, GoesFrame, Zenon
  <2>4. /\ DOMAIN int' = DOMAIN int \ {op[t].eid}
        /\ \A e \in DOMAIN int' : int'[e] = int[e]
    BY <2>1, Zenon DEF Del
  <2>5. \A e : Stored(e)' <=> Stored(e)
    BY <2>1, <2>2, <2>3, <2>4, Zenon DEF Stored, Removing, Unmapping
  <2>6. \A u \in Threads : Share(op'[u]) = Share(op[u])
    BY <2>1, <2>2, <2>3, Zenon DEF Share, InsertingAs, InsertingPcs
  <2>7. Held' = Held
    BY <2>1, <2>4, <2>5, <2>6, HeldMembers, HeldMembersNext, Zenon DEF Stored
  <2> QED
    BY <2>1, <2>7, ContractMoves, Zenon
<1> QED
  BY <1>2, <1>3, <1>4, <1>5, <1>6, Zenon

\* Nobody writes or deletes the vector of the start point once it is there.
LEMMA StartVectorStays ==
  ASSUME IInv, [Next]_garnetVars, 0 \in DOMAIN vec
  PROVE  0 \in DOMAIN vec' /\ vec'[0] = vec[0]
<1> USE DEF Doing, terms
<1>1. ASSUME NEW t \in Threads, WriteStartVector(t)
      PROVE  0 \in DOMAIN vec' /\ vec'[0] = vec[0]
  BY <1>1, Zenon DEF WriteStartVector, IInv, StartPoint
<1>2. ASSUME NEW t \in Threads, WriteVector(t)
      PROVE  0 \in DOMAIN vec' /\ vec'[0] = vec[0]
  <2> USE <1>2
  <2>1. op[t].id # 0
    BY Zenon DEF WriteVector, IInv, IdsApart, Inserting
  <2> QED
    BY <2>1, Zenon DEF WriteVector, Put
<1>3. ASSUME NEW t \in Threads, DeleteVector(t)
      PROVE  0 \in DOMAIN vec' /\ vec'[0] = vec[0]
  <2> USE <1>3
  <2>1. op[t].id # 0
    BY Zenon DEF DeleteVector, IInv, IdsKnown
  <2> QED
    BY <2>1, Zenon DEF DeleteVector, Deletes, Del
<1>4. ASSUME NEW t \in Threads, Begin(t) \/ ThreadStep(t),
             ~WriteStartVector(t), ~WriteVector(t), ~DeleteVector(t)
      PROVE  UNCHANGED vec
  BY <1>4, Zenon DEF Begin, ThreadStep, EnsureReady, ReadStartPoint, TakeStartId, StartIdWrong,
     WriteStartList, WriteAttributes, TakeId, WriteExtMap, WriteIntMap, EndUndo, Link, Lookup,
     CheckUsed, SetAttribute, MarkFree, MarkedFree, DeleteExtMap, DeleteIntMap, DeleteAttributes,
     Unlink
<1>5. CASE Restart \/ UNCHANGED garnetVars
  BY <1>5, Zenon DEF Restart, garnetVars
<1> QED
  BY <1>1, <1>2, <1>3, <1>4, <1>5, Zenon DEF Next, Over

-----------------------------------------------------------------------------
(* The map as Garnet, its contract and its proofs see it is one and the same. *)

Fsm == INSTANCE FreeSpaceMapProofs WITH held <- Held

LEMMA MapGivesOwners == Fsm!IInv => OneOwner
BY Zenon DEF Fsm!IInv, Fsm!Shape, Fsm!OneOwner, OneOwner, Fsm!Owns, Fsm!Got, Fsm!Freeing, Fsm!At,
   Got, Freeing, At, Fsm!WellFormed, Fsm!FreePcs, Fsm!Fields, CallFields

\* A step of the map is a step of the map that the contract is about.
LEMMA MapStepIsContract ==
  ASSUME NEW t, FsmStep(t)
  PROVE  Contract!FsmStep(t)
<1> USE DEF Goto, ServerFails, At, BlockOf, IdsOf, AfterMark, Ascending,
            Contract!Goto, Contract!ServerFails, Contract!At, Contract!BlockOf, Contract!IdsOf,
            Contract!AfterMark, Contract!Ascending
<1>1. LoadFlag(t) => Contract!LoadFlag(t)
  BY Zenon DEF LoadFlag, Contract!LoadFlag
<1>2. Pop(t) => Contract!Pop(t)
  BY Zenon DEF Pop, Contract!Pop
<1>3. RefillLock(t) => Contract!RefillLock(t)
  BY Zenon DEF RefillLock, Contract!RefillLock
<1>4. ScanBlock(t) => Contract!ScanBlock(t)
  BY Zenon DEF ScanBlock, Contract!ScanBlock, Cardinality, Contract!Cardinality
<1>5. ScanFails(t) => Contract!ScanFails(t)
  BY Zenon DEF ScanFails, Contract!ScanFails
<1>6. ScanPush(t) => Contract!ScanPush(t)
  BY Zenon DEF ScanPush, Contract!ScanPush
<1>7. ScanEnd(t) => Contract!ScanEnd(t)
  BY Zenon DEF ScanEnd, Contract!ScanEnd
<1>8. Mint(t) => Contract!Mint(t)
  BY Zenon DEF Mint, Contract!Mint
<1>9. Room(t) => Contract!Room(t)
  BY Zenon DEF Room, Contract!Room
<1>10. ExpandTo(t) => Contract!ExpandTo(t)
  BY Zenon DEF ExpandTo, Contract!ExpandTo
<1>11. MarkCheck(t) => Contract!MarkCheck(t)
  BY Zenon DEF MarkCheck, Contract!MarkCheck
<1>12. MarkId(t) => Contract!MarkId(t)
  BY Zenon DEF MarkId, Contract!MarkId
<1>13. QueueFreed(t) => Contract!QueueFreed(t)
  BY Zenon DEF QueueFreed, Contract!QueueFreed
<1>14. FlagFreed(t) => Contract!FlagFreed(t)
  BY Zenon DEF FlagFreed, Contract!FlagFreed
<1> QED
  BY <1>1, <1>2, <1>3, <1>4, <1>5, <1>6, <1>7, <1>8, <1>9, <1>10, <1>11, <1>12, <1>13, <1>14, Zenon
     DEF FsmStep, Contract!FsmStep

LEMMA MapStateIsContract ==
  /\ FsmInit => Contract!FsmInit
  /\ Reopen => Contract!Reopen
<1>1. \A from : LastUsed(from) = Contract!LastUsed(from)
  BY Zenon DEF LastUsed, Contract!LastUsed, BlockOf, Contract!BlockOf
<1> USE <1>1
<1>2. \A S : Cardinality(S) = Contract!Cardinality(S)
  BY Zenon DEF Cardinality, Contract!Cardinality
<1>3. \A S : Ascending(S) = Contract!Ascending(S)
  BY <1>2, Zenon DEF Ascending, Contract!Ascending
<1>4. \A S : Descending(S) = Contract!Descending(S)
  BY <1>2, <1>3, Zenon DEF Descending, Contract!Descending
<1>5. \A from : FreeBelow(from) = Contract!FreeBelow(from)
  BY <1>4, Zenon DEF FreeBelow, Contract!FreeBelow, BlockOf, Contract!BlockOf
<1>6. \A seq, n : UpTo(seq, n) = Contract!UpTo(seq, n)
  BY Zenon DEF UpTo, Contract!UpTo
<1>7. \A from : LoadState(from) => Contract!LoadState(from)
  BY <1>5, <1>6, Zenon DEF LoadState, Contract!LoadState
<1>8. IdleCall = Contract!IdleCall
  BY Zenon DEF IdleCall, Contract!IdleCall
<1>9. FsmInit => Contract!FsmInit
  BY <1>5, <1>6, <1>8, Zenon DEF FsmInit, Contract!FsmInit
<1>10. Reopen => Contract!Reopen
  BY <1>7, <1>8, Zenon DEF Reopen, Contract!Reopen
<1> QED
  BY <1>9, <1>10, Zenon

\* The contract, and the module that proves what it gives.
LEMMA ContractStepIsProved ==
  /\ Contract!ClientInit => Fsm!ClientInit
  /\ [Contract!ClientNext]_(Contract!clientVars) => [Fsm!ClientNext]_(Fsm!clientVars)
<1> USE DEF Contract!Goto, Contract!ServerFails, Contract!At, Contract!BlockOf, Contract!IdsOf,
            Contract!AfterMark, Contract!Ascending, Contract!Cardinality,
            Fsm!Goto, Fsm!ServerFails, Fsm!At, Fsm!BlockOf, Fsm!IdsOf,
            Fsm!AfterMark, Fsm!Ascending, Fsm!Cardinality
<1>1. \A t : Contract!LoadFlag(t) => Fsm!LoadFlag(t)
  BY Zenon DEF Contract!LoadFlag, Fsm!LoadFlag
<1>2. \A t : Contract!Pop(t) => Fsm!Pop(t)
  BY Zenon DEF Contract!Pop, Fsm!Pop
<1>3. \A t : Contract!RefillLock(t) => Fsm!RefillLock(t)
  BY Zenon DEF Contract!RefillLock, Fsm!RefillLock
<1>4. \A t : Contract!ScanBlock(t) => Fsm!ScanBlock(t)
  BY Zenon DEF Contract!ScanBlock, Fsm!ScanBlock
<1>5. \A t : Contract!ScanFails(t) => Fsm!ScanFails(t)
  BY Zenon DEF Contract!ScanFails, Fsm!ScanFails
<1>6. \A t : Contract!ScanPush(t) => Fsm!ScanPush(t)
  BY Zenon DEF Contract!ScanPush, Fsm!ScanPush
<1>7. \A t : Contract!ScanEnd(t) => Fsm!ScanEnd(t)
  BY Zenon DEF Contract!ScanEnd, Fsm!ScanEnd
<1>8. \A t : Contract!Mint(t) => Fsm!Mint(t)
  BY Zenon DEF Contract!Mint, Fsm!Mint
<1>9. \A t : Contract!Room(t) => Fsm!Room(t)
  BY Zenon DEF Contract!Room, Fsm!Room
<1>10. \A t : Contract!ExpandTo(t) => Fsm!ExpandTo(t)
  BY Zenon DEF Contract!ExpandTo, Fsm!ExpandTo
<1>11. \A t : Contract!MarkCheck(t) => Fsm!MarkCheck(t)
  BY Zenon DEF Contract!MarkCheck, Fsm!MarkCheck
<1>12. \A t : Contract!MarkId(t) => Fsm!MarkId(t)
  BY Zenon DEF Contract!MarkId, Fsm!MarkId
<1>13. \A t : Contract!QueueFreed(t) => Fsm!QueueFreed(t)
  BY Zenon DEF Contract!QueueFreed, Fsm!QueueFreed
<1>14. \A t : Contract!FlagFreed(t) => Fsm!FlagFreed(t)
  BY Zenon DEF Contract!FlagFreed, Fsm!FlagFreed
<1>15. \A t : Contract!FsmStep(t) => Fsm!FsmStep(t)
  BY <1>1, <1>2, <1>3, <1>4, <1>5, <1>6, <1>7, <1>8, <1>9, <1>10, <1>11, <1>12, <1>13, <1>14, Zenon
     DEF Contract!FsmStep, Fsm!FsmStep
<1>16. \A t : Contract!CallNextId(t) => Fsm!CallNextId(t)
  BY Zenon DEF Contract!CallNextId, Fsm!CallNextId, Contract!IdleCall, Contract!NextIdCall,
     Contract!MarkFreeCall, Contract!Got, Contract!Freeing, Contract!OthersUnchanged, Fsm!IdleCall,
     Fsm!NextIdCall, Fsm!MarkFreeCall, Fsm!Got, Fsm!Freeing, Fsm!OthersUnchanged
<1>17. \A t : Contract!CallMarkFree(t) => Fsm!CallMarkFree(t)
  BY Zenon DEF Contract!CallMarkFree, Fsm!CallMarkFree, Contract!IdleCall, Contract!NextIdCall,
     Contract!MarkFreeCall, Contract!Got, Contract!Freeing, Contract!OthersUnchanged, Fsm!IdleCall,
     Fsm!NextIdCall, Fsm!MarkFreeCall, Fsm!Got, Fsm!Freeing, Fsm!OthersUnchanged
<1>18. \A t : Contract!Return(t) => Fsm!Return(t)
  BY Zenon DEF Contract!Return, Fsm!Return, Contract!IdleCall, Contract!NextIdCall,
     Contract!MarkFreeCall, Contract!Got, Contract!Freeing, Contract!OthersUnchanged, Fsm!IdleCall,
     Fsm!NextIdCall, Fsm!MarkFreeCall, Fsm!Got, Fsm!Freeing, Fsm!OthersUnchanged
<1>19. \A t : Contract!ReturnAndFree(t) => Fsm!ReturnAndFree(t)
  BY Zenon DEF Contract!ReturnAndFree, Fsm!ReturnAndFree, Contract!IdleCall, Contract!NextIdCall,
     Contract!MarkFreeCall, Contract!Got, Contract!Freeing, Contract!OthersUnchanged, Fsm!IdleCall,
     Fsm!NextIdCall, Fsm!MarkFreeCall, Fsm!Got, Fsm!Freeing, Fsm!OthersUnchanged
<1>20. Contract!Elsewhere => Fsm!Elsewhere
  BY Zenon DEF Contract!Elsewhere, Fsm!Elsewhere, Contract!OthersUnchanged, Fsm!OthersUnchanged
<1>21. \A from : Contract!LoadState(from) => Fsm!LoadState(from)
  BY ZenonT(30) DEF Contract!LoadState, Contract!LastUsed, Contract!FreeBelow, Contract!UpTo,
     Contract!Descending, Fsm!LoadState, Fsm!LastUsed, Fsm!FreeBelow, Fsm!UpTo, Fsm!Descending
<1>22. Contract!Restart => Fsm!Restart
  BY <1>21, Zenon DEF Contract!Restart, Contract!Reopen, Contract!IdleCall, Fsm!Restart,
     Fsm!Reopen, Fsm!IdleCall
<1>23. UNCHANGED Contract!clientVars => UNCHANGED Fsm!clientVars
  BY Zenon DEF Contract!clientVars, Contract!fsmVars, Fsm!clientVars, Fsm!fsmVars
<1>24. Contract!ClientNext => Fsm!ClientNext
  BY <1>15, <1>16, <1>17, <1>18, <1>19, <1>20, <1>22, Zenon DEF Contract!ClientNext, Fsm!ClientNext
<1>25. Contract!ClientInit => Fsm!ClientInit
  BY Zenon DEF Contract!ClientInit, Contract!FsmInit, Contract!LastUsed, Contract!FreeBelow,
     Contract!UpTo, Contract!Descending, Contract!IdleCall, Fsm!ClientInit, Fsm!FsmInit,
     Fsm!LastUsed, Fsm!FreeBelow, Fsm!UpTo, Fsm!Descending, Fsm!IdleCall
<1> QED
  BY <1>23, <1>24, <1>25, Zenon

-----------------------------------------------------------------------------
(* The theorems.  They are about a server that can delete the record of an   *)
(* element in the IntMap.  When it cannot, the element keeps an id that has   *)
(* been given back.                                                          *)

LEMMA NextIsContract ==
  ASSUME IInv, OneOwner, "intMap" \notin UnsafeDeletes, [Next]_garnetVars
  PROVE  [Contract!ClientNext]_(Contract!clientVars)
<1>1. ASSUME NEW t \in Threads, Begin(t) PROVE Contract!ClientNext
  <2> USE <1>1
  <2>1. PICK kind \in Kinds, e \in Elements :
          op' = [op EXCEPT ![t] = [NoOp EXCEPT !.kind = kind, !.eid = e,
                                   !.pc = IF kind = "insert" THEN "ensure" ELSE "exists"]]
    BY Zenon DEF Begin
  <2> DEFINE r == [NoOp EXCEPT !.kind = kind, !.eid = e,
                               !.pc = IF kind = "insert" THEN "ensure" ELSE "exists"]
  <2>2. r.pc \in {"ensure", "exists"} /\ DOMAIN r = OpFields
    BY Zenon DEF NoOp, OpFields
  <2>3. Goes(t, r)
    BY <2>1, <2>2, Zenon DEF Goes
  <2> HIDE DEF r
  <2>4. UNCHANGED <<fsm, fsmRest, errors, vec, int>> /\ op[t].pc = "idle"
    BY Zenon DEF Begin, fsmVars, fsmRest, terms
  <2>5. Held' = Held
    BY <2>2, <2>3, <2>4, GoesHeld, Zenon DEF IInv, UnmappingPcs, InsertingAs, InsertingPcs,
       Inserting
  <2> QED
    BY <2>4, <2>5, ContractMoves, Zenon DEF Rest
<1>2. ASSUME NEW t \in Threads, FsmStep(t) /\ UNCHANGED <<terms, state, op, ghosts>>
      PROVE  Contract!ClientNext
  <2> USE <1>2
  <2>1. Held' = Held
    BY Zenon DEF Held, Removing, Unmapping, Inserting, terms
  <2>2. Contract!FsmStep(t)
    BY MapStepIsContract, Zenon
  <2> QED
    BY <2>1, <2>2, Zenon DEF Contract!ClientNext
<1>3. ASSUME NEW t \in Threads, ThreadStep(t) PROVE [Contract!ClientNext]_(Contract!clientVars)
  BY <1>2, <1>3, StartPointStepsKeepContract, InsertStepsKeepContract, WriteIntMapKeepsContract,
     RemoveStepsKeepContract, DeleteStepsKeepContract, Zenon DEF ThreadStep
<1>4. CASE Restart
  <2> USE <1>4
  <2>1. Contract!Reopen
    BY MapStateIsContract, Zenon DEF Restart
  <2>2. /\ \A t \in Threads : op'[t] = NoOp /\ ~Unmapping(t)
        /\ UNCHANGED <<vec, int>> /\ NoOp.pc = "idle" /\ NoOp.kind = "none"
    BY Zenon DEF Restart, terms, NoOp
  <2> USE <2>2
  <2>3. \A e : Stored(e)' => Stored(e)
    BY Zenon DEF Stored, Removing
  <2>4. \A t \in Threads : Share(op'[t]) = {}
    BY Zenon DEF Share, InsertingAs
  <2>5. Held' \subseteq Held
    BY <2>3, <2>4, HeldMembers, HeldMembersNext, Zenon
  <2>6. Contract!Restart
    BY <2>1, <2>5, Zenon DEF Contract!Restart
  <2> QED
    BY <2>6, Zenon DEF Contract!ClientNext
<1>5. CASE UNCHANGED garnetVars
  <2> USE <1>5
  <2>1. Held' = Held
    BY Zenon DEF garnetVars, terms, Held, Removing, Unmapping, Inserting
  <2> QED
    BY <2>1, Zenon DEF garnetVars, fsmVars, Contract!clientVars, Contract!fsmVars
<1> QED
  BY <1>1, <1>3, <1>4, <1>5, Zenon DEF Next, Over

LEMMA InitIsContract == Init => Contract!ClientInit
<1> SUFFICES ASSUME Init PROVE Contract!ClientInit
  BY Zenon
<1>1. PICK store \in Stores :
        /\ used = store.used /\ blocks = store.blocks /\ int = store.int
        /\ ext = [i \in {int[e] : e \in DOMAIN int} |-> CHOOSE e \in DOMAIN int : int[e] = i]
        /\ vec = IF 0 \in used THEN Put(ext, 0, "start") ELSE ext
  BY Zenon DEF Init
<1>2. /\ blocks \in Nat \ {0} /\ used \subseteq 0..(blocks * BlockSize - 1)
      /\ \A e \in DOMAIN int : int[e] \in used \ {0}
  BY <1>1, StoresAssumption, Zenon
<1> USE <1>2
<1>3. \A t \in Threads : Share(op[t]) = {}
  BY Zenon DEF Init, NoOp, Share, InsertingAs
<1>4. 0 \in DOMAIN vec => 0 \in used
  BY <1>1, Zenon DEF Put
<1>5. Held \subseteq used
  BY <1>3, <1>4, HeldMembers DEF Stored
<1>6. Contract!FsmInit
  BY MapStateIsContract, Zenon DEF Init
<1> QED
  BY <1>5, <1>6, Zenon DEF Contract!ClientInit

\* The invariant of the map and that of the provider, together.
Joint == Fsm!IInv /\ IInv

LEMMA JointInvariant ==
  ASSUME "intMap" \notin UnsafeDeletes
  PROVE  Spec => []Joint
<1>0. (Fsm!ClientInit => Fsm!IInv) /\ (Fsm!IInv /\ [Fsm!ClientNext]_(Fsm!clientVars) => Fsm!IInv')
  BY BlockSizePositive, FastSizePositive, MaxErrorsNat, Fsm!InitInv, Fsm!NextInv, Zenon
<1>1. Init => Joint
  <2>1. Init => Fsm!ClientInit
    BY InitIsContract, ContractStepIsProved, Zenon
  <2> QED
    BY <1>0, <2>1, InitGivesInv, Zenon DEF Joint
<1>2. Joint /\ [Next]_garnetVars => Joint'
  <2> SUFFICES ASSUME Joint, [Next]_garnetVars PROVE Joint'
    BY Zenon
  <2>1. IInv /\ OneOwner
    BY MapGivesOwners, Zenon DEF Joint
  <2>2. IInv'
    BY <2>1, StepKeepsInv, Zenon
  <2>3. [Fsm!ClientNext]_(Fsm!clientVars)
    BY <2>1, NextIsContract, ContractStepIsProved, Zenon
  <2>4. Fsm!IInv'
    BY <1>0, <2>3, Zenon DEF Joint
  <2> QED
    BY <2>2, <2>4, Zenon DEF Joint
<1> QED
  BY <1>1, <1>2, PTL DEF Spec

(***************************************************************************)
(* The provider implements the abstract user of the free space map: it     *)
(* gives back only ids that belong to someone, each once (set_element,     *)
(* delete, maybe_set_start_point in provider.rs).                          *)
(***************************************************************************)
THEOREM ProviderKeepsContract ==
  ASSUME "intMap" \notin UnsafeDeletes
  PROVE  Spec => KeepsContract
<1>1. Init => Contract!ClientInit
  BY InitIsContract, Zenon
<1>2. Joint /\ [Next]_garnetVars => [Contract!ClientNext]_(Contract!clientVars)
  BY MapGivesOwners, NextIsContract, Zenon DEF Joint
<1> QED
  BY <1>1, <1>2, JointInvariant, PTL DEF Spec, KeepsContract, Contract!ClientSpec

(***************************************************************************)
(* So an id that next_id has returned to the provider is not in use by     *)
(* anyone else, whatever the threads, failures and restarts do (fsm.rs,    *)
(* "The returned ID is marked as used").                                   *)
(***************************************************************************)
THEOREM IdsGivenOnce ==
  ASSUME "intMap" \notin UnsafeDeletes
  PROVE  Spec => []Contract!HeldOnce
<1>1. Joint => Contract!HeldOnce
  BY Zenon DEF Joint, Fsm!IInv, Fsm!OneOwner, Fsm!Owns, Fsm!Got, Fsm!Freeing, Fsm!At,
     Contract!HeldOnce, Contract!Got, Contract!Freeing, Contract!At
<1> QED
  BY <1>1, JointInvariant, PTL

(***************************************************************************)
(* Records are not mixed up: the ExtMap entry and the vector found under   *)
(* the internal id of a stored element are its own, or are not there.      *)
(***************************************************************************)
THEOREM AlwaysOwnRecords ==
  ASSUME "intMap" \notin UnsafeDeletes
  PROVE  Spec => []OwnRecords
<1>1. Joint => OwnRecords
  <2> SUFFICES ASSUME Joint, NEW e \in DOMAIN int, ~Removing(e)
               PROVE  /\ int[e] \in used /\ int[e] # 0
                      /\ int[e] \in DOMAIN ext => ext[int[e]] = e
                      /\ int[e] \in DOMAIN vec => vec[int[e]] = e
    BY Zenon DEF OwnRecords
  <2>1. IInv /\ OneOwner /\ Stored(e)
    BY MapGivesOwners, Zenon DEF Joint, Stored
  <2>2. int[e] \in used
    BY <2>1, HeldMembers, Zenon DEF OneOwner
  <2> QED
    BY <2>1, <2>2, Zenon DEF IInv, IdsKnown, RecordsOwn, ExtOf, VecOf
<1> QED
  BY <1>1, JointInvariant, PTL

(***************************************************************************)
(* An index that is ready has its start point, under id zero, and its      *)
(* vector is never written again (maybe_set_start_point, create_index).    *)
(***************************************************************************)
THEOREM StartPointIsKept ==
  ASSUME "intMap" \notin UnsafeDeletes
  PROVE  Spec => StartPointKept
<1>1. Joint => OneOwner
  BY MapGivesOwners, Zenon DEF Joint
<1>2. Joint /\ Joint' /\ OneOwner' /\ [Next]_garnetVars =>
        /\ state' = "Ready" => 0 \in used' /\ 0 \in DOMAIN vec' /\ 0 \in DOMAIN nbr'
        /\ 0 \in DOMAIN vec => 0 \in DOMAIN vec' /\ vec'[0] = vec[0]
  <2> SUFFICES ASSUME Joint, Joint', OneOwner', [Next]_garnetVars
               PROVE  /\ state' = "Ready" => 0 \in used' /\ 0 \in DOMAIN vec' /\ 0 \in DOMAIN nbr'
                      /\ 0 \in DOMAIN vec => 0 \in DOMAIN vec' /\ vec'[0] = vec[0]
    BY Zenon
  <2>1. state' = "Ready" => 0 \in DOMAIN vec' /\ 0 \in DOMAIN nbr'
    BY Zenon DEF Joint, IInv, StartPoint
  <2>2. Held' \subseteq used'
    BY Zenon DEF OneOwner
  <2>3. 0 \in DOMAIN vec' => 0 \in used'
    BY <2>2, HeldMembersNext, Zenon
  <2>4. 0 \in DOMAIN vec => 0 \in DOMAIN vec' /\ vec'[0] = vec[0]
    BY StartVectorStays, Zenon DEF Joint
  <2> QED
    BY <2>1, <2>3, <2>4, Zenon
<1> QED
  BY <1>1, <1>2, JointInvariant, PTL DEF Spec, StartPointKept
=============================================================================
