------------------------------- MODULE Garnet -------------------------------
(***************************************************************************)
(* A vector set of the Garnet server (DiskANN/diskann-garnet/src: lib.rs,  *)
(* dyn_index.rs, provider.rs) on its free space map: threads of the server  *)
(* insert and remove elements and set attributes.  Every element has an     *)
(* external id and gets an internal one; the server keeps five records of   *)
(* it, and reads, writes and deletes each of them atomically, one after the *)
(* other.                                                                  *)
(*                                                                         *)
(* A vector, or an adjacency list, stands for the external id that it was  *)
(* written for.  The graph's part in an insertion is the step Link, and in  *)
(* a removal the step Unlink; GraphUpdate models it.  Operations on one    *)
(* external id do not overlap.                                             *)
(***************************************************************************)
EXTENDS FreeSpaceMap

CONSTANTS Elements,     \* external ids
          Stores,       \* what an earlier process left: see Init
          MaxOps,       \* bound on the operations
          MaxRestarts,  \* bound on the restarts
          UnsafeDeletes \* the records of a removed element whose deletion may fail

\* The ids of the elements are distinct, marked, and not that of the start point.
ASSUME StoresAssumption ==
    \A s \in Stores :
        /\ s.blocks \in Nat \ {0}
        /\ s.used \subseteq 0..(s.blocks * BlockSize - 1)
        /\ \A e \in DOMAIN s.int : s.int[e] \in s.used \ {0}
        /\ \A e, f \in DOMAIN s.int : s.int[e] = s.int[f] => e = f

VARIABLES vec,          \* Term::Vector: internal id -> vector
          ext,          \* Term::ExtMap: internal id -> external id
          int,          \* Term::IntMap: external id -> internal id
          attr,         \* Term::Attributes: the external ids that have some
          nbr,          \* Term::Neighbors: internal id -> adjacency list
          state,        \* Index.state, "none" without an index
          op,           \* the operation of every thread
          ops,          \* operations so far
          restarts,     \* restarts so far
          present       \* the elements inserted with success and not touched since

terms == <<vec, ext, int, attr, nbr>>
ghosts == <<ops, restarts, present>>
garnetVars == <<fsmVars, terms, state, op, ghosts>>
fsmRest == <<used, blocks, hasFree, freeList, maxBlock, lock, nextId>>

Put(f, k, v) == [x \in DOMAIN f \cup {k} |-> IF x = k THEN v ELSE f[x]]
Del(f, k) == [x \in DOMAIN f \ {k} |-> f[x]]

Empty == "empty"        \* an adjacency list without entries

NoOp == [kind |-> "none", eid |-> "none", pc |-> "idle", id |-> 0, ok |-> TRUE]

Kinds == {"insert", "remove", "attribute"}

\* What GarnetProvider::new finds: a map of `blocks` blocks with the ids in
\* `used`, the elements `int`, and the start point unless it is empty.
Init ==
    /\ \E store \in Stores :
          /\ used = store.used /\ blocks = store.blocks /\ int = store.int
          /\ attr = DOMAIN int
          /\ ext = [i \in {int[e] : e \in DOMAIN int} |-> CHOOSE e \in DOMAIN int : int[e] = i]
          /\ vec = IF 0 \in used THEN Put(ext, 0, "start") ELSE ext
          /\ nbr = IF 0 \in used THEN Put(ext, 0, Empty) ELSE ext
    /\ FsmInit
    /\ state = IF 0 \in used THEN "Ready" ELSE "NoStartPoints"
    /\ op = [t \in Threads |-> NoOp]
    /\ ops = 0 /\ restarts = 0 /\ present = DOMAIN int

Doing(t, kind, pc) == op[t].kind = kind /\ op[t].pc = pc

Step(t, pc) == op' = [op EXCEPT ![t].pc = pc]

\* The operation returns; ok is what it tells the server.
Finish(t, ok) ==
    /\ op' = [op EXCEPT ![t] = NoOp]
    /\ present' = IF ok /\ op[t].kind = "insert" THEN present \cup {op[t].eid} ELSE present
    /\ UNCHANGED <<ops, restarts>>

Fails == errors < MaxErrors /\ errors' = errors + 1

\* A record is not there, or the server fails to read it.
Unread(k, records) == \/ k \notin DOMAIN records /\ UNCHANGED errors
                      \/ k \in DOMAIN records /\ Fails

\* A write to the server that may fail: the operation goes on at pc or ends.
Written(t, pc) == Step(t, pc) /\ UNCHANGED <<errors, ghosts>>

Begin(t) ==
    /\ op[t].pc = "idle"
    /\ state # "none"
    /\ ops < MaxOps
    /\ ops' = ops + 1
    /\ \E kind \in Kinds, e \in Elements :
          /\ \A u \in Threads : op[u].pc # "idle" => op[u].eid # e
          /\ op' = [op EXCEPT ![t] = [NoOp EXCEPT !.kind = kind, !.eid = e,
                                !.pc = IF kind = "insert" THEN "ensure" ELSE "exists"]]
          /\ present' = IF kind = "attribute" THEN present ELSE present \ {e}
    /\ UNCHANGED <<fsmVars, terms, state, restarts>>

-----------------------------------------------------------------------------
(* insert: ensure_index_ready_or_init and maybe_set_start_point *)

\* A thread that finds another one setting the start point spins.
EnsureReady(t) ==
    /\ Doing(t, "insert", "ensure")
    /\ \/ /\ state = "Ready"
          /\ Step(t, "attributes")
          /\ UNCHANGED state
       \/ /\ state = "NoStartPoints"
          /\ state' = "SettingStartPoints"
          /\ Step(t, "start")
       \/ /\ state = "SettingStartPoints"
          /\ UNCHANGED <<state, op>>
    /\ UNCHANGED <<fsmVars, terms, ghosts>>

\* A fault: a failed initialisation leaves the state as it is.
InitFailsSilently(t) == UNCHANGED state /\ Finish(t, FALSE)

InitFails(t) == state' = "NoStartPoints" /\ Finish(t, FALSE)

\* The start point of an earlier process is used, if both its records can be
\* read.  A read that fails and a record that is not there are the same.
ReadStartPoint(t) ==
    /\ Doing(t, "insert", "start")
    /\ \/ /\ {0} \subseteq DOMAIN vec \cap DOMAIN nbr
          /\ state' = "Ready"
          /\ Written(t, "attributes")
          /\ UNCHANGED fsm
       \/ /\ 0 \in DOMAIN vec
          /\ Unread(0, nbr)
          /\ InitFails(t)
          /\ UNCHANGED fsm
       \/ /\ Unread(0, vec)
          /\ fsm' = [fsm EXCEPT ![t] = NextIdCall]
          /\ Step(t, "startId")
          /\ UNCHANGED <<state, ghosts>>
    /\ UNCHANGED <<fsmRest, terms>>

\* The id of the start point must be zero; any other is given back.
TakeStartId(t) ==
    /\ Doing(t, "insert", "startId")
    /\ fsm[t].pc \in {"ok", "err"}
    /\ \/ /\ At(t, "err")
          /\ fsm' = [fsm EXCEPT ![t] = IdleCall]
          /\ InitFails(t)
       \/ /\ At(t, "ok") /\ fsm[t].id = 0
          /\ fsm' = [fsm EXCEPT ![t] = IdleCall]
          /\ Step(t, "startVector")
          /\ UNCHANGED <<state, ghosts>>
       \/ /\ At(t, "ok") /\ fsm[t].id # 0
          /\ fsm' = [fsm EXCEPT ![t] = MarkFreeCall(fsm[t].id)]
          /\ Step(t, "startBack")
          /\ UNCHANGED <<state, ghosts>>
    /\ UNCHANGED <<fsmRest, errors, terms>>

StartIdWrong(t) ==
    /\ Doing(t, "insert", "startBack")
    /\ fsm[t].pc \in {"ok", "err"}
    /\ fsm' = [fsm EXCEPT ![t] = IdleCall]
    /\ InitFails(t)
    /\ UNCHANGED <<fsmRest, errors, terms>>

WriteStartVector(t) ==
    /\ Doing(t, "insert", "startVector")
    /\ \/ /\ vec' = Put(vec, 0, op[t].eid)
          /\ Written(t, "startList")
          /\ UNCHANGED state
       \/ /\ Fails
          /\ InitFails(t)
          /\ UNCHANGED vec
    /\ UNCHANGED <<fsmRest, fsm, ext, int, attr, nbr>>

\* The list of the start point; with it the caches are filled and the index is ready.
WriteStartList(t) ==
    /\ Doing(t, "insert", "startList")
    /\ \/ /\ nbr' = Put(nbr, 0, Empty)
          /\ state' = "Ready"
          /\ Written(t, "attributes")
       \/ /\ Fails
          /\ InitFails(t)
          /\ UNCHANGED nbr
    /\ UNCHANGED <<fsmRest, fsm, vec, ext, int, attr>>

-----------------------------------------------------------------------------
(* insert: attributes, set_element, and the graph *)

WriteAttributes(t) ==
    /\ Doing(t, "insert", "attributes")
    /\ \/ /\ attr' = attr \cup {op[t].eid}
          /\ fsm' = [fsm EXCEPT ![t] = NextIdCall]
          /\ Written(t, "id")
       \/ /\ Fails
          /\ Finish(t, FALSE)
          /\ UNCHANGED <<attr, fsm>>
    /\ UNCHANGED <<fsmRest, vec, ext, int, nbr, state>>

TakeId(t) ==
    /\ Doing(t, "insert", "id")
    /\ fsm[t].pc \in {"ok", "err"}
    /\ fsm' = [fsm EXCEPT ![t] = IdleCall]
    /\ \/ /\ At(t, "ok")
          /\ op' = [op EXCEPT ![t].pc = "vector", ![t].id = fsm[t].id]
          /\ UNCHANGED ghosts
       \/ /\ At(t, "err")
          /\ Finish(t, FALSE)
    /\ UNCHANGED <<fsmRest, errors, terms, state>>

\* A fault: the id that the element is known by is given back.
UndoInsertMapped(t) ==
    /\ Fails
    /\ fsm' = [fsm EXCEPT ![t] = MarkFreeCall(IF op[t].eid \in DOMAIN int THEN int[op[t].eid] ELSE op[t].id)]
    /\ Step(t, "undo")
    /\ UNCHANGED ghosts

\* A record of the new element cannot be written: its id is given back.
UndoInsert(t) ==
    /\ Fails
    /\ fsm' = [fsm EXCEPT ![t] = MarkFreeCall(op[t].id)]
    /\ Step(t, "undo")
    /\ UNCHANGED ghosts

WriteVector(t) ==
    /\ Doing(t, "insert", "vector")
    /\ \/ vec' = Put(vec, op[t].id, op[t].eid) /\ Written(t, "extMap") /\ UNCHANGED fsm
       \/ UndoInsert(t) /\ UNCHANGED vec
    /\ UNCHANGED <<fsmRest, ext, int, attr, nbr, state>>

WriteExtMap(t) ==
    /\ Doing(t, "insert", "extMap")
    /\ \/ ext' = Put(ext, op[t].id, op[t].eid) /\ Written(t, "intMap") /\ UNCHANGED fsm
       \/ UndoInsert(t) /\ UNCHANGED ext
    /\ UNCHANGED <<fsmRest, vec, int, attr, nbr, state>>

WriteIntMap(t) ==
    /\ Doing(t, "insert", "intMap")
    /\ \/ int' = Put(int, op[t].eid, op[t].id) /\ Written(t, "link") /\ UNCHANGED fsm
       \/ UndoInsert(t) /\ UNCHANGED int
    /\ UNCHANGED <<fsmRest, vec, ext, attr, nbr, state>>

EndUndo(t) ==
    /\ Doing(t, "insert", "undo")
    /\ fsm[t].pc \in {"ok", "err"}
    /\ fsm' = [fsm EXCEPT ![t] = IdleCall]
    /\ Finish(t, FALSE)
    /\ UNCHANGED <<fsmRest, errors, terms, state>>

\* set_neighbors of the new element.  A failure leaves the element in place.
Link(t) ==
    /\ Doing(t, "insert", "link")
    /\ \/ nbr' = Put(nbr, op[t].id, op[t].eid) /\ Finish(t, TRUE) /\ UNCHANGED errors
       \/ Fails /\ Finish(t, FALSE) /\ UNCHANGED nbr
    /\ UNCHANGED <<fsmRest, fsm, vec, ext, int, attr, state>>

-----------------------------------------------------------------------------
(* remove and set_attribute *)

\* external_id_exists: the internal id, and its bit in the map.
Lookup(t) ==
    /\ op[t].pc = "exists"
    /\ \/ /\ op[t].eid \in DOMAIN int
          /\ op' = [op EXCEPT ![t].pc = "used", ![t].id = int[op[t].eid]]
          /\ UNCHANGED <<errors, ghosts>>
       \/ /\ Unread(op[t].eid, int)
          /\ Finish(t, FALSE)
    /\ UNCHANGED <<fsmRest, fsm, terms, state>>

CheckUsed(t) ==
    /\ op[t].pc = "used"
    /\ lock = {}
    /\ \/ IsUsed(op[t].id) /\ Written(t, IF op[t].kind = "remove" THEN "delete" ELSE "set")
       \/ ~IsUsed(op[t].id) /\ Finish(t, FALSE) /\ UNCHANGED errors
       \/ Fails /\ Finish(t, FALSE)
    /\ UNCHANGED <<fsmRest, fsm, terms, state>>

SetAttribute(t) ==
    /\ op[t].pc = "set"
    /\ \/ attr' = attr \cup {op[t].eid} /\ Finish(t, TRUE) /\ UNCHANGED errors
       \/ Fails /\ Finish(t, FALSE) /\ UNCHANGED attr
    /\ UNCHANGED <<fsmRest, fsm, vec, ext, int, nbr, state>>

\* inplace_delete and Delete::delete read the IntMap again, and the id is marked
\* free before the records go.
MarkFree(t) ==
    /\ op[t].pc = "delete"
    /\ \/ /\ op[t].eid \in DOMAIN int
          /\ fsm' = [fsm EXCEPT ![t] = MarkFreeCall(int[op[t].eid])]
          /\ Written(t, "free")
       \/ /\ Unread(op[t].eid, int)
          /\ Finish(t, FALSE)
          /\ UNCHANGED fsm
    /\ UNCHANGED <<fsmRest, terms, state>>

MarkedFree(t) ==
    /\ op[t].pc = "free"
    /\ fsm[t].pc \in {"ok", "err"}
    /\ fsm' = [fsm EXCEPT ![t] = IdleCall]
    /\ IF At(t, "ok") THEN Step(t, "delExtMap") /\ UNCHANGED ghosts ELSE Finish(t, FALSE)
    /\ UNCHANGED <<fsmRest, errors, terms, state>>

\* One deletion: the removal goes on at pc whether it succeeds or not.
Deletes(t, record, new, old, pc) ==
    /\ \/ /\ new
          /\ Step(t, pc)
          /\ UNCHANGED errors
       \/ /\ record \in UnsafeDeletes
          /\ Fails
          /\ UNCHANGED old
          /\ op' = [op EXCEPT ![t].pc = pc, ![t].ok = FALSE]
    /\ UNCHANGED <<fsmRest, fsm, state, ghosts>>

DeleteExtMap(t) ==
    /\ op[t].pc = "delExtMap"
    /\ Deletes(t, "extMap", ext' = Del(ext, op[t].id), ext, "delIntMap")
    /\ UNCHANGED <<vec, int, attr, nbr>>

DeleteIntMap(t) ==
    /\ op[t].pc = "delIntMap"
    /\ Deletes(t, "intMap", int' = Del(int, op[t].eid), int, "delAttributes")
    /\ UNCHANGED <<vec, ext, attr, nbr>>

DeleteAttributes(t) ==
    /\ op[t].pc = "delAttributes"
    /\ Deletes(t, "attributes", attr' = attr \ {op[t].eid}, attr, "delVector")
    /\ UNCHANGED <<vec, ext, int, nbr>>

DeleteVector(t) ==
    /\ op[t].pc = "delVector"
    /\ Deletes(t, "vector", vec' = Del(vec, op[t].id), vec, "unlink")
    /\ UNCHANGED <<ext, int, attr, nbr>>

\* The graph is repaired around the element; its own list is emptied last.
Unlink(t) ==
    /\ op[t].pc = "unlink"
    /\ \/ op[t].ok /\ nbr' = Put(nbr, op[t].id, Empty) /\ Finish(t, TRUE) /\ UNCHANGED errors
       \/ ~op[t].ok /\ Finish(t, FALSE) /\ UNCHANGED <<nbr, errors>>
       \/ op[t].ok /\ Fails /\ Finish(t, FALSE) /\ UNCHANGED nbr
    /\ UNCHANGED <<fsmRest, fsm, vec, ext, int, attr, state>>

-----------------------------------------------------------------------------
(* drop_index or the end of the process, and create_index *)

\* A removal whose id is free, or about to be, and still in the IntMap.
Unmapping(t) == op[t].pc \in {"free", "delExtMap", "delIntMap"}

\* A fault: the list of the start point is taken to be there.
CreateStateTrusting == IF 0 \notin DOMAIN vec THEN "NoStartPoints" ELSE "Ready"

\* A start point without its list ends create_index with an error.
CreateState == IF 0 \notin DOMAIN vec THEN "NoStartPoints"
               ELSE IF 0 \in DOMAIN nbr THEN "Ready" ELSE "none"

\* While records cannot be read, the start point is not seen, or the index not
\* created.
Restart ==
    /\ restarts < MaxRestarts
    /\ \A t \in Threads : Unmapping(t) => "intMap" \in UnsafeDeletes
    /\ Reopen
    /\ state' \in {CreateState} \cup (IF errors' = errors THEN {} ELSE {"NoStartPoints", "none"})
    /\ op' = [t \in Threads |-> NoOp]
    /\ restarts' = restarts + 1
    /\ UNCHANGED <<terms, ops, present>>

-----------------------------------------------------------------------------

ThreadStep(t) ==
    \/ FsmStep(t) /\ UNCHANGED <<terms, state, op, ghosts>>
    \/ EnsureReady(t) \/ ReadStartPoint(t) \/ TakeStartId(t) \/ StartIdWrong(t)
    \/ WriteStartVector(t) \/ WriteStartList(t)
    \/ WriteAttributes(t) \/ TakeId(t) \/ WriteVector(t) \/ WriteExtMap(t) \/ WriteIntMap(t)
    \/ EndUndo(t) \/ Link(t)
    \/ Lookup(t) \/ CheckUsed(t) \/ SetAttribute(t) \/ MarkFree(t) \/ MarkedFree(t)
    \/ DeleteExtMap(t) \/ DeleteIntMap(t) \/ DeleteAttributes(t) \/ DeleteVector(t) \/ Unlink(t)

\* Nobody is at work and nobody begins.
Over ==
    /\ \A t \in Threads : op[t].pc = "idle"
    /\ UNCHANGED garnetVars

Next ==
    \/ \E t \in Threads : Begin(t) \/ ThreadStep(t)
    \/ Restart
    \/ Over

Spec == Init /\ [][Next]_garnetVars

\* The scheduler runs every thread of the server that is in an operation.
FairSpec == Spec /\ \A t \in Threads : WF_garnetVars(ThreadStep(t))

-----------------------------------------------------------------------------
(* Properties *)

\* Thread t has an internal id for an element that is not in the IntMap yet.
Inserting(t) == op[t].kind = "insert" /\ op[t].pc \in {"vector", "extMap", "intMap"}

Removing(e) == \E t \in Threads : Unmapping(t) /\ op[t].eid = e

\* Whose the internal ids are: elements that are stored, elements that are
\* being stored, and the start point.
Held == {int[e] : e \in {e \in DOMAIN int : ~Removing(e)}}
        \cup {op[t].id : t \in {t \in Threads : Inserting(t)}}
        \cup {0 : t \in {t \in Threads : op[t].pc = "startVector"}}
        \cup ({0} \cap DOMAIN vec)

\* Records are not mixed up: what is found under the internal id of a stored
\* element was written for that element, or is not there.  A search returns
\* the external id it finds there (CopyExternalIds::post_process).
OwnRecords ==
    \A e \in DOMAIN int : ~Removing(e) =>
        /\ int[e] \in used
        /\ int[e] # 0
        /\ int[e] \in DOMAIN ext => ext[int[e]] = e
        /\ int[e] \in DOMAIN vec => vec[int[e]] = e

\* An index that is ready has its start point: both records are there, id 0 is
\* taken, and the vector stays what it was for every process to come
\* (ensure_index_ready_or_init, GarnetProvider::new).
StartPointKept ==
    [][/\ state' = "Ready" => 0 \in used' /\ 0 \in DOMAIN vec' /\ 0 \in DOMAIN nbr'
       /\ 0 \in DOMAIN vec => 0 \in DOMAIN vec' /\ vec'[0] = vec[0]]_garnetVars

\* Every operation returns: no thread spins forever on the start point, on ids
\* that others take away, or on the lock (ensure_index_ready_or_init, next_id).
EventuallyReturns == \A t \in Threads : op[t].pc # "idle" ~> op[t].pc = "idle"

\* An element that was inserted with success, and that no operation touched
\* since, has all its records (fsm.rs: "we try to order operations so that
\* concurrency conflicts are benign").
InsertedReadable ==
    \A e \in present :
        /\ e \in DOMAIN int
        /\ int[e] \in DOMAIN ext /\ ext[int[e]] = e
        /\ int[e] \in DOMAIN vec /\ vec[int[e]] = e
        /\ int[e] \in DOMAIN nbr /\ nbr[int[e]] = e
=============================================================================
