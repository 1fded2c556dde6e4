----------------------------- MODULE IdClients ------------------------------
(***************************************************************************)
(* What the users of the free space map must keep to: an id belongs to      *)
(* someone from the end of the next_id that gave it out until the call of   *)
(* mark_free that gives it back, mark_free is called once and for an id     *)
(* that belongs to someone, and an id may be forgotten.  Under this         *)
(* contract no id is given out twice, for every number of threads, every    *)
(* size of the blocks and the queue, and however calls, failures of the     *)
(* server and restarts interleave (FreeSpaceMapProofs).                     *)
(***************************************************************************)
EXTENDS FreeSpaceMap

VARIABLE held           \* the ids that belong to someone

clientVars == <<fsmVars, held>>

\* The map is as it was; the server may have failed in something else.
OthersUnchanged == /\ UNCHANGED <<used, blocks, hasFree, freeList, maxBlock, lock, nextId>>
                   /\ errors' \in {errors, errors + 1}

\* Any blocks that an earlier process has left.
ClientInit ==
    /\ blocks \in Nat \ {0}
    /\ used \in SUBSET (0..(blocks * BlockSize - 1))
    /\ held \in SUBSET used
    /\ FsmInit

CallNextId(t) ==
    /\ At(t, "idle")
    /\ fsm' = [fsm EXCEPT ![t] = NextIdCall]
    /\ UNCHANGED held
    /\ OthersUnchanged

CallMarkFree(t) ==
    /\ At(t, "idle")
    /\ \E id \in held : /\ fsm' = [fsm EXCEPT ![t] = MarkFreeCall(id)]
                        /\ held' = held \ {id}
    /\ OthersUnchanged

\* The caller takes the result.  An id that could not be given back belongs to
\* the one it belonged to.
Return(t) ==
    /\ fsm[t].pc \in {"ok", "err"}
    /\ fsm' = [fsm EXCEPT ![t] = IdleCall]
    /\ held' \in {held, IF Got(t) \/ Freeing(t) THEN held \cup {fsm[t].id} ELSE held}
    /\ OthersUnchanged

\* The caller takes the id and, in the same step, gives it back.
ReturnAndFree(t) ==
    /\ Got(t)
    /\ fsm' = [fsm EXCEPT ![t] = MarkFreeCall(fsm[t].id)]
    /\ UNCHANGED held
    /\ OthersUnchanged

\* The caller does something else, and may forget an id.
Elsewhere ==
    /\ held' \in {held} \cup {held \ {id} : id \in held}
    /\ UNCHANGED fsm
    /\ OthersUnchanged

Restart ==
    /\ Reopen
    /\ held' \in SUBSET held

ClientNext ==
    \/ \E t \in Threads : \/ FsmStep(t) /\ UNCHANGED held
                          \/ CallNextId(t) \/ CallMarkFree(t) \/ Return(t) \/ ReturnAndFree(t)
    \/ Elsewhere
    \/ Restart

ClientSpec == ClientInit /\ [][ClientNext]_clientVars

\* No id is given out twice (next_id, "The returned ID is marked as used"): an
\* id that a call has just returned belongs to no one, is not what another call
\* returned or is giving back, and every id that belongs to someone is marked.
HeldOnce ==
    /\ held \subseteq used
    /\ \A t \in Threads : Got(t) =>
          /\ fsm[t].id \in used \ held
          /\ \A u \in Threads \ {t} : (Got(u) \/ Freeing(u)) => fsm[u].id # fsm[t].id
=============================================================================
