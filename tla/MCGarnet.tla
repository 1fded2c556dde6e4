------------------------------ MODULE MCGarnet ------------------------------
(***************************************************************************)
(* An instance of Garnet: two threads, two elements, blocks of two ids, a   *)
(* queue of one.                                                           *)
(***************************************************************************)
EXTENDS GarnetContract, TLC

CONSTANTS e1, e2

MCElements == {e1, e2}

Fresh == [used |-> {}, blocks |-> 1, int |-> <<>>]

\* Two elements and the start point, in two blocks.
Filled == [used |-> {0, 1, 2}, blocks |-> 2, int |-> (e1 :> 1) @@ (e2 :> 2)]

\* The only block is full.
Full == [used |-> {0, 1}, blocks |-> 1, int |-> e1 :> 1]

\* Elements were removed: two ids are free, and one of them fits the queue.
Holed == [used |-> {0, 3}, blocks |-> 2, int |-> e1 :> 3]

MCStores == {Fresh, Full, Filled, Holed}

MCFull == {Full}
=============================================================================
