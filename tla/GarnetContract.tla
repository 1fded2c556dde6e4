--------------------------- MODULE GarnetContract ---------------------------
(***************************************************************************)
(* The provider of vector sets (module Garnet) as a client of the free     *)
(* space map: the contract of module IdClients, with the ids that belong   *)
(* to an element, an insertion or the start point as those that are held.  *)
(***************************************************************************)
EXTENDS Garnet

Contract == INSTANCE IdClients WITH held <- Held

\* The provider keeps to the contract of the free space map: it gives back
\* only ids that belong to someone, each once, and otherwise takes, keeps or
\* forgets what it was given (set_element, delete, maybe_set_start_point).
KeepsContract == Contract!ClientSpec
=============================================================================
