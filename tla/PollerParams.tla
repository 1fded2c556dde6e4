--------------------------- MODULE PollerParams ----------------------------
(***************************************************************************)
(* The parameters of a measured command, module IoPoller.                  *)
(***************************************************************************)
EXTENDS Integers

CONSTANTS
  Pids,
  Root,    \* the process that Popen starts
  MaxIo,   \* bound: reads of a process
  None

ASSUME PollerAssumption == Root \in Pids /\ MaxIo \in Nat /\ None \notin Pids
============================================================================
