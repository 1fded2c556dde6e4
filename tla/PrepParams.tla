---------------------------- MODULE PrepParams -----------------------------
(***************************************************************************)
(* The parameters of the data preparation, module DataPrep.                *)
(***************************************************************************)
EXTENDS Integers

CONSTANTS
  Chunks,      \* size of the complete data set
  MaxCrashes   \* bound: killed scripts

ASSUME ChunksAssumption == Chunks \in Nat \ {0} /\ MaxCrashes \in Nat
============================================================================
