----------------------------- MODULE AtomicSave ----------------------------
(***************************************************************************)
(* How diskann-benchmark saves its results (atomic_save in result.rs of    *)
(* diskann-benchmark-runner): serialise to a temporary file next to the    *)
(* target, then rename it over the target.  A save refuses to start while  *)
(* the temporary file exists, and nothing ever removes one that a failed   *)
(* or interrupted save has left.                                           *)
(***************************************************************************)
CONSTANTS
  Paths,   \* output files
  None     \* contents of a file that does not exist

VARIABLES
  result,  \* what each output file holds
  temp     \* output files whose temporary file exists

saveVars == <<result, temp>>

SaveInit ==
  /\ result = [p \in Paths |-> None]
  /\ temp = {}

\* The temporary file is there already: the save returns an error.
SaveRefused(p) == p \in temp /\ UNCHANGED saveVars

\* File::create and the serialisation into it.
SaveCreate(p) ==
  /\ p \notin temp
  /\ temp' = temp \cup {p}
  /\ UNCHANGED result

\* std::fs::rename.
SaveRename(p, v) ==
  /\ result' = [result EXCEPT ![p] = v]
  /\ temp' = temp \ {p}
============================================================================
