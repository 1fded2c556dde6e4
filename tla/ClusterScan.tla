---------------------------- MODULE ClusterScan ----------------------------
(***************************************************************************)
(* What one TapeANN benchmark run promises, without buffers or queues: the *)
(* timed queries are answered one after the other, each query asks for a   *)
(* set of Probes clusters, and by the time it is answered the records of   *)
(* exactly those clusters have been scored, each cluster once, in any      *)
(* order.                                                                  *)
(***************************************************************************)
EXTENDS Integers, FiniteSets

CONSTANTS Clusters, Probes, NumQueries

VARIABLES
  q,        \* timed queries answered so far
  asked,    \* clusters of the query being answered, {} between queries
  scanned   \* clusters whose records have been scored for it

scanVars == <<q, asked, scanned>>

ScanInit ==
  /\ q = 0
  /\ asked = {}
  /\ scanned = {}

Ask ==
  /\ asked = {}
  /\ q < NumQueries
  /\ asked' \in {C \in SUBSET Clusters : Cardinality(C) = Probes}
  /\ UNCHANGED <<q, scanned>>

Scan ==
  /\ \E c \in asked \ scanned : scanned' = scanned \cup {c}
  /\ UNCHANGED <<q, asked>>

Answer ==
  /\ asked # {}
  /\ scanned = asked
  /\ q' = q + 1
  /\ asked' = {}
  /\ scanned' = {}

ScanNext == Ask \/ Scan \/ Answer

ScanSpec == ScanInit /\ [][ScanNext]_scanVars
============================================================================
