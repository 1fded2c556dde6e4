------------------------------- MODULE Pareto ------------------------------
(***************************************************************************)
(* analyze/pareto.py on the operating points of one group (algorithm,      *)
(* variant, data set, mode, memory cap, threads): pareto_frontier keeps    *)
(* the points that no other dominates, and closest_recall_table picks the  *)
(* one whose recall is nearest to a target.                                *)
(*                                                                         *)
(* A point has the medians that aggregate has computed for it; one that no *)
(* trial has reported is missing.  Only the order of latencies and of byte *)
(* counts matters, and for recall also its distance to the target.         *)
(***************************************************************************)
EXTENDS Integers, FiniteSets

CONSTANTS
  N,         \* points of the group, numbered in the order of the table
  Recalls, Latencies, AppBytes,   \* their possible values
  Targets,   \* target recalls
  Missing       \* a missing value

ASSUME ParetoAssumption ==
  /\ N \in Nat
  /\ Recalls \subseteq Int /\ Latencies \subseteq Int
  /\ AppBytes \subseteq Int
  /\ Targets \subseteq Int
  /\ Missing \notin Int

Points == 1 .. N

Point ==
  [recall : Recalls \cup {Missing}, ms : Latencies \cup {Missing},
   app : AppBytes \cup {Missing}]

VARIABLES
  pts,      \* the aggregated points
  recallTarget,
  phase,    \* "front", then "closest", then "done"
  p,        \* next point to look at
  front,    \* points kept so far
  best      \* nearest point so far, Missing before there is one

frontierVars == <<pts, recallTarget, phase, p, front, best>>

FrontierInit ==
  /\ pts \in [Points -> Point]
  /\ recallTarget \in Targets
  /\ phase = "front"
  /\ p = 1
  /\ front = {}
  /\ best = Missing

\* Fault: a point that is equal in everything dominates.
DominatesWeakly(q, r) ==
  /\ \A c \in {"recall", "ms", "app"} : pts[q][c] # Missing /\ pts[r][c] # Missing
  /\ pts[q].recall >= pts[r].recall
  /\ pts[q].ms <= pts[r].ms
  /\ pts[q].app <= pts[r].app

\* dominates(q, r); a missing value on either side compares as no.
Dominates(q, r) ==
  /\ \A c \in {"recall", "ms", "app"} : pts[q][c] # Missing /\ pts[r][c] # Missing
  /\ pts[q].recall >= pts[r].recall
  /\ pts[q].ms <= pts[r].ms
  /\ pts[q].app <= pts[r].app
  /\ \/ pts[q].recall > pts[r].recall
     \/ pts[q].ms < pts[r].ms
     \/ pts[q].app < pts[r].app

Dominated(r) == \E q \in Points \ {r} : Dominates(q, r)

\* The loop of pareto_frontier.
VisitPoint ==
  /\ phase = "front" /\ p <= N
  /\ front' = IF Dominated(p) THEN front ELSE front \cup {p}
  /\ p' = p + 1
  /\ UNCHANGED <<pts, recallTarget, phase, best>>

FrontDone ==
  /\ phase = "front" /\ p > N
  /\ phase' = "closest"
  /\ p' = 1
  /\ UNCHANGED <<pts, recallTarget, front, best>>

Distance(q) ==
  IF pts[q].recall >= recallTarget THEN pts[q].recall - recallTarget ELSE recallTarget - pts[q].recall

Nearer(q) == best = Missing \/ Distance(q) < Distance(best)

\* The loop of closest_recall_table for one target.
Compare ==
  /\ phase = "closest" /\ p <= N
  /\ best' = IF pts[p].recall # Missing /\ Nearer(p) THEN p ELSE best
  /\ p' = p + 1
  /\ UNCHANGED <<pts, recallTarget, phase, front>>

CompareDone ==
  /\ phase = "closest" /\ p > N
  /\ phase' = "done"
  /\ UNCHANGED <<pts, recallTarget, p, front, best>>

Done == phase = "done" /\ UNCHANGED frontierVars

FrontierNext == VisitPoint \/ FrontDone \/ Compare \/ CompareDone \/ Done

FrontierSpec == FrontierInit /\ [][FrontierNext]_frontierVars
----------------------------------------------------------------------------
\* Type invariant of the two loops.
FrontierTypeOK ==
  /\ pts \in [Points -> Point]
  /\ recallTarget \in Targets
  /\ phase \in {"front", "closest", "done"}
  /\ p \in 1 .. N + 1
  /\ front \subseteq Points
  /\ best \in Points \cup {Missing}

\* pareto_frontier loses nothing: a point that is dropped is dominated by one
\* that is kept, although it may have been dropped for one that is not.
FrontCovers ==
  phase # "front" => \A r \in Points \ front : \E q \in front : Dominates(q, r)

\* closest_recall_table: no point is nearer to the target than the one it
\* picks, and no earlier point is as near.  It picks none only if no point of
\* the group has a recall.
ClosestIsFirstNearest ==
  phase = "done" =>
    \A q \in Points :
      pts[q].recall # Missing =>
        best # Missing /\ Distance(best) <= Distance(q) /\ (q < best => Distance(best) < Distance(q))

\* Points looked at so far by the loop of the given phase.
Visited(ph) == IF phase = ph THEN 1 .. p - 1 ELSE Points

\* The front so far is what nothing in the whole group dominates.
FrontInv == front = {r \in Visited("front") : ~Dominated(r)}

\* The choice so far is the first of the nearest.
BestInv ==
  /\ phase = "front" => best = Missing
  /\ phase = "done" => p = N + 1
  /\ best # Missing => best < p /\ pts[best].recall # Missing
  /\ phase # "front" =>
       \A q \in 1 .. p - 1 :
         pts[q].recall # Missing =>
           best # Missing /\ Distance(best) <= Distance(q) /\ (q < best => Distance(best) < Distance(q))

\* Inductive invariant.
FrontierIInv == FrontierTypeOK /\ FrontInv /\ BestInv
============================================================================
