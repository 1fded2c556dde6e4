------------------------------ MODULE MCParts ------------------------------
(***************************************************************************)
(* Parts of the two systems that do not interact, for their safety: a      *)
(* behaviour runs one of them, and the variables of the others keep an     *)
(* initial state, or a value that stands for nothing.                      *)
(***************************************************************************)
EXTENDS TapeStart, TapeSearch, TopK, Pareto

VARIABLES
  part,     \* which part runs
  place, readable, conf, force, searched, list,
  life, parent, io, poller, pending, sample, max, stopped, main, late, total

pruneVars == <<place, readable, conf, force, searched, list>>
pollerVars == <<life, parent, io, poller, pending, sample, max, stopped, main, late, total>>
allVars == <<part, startVars, vars, rankVars, frontierVars, pruneVars, pollerVars>>

\* Ids <- four vectors, K = 2: the heap fills, replaces and rejects.
MCIds == 1 .. 4

\* Four candidates, both kinds of pruning, alpha below, at and above 1.2.
Pruning == INSTANCE PruneCases WITH
  Candidates <- 1 .. 4, Places <- {0, 1, 4},
  Configs <- [kind : {"TriangleInequality", "Occluding"}, alpha : {<<1, 1>>, <<6, 5>>, <<2, 1>>},
              degree : 1 .. 2, maxOcclusion : {8}, saturate : BOOLEAN]

\* A command of three processes (sudo, time, the binary).
Measured == INSTANCE IoPoller WITH
  Pids <- {"p1", "p2", "p3"}, Root <- "p1", MaxIo <- 1, todo <- pending

RankingIdle ==
  /\ \E none \in {[v \in Ids |-> 0]} : hamming = none /\ dist = none /\ partial = none
  /\ true_nn = {} /\ todo = Ids /\ scan = Empty /\ matches = -1

FrontierIdle ==
  /\ pts = [n \in Points |-> [recall |-> Missing, ms |-> Missing, app |-> Missing]]
  /\ recallTarget = CHOOSE t \in Targets : TRUE
  /\ phase = "front" /\ p = 1 /\ front = {} /\ best = Missing

NoPruning ==
  /\ place = 0 /\ readable = 0 /\ conf = 0 /\ force = 0 /\ searched = 0 /\ list = 0

NoPoller ==
  /\ life = 0 /\ parent = 0 /\ io = 0 /\ poller = 0 /\ pending = 0 /\ sample = 0 /\ max = 0
  /\ stopped = 0 /\ main = 0 /\ late = 0 /\ total = 0

PartsInit ==
  /\ part \in {"start", "search", "ranking", "frontier", "pruning", "measured"}
  /\ StartInit
  /\ Init
  /\ IF part = "ranking" THEN RankInit ELSE RankingIdle
  /\ IF part = "frontier" THEN FrontierInit ELSE FrontierIdle
  /\ IF part = "pruning" THEN Pruning!PruneInit ELSE NoPruning
  /\ IF part = "measured" THEN Measured!Init ELSE NoPoller

StartStep ==
  /\ part = "start" /\ StartNext
  /\ UNCHANGED <<part, vars, rankVars, frontierVars, pruneVars, pollerVars>>

SearchStep ==
  /\ part = "search" /\ Next
  /\ UNCHANGED <<part, startVars, rankVars, frontierVars, pruneVars, pollerVars>>

RankingStep ==
  /\ part = "ranking" /\ RankNext
  /\ UNCHANGED <<part, startVars, vars, frontierVars, pruneVars, pollerVars>>

FrontierStep ==
  /\ part = "frontier" /\ FrontierNext
  /\ UNCHANGED <<part, startVars, vars, rankVars, pruneVars, pollerVars>>

\* The list is the result.
PruningStep ==
  /\ part = "pruning" /\ (Pruning!PruneNext \/ (Pruning!Done /\ UNCHANGED pruneVars))
  /\ UNCHANGED <<part, startVars, vars, rankVars, frontierVars, pollerVars>>

MeasuredStep ==
  /\ part = "measured" /\ Measured!Next
  /\ UNCHANGED <<part, startVars, vars, rankVars, frontierVars, pruneVars>>

PartsNext ==
  StartStep \/ SearchStep \/ RankingStep \/ FrontierStep \/ PruningStep \/ MeasuredStep

PartsSpec == PartsInit /\ [][PartsNext]_allVars
----------------------------------------------------------------------------
\* What occlude_list leaves in a list: the nearest candidate first, and every
\* other one unless the list is full or it is occluded by a neighbour kept.
PruneSound == part = "pruning" => Pruning!PruneSound

\* The reported figure never exceeds what was really read, misses no sample of a
\* thread that ended in time, and only a thread that did not makes the sum fail.
TotalSound == part = "measured" => Measured!TotalSound
============================================================================
