----------------------------- MODULE PruneCases -----------------------------
(***************************************************************************)
(* The pruning of a vertex's candidates, for every placement of the        *)
(* vectors on a line, squared distances between them, candidates that      *)
(* cannot be read, and configuration.                                      *)
(***************************************************************************)
EXTENDS Prune

CONSTANTS
  Candidates,   \* ids; the vertex that is pruned is 0
  Places,       \* where a vector may lie
  Configs       \* pruning configurations

VARIABLES place, readable, conf, force, searched, list

pruneVars == <<place, readable, conf, force, searched, list>>

Location == 0

\* The squared distance between two vectors.
Apart(a, b) == (place[a] - place[b]) * (place[a] - place[b])
Distances == [a, b \in Candidates \cup {Location} |-> Apart(a, b)]

Pending == <<Location>>   \* not a result: a vertex is no neighbour of itself

PruneInit ==
  /\ place \in {f \in [Candidates \cup {Location} -> Places] : f[Location] = 0}
  /\ readable \in {Candidates \cup {Location}} \cup {(Candidates \cup {Location}) \ {c} : c \in Candidates}
  /\ conf \in Configs
  /\ force \in BOOLEAN
  /\ searched \in BOOLEAN   \* the candidates of a search, or those of a list
  /\ list = Pending

PruneSearched ==
  RobustPrune([c \in 1 .. Cardinality(Candidates) |-> Neighbor(c, Apart(Location, c))],
              Location, readable, Distances, conf, force)

PruneListed ==
  RobustPruneList(Append(SetToSeq(Candidates), Location), Location, readable, Distances, conf, force)

PruneNext ==
  /\ list = Pending
  /\ list' \in {IF searched THEN PruneSearched ELSE PruneListed}
  /\ UNCHANGED <<place, readable, conf, force, searched>>

Done == list # Pending

(***************************************************************************)
(* What occlude_list leaves in a vertex's list.  The nearest candidate     *)
(* that can be read comes first.  Without saturation, a candidate is left  *)
(* out only when the list is full or some neighbour in it is closer to the *)
(* candidate than the vertex is by more than alpha, and no neighbour does  *)
(* this to one chosen after it.  With it, the list is as long as the       *)
(* degree and the candidates allow, those found by a search that cannot be *)
(* read included.                                                          *)
(***************************************************************************)
PruneSound ==
  LET usable   == Candidates \cap readable
      offered  == IF searched THEN Candidates ELSE usable
      kept     == Range(list)
      Hides(j, k) == \* j, nearer, is by more than alpha closer to k than the vertex
        /\ Apart(Location, j) <= Apart(Location, k)
        /\ \/ Apart(j, k) = 0
           \/ Exceeds(<<Apart(Location, k), Apart(j, k)>>, conf.alpha)
      saturated == force \/ (conf.saturate /\ Exceeds(conf.alpha, One))
  IN  Done =>
        /\ IsInjective(list) /\ Len(list) <= conf.degree
        /\ kept \subseteq (IF saturated THEN offered ELSE usable)
        /\ usable # {} => /\ list # <<>>
                          /\ \A c \in usable : Apart(Location, list[1]) <= Apart(Location, c)
        /\ saturated => Len(list) = Least(conf.degree, Cardinality(offered))
        /\ ~saturated /\ conf.kind = "TriangleInequality" =>
             /\ \A c \in usable \ kept : Len(list) = conf.degree \/ \E j \in kept : Hides(j, c)
             /\ \A i, k \in 1 .. Len(list) :
                  i < k /\ Apart(Location, list[i]) < Apart(Location, list[k]) => ~Hides(list[i], list[k])
=============================================================================
