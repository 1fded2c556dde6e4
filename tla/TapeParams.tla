---------------------------- MODULE TapeParams -----------------------------
(***************************************************************************)
(* The parameters of a run of the TapeANN engine, modules IoUring and      *)
(* TapeSearch.                                                             *)
(***************************************************************************)
EXTENDS Integers, FiniteSets

CONSTANTS
  SqEntries,      \* depth given to io_uring_queue_init
  Clusters,       \* cluster ids, every one has a centroid
  Stored,         \* clusters with an entry in segment_table.json
  Garbage,        \* contents of a slot that are no cluster's records
  Probes,         \* --probes
  NumQueries,     \* timed queries
  WarmQueries,    \* queries of the warm-up pass
  UseDirect,      \* FALSE iff --cache was given
  NoWarmup,       \* --no-warmup
  ReadFaults,     \* may a read fail or come back short?
  Interruptible   \* may a blocked io_uring_wait_cqe return -EINTR?

ASSUME ClustersAssumption ==
  /\ IsFiniteSet(Clusters)
  /\ Stored \subseteq Clusters
  /\ Garbage \notin Clusters

\* The option parser enforces 1 <= probes <= number of clusters.
ASSUME ProbesAssumption ==
  /\ Probes \in Nat \ {0}
  /\ Probes <= Cardinality(Clusters)

\* ring_depth, see module TapeStart.
ASSUME DepthAssumption == SqEntries \in Nat /\ Probes <= SqEntries

ASSUME QueriesAssumption == NumQueries \in Nat \ {0} /\ WarmQueries \in Nat

ASSUME FlagsAssumption ==
  {UseDirect, NoWarmup, ReadFaults, Interruptible} \subseteq BOOLEAN
============================================================================
