------------------------------- MODULE Prune -------------------------------
(***************************************************************************)
(* The pruning of a candidate list into an adjacency list in DiskANN:      *)
(* DiskANNIndex::occlude_list (diskann/src/graph/index.rs) with the rules  *)
(* of PruneKind (graph/config/mod.rs) and SortedNeighbors                  *)
(* (graph/internal/sorted_neighbors.rs).  A candidate is left out when a   *)
(* neighbour chosen before it is closer to it than the vertex itself is,   *)
(* by a factor that grows from 1 to alpha over several passes.             *)
(*                                                                         *)
(* Ratios of distances are pairs <<numerator, denominator>> and compare    *)
(* exactly, where the code rounds to f32.  f32::MAX is F32Max.  A list of  *)
(* candidates is a sequence of [id, dist], and the configuration a record: *)
(* kind, alpha, degree (pruned_degree), maxOcclusion (max_occlusion_size)  *)
(* and saturate (saturate_after_prune).  Distances between vectors come as *)
(* a function of two ids.                                                  *)
(***************************************************************************)
EXTENDS NeighborQueue, FiniteSets, SequencesExt

One == <<1, 1>>
F32Max == <<1, 0>>
Increment == <<6, 5>>                                        \* 1.2

Exceeds(a, b) == a[1] * b[2] > b[1] * a[2]
LesserOf(a, b) == IF Exceeds(a, b) THEN b ELSE a
GreaterOf(a, b) == IF Exceeds(a, b) THEN a ELSE b
Power(a, k) == <<a[1] ^ k, a[2] ^ k>>

\* Fault: the passes end with the first one.
AlphasFirst(alpha) == <<One>>

\* The values of current_alpha, one for each pass over the candidates.
Alphas(alpha) ==
  LET step == LesserOf(alpha, Increment)
      last == CHOOSE k \in 0 .. 20 :
                /\ ~Exceeds(alpha, Power(step, k))
                /\ \A j \in 0 .. k - 1 : Exceeds(alpha, Power(step, j))
  IN  [k \in 1 .. last + 1 |-> LesserOf(Power(step, k - 1), alpha)]

\* PruneKind::update_occlude_factor.  OCCLUDING_MASK is 1/100.
UpdateOccludeFactor(kind, ik, jk, factor, alpha) ==
  CASE kind = "TriangleInequality" ->
         IF jk = 0 THEN F32Max ELSE GreaterOf(factor, <<ik, jk>>)
    [] kind = "Occluding" ->
         IF jk * alpha[2] < alpha[1] * ik
         THEN <<100 * alpha[1] + alpha[2], 100 * alpha[2]>>
         ELSE factor

\* SortedNeighbors::new.  Candidates at one distance are left in any order by
\* the sort; here they are ordered by their ids.
SortedNeighbors(pool, max) ==
  LET sorted == SortSeq(pool, LAMBDA a, b : a.dist < b.dist \/ (a.dist = b.dist /\ a.id < b.id))
  IN  SubSeq(sorted, 1, Least(max, Len(sorted)))

Indices(seq) == [i \in 1 .. Len(seq) |-> i]

\* The inner loop: candidate i against the results that it has not met yet, until
\* one of them occludes it.  A result is a position of the candidate list.
Compare(pool, apart, conf, alpha, st, i) ==
  LET Against(acc, k) ==
        IF acc.skip THEN acc
        ELSE IF st.dst[k] >= i THEN [acc EXCEPT !.checked = k]
        ELSE LET factor == UpdateOccludeFactor(conf.kind, pool[i].dist,
                             apart[pool[i].id, pool[st.dst[k]].id], acc.factor, alpha)
             IN  [factor |-> factor, checked |-> k, skip |-> Exceeds(factor, alpha)]
  IN  Fold(Against,
           [factor |-> st.factor[i], checked |-> st.checked[i], skip |-> FALSE],
           [k \in 1 .. Len(st.dst) - st.checked[i] |-> st.checked[i] + k])

\* One candidate in one pass.
Visit(pool, available, apart, conf, alpha, st, i) ==
  IF Len(st.dst) >= conf.degree \/ Exceeds(st.factor[i], alpha) THEN st
  ELSE IF pool[i].id \notin available THEN [st EXCEPT !.factor[i] = F32Max]
  ELSE CHOOSE r \in
         {[dst     |-> IF c.skip \/ Exceeds(c.factor, alpha) THEN st.dst ELSE Append(st.dst, i),
           factor  |-> [st.factor EXCEPT ![i] =
                          IF c.skip \/ Exceeds(c.factor, alpha) THEN c.factor ELSE F32Max],
           checked |-> [st.checked EXCEPT ![i] = c.checked]] :
            c \in {Compare(pool, apart, conf, alpha, st, i)}} : TRUE

\* AdjacencyList::push and extend_from_slice.
PushUnique(list, id) == IF id \in Range(list) THEN list ELSE Append(list, id)
ExtendUnique(list, ids) == Fold(PushUnique, list, ids)

\* occlude_list, on a sorted candidate list.  Saturation fills the result with
\* candidates that were left out, nearest first.
OccludeList(pool, location, readable, apart, conf, force) ==
  LET available == readable \ {location}
      Pass(st, alpha) ==
        Fold(LAMBDA s, i : Visit(pool, available, apart, conf, alpha, s, i), st, Indices(pool))
      result ==
        Fold(Pass,
             [dst     |-> <<>>,
              factor  |-> [i \in 1 .. Len(pool) |-> <<0, 1>>],
              checked |-> [i \in 1 .. Len(pool) |-> 0]],
             Alphas(conf.alpha)).dst
      chosen == [k \in 1 .. Len(result) |-> pool[result[k]].id]
      Saturate(dst, n) ==
        IF Len(dst) >= conf.degree \/ n.id = location THEN dst ELSE PushUnique(dst, n.id)
  IN  IF force \/ (conf.saturate /\ Exceeds(conf.alpha, One))
      THEN Fold(Saturate, chosen, pool)
      ELSE chosen

\* robust_prune: the candidates come with their distances.
RobustPrune(pool, location, readable, apart, conf, force) ==
  OccludeList(SortedNeighbors(pool, conf.maxOcclusion), location, readable, apart, conf, force)

\* robust_prune_list: the candidates are the ids of a list, without the vertex
\* itself and those that cannot be read.
RobustPruneList(list, location, readable, apart, conf, force) ==
  LET ids == SelectSeq(list, LAMBDA id : id # location /\ id \in readable)
  IN  RobustPrune([k \in 1 .. Len(ids) |-> Neighbor(ids[k], apart[location, ids[k]])],
                  location, readable, apart, conf, force)
============================================================================
