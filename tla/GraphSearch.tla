---------------------------- MODULE GraphSearch ----------------------------
(***************************************************************************)
(* The searches of a DiskANN graph index (diskann/src/graph): k-nearest    *)
(* (search/knn_search.rs), range (search/range_search.rs), label-filtered  *)
(* (search/multihop_search.rs), diverse (search/diverse_search.rs), flat   *)
(* and paged (index.rs), with the greedy loop that they share              *)
(* (search_internal) and the scratch space that it works on.               *)
(*                                                                         *)
(* A search runs on its own scratch and its own accessor, and is one       *)
(* sequence of steps: one step per iteration of a loop that expands        *)
(* vertices.  The index does not change meanwhile.  A vertex whose vector  *)
(* cannot be read ends the adjacency list in which it is met: the error is *)
(* transient and the rest of that list is not scored.                      *)
(***************************************************************************)
EXTENDS NeighborQueue, FiniteSets, SequencesExt

CONSTANTS
  Vertices,      \* ids of the index, the start point among them
  StartPoint,
  Graphs,        \* adjacency lists, functions from Vertices to sequences
  Distances,     \* functions from Vertices to distances to the query
  Unreadable,    \* sets of vertices whose vectors cannot be read
  Queries,       \* records with the parameters of a search
  Followups,     \* searches that are made after another one, with its scratch
  MaxSearches,
  MaxPages       \* pages that the caller of a paged search asks for

\* No attribute, no limit (usize::MAX), and no vertex.
None == "none"
NoLimit == 1000000
NoVertex == -1

\* The parameters that Knn::new and Range::with_options accept.
Accepted(q) ==
  /\ q.kind \in {"knn", "range", "multihop", "diverse", "flat", "paged"}
  /\ q.l \in Nat \ {0} /\ q.beam \in Nat \ {0}
  /\ q.k \in 1 .. q.l
  /\ q.initIds # <<>>

ASSUME QueriesAssumption == \A q \in Queries \cup Followups : Accepted(q)

VARIABLES
  graph, dist, lost,   \* the index, the distances, the unreadable vertices
  query,               \* the search that is made
  scratch,             \* SearchScratch, with the stats of the search
  record,              \* SearchRecord: the vertices expanded, with the counters
  phase,               \* "start", "search", "range", "scan", "paging", "done", "failed"
  todo,                \* flat search: ids that the iterator has still to give
  page,                \* SearchState of a paged search, without its scratch
  output,              \* ids in the output buffer, or the pages returned
  stats,               \* SearchStats returned
  made                 \* searches made

index == <<graph, dist, lost, query, made>>
vars == <<index, scratch, record, phase, todo, page, output, stats>>

StartPoints == <<StartPoint>>

Attributes == {query.attribute[v] : v \in Vertices} \ {None}

NoStats == [cmps |-> 0, hops |-> 0, second |-> FALSE]

\* SearchScratch::new, and create_scratch of a diverse search.
NewScratch(q) ==
  [best     |-> IF q.kind = "paged" THEN NewAutoQueue(q.l + Len(StartPoints))
                ELSE IF q.kind = "diverse" THEN NewQueue(q.l)
                ELSE NewQueue(q.l + Len(StartPoints)),
   local    |-> [a \in {q.attribute[v] : v \in Vertices} \ {None} |->
                   NewQueue((q.diverseK * q.l) \div q.k)],
   visited  |-> {},
   frontier |-> <<>>,
   inRange  |-> <<>>,
   hops     |-> 0,
   cmps     |-> 0]

Init ==
  /\ graph \in Graphs
  /\ dist \in Distances
  /\ lost \in Unreadable
  /\ query \in Queries
  /\ scratch = NewScratch(query)
  /\ record = <<>>
  /\ phase = "start"
  /\ todo = Vertices
  /\ page = [computed |-> [j \in 1 .. query.l |-> StartPoint], next |-> query.l, k |-> 0, out |-> <<>>]
  /\ output = <<>>
  /\ stats = NoStats
  /\ made = 1
----------------------------------------------------------------------------
(* Expansion of a beam. *)

\* The part of an adjacency list that is scored: what the predicate keeps, up
\* to the first vector that cannot be read.
Readable(list) ==
  LET bad == {j \in 1 .. Len(list) : list[j] \in lost}
  IN  SubSeq(list, 1, IF bad = {} THEN Len(list) ELSE Min(bad) - 1)

\* One adjacency list: <<visited set, ids scored>> after <<visited, ids>>.
ScoreList(acc, list, among) ==
  LET new == Readable(SelectSeq(list, LAMBDA v : v \notin acc[1] /\ v \in among))
  IN  <<acc[1] \cup Range(new), acc[2] \o new>>

\* ExpandBeam::expand_beam with the predicate NotInMut, or, among the vertices
\* that match the label filter, NotInMutWithLabelCheck.
ExpandBeam(visited, beam, among) ==
  Fold(LAMBDA acc, v : ScoreList(acc, graph[v], among), <<visited, <<>>>>, beam)

AllVertices == DOMAIN graph
IsMatch(v) == query.label[v]
Matching == {v \in AllVertices : IsMatch(v)}

\* What search_record is told of a beam.
Recorded(beam) == [j \in 1 .. Len(beam) |->
                     [id |-> beam[j], hops |-> scratch.hops, cmps |-> scratch.cmps]]
----------------------------------------------------------------------------
(* DiverseNeighborQueue (neighbor/diverse_priority_queue.rs). *)

\* Fault: the entry that makes room is left in the other queue.
DiverseInsertLeaves(s, nbr) ==
  LET a == query.attribute[nbr.id]
  IN  IF a = None THEN s
      ELSE [s EXCEPT !.local[a] = Insert(@, nbr), !.best = Insert(@, nbr)]

\* DiverseNeighborQueue::insert
DiverseInsert(s, nbr) ==
  LET a     == query.attribute[nbr.id]
      local == s.local[a]
      both  == [s EXCEPT !.local[a] = Insert(@, nbr), !.best = Insert(@, nbr)]
      worst == Last(local.items)
      last  == Last(s.best.items)
      nearer(e) == nbr.dist # NaN /\ nbr.dist < e.dist
  IN  IF a = None THEN s
      ELSE IF ~IsFull(local) /\ ~IsFull(s.best) THEN both
      ELSE IF IsFull(local)
      THEN IF nearer(worst)
           THEN [s EXCEPT !.local[a] = Insert(@, nbr),
                          !.best = Insert(RemoveNeighbor(@, worst), nbr)]
           ELSE s
      ELSE IF nearer(last)
      THEN [both EXCEPT !.local[query.attribute[last.id]] = RemoveNeighbor(@, last)]
      ELSE s

\* DiverseNeighborQueue::post_process
DiversePostProcess(s) ==
  LET surplus == UNION {{s.local[a].items[j].id : j \in query.diverseK + 1 .. Size(s.local[a])}
                          : a \in Attributes}
      trimmed == [a \in Attributes |-> Truncate(s.local[a], query.diverseK)]
  IN  [s EXCEPT !.local = trimmed,
                !.best = IF surplus = {} THEN @ ELSE Retain(@, IdsIn(@) \ surplus)]

BestInsert(s, v) ==
  LET nbr == Neighbor(v, dist[v])
  IN  IF query.kind = "diverse" THEN DiverseInsert(s, nbr)
      ELSE [s EXCEPT !.best = Insert(@, nbr)]

BestInsertAll(s, ids) == Fold(BestInsert, s, ids)
----------------------------------------------------------------------------
(* search_internal, and the loop of multihop_search_internal. *)

\* Whether the start points have still to be scored.  A paged search has a
\* visited set already.
Uninitialized == scratch.visited = {}

CountsStarts == query.kind # "multihop"

\* The start points are scored and put into the queue.
ScoreStarts ==
  /\ phase = "search" /\ Uninitialized
  /\ IF StartPoint \in lost
     THEN /\ scratch' = [scratch EXCEPT !.visited = {StartPoint}]
          /\ phase' = "failed"
     ELSE /\ scratch' = [BestInsert(scratch, StartPoint) EXCEPT
                           !.visited = {StartPoint},
                           !.cmps = IF CountsStarts THEN @ + 1 ELSE @]
          /\ UNCHANGED phase
  /\ UNCHANGED <<index, record, todo, page, output, stats>>

Expandable == ~Uninitialized /\ HasNotVisitedNode(scratch.best)

\* One iteration of the loop of search_internal.
Expand ==
  /\ phase = "search" /\ query.kind # "multihop" /\ Expandable
  /\ \E taken \in {TakeBeam(scratch.best, query.beam)} :
     \E found \in {ExpandBeam(scratch.visited, taken[2], AllVertices)} :
     \E s \in {BestInsertAll([scratch EXCEPT !.best = taken[1]], found[2])} :
       /\ scratch' = [s EXCEPT !.visited = found[1],
                               !.cmps = @ + Len(found[2]),
                               !.hops = @ + Len(taken[2])]
       /\ record' = record \o Recorded(taken[2])
  /\ UNCHANGED <<index, phase, todo, page, output, stats>>

\* Fault: one candidate less is expanded.
TwoHopVerticesLess(rejected) ==
  LET order == SetToSortSeq(Range(rejected), LAMBDA v, w : dist[v] < dist[w])
  IN  SubSeq(order, 1, Least(Len(order), Len(order) - 1))

\* The one-hop vertices that are expanded in their turn: the nearest of those
\* that the label filter rejects, at most half of the largest degree.
TwoHopVertices(rejected) ==
  LET order == SetToSortSeq(Range(rejected),
                 LAMBDA v, w : dist[v] < dist[w] \/ (dist[v] = dist[w] /\ v < w))
  IN  SubSeq(order, 1, Least(Len(order), query.maxDegree \div 2))

\* FilterStartPoints and CopyIds: the ids of the candidates that are not start
\* points, as many as the output buffer has room for.
PostProcess(candidates, room) ==
  LET ids == SelectSeq([j \in 1 .. Len(candidates) |-> candidates[j].id],
                       LAMBDA v : v # StartPoint)
  IN  SubSeq(ids, 1, Least(Len(ids), room))

\* The end of a search: what the search returns for its scratch s.
Return(s, candidates) ==
  /\ output' = PostProcess(candidates, query.k)
  /\ stats' = [NoStats EXCEPT !.cmps = s.cmps, !.hops = s.hops]
  /\ phase' = "done"

Take(seq, n) == SubSeq(seq, 1, Least(n, Len(seq)))

\* One iteration of the loop of multihop_search_internal.  A vertex on which the
\* label provider answers Terminate ends the search.
ExpandMultihop ==
  /\ phase = "search" /\ query.kind = "multihop" /\ Expandable
  /\ \E taken \in {TakeBeam(scratch.best, query.beam)} :
     \E one \in {ExpandBeam(scratch.visited, taken[2], AllVertices)} :
     LET stop == {j \in 1 .. Len(one[2]) : one[2][j] = query.terminator}
         seen == IF stop = {} THEN one[2] ELSE SubSeq(one[2], 1, Min(stop) - 1)
     IN
     \E middle \in {TwoHopVertices(SelectSeq(seen, LAMBDA v : ~IsMatch(v)))} :
     \E two \in {ExpandBeam(one[1], middle, Matching)} :
     \E s \in {BestInsertAll([scratch EXCEPT !.best = taken[1]], SelectSeq(seen, IsMatch))} :
     \E first \in {[s EXCEPT !.visited = one[1],
                            !.cmps = @ + Len(one[2]), !.hops = @ + Len(taken[2])]} :
     \E second \in {BestInsertAll(first, two[2])} :
       /\ record' = record \o Recorded(taken[2])
       /\ IF stop # {}
          THEN scratch' = first /\ Return(first, Take(BestCandidates(first.best), query.l))
          ELSE /\ scratch' = [second EXCEPT !.visited = two[1],
                                !.cmps = @ + Len(two[2]), !.hops = @ + Len(middle)]
               /\ UNCHANGED <<output, stats, phase>>
  /\ UNCHANGED <<index, todo, page>>

Exhausted == phase = "search" /\ ~Uninitialized /\ ~HasNotVisitedNode(scratch.best)

\* Knn, RecordedKnn and MultihopSearch after their loop.
FinishKnn ==
  /\ query.kind = "knn" /\ Exhausted
  /\ Return(scratch, BestCandidates(scratch.best))
  /\ UNCHANGED <<index, scratch, record, todo, page>>

FinishMultihop ==
  /\ query.kind = "multihop" /\ Exhausted
  /\ Return(scratch, Take(BestCandidates(scratch.best), query.l))
  /\ UNCHANGED <<index, scratch, record, todo, page>>

FinishDiverse ==
  /\ query.kind = "diverse" /\ Exhausted
  /\ \E s \in {DiversePostProcess(scratch)} :
       scratch' = s /\ Return(s, Take(BestCandidates(s.best), query.l))
  /\ UNCHANGED <<index, record, todo, page>>
----------------------------------------------------------------------------
(* Range search. *)

InRadius(d, radius) == d # NaN /\ d <= radius

\* The threshold on the first round's in-range results: starting_l, scaled.
EnoughInRange(n) == n >= (query.l * query.slack[1]) \div query.slack[2]

\* DistanceFiltered in front of the output buffer, which has no limit here.
RangeOutput(found) ==
  LET near == SelectSeq(found, LAMBDA v : /\ InRadius(dist[v], query.radius)
                                          /\ ~InRadius(dist[v], query.inner)
                                          /\ v # StartPoint)
  IN  near

\* The first round is over: its in-range results seed the second round, if there
\* are enough of them.
FinishFirstRound ==
  /\ query.kind = "range" /\ Exhausted
  /\ LET near  == SelectSeq(Take(BestCandidates(scratch.best), query.l),
                            LAMBDA e : InRadius(e.dist, query.radius))
         found == [j \in 1 .. Len(near) |-> near[j].id]
         more  == EnoughInRange(Len(found))
     IN  /\ scratch' = [scratch EXCEPT !.visited = Range(found), !.inRange = found,
                          !.frontier = IF more THEN found ELSE <<>>]
         /\ stats' = [cmps |-> scratch.cmps, hops |-> scratch.hops, second |-> more]
         /\ IF more
            THEN phase' = "range" /\ UNCHANGED output
            ELSE phase' = "done" /\ output' = RangeOutput(found)
  /\ UNCHANGED <<index, record, todo, page>>

\* Fault: neighbours in range are returned but not expanded.
ExpandRangeOnce ==
  /\ phase = "range" /\ scratch.frontier # <<>>
  /\ LET width == Least(query.beam, Len(scratch.frontier))
         beam  == SubSeq(scratch.frontier, 1, width)
         found == ExpandBeam(scratch.visited, beam, AllVertices)
         near  == SelectSeq(found[2], LAMBDA v : InRadius(dist[v], query.outer))
     IN  scratch' = [scratch EXCEPT !.visited = found[1], !.inRange = @ \o near,
                       !.frontier = SubSeq(@, width + 1, Len(@)),
                       !.cmps = @ + Len(found[2]), !.hops = @ + width]
  /\ UNCHANGED <<index, record, phase, todo, page, output, stats>>

\* One iteration of the loop of range_search_internal.
ExpandRange ==
  /\ phase = "range" /\ scratch.frontier # <<>>
  /\ LET width == Least(query.beam, Len(scratch.frontier))
         beam  == SubSeq(scratch.frontier, 1, width)
         found == ExpandBeam(scratch.visited, beam, AllVertices)
         near  == SelectSeq(found[2], LAMBDA v : InRadius(dist[v], query.outer))
         room  == Greatest(0, query.maxReturned - Len(scratch.inRange))
         new   == Take(near, room)
     IN  scratch' = [scratch EXCEPT !.visited = found[1], !.inRange = @ \o new,
                       !.frontier = SubSeq(@, width + 1, Len(@)) \o new,
                       !.cmps = @ + Len(found[2]), !.hops = @ + width]
  /\ UNCHANGED <<index, record, phase, todo, page, output, stats>>

\* The stats of the two rounds: comparisons of the first one only, and the hops
\* of the first one twice, because the scratch has counted on.
FinishRange ==
  /\ phase = "range" /\ scratch.frontier = <<>>
  /\ output' = RangeOutput(scratch.inRange)
  /\ stats' = [stats EXCEPT !.hops = @ + scratch.hops]
  /\ phase' = "done"
  /\ UNCHANGED <<index, scratch, record, todo, page>>
----------------------------------------------------------------------------
(* Flat search: a scan of the ids that the filter accepts. *)

\* Fault: an id that the filter rejects is not consumed.
ScanOneStuck ==
  /\ phase = "scan" /\ todo # {}
  /\ LET v == Min(todo)
     IN  IF ~IsMatch(v) \/ v \in lost THEN UNCHANGED <<todo, scratch>>
         ELSE /\ todo' = todo \ {v}
              /\ scratch' = [BestInsert(scratch, v) EXCEPT !.visited = @ \cup {v}, !.cmps = @ + 1]
  /\ UNCHANGED <<index, phase, record, page, output, stats>>

ScanOne ==
  /\ phase = "scan" /\ todo # {}
  /\ LET v == Min(todo)
     IN  /\ todo' = todo \ {v}
         /\ IF ~IsMatch(v) THEN UNCHANGED <<scratch, phase>>
            ELSE IF v \in lost
            THEN phase' = "failed" /\ scratch' = [scratch EXCEPT !.visited = @ \cup {v}]
            ELSE /\ scratch' = [BestInsert(scratch, v) EXCEPT
                                  !.visited = @ \cup {v}, !.cmps = @ + 1]
                 /\ UNCHANGED phase
  /\ UNCHANGED <<index, record, page, output, stats>>

FinishFlat ==
  /\ phase = "scan" /\ todo = {}
  /\ Return(scratch, Take(BestCandidates(scratch.best), query.l))
  /\ UNCHANGED <<index, scratch, record, todo, page>>
----------------------------------------------------------------------------
(* Paged search. *)

\* start_paged_search_with_init_ids: the initial ids, by default the start points,
\* are expanded but not scored.
StartPaged ==
  /\ phase = "start" /\ query.kind = "paged"
  /\ LET found == ExpandBeam(Range(query.initIds), query.initIds, AllVertices)
     IN  scratch' = [BestInsertAll(scratch, found[2]) EXCEPT !.visited = found[1]]
  /\ phase' = "paging"
  /\ UNCHANGED <<index, record, todo, page, output, stats>>

\* next_search_results is called: results computed by an earlier call come first.
NextPage(k) ==
  /\ phase = "paging" /\ Len(output) < MaxPages
  /\ LET used == Least(k, Len(page.computed) - page.next)
         out  == SubSeq(page.computed, page.next + 1, page.next + used)
     IN  /\ page' = [page EXCEPT !.next = @ + used, !.k = k, !.out = out]
         /\ IF used = k
            THEN output' = Append(output, out) /\ UNCHANGED phase
            ELSE phase' = "search" /\ UNCHANGED output
  /\ UNCHANGED <<index, scratch, record, todo, stats>>

\* Fault: all candidates are looked at.
FilterCandidatesAll(q, k) ==
  LET best == BestCandidates(q)
      ids  == SelectSeq([j \in 1 .. Len(best) |-> best[j].id], LAMBDA v : v # StartPoint)
  IN  [total |-> Len(best), ids |-> SubSeq(ids, 1, Least(k, Len(ids)))]

\* filter_search_candidates: the first k candidates that are not start points,
\* and how many entries of the queue had to be looked at to find them.
FilterCandidates(q, k) ==
  LET best  == BestCandidates(q)
      kept  == {j \in 1 .. Len(best) : best[j].id # StartPoint}
      total == IF Cardinality(kept) < k THEN Len(best)
               ELSE CHOOSE n \in kept : Cardinality({j \in kept : j <= n}) = k
  IN  [total |-> total,
       ids   |-> SelectSeq([j \in 1 .. total |-> best[j].id], LAMBDA v : v # StartPoint)]

\* The rest of next_search_results, once search_internal has returned.
FinishPage ==
  /\ query.kind = "paged" /\ Exhausted
  /\ LET found == FilterCandidates(scratch.best, page.k)
         left  == Least(page.k - Len(page.out), Len(found.ids))
     IN  /\ scratch' = [scratch EXCEPT !.best = DrainBest(@, found.total)]
         /\ output' = Append(output, page.out \o SubSeq(found.ids, 1, left))
         /\ page' = [page EXCEPT !.computed = found.ids, !.next = left]
  /\ phase' = "paging"
  /\ UNCHANGED <<index, record, todo, stats>>

\* Searches whose scratch comes from the pool of the index.
Pooled(q) == q.kind \in {"knn", "range", "multihop", "flat"}

\* SearchScratch::modify: a scratch from the pool is cleared and resized.
ModifyScratch(s, q) ==
  [s EXCEPT !.best = Reconfigure(Clear(@), q.l + Len(StartPoints)),
            !.visited = {}, !.frontier = <<>>, !.inRange = <<>>, !.hops = 0, !.cmps = 0]

\* The scratch goes back to the pool, and the next search gets it from there.
SearchAgain(q) ==
  /\ phase \in {"done", "failed"} /\ Pooled(query) /\ made < MaxSearches
  /\ query' = q
  /\ scratch' = ModifyScratch(scratch, q)
  /\ made' = made + 1
  /\ phase' = "start" /\ record' = <<>> /\ todo' = Vertices
  /\ output' = <<>> /\ stats' = NoStats
  /\ UNCHANGED <<graph, dist, lost, page>>

\* Any other search begins.
Start ==
  /\ phase = "start" /\ query.kind # "paged"
  /\ phase' = IF query.kind = "flat" THEN "scan" ELSE "search"
  /\ UNCHANGED <<index, scratch, record, todo, page, output, stats>>

Over ==
  \/ phase \in {"done", "failed"}
  \/ (phase = "paging" /\ Len(output) = MaxPages)

Step ==
  \/ Start \/ ScoreStarts \/ Expand \/ ExpandMultihop
  \/ FinishKnn \/ FinishMultihop \/ FinishDiverse
  \/ FinishFirstRound \/ ExpandRange \/ FinishRange
  \/ ScanOne \/ FinishFlat
  \/ StartPaged \/ FinishPage
  \/ \E k \in 1 .. query.l : NextPage(k)
  \/ \E q \in Followups : SearchAgain(q)

Next == Step \/ (Over /\ UNCHANGED vars)

Spec == Init /\ [][Next]_vars

\* A search is a function that is called and runs: it does not stop half way.
FairSpec == Spec /\ WF_vars(Step)
----------------------------------------------------------------------------
\* The part of an adjacency list that is certain to be scored.
Certain(list) ==
  LET bad == {j \in 1 .. Len(list) : list[j] \in lost}
  IN  {list[j] : j \in {i \in 1 .. Len(list) : \A b \in bad : i < b}}

\* A vertex is among the candidates, or there are enough that are as near.
Placed(v) ==
  \/ dist[v] = NaN
  \/ v \in IdsIn(scratch.best)
  \/ IsFull(scratch.best) /\ Last(scratch.best.items).dist <= dist[v]

\* A k-nearest search ends in a fixpoint of greedy search: no neighbour of a
\* candidate is nearer than the candidates, whatever the order in which nearer
\* ones moved the cursor back and pushed others out.
GreedyFixpoint ==
  phase = "done" /\ query.kind = "knn" =>
    \A e \in IdsIn(scratch.best) : \A v \in Certain(graph[e]) : Placed(v)

\* The same for a label-filtered search, through rejected neighbours too: as long
\* as none of them is cut off, a match two hops from a candidate is not missed.
MultihopFixpoint ==
  phase = "done" /\ query.kind = "multihop" /\ query.terminator = NoVertex
  /\ query.maxDegree >= 2 * Cardinality(Vertices) =>
    \A e \in IdsIn(scratch.best) : \A v \in Certain(graph[e]) :
      IF IsMatch(v) THEN Placed(v)
      ELSE \A w \in Certain(graph[v]) : IsMatch(w) => Placed(w)

\* The second round of a range search finds everything that its results lead to
\* within the wider radius, unless there is a limit on the results, and returns
\* nothing twice and nothing out of range.
RangeClosed ==
  phase = "done" /\ query.kind = "range" =>
    /\ \A i, j \in 1 .. Len(output) : output[i] = output[j] => i = j
    /\ \A j \in 1 .. Len(output) : InRadius(dist[output[j]], query.radius)
    /\ stats.second /\ query.maxReturned = NoLimit =>
         \A u \in Range(scratch.inRange) : \A v \in Certain(graph[u]) :
           InRadius(dist[v], query.outer) => v \in Range(scratch.inRange)

\* Vertices that a paged search can reach: the smallest set that has the
\* neighbours of the initial ids and of each of its members.
InitIds == Range(query.initIds)
Follow(u) == {v \in Certain(SelectSeq(graph[u], LAMBDA w : w \notin InitIds)) : dist[v] # NaN}
Reachable ==
  {v \in Vertices : \A S \in SUBSET Vertices :
     (UNION {Follow(u) : u \in InitIds \cup S} \subseteq S) => v \in S}

\* The pages of a paged search have no result in common, although every page
\* resets the cursor and goes over entries that were expanded before, and a page
\* that is not full is the last one: everything reachable has been returned,
\* except for the start point.
PagesSound ==
  query.kind = "paged" =>
    LET all == FlattenSeq(output)
    IN  /\ \A i, j \in 1 .. Len(all) : all[i] = all[j] => i = j
        /\ phase = "paging" /\ output # <<>> /\ Len(Last(output)) < page.k =>
             Reachable \ {StartPoint} \subseteq Range(all)

DistinctDistances == \A v, w \in Vertices : dist[v] = dist[w] => v = w

\* The global queue of a diverse search holds exactly what the queues of the
\* attributes hold, as long as distances differ, and in the end at most
\* diverse_results_k of an attribute.
DiverseQueuesAgree ==
  query.kind = "diverse" /\ DistinctDistances =>
    /\ IdsIn(scratch.best) = UNION {IdsIn(scratch.local[a]) : a \in Attributes}
    /\ phase = "done" =>
         \A a \in Attributes :
           Cardinality({v \in IdsIn(scratch.best) : query.attribute[v] = a}) <= query.diverseK

\* Every search ends, and so does the next one with the same scratch.
EventuallyOver == []<>Over
============================================================================
