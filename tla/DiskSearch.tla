----------------------------- MODULE DiskSearch ----------------------------
(***************************************************************************)
(* Searches of a DiskANN disk index (diskann-disk/src/search/provider, the *)
(* reader linux_aligned_file_reader.rs, the pool utils/object_pool.rs).    *)
(*                                                                         *)
(* Threads search at the same time.  Each one takes a scratch from a pool; *)
(* the scratch owns a vertex provider, and that owns the buffers of the    *)
(* sector graph and an io_uring.  A failed search gives its scratch back   *)
(* to the pool as well.  Vertices are chosen by approximate (PQ) distances *)
(* that are in memory, and the candidates are ranked by exact ones.        *)
(*                                                                         *)
(* The ring is external.  The kernel answers a request in its own time,    *)
(* and submit_and_wait(n) waits until there are n completions to read.     *)
(***************************************************************************)
EXTENDS DiskIndex

CONSTANTS
  Threads,
  Graphs,         \* adjacency lists, functions from vertices to sequences
  Distances,      \* pairs of functions: approximate and exact distances
  Layouts,        \* records with nodesPerSector and sectorsPerNode
  CacheSizes,     \* numbers of vertices to cache
  Queries,        \* records with the parameters of a search
  Medoid,
  BfsBeamWidth,   \* BEAM_WIDTH_FOR_BFS
  MaxIoConcurrency, \* MAX_IO_CONCURRENCY: requests in a batch of the reader
  MaxSearches,
  MaxErrors       \* requests that the kernel answers with an error

VARIABLES
  graph, dist, layout, cache,  \* the index: it does not change
  pool,                        \* scratches that are not in use, oldest first
  scratch,                     \* the scratches made so far
  search,                      \* what each thread is doing
  searches, errors             \* searches begun and errors met so far

index == <<graph, dist, layout, cache>>
vars == <<index, pool, scratch, search, searches, errors>>

Idle == [pc |-> "idle", query |-> 0, sc |-> 0, best |-> NewQueue(1), visited |-> {},
         io |-> 0, ids |-> <<>>, fetch |-> <<>>, first |-> 0, at |-> 1, ranking |-> FALSE,
         out |-> <<>>, clean |-> TRUE]

Init ==
  /\ graph \in Graphs
  /\ dist \in Distances
  /\ layout \in Layouts
  /\ \E n \in CacheSizes : cache = SetupCache(graph, Medoid, n, BfsBeamWidth)
  /\ pool = <<>> /\ scratch = <<>>
  /\ search = [t \in Threads |-> Idle]
  /\ searches = 0 /\ errors = 0

ApproxDist(v) == dist[1][v]
ExactDist(node) == IF node = NoNode THEN 0 ELSE dist[2][node]
Take(seq, n) == SubSeq(seq, 1, Least(n, Len(seq)))
InsertScored(q, v) == Insert(q, Neighbor(v, ApproxDist(v)))
----------------------------------------------------------------------------
(* A scratch and its vertex provider. *)

\* DiskSearchScratch::try_create: buffers for no vertex, and a new ring.
NewScratch ==
  [capacity |-> 0, buffer |-> <<>>, vectors |-> <<>>, lists |-> <<>>, loaded |-> <<>>,
   filtered |-> <<>>, distances |-> <<>>, inflight |-> <<>>, completed |-> <<>>]

\* DiskVertexProvider::clear_before_next_read
ClearProvider(s) == [s EXCEPT !.loaded = <<>>, !.lists = <<>>]

\* DiskSearchScratch::try_modify
ModifyScratch(s) == [ClearProvider(s) EXCEPT !.distances = <<>>, !.filtered = <<>>]

\* DiskVertexProvider::reconfigure: buffers that are too small are replaced.  A
\* request that is still in flight keeps writing to the old ones.
Reconfigured(s, n) ==
  IF n <= s.capacity THEN s
  ELSE [s EXCEPT !.capacity = n, !.buffer = [i \in 1 .. n |-> Blank],
                 !.vectors = [i \in 1 .. n |-> NoNode],
                 !.inflight = [i \in DOMAIN @ |-> [@[i] EXCEPT !.slot = 0]]]

\* CachedDiskVertexProvider::filter_cached_nodes: the vertices to read, and the
\* place among them of each one that is to be read.
FilterCached(ids) ==
  LET uncached == SelectSeq(ids, LAMBDA v : ~InCache(cache, v))
  IN  [fetch    |-> uncached,
       filtered |-> [i \in {j \in 1 .. Len(ids) : ~InCache(cache, ids[j])} |->
                       Cardinality({j \in 1 .. i : ~InCache(cache, ids[j])})]]

\* load_vertices up to the first read: the scratch, with buffers for the batch.
Prepared(s, f) ==
  LET t == [s EXCEPT !.filtered = f.filtered]
  IN  IF f.fetch = <<>> THEN t ELSE Reconfigured(ClearProvider(t), Len(f.fetch))

\* What get_vector, and get_adjacency_list and get_associated_data, find.
VectorOf(s, v) ==
  IF InCache(cache, v) THEN CachedVector(cache, v) ELSE s.vectors[s.loaded[v].vector]
ListOf(s, v) ==
  IF InCache(cache, v) THEN CachedList(cache, v) ELSE s.lists[s.loaded[v].list]

\* DiskVertexProvider::process_loaded_node
ProcessNode(s, v, idx) ==
  LET node == NodeAt(layout, s.buffer[idx], v)
  IN  [s EXCEPT !.vectors[idx] = node,
                !.lists = Append(@, node),
                !.loaded = (v :> [vector |-> idx, list |-> Cardinality(DOMAIN @) + 1]) @@ @]
----------------------------------------------------------------------------
(* A search.  Q is its query, S its scratch. *)

Q(t) == search[t].query
S(t) == scratch[search[t].sc]

\* The thread goes on to load the vertices ids.
Load(me, s, ids, ranking) ==
  LET f == FilterCached(ids)
  IN  /\ search' = [search EXCEPT ![me.t] =
                      [me.r EXCEPT !.ids = ids, !.fetch = f.fetch, !.first = 0, !.at = 1,
                         !.ranking = ranking, !.pc = IF f.fetch = <<>> THEN "process" ELSE "submit"]]
      /\ scratch' = [scratch EXCEPT ![me.r.sc] = Prepared(s, f)]

\* DiskIndexSearcher::search_internal up to the loop: ObjectPool::try_get, and the
\* medoid or, in a flat search, every vertex the filter accepts, is scored.
Begin(t, q) ==
  /\ search[t].pc \in {"idle", "done", "failed"}
  /\ searches < MaxSearches
  /\ LET fresh == pool = <<>>
         sc    == IF fresh THEN Len(scratch) + 1 ELSE Head(pool)
         s     == IF fresh THEN NewScratch ELSE ModifyScratch(scratch[sc])
         from  == IF q.flat THEN SetToSortSeq(q.accepts, <) ELSE <<Medoid>>
     IN  /\ scratch' = IF fresh THEN Append(scratch, s) ELSE [scratch EXCEPT ![sc] = s]
         /\ pool' = IF fresh THEN pool ELSE Tail(pool)
         /\ search' = [search EXCEPT ![t] =
              [Idle EXCEPT !.pc = IF q.flat THEN "candidates" ELSE "search",
                           !.query = q, !.sc = sc,
                           !.best = Fold(InsertScored, NewQueue(q.l + 1), from),
                           !.visited = Range(from),
                           !.clean = s.inflight = <<>> /\ s.completed = <<>>]]
  /\ searches' = searches + 1
  /\ UNCHANGED <<index, errors>>

\* The search is over, and its scratch goes back to the pool.
Finished(t, pc, out) ==
  /\ search' = [search EXCEPT ![t].pc = pc, ![t].out = out]
  /\ pool' = Append(pool, search[t].sc)

\* Fault: the limit is compared with the vertices of this beam.
TakeBeamUnlimited(t) ==
  /\ search[t].pc = "search" /\ HasNotVisitedNode(search[t].best)
  /\ \E taken \in {TakeBeam(search[t].best, Q(t).beam)} :
     LET ids == Take(taken[2], Q(t).ioLimit)
         r   == [search[t] EXCEPT !.best = taken[1]]
     IN  IF ids = <<>>
         THEN search' = [search EXCEPT ![t] = r] /\ UNCHANGED scratch
         ELSE Load([t |-> t, r |-> r], S(t), ids, FALSE)
  /\ UNCHANGED <<index, pool, searches, errors>>

\* Fault: at the I/O limit the beam stays in the queue.
ExpandBeamStuck(t) ==
  /\ search[t].pc = "search" /\ HasNotVisitedNode(search[t].best)
  /\ \E taken \in {TakeBeam(search[t].best, Q(t).beam)} :
     LET ids == Take(taken[2], Q(t).ioLimit - search[t].io)
         r   == [search[t] EXCEPT !.best = taken[1]]
     IN  IF ids = <<>> THEN UNCHANGED <<search, scratch>>
         ELSE Load([t |-> t, r |-> r], S(t), ids, FALSE)
  /\ UNCHANGED <<index, pool, searches, errors>>

\* The loop takes a beam, and DiskAccessor::expand_beam loads the part of it that
\* the I/O limit still allows.  terminate_early never stops the loop.
ExpandBeam(t) ==
  /\ search[t].pc = "search" /\ HasNotVisitedNode(search[t].best)
  /\ ~(search[t].io > Q(t).ioLimit)
  /\ \E taken \in {TakeBeam(search[t].best, Q(t).beam)} :
     LET ids == Take(taken[2], Q(t).ioLimit - search[t].io)
         r   == [search[t] EXCEPT !.best = taken[1]]
     IN  IF ids = <<>>
         THEN search' = [search EXCEPT ![t] = r] /\ UNCHANGED scratch
         ELSE Load([t |-> t, r |-> r], S(t), ids, FALSE)
  /\ UNCHANGED <<index, pool, searches, errors>>

BatchSize(t) == Least(Len(search[t].fetch) - search[t].first, MaxIoConcurrency)

\* LinuxAlignedFileReader::read: the requests of a batch are pushed and submitted.
Submit(t) ==
  /\ search[t].pc = "submit"
  /\ LET r    == search[t]
         reqs == [j \in 1 .. BatchSize(t) |->
                    [slot |-> r.first + j, sector |-> NodeSectorIndex(layout, r.fetch[r.first + j])]]
     IN  scratch' = [scratch EXCEPT ![r.sc].inflight = @ \o reqs]
  /\ search' = [search EXCEPT ![t].pc = "wait"]
  /\ UNCHANGED <<index, pool, searches, errors>>

\* The kernel answers a request: the buffer is filled, or there is an error.
Answer(sc, i, ok) ==
  /\ i \in DOMAIN scratch[sc].inflight
  /\ ok \/ errors < MaxErrors
  /\ LET req == scratch[sc].inflight[i]
     IN  scratch' = [scratch EXCEPT
           ![sc].inflight = RemoveAt(@, i),
           ![sc].completed = Append(@, ok),
           ![sc].buffer = IF ok /\ req.slot # 0 THEN [@ EXCEPT ![req.slot] = req.sector] ELSE @]
  /\ errors' = IF ok THEN errors ELSE errors + 1
  /\ UNCHANGED <<index, pool, search, searches>>

\* Fault: one completion is enough.
WaitForOne(t) ==
  /\ search[t].pc = "wait"
  /\ S(t).completed # <<>>
  /\ LET s == S(t)
         r == search[t]
         n == r.first + BatchSize(t)
     IN  /\ scratch' = [scratch EXCEPT ![r.sc].completed = <<>>]
         /\ search' = [search EXCEPT ![t].first = n,
                         ![t].pc = IF n < Len(r.fetch) THEN "submit" ELSE "process"]
  /\ UNCHANGED <<index, pool, searches, errors>>

\* submit_and_wait returns, and the completion queue is flushed.  The first error
\* ends the search, and leaves the completions behind it in the ring.
Wait(t) ==
  /\ search[t].pc = "wait"
  /\ Len(S(t).completed) >= BatchSize(t)
  /\ LET s   == S(t)
         r   == search[t]
         bad == {i \in DOMAIN s.completed : ~s.completed[i]}
         n   == r.first + BatchSize(t)
     IN  IF bad # {}
         THEN /\ scratch' = [scratch EXCEPT ![r.sc].completed = SubSeq(@, Min(bad) + 1, Len(@))]
              /\ Finished(t, "failed", <<>>)
         ELSE /\ scratch' = [scratch EXCEPT ![r.sc].completed = <<>>]
              /\ search' = [search EXCEPT ![t].first = n,
                              ![t].pc = IF n < Len(r.fetch) THEN "submit" ELSE "process"]
              /\ UNCHANGED pool
  /\ UNCHANGED <<index, searches, errors>>

\* ensure_vertex_loaded: one of the vertices loaded is processed.
Process(t) ==
  /\ search[t].pc = "process" /\ search[t].at <= Len(search[t].ids)
  /\ LET i == search[t].at
         v == search[t].ids[i]
     IN  IF InCache(cache, v) THEN UNCHANGED scratch
         ELSE scratch' = [scratch EXCEPT ![search[t].sc] = ProcessNode(@, v, @.filtered[i])]
  /\ search' = [search EXCEPT ![t].at = @ + 1]
  /\ UNCHANGED <<index, pool, searches, errors>>

\* The list of a vertex of the beam: the queue and the visited set after it.
ScoreList(acc, list) ==
  LET new == SelectSeq(list, LAMBDA w : w \notin acc.visited)
  IN  [best |-> Fold(InsertScored, acc.best, new), visited |-> acc.visited \cup Range(new)]

Processed(t) == search[t].pc = "process" /\ search[t].at > Len(search[t].ids)

\* The rest of ensure_loaded and expand_beam: exact distances are noted, and the
\* neighbours that are new are scored.
FinishBeam(t) ==
  /\ Processed(t) /\ ~search[t].ranking
  /\ LET r == search[t]
         s == S(t)
     IN  /\ scratch' = [scratch EXCEPT ![r.sc].distances =
                          [v \in Range(r.ids) |-> [node |-> VectorOf(s, v), query |-> Q(t)]] @@ @]
         /\ \E acc \in {Fold(LAMBDA a, v : ScoreList(a, AdjacencyList(graph, ListOf(s, v))),
                             [best |-> r.best, visited |-> r.visited], r.ids)} :
              search' = [search EXCEPT ![t] =
                           [r EXCEPT !.pc = "search", !.io = @ + Len(r.ids), !.ids = <<>>,
                                     !.best = acc.best, !.visited = acc.visited]]
  /\ UNCHANGED <<index, pool, searches, errors>>

\* The loop is over.
FinishSearch(t) ==
  /\ search[t].pc = "search" /\ ~HasNotVisitedNode(search[t].best)
  /\ search' = [search EXCEPT ![t].pc = "candidates"]
  /\ UNCHANGED <<index, pool, scratch, searches, errors>>

\* The candidates that the filter accepts, in the order of the queue.
Candidates(t) ==
  LET best == BestCandidates(search[t].best)
      all  == IF Q(t).flat THEN Take(best, Q(t).l) ELSE best
  IN  SelectSeq([i \in 1 .. Len(all) |-> all[i].id], LAMBDA v : v \in Q(t).accepts)

\* RerankAndFilter::post_process: candidates without an exact distance are loaded,
\* all of them, whatever the I/O limit.
Rerank(t) ==
  /\ search[t].pc = "candidates"
  /\ LET missing == SelectSeq(Candidates(t), LAMBDA v : v \notin DOMAIN S(t).distances)
     IN  IF missing = <<>>
         THEN /\ search' = [search EXCEPT ![t].pc = "process", ![t].ids = <<>>, ![t].ranking = TRUE]
              /\ UNCHANGED scratch
         ELSE Load([t |-> t, r |-> search[t]], S(t), missing, TRUE)
  /\ UNCHANGED <<index, pool, searches, errors>>

\* Fault: candidates loaded for the ranking are appended in the order of the queue.
RankedUnsorted(found) == found

\* The results, nearest first.  The order of equal distances is not specified.
Ranked(found) ==
  SetToSortSeq(Range(found), LAMBDA a, b : \/ ExactDist(a.node) < ExactDist(b.node)
                                           \/ ExactDist(a.node) = ExactDist(b.node) /\ a.id < b.id)

FinishRerank(t) ==
  /\ Processed(t) /\ search[t].ranking
  /\ LET s     == S(t)
         known == SelectSeq(Candidates(t), LAMBDA v : v \in DOMAIN s.distances)
         found == [i \in 1 .. Len(known) |-> [id |-> known[i], node |-> s.distances[known[i]].node]]
                  \o [i \in 1 .. Len(search[t].ids) |->
                        [id |-> search[t].ids[i], node |-> VectorOf(s, search[t].ids[i])]]
     IN  Finished(t, "done", Take(Ranked(found), Q(t).k))
  /\ UNCHANGED <<index, scratch, searches, errors>>

ThreadStep(t) ==
  \/ ExpandBeam(t) \/ Submit(t) \/ Wait(t) \/ Process(t)
  \/ FinishBeam(t) \/ FinishSearch(t) \/ Rerank(t) \/ FinishRerank(t)

KernelStep(sc) ==
  \E i \in DOMAIN scratch[sc].inflight, ok \in BOOLEAN : Answer(sc, i, ok)

Over == searches = MaxSearches /\ \A t \in Threads : search[t].pc \in {"idle", "done", "failed"}

Next ==
  \/ \E t \in Threads : ThreadStep(t) \/ \E q \in Queries : Begin(t, q)
  \/ \E sc \in DOMAIN scratch : KernelStep(sc)
  \/ Over /\ UNCHANGED vars

Spec == Init /\ [][Next]_vars

\* Threads run, and the kernel answers every request in the end.
FairSpec ==
  /\ Spec
  /\ \A t \in Threads : WF_vars(ThreadStep(t))
  /\ \A sc \in 1 .. MaxSearches : WF_vars(sc \in DOMAIN scratch /\ KernelStep(sc))
----------------------------------------------------------------------------
Held(t) == search[t].pc \notin {"idle", "done", "failed"}

\* What a search uses as the vector or the list of a vertex is that vertex's own,
\* and the distances are those to its own query, through every buffer that was
\* reused, resized or skipped for the cache, unless its ring was not empty when
\* the search began.  That takes an I/O error.
OwnData ==
  \A t \in Threads : Held(t) =>
    /\ search[t].clean =>
         /\ \A v \in DOMAIN S(t).loaded :
              /\ S(t).vectors[S(t).loaded[v].vector] = v
              /\ S(t).lists[S(t).loaded[v].list] = v
         /\ \A v \in DOMAIN S(t).distances :
              S(t).distances[v] = [node |-> v, query |-> Q(t)]
    /\ ~search[t].clean => errors > 0

\* A search never loads more vertices for its expansions than the I/O limit, so
\* that the unsigned difference in expand_beam does not wrap around.
IoBounded ==
  \A t \in Threads : Held(t) =>
    search[t].io + (IF search[t].ranking THEN 0 ELSE Len(search[t].ids)) <= Q(t).ioLimit

\* The results are the nearest of the candidates that the filter accepts, by exact
\* distance and in that order, wherever the distances came from.
RerankExact ==
  \A t \in Threads : search[t].pc = "done" /\ search[t].clean =>
    LET out   == search[t].out
        found == {out[i].id : i \in DOMAIN out}
        all   == Range(Candidates(t))
    IN  /\ Len(out) = Least(Q(t).k, Cardinality(all))
        /\ found \subseteq all /\ Cardinality(found) = Len(out)
        /\ \A i, j \in DOMAIN out : i < j => ExactDist(out[i].id) <= ExactDist(out[j].id)
        /\ \A v \in all \ found, w \in found : ExactDist(w) <= ExactDist(v)

\* Vertices at most n steps away from the medoid.
Ball[n \in Nat] ==
  IF n = 0 THEN {Medoid}
  ELSE Ball[n - 1] \cup UNION {Range(graph[v]) : v \in Ball[n - 1]}

\* The cache holds as many vertices as it has room for, if as many can be reached,
\* no vertex that is further from the medoid than one it leaves out, and the own
\* data of each.
CacheNearest ==
  LET held  == DOMAIN cache.mapping
      reach == Ball[Cardinality(DOMAIN graph)]
  IN  /\ Cardinality(held) = Least(cache.capacity, Cardinality(reach))
      /\ \A n \in 0 .. Cardinality(DOMAIN graph) : held \subseteq Ball[n] \/ Ball[n] \subseteq held
      /\ \A v \in held : CachedVector(cache, v) = v /\ CachedList(cache, v) = v

\* Every search ends, also on a scratch with an answer that nobody waits for.
EventuallyReturns == \A t \in Threads : Held(t) ~> ~Held(t)

\* "Wait for the batch to complete": when the vertices read are processed, no
\* request is in flight.
BatchComplete ==
  \A t \in Threads : search[t].pc = "process" => S(t).inflight = <<>>
============================================================================
