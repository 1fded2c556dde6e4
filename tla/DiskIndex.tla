----------------------------- MODULE DiskIndex -----------------------------
(***************************************************************************)
(* The disk index file of DiskANN as its readers see it, and the static    *)
(* cache of vertices near the medoid (diskann-disk: disk_sector_graph.rs,  *)
(* cache.rs, disk_vertex_provider_factory.rs).                             *)
(*                                                                         *)
(* What a buffer holds is named by the first sector that was read into it, *)
(* and the bytes of a node (its vector, adjacency list and associated      *)
(* data) by the vertex they belong to.                                     *)
(***************************************************************************)
EXTENDS NeighborQueue, FiniteSets, SequencesExt

\* A buffer that nothing was read into, and the node that such a buffer holds: no
\* neighbours and a vector of zeros.
Blank == 0
NoNode == -1

\* DiskSectorGraph::node_sector_index.  The first sector is the header.
NodeSectorIndex(layout, v) ==
  1 + (IF layout.nodesPerSector > 0 THEN v \div layout.nodesPerSector
       ELSE v * layout.sectorsPerNode)

\* DiskSectorGraph::node_disk_buf: the node found where vertex v should be in a
\* buffer that was read from the given sector on.
NodeAt(layout, sector, v) ==
  IF sector = Blank THEN NoNode
  ELSE IF layout.nodesPerSector > 0
  THEN (sector - 1) * layout.nodesPerSector + (v % layout.nodesPerSector)
  ELSE (sector - 1) \div layout.sectorsPerNode

AdjacencyList(graph, node) == IF node = NoNode THEN <<>> ELSE graph[node]
----------------------------------------------------------------------------
(* Cache: a slot for each vertex, and the lists in the order of their pushes. *)

NewCache(capacity) ==
  [mapping |-> <<>>, vectors |-> [i \in 1 .. capacity |-> NoNode], lists |-> <<>>,
   capacity |-> capacity]

InCache(cache, v) == v \in DOMAIN cache.mapping

CacheLen(cache) == Cardinality(DOMAIN cache.mapping)

CachedVector(cache, v) == cache.vectors[cache.mapping[v]]
CachedList(cache, v) == cache.lists[cache.mapping[v]]

CopyToCache(cache, idx, node) ==
  [cache EXCEPT !.vectors[idx] = node, !.lists = Append(@, node)]

\* Cache::insert.  A full cache refuses a vertex that it does not hold.
CacheInsert(cache, v, node) ==
  IF InCache(cache, v) THEN CopyToCache(cache, cache.mapping[v], node)
  ELSE IF CacheLen(cache) >= cache.capacity THEN cache
  ELSE LET idx == CacheLen(cache) + 1
       IN  CopyToCache([cache EXCEPT !.mapping = (v :> idx) @@ @], idx, node)

\* Fault: vertices are not marked when they enter the queue.
CacheVertexRevisits(graph, bfs, v) ==
  LET new == SelectSeq(graph[v], LAMBDA w : w \notin bfs.visited)
  IN  IF CacheLen(bfs.cache) >= bfs.cache.capacity THEN bfs
      ELSE [cache   |-> CacheInsert(bfs.cache, v, v),
            queue   |-> bfs.queue \o new,
            visited |-> bfs.visited]

\* One vertex of a batch of build_cache_via_bfs.  A cache that is full ends the
\* batch.
CacheVertex(graph, bfs, v) ==
  LET new == SelectSeq(graph[v], LAMBDA w : w \notin bfs.visited)
  IN  IF CacheLen(bfs.cache) >= bfs.cache.capacity THEN bfs
      ELSE [cache   |-> CacheInsert(bfs.cache, v, v),
            queue   |-> bfs.queue \o new,
            visited |-> bfs.visited \cup Range(new)]

\* One iteration of the loop of build_cache_via_bfs.
CacheBatch(graph, width, bfs) ==
  LET n     == Least(Len(bfs.queue), width)
      batch == SubSeq(bfs.queue, 1, n)
  IN  Fold(LAMBDA b, v : CacheVertex(graph, b, v),
           [bfs EXCEPT !.queue = SubSeq(@, n + 1, Len(@))], batch)

\* build_cache_via_bfs.  An iteration caches a vertex or is the last one.
BuildCache(graph, start, wanted, width) ==
  Fold(LAMBDA bfs, i : CacheBatch(graph, width, bfs),
       [cache |-> NewCache(wanted), queue |-> <<start>>, visited |-> {start}],
       [i \in 1 .. Cardinality(DOMAIN graph) |-> i]).cache

\* setup_cache, for a number of vertices to cache that may be zero.
SetupCache(graph, medoid, wanted, width) ==
  IF wanted = 0 THEN NewCache(0)
  ELSE BuildCache(graph, medoid, Least(wanted, Cardinality(DOMAIN graph)), width)
============================================================================
