---------------------------- MODULE GraphUpdate ----------------------------
(***************************************************************************)
(* The changes that DiskANN makes to a graph index (diskann/src/graph/     *)
(* index.rs): insert, inplace_delete with its three ways to find the       *)
(* neighbours of a vertex, drop_deleted_neighbors and consolidate_vector,  *)
(* on the in-memory provider (diskann-providers, async_/inmem/provider.rs, *)
(* simple_neighbor_provider.rs, table_delete_provider.rs).                 *)
(*                                                                         *)
(* Insertions and deletions run in tasks that interleave.  The provider    *)
(* reads, writes and extends one adjacency list under its lock, so each    *)
(* of these is a step; what a task read is its own copy and may be stale   *)
(* when it writes.  The statuses of the ids of one list, which are bits,   *)
(* are read together with the list, and the vectors that a pruning needs   *)
(* at one time.  Ids that the code takes from a HashMap or a HashSet are   *)
(* taken in increasing order.                                              *)
(***************************************************************************)
EXTENDS Prune

CONSTANTS
  Capacity,       \* max_points: the ids below it are slots, the next is the start point
  Vectors,        \* places of vectors on a line
  StartVector,
  Conf,           \* pruning configuration
  MaxDegree,      \* max_degree_with_slack, and the room for a list
  MaxBackedges,
  LBuild,
  NumToReplace,
  Tasks

Start == Capacity
Nodes == 0 .. Capacity

VARIABLES
  lists,      \* adjacency lists
  deleted,    \* ids whose delete bit is set
  vec,        \* vectors
  work,       \* items that no task has taken yet
  task,       \* what each task is doing
  shed        \* whether a list has lost an edge, or had no room for one

index == <<lists, deleted, vec>>
graphVars == <<index, work, task, shed>>

Idle == [pc |-> "idle"]
AllIdle == work = <<>> /\ \A t \in Tasks : task[t] = Idle

GraphInit ==
  /\ lists = [n \in Nodes |-> <<>>]
  /\ deleted = {}
  /\ vec = [n \in Nodes |-> IF n = Start THEN StartVector ELSE 0]
  /\ work = <<>>
  /\ task = [t \in Tasks |-> Idle]
  /\ shed = FALSE

\* The squared distance between two vectors, and between those of two ids.
L2(u, v) == (u - v) * (u - v)
D(a, b) == L2(vec[a], vec[b])
Distances == [a, b \in Nodes |-> D(a, b)]

Present(seq) == SelectSeq(seq, LAMBDA n : n \notin deleted)
InOrder(S) == SetToSortSeq(S, <)

\* Fault: an id that has come since the list was read is not looked for.
AppendUnchecked(list, ids) ==
  SubSeq(list \o ids, 1, Least(MaxDegree, Len(list \o ids)))

\* SimpleNeighborProviderAsync::append_vector_sync: ids that are new, while
\* there is room.
AppendVector(list, ids) ==
  LET Add(l, id) == IF id \in Range(l) \/ Len(l) >= MaxDegree THEN l ELSE Append(l, id)
  IN  Fold(Add, list, ids)

\* A task writes a list that should hold what it held before and more.
WriteList(n, list, more) ==
  /\ lists' = [lists EXCEPT ![n] = list]
  /\ shed' = (shed \/ ~(Range(lists[n]) \cup more \subseteq Range(list)))

Goto(t, state) == task' = [task EXCEPT ![t] = state]
----------------------------------------------------------------------------
(* search_internal, of a search that inserts or deletes. *)

\* k is the number of replacements that a deletion asks for.
NewSearch(op, id, query, l, k) ==
  [pc |-> "search", op |-> op, id |-> id, query |-> query, l |-> l, k |-> k,
   best |-> Insert(NewQueue(l + 1), Neighbor(Start, L2(query, StartVector))),
   seen |-> {Start}, visited |-> <<>>]

\* One iteration: the closest candidate is recorded and its list scored.
Expand(t) ==
  LET s == task[t]
  IN  /\ s.pc = "search" /\ HasNotVisitedNode(s.best)
      /\ \E c \in {ClosestNotVisited(s.best)} :
         \E new \in {SelectSeq(lists[c.id], LAMBDA n : n \notin s.seen)} :
           Goto(t, [s EXCEPT
             !.best = Fold(LAMBDA q, n : Insert(q, Neighbor(n, L2(s.query, vec[n]))),
                           VisitClosest(s.best), new),
             !.seen = @ \cup Range(new),
             !.visited = Append(@, Neighbor(c.id, c.dist))])
      /\ UNCHANGED <<index, work, shed>>

Searched(t, op) ==
  task[t].pc = "search" /\ task[t].op = op /\ ~HasNotVisitedNode(task[t].best)
----------------------------------------------------------------------------
(* insert *)

\* The vector is stored before anything leads to it.
StartInsert(t) ==
  /\ task[t] = Idle /\ work # <<>> /\ Head(work).op = "insert"
  /\ LET item == Head(work)
     IN  /\ vec' = [vec EXCEPT ![item.id] = item.vector]
         /\ Goto(t, NewSearch("insert", item.id, item.vector, LBuild, 0))
  /\ work' = Tail(work)
  /\ UNCHANGED <<lists, deleted, shed>>

\* Fault: the last of the back-edges is left out.
SetOutEdgesShort(t) ==
  /\ Searched(t, "insert")
  /\ \E new \in {RobustPrune(task[t].visited, task[t].id, Nodes, Distances, Conf, FALSE)} :
       /\ WriteList(task[t].id, new, {})
       /\ Goto(t, [pc |-> "link", op |-> "insert", id |-> task[t].id, remove |-> {},
                   edges |-> [k \in 1 .. Least(MaxBackedges, Len(new) - 1) |-> <<new[k], <<task[t].id>>>>]])
  /\ UNCHANGED <<deleted, vec, work>>

\* The visited vertices are pruned into the out-edges, and the back-edges are due.
SetOutEdges(t) ==
  /\ Searched(t, "insert")
  /\ \E new \in {RobustPrune(task[t].visited, task[t].id, Nodes, Distances, Conf, FALSE)} :
       /\ WriteList(task[t].id, new, {})
       /\ Goto(t, [pc |-> "link", op |-> "insert", id |-> task[t].id, remove |-> {},
                   edges |-> [k \in 1 .. Least(MaxBackedges, Len(new)) |-> <<new[k], <<task[t].id>>>>]])
  /\ UNCHANGED <<deleted, vec, work>>
----------------------------------------------------------------------------
(* add_edge_and_prune *)

\* What it does with the list that it has read: nothing, append or set.
AddEdgeAndPrune(source, list, targets, remove) ==
  LET kept     == SelectSeq(list, LAMBDA n : n \notin remove)
      extended == ExtendUnique(kept, targets)
      added    == SubSeq(extended, Len(kept) + 1, Len(extended))
      removed  == Len(kept) < Len(list)
  IN  IF added = <<>> /\ ~removed THEN [how |-> "skip"]
      ELSE IF Len(extended) > MaxDegree
      THEN [how |-> "set", list |-> RobustPruneList(extended, source, Nodes, Distances, Conf, FALSE)]
      ELSE IF removed THEN [how |-> "set", list |-> extended]
      ELSE [how |-> "append", list |-> added]

NextEdge(s) ==
  [pc |-> "link", op |-> s.op, id |-> s.id, remove |-> s.remove, edges |-> Tail(s.edges)]

\* The list of the next source is read.
ReadSource(t) ==
  /\ task[t].pc = "link" /\ task[t].edges # <<>>
  /\ \E put \in {AddEdgeAndPrune(Head(task[t].edges)[1], lists[Head(task[t].edges)[1]],
                                 Head(task[t].edges)[2], task[t].remove)} :
       Goto(t, IF put.how = "skip" THEN NextEdge(task[t])
               ELSE [pc |-> "put", op |-> task[t].op, id |-> task[t].id,
                     remove |-> task[t].remove, edges |-> task[t].edges, put |-> put])
  /\ UNCHANGED <<index, work, shed>>

\* The list of the source is extended, or replaced.
WriteSource(t) ==
  /\ task[t].pc = "put"
  /\ LET source == Head(task[t].edges)[1]
         put    == task[t].put
     IN  WriteList(source,
                   IF put.how = "set" THEN put.list ELSE AppendVector(lists[source], put.list),
                   Range(Head(task[t].edges)[2]))
  /\ Goto(t, NextEdge(task[t]))
  /\ UNCHANGED <<deleted, vec, work>>

\* An insertion is complete; a deletion drops the list of its vertex.
Finish(t) ==
  /\ task[t].pc = "link" /\ task[t].edges = <<>>
  /\ IF task[t].op = "delete" THEN WriteList(task[t].id, <<>>, {})
     ELSE UNCHANGED <<lists, shed>>
  /\ Goto(t, Idle)
  /\ UNCHANGED <<deleted, vec, work>>
----------------------------------------------------------------------------
(* inplace_delete *)

\* The delete bit is set first.  VisitedAndTopK then searches for the vector.
StartDelete(t) ==
  /\ task[t] = Idle /\ work # <<>> /\ Head(work).op = "delete"
  /\ LET item == Head(work)
     IN  /\ deleted' = deleted \cup {item.id}
         /\ Goto(t, IF item.method.kind = "VisitedAndTopK"
                    THEN NewSearch("delete", item.id, vec[item.id], item.method.l, item.method.k)
                    ELSE [pc |-> "hop", id |-> item.id, method |-> item.method.kind])
  /\ work' = Tail(work)
  /\ UNCHANGED <<lists, vec, shed>>

\* The candidates that may lead to the vertex, and those that may replace it.
FindRefs(t, id, candidates, replace) ==
  Goto(t, [pc |-> "refs", id |-> id, todo |-> candidates, found |-> <<>>, replace |-> replace])

\* get_candidates_using_visited_and_topk, after the search.
TakeTop(t) ==
  /\ Searched(t, "delete")
  /\ LET best == BestCandidates(task[t].best)
         ids  == Present([k \in 1 .. Len(best) |-> best[k].id])
         top  == SubSeq(ids, 1, Least(task[t].l, Len(ids)))
     IN  FindRefs(t, task[t].id, top, SubSeq(top, 1, Least(task[t].k, Len(top))))
  /\ UNCHANGED <<index, work, shed>>

\* get_candidates_using_twohop_and_onehop and get_candidates_using_onehop: the
\* neighbours that are not deleted.
FirstHop(t) ==
  /\ task[t].pc = "hop"
  /\ LET one == Present(lists[task[t].id])
     IN  IF task[t].method = "OneHop" THEN FindRefs(t, task[t].id, one, one)
         ELSE Goto(t, [pc |-> "hop2", id |-> task[t].id, one |-> one, todo |-> one, two |-> {}])
  /\ UNCHANGED <<index, work, shed>>

\* The list of one neighbour.
SecondHop(t) ==
  /\ task[t].pc = "hop2" /\ task[t].todo # <<>>
  /\ LET n == Head(task[t].todo)
     IN  Goto(t, [task[t] EXCEPT !.todo = Tail(@), !.two = @ \cup {n} \cup Range(lists[n])])
  /\ UNCHANGED <<index, work, shed>>

\* The vertices of both hops that are not deleted.
HopsRead(t) ==
  /\ task[t].pc = "hop2" /\ task[t].todo = <<>>
  /\ FindRefs(t, task[t].id, Present(InOrder(task[t].two)), task[t].one)
  /\ UNCHANGED <<index, work, shed>>

\* return_refs_to_deleted_vertex, one candidate.
CheckRef(t) ==
  /\ task[t].pc = "refs" /\ task[t].todo # <<>>
  /\ LET c == Head(task[t].todo)
     IN  Goto(t, [task[t] EXCEPT
                    !.todo = Tail(@),
                    !.found = IF task[t].id \in Range(lists[c]) THEN Append(@, c) ELSE @])
  /\ UNCHANGED <<index, work, shed>>

\* The candidates nearest to a vertex, itself excepted.
Nearest(n, replace) ==
  LET others == SelectSeq(replace, LAMBDA o : o # n)
      sorted == SortedNeighbors([k \in 1 .. Len(others) |-> Neighbor(others[k], D(n, others[k]))],
                                NumToReplace)
  IN  [k \in 1 .. Len(sorted) |-> sorted[k].id]

\* inplace_delete_inner: those that led to the vertex get the candidates nearest
\* to them, and the candidates nearest to a neighbour of the vertex get an edge to it.
EdgesToAdd(inNeighbors, adjacency, replace) ==
  LET sources == Range(inNeighbors) \cup
                 UNION {Range(Nearest(n, replace)) : n \in Range(adjacency)}
      Targets(s) ==
        (IF s \in Range(inNeighbors) THEN Nearest(s, replace) ELSE <<>>)
        \o SelectSeq(adjacency, LAMBDA n : s \in Range(Nearest(n, replace)))
      order == InOrder(sources)
  IN  [k \in 1 .. Len(order) |-> <<order[k], Targets(order[k])>>]

PlanEdges(t) ==
  /\ task[t].pc = "refs" /\ task[t].todo = <<>>
  /\ Goto(t, [pc |-> "link", op |-> "delete", id |-> task[t].id, remove |-> {task[t].id},
              edges |-> EdgesToAdd(task[t].found, Present(lists[task[t].id]), task[t].replace)])
  /\ UNCHANGED <<index, work, shed>>
----------------------------------------------------------------------------
(* Clean-up, one vertex at a time. *)

\* drop_deleted_neighbors
DropDeletedNeighbors(n, onlyOrphans) ==
  LET gone == SelectSeq(lists[n], LAMBDA m : m \in deleted)
      pool == Present(lists[n]) \o
              (IF onlyOrphans THEN SelectSeq(gone, LAMBDA m : lists[m] # <<>>) ELSE <<>>)
  IN  IF n \in deleted THEN lists[n] ELSE pool

\* consolidate_vector: the neighbours of deleted neighbours take their place.
ConsolidateVector(n) ==
  LET gone == SelectSeq(lists[n], LAMBDA m : m \in deleted)
      pool == InOrder(UNION {Range(Present(lists[m])) : m \in {n} \cup Range(gone)} \ {n})
  IN  IF n \in deleted \/ (gone = <<>> /\ Len(lists[n]) <= Conf.degree) THEN lists[n]
      ELSE IF Len(pool) < Conf.degree THEN pool
      ELSE RobustPruneList(pool, n, Nodes, Distances, Conf, FALSE)

Step(t) ==
  \/ StartInsert(t) \/ Expand(t) \/ SetOutEdges(t)
  \/ ReadSource(t) \/ WriteSource(t) \/ Finish(t)
  \/ StartDelete(t) \/ TakeTop(t) \/ FirstHop(t) \/ SecondHop(t) \/ HopsRead(t)
  \/ CheckRef(t) \/ PlanEdges(t)

\* Sets of vertices that no edge leaves.
Closed == {S \in SUBSET Nodes : \A n \in S : Range(lists[n]) \subseteq S}
============================================================================
