--------------------------- MODULE NeighborQueue ---------------------------
(***************************************************************************)
(* NeighborPriorityQueue of DiskANN (diskann/src/neighbor/queue.rs): the   *)
(* candidate list of a graph search, sorted by distance, in which each     *)
(* entry remembers whether it has been expanded.  The operators take a     *)
(* queue and return the queue that the method leaves behind.               *)
(*                                                                         *)
(* size is Len(items).  cursor counts the entries in front of the next one *)
(* to expand, so that entry is items[cursor + 1].  The three loops of      *)
(* get_lower_bound, 16, 8 and the remaining distances at a time, compute   *)
(* one thing and are one definition here.                                  *)
(***************************************************************************)
EXTENDS Integers, Sequences

\* A distance that does not compare.  It is not a natural number.
NaN == -1

Least(a, b) == IF a <= b THEN a ELSE b
Greatest(a, b) == IF a >= b THEN a ELSE b

\* FoldLeft, written so that TLC evaluates each intermediate value once.
Fold(op(_, _), base, seq) ==
  LET after[i \in 0 .. Len(seq)] ==
        IF i = 0 THEN base
        ELSE CHOOSE r \in {op(acc, seq[i]) : acc \in {after[i - 1]}} : TRUE
  IN  after[Len(seq)]

Neighbor(id, dist) == [id |-> id, dist |-> dist]

\* NeighborPriorityQueue::new
NewQueue(l) ==
  [items |-> <<>>, capacity |-> l, cursor |-> 0, auto |-> FALSE, l |-> l]

\* NeighborPriorityQueue::auto_resizable_with_search_param_l
NewAutoQueue(l) == [NewQueue(l) EXCEPT !.auto = TRUE]

Size(q) == Len(q.items)

IsFull(q) == ~q.auto /\ Size(q) = q.capacity

\* One more than the index of the first entry at the given distance or further
\* away, and one more than the size if there is none.
LowerBound(q, d) ==
  CHOOSE i \in 1 .. Size(q) + 1 :
    /\ \A j \in 1 .. i - 1 : q.items[j].dist < d
    /\ i <= Size(q) => q.items[i].dist >= d

\* The capacity that insert leaves behind: a resizable queue that is full grows
\* by half of its capacity, and by at least one.
GrownCapacity(q) ==
  IF q.auto /\ Size(q) = q.capacity
  THEN q.capacity + Greatest(1, q.capacity \div 2)
  ELSE q.capacity

\* Entry e goes in front of the one at i.
Place(items, i, e) == SubSeq(items, 1, i - 1) \o <<e>> \o SubSeq(items, i, Len(items))

\* Fault: the cursor is not moved back to a nearer entry.
InsertKeepsCursor(q, nbr) ==
  LET i    == LowerBound(q, nbr.dist)
      kept == IF Size(q) = GrownCapacity(q) THEN SubSeq(q.items, 1, Size(q) - 1) ELSE q.items
  IN  IF nbr.dist = NaN \/ (IsFull(q) /\ q.items[Size(q)].dist < nbr.dist) THEN q
      ELSE [q EXCEPT !.items = Place(kept, i, [id |-> nbr.id, dist |-> nbr.dist, visited |-> FALSE]),
                     !.capacity = GrownCapacity(q)]

\* NeighborPriorityQueue::insert.  A queue that is full drops its last entry,
\* unless the new one is further away than that.
Insert(q, nbr) ==
  LET i    == LowerBound(q, nbr.dist)
      kept == IF Size(q) = GrownCapacity(q) THEN SubSeq(q.items, 1, Size(q) - 1) ELSE q.items
  IN  IF nbr.dist = NaN \/ (IsFull(q) /\ q.items[Size(q)].dist < nbr.dist) THEN q
      ELSE [q EXCEPT !.items = Place(kept, i, [id |-> nbr.id, dist |-> nbr.dist, visited |-> FALSE]),
                     !.capacity = GrownCapacity(q),
                     !.cursor = Least(@, i - 1)]

\* NeighborPriorityQueue::remove.  Only the first entry at the neighbour's
\* distance is compared with it.
RemoveNeighbor(q, nbr) ==
  LET i == LowerBound(q, nbr.dist)
  IN  IF i > Size(q) \/ q.items[Least(i, Size(q))].id # nbr.id THEN q
      ELSE [q EXCEPT !.items = SubSeq(@, 1, i - 1) \o SubSeq(@, i + 1, Size(q)),
                     !.cursor = IF i - 1 < @ THEN @ - 1 ELSE @]

HasNotVisitedNode(q) == q.cursor < Least(q.l, Size(q))

\* The entry that closest_notvisited returns, for a queue that has one.
ClosestNotVisited(q) == q.items[q.cursor + 1]

\* The queue that closest_notvisited leaves behind.
VisitClosest(q) ==
  LET marked == [q.items EXCEPT ![q.cursor + 1].visited = TRUE]
      next   == CHOOSE c \in q.cursor + 1 .. Size(q) :
                  /\ \A j \in q.cursor + 2 .. c : marked[j].visited
                  /\ c < Size(q) => ~marked[c + 1].visited
  IN  [q EXCEPT !.items = marked, !.cursor = next]

\* The queue and the ids taken so far, after one more is taken if there is one.
TakeClosest(acc, i) ==
  IF HasNotVisitedNode(acc[1])
  THEN <<VisitClosest(acc[1]), Append(acc[2], ClosestNotVisited(acc[1]).id)>>
  ELSE acc

\* The beam of search_internal: the queue without it, and its ids, nearest first.
TakeBeam(q, width) == Fold(TakeClosest, <<q, <<>>>>, [i \in 1 .. width |-> i])

\* NeighborPriorityQueue::iter
BestCandidates(q) == SubSeq(q.items, 1, Least(q.l, Size(q)))

\* NeighborPriorityQueue::drain_best
DrainBest(q, count) ==
  [q EXCEPT !.items = SubSeq(@, Least(count, Size(q)) + 1, Size(q)), !.cursor = 0]

\* NeighborPriorityQueue::truncate
Truncate(q, len) ==
  IF len >= Size(q) THEN q
  ELSE [q EXCEPT !.items = SubSeq(@, 1, len), !.cursor = 0]

\* NeighborPriorityQueue::retain, of the entries whose id is in keep.
Retain(q, keep) ==
  LET kept == SelectSeq(q.items, LAMBDA e : e.id \in keep)
  IN  [q EXCEPT !.items = [j \in 1 .. Len(kept) |-> [kept[j] EXCEPT !.visited = FALSE]],
                !.cursor = IF Len(kept) < Size(q) THEN 0 ELSE @]

\* NeighborPriorityQueue::reconfigure
Reconfigure(q, l) ==
  [q EXCEPT !.items = SubSeq(@, 1, Least(l, Size(q))),
            !.cursor = IF l < Size(q) THEN Least(@, l) ELSE @,
            !.capacity = l, !.l = l]

\* NeighborPriorityQueue::clear
Clear(q) == [q EXCEPT !.items = <<>>, !.cursor = 0]

IdsIn(q) == {q.items[j].id : j \in 1 .. Size(q)}
----------------------------------------------------------------------------
\* Entries are in the order of their distances.
Sorted(q) == \A i, j \in 1 .. Size(q) : i < j => q.items[i].dist <= q.items[j].dist

\* No more entries than the queue has room for.
WithinCapacity(q) == Size(q) <= q.capacity

\* Every entry that the cursor has passed has been expanded.
PassedAreVisited(q) ==
  /\ q.cursor \in 0 .. Size(q)
  /\ \A j \in 1 .. q.cursor : q.items[j].visited

\* The entry at the cursor has not been expanded.
CursorUnvisited(q) == q.cursor < Size(q) => ~q.items[q.cursor + 1].visited
============================================================================
