--------------------------- MODULE RunbookRanges ---------------------------
(***************************************************************************)
(* Validate (diskann-benchmark-core/src/streaming/executors/bigann/        *)
(* validate.rs): the tags that are in the index after a prefix of a        *)
(* runbook, as a list of ranges.  It decides whether the next stage of the *)
(* runbook is well formed.  A range has its start and not its end.         *)
(***************************************************************************)
EXTENDS Integers, Sequences, FiniteSets

Interval(start, end) == [start |-> start, end |-> end]
Members(r) == r.start .. r.end - 1

Covers(r, i) == i \in Members(r)
Overlaps(r, s) == Covers(r, s.start) \/ Covers(s, r.start)
StrictlyContains(r, s) == s.start >= r.start /\ s.end <= r.end

\* SimpleRange::remove, of a range that is not empty.
RemoveRange(r, s) ==
  IF ~Overlaps(r, s) THEN <<r>>
  ELSE IF StrictlyContains(s, r) THEN <<>>
  ELSE IF s.start <= r.start THEN <<Interval(s.end, r.end)>>
  ELSE IF s.end >= r.end THEN <<Interval(r.start, s.start)>>
  ELSE <<Interval(r.start, s.start), Interval(s.end, r.end)>>

NewValidate == [active |-> <<>>, current |-> 0, max |-> 0, maxTag |-> -1]

\* Validate::find: the place of the first range that overlaps, or where the
\* range would go.
Find(active, tags) ==
  LET hits == {i \in 1 .. Len(active) : Overlaps(tags, active[i]) \/ active[i].start >= tags.end}
      i    == CHOOSE j \in hits : \A k \in hits : j <= k
  IN  IF hits = {} THEN [in |-> FALSE, at |-> Len(active) + 1]
      ELSE [in |-> Overlaps(tags, active[i]), at |-> i]

\* An iteration of Validate::compact: a range that meets the last one extends it.
Merge(made, r) ==
  LET last == Len(made)
  IN  IF last > 0 /\ made[last].end = r.start THEN [made EXCEPT ![last] = Interval(@.start, r.end)]
      ELSE Append(made, r)

\* Validate::compact: done[i] is made of the first i ranges.
Compact(active) ==
  LET done[i \in 0 .. Len(active)] ==
        IF i = 0 THEN <<>> ELSE Merge(done[i - 1], active[i])
  IN  done[Len(active)]

\* Vec::splice: the ranges from i on, as far as j, replaced by others.
Splice(active, i, j, rest) == SubSeq(active, 1, i - 1) \o rest \o SubSeq(active, j, Len(active))

CanInsert(v, tags) == ~Find(v.active, tags).in

\* The counters of Validate::insert, and given ranges.
Counted(v, tags, active) ==
  LET n == v.current + (tags.end - tags.start)
  IN  [active  |-> active,
       current |-> n,
       max     |-> IF n > v.max THEN n ELSE v.max,
       maxTag  |-> IF tags.end - 1 > v.maxTag THEN tags.end - 1 ELSE v.maxTag]

\* Fault: the ranges are not merged.
ValidateInsertApart(v, tags) ==
  LET i == Find(v.active, tags).at
  IN  Counted(v, tags, Splice(v.active, i, i, <<tags>>))

\* Validate::insert
ValidateInsert(v, tags) ==
  LET i == Find(v.active, tags).at
  IN  Counted(v, tags, Compact(Splice(v.active, i, i, <<tags>>)))

\* Validate::replace, and the test of Validate::delete.
CanReplace(v, tags) ==
  LET found == Find(v.active, tags)
  IN  found.in /\ StrictlyContains(v.active[found.at], tags)

\* Validate::delete
ValidateDelete(v, tags) ==
  LET i == Find(v.active, tags).at
  IN  [active  |-> Splice(v.active, i, i + 1, RemoveRange(v.active[i], tags)),
       current |-> v.current - (tags.end - tags.start),
       max     |-> v.max,
       maxTag  |-> v.maxTag]

(***************************************************************************)
(* What the list of ranges means: the tags that are live, in ranges that   *)
(* neither meet nor overlap, and a stage is accepted exactly when its tags *)
(* are all new or all live.  The tags that are live are counted, and none  *)
(* is greater than the greatest one seen.                                  *)
(***************************************************************************)
Exact(v, live, stages) ==
  /\ UNION {Members(v.active[i]) : i \in 1 .. Len(v.active)} = live
  /\ \A i \in 1 .. Len(v.active) - 1 : v.active[i].end < v.active[i + 1].start
  /\ \A r \in stages : /\ CanInsert(v, r) <=> (Members(r) \cap live = {})
                       /\ CanReplace(v, r) <=> (Members(r) \subseteq live)
  /\ v.current = Cardinality(live) /\ v.current <= v.max
  /\ \A t \in live : t <= v.maxTag
============================================================================
