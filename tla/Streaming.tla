----------------------------- MODULE Streaming -----------------------------
(***************************************************************************)
(* A runbook executed on an in-memory index: RunBook::run_with_internal    *)
(* (diskann-benchmark-core, bigann/runbook.rs) drives Managed              *)
(* (diskann-benchmark, index/streaming/managed.rs), which maps tags to     *)
(* slots, over FullPrecisionStream (full_precision.rs), which runs each    *)
(* stage on the index with several tasks and returns when all are done.    *)
(*                                                                         *)
(* The runbook is any sequence of stages that Validate accepts, one stage  *)
(* being chosen when the one before has ended; the code has validated all  *)
(* of them before the first one starts.  The tasks of a stage, and how its *)
(* items are handed to them, belong to the build module of the benchmark   *)
(* crate, which is not in the repository: an item is given to some task    *)
(* that is free, in order, and a stage ends when all are done.             *)
(***************************************************************************)
EXTENDS GraphUpdate, TagSlots, RunbookRanges

CONSTANTS
  MaxPoints,     \* RunBook::max_points: live tags at any one time
  Threshold,     \* consolidate_threshold, <<numerator, denominator>>
  NumRows,       \* rows of the dataset; the tags of inserted rows are their numbers
  Replacements,  \* rows that a replacement starts at
  Configs,       \* InplaceDeleteMethod, and how edges to deleted vertices are cleaned up
  MaxTags,       \* tags of one stage
  MaxStages

\* full_precision_streaming: headroom for vertices that wait for maintenance.
CapacityFits ==
  /\ Capacity * Threshold[2] >= MaxPoints * (Threshold[2] + 2 * Threshold[1])
  /\ (Capacity - 1) * Threshold[2] < MaxPoints * (Threshold[2] + 2 * Threshold[1])

ASSUME CapacityAssumption == CapacityFits
ASSUME SizesAssumption ==
  NumRows \in Nat /\ MaxTags \in Nat /\ MaxPoints \in Nat /\ Capacity \in Nat \ {0}

VARIABLES
  book,        \* TagSlotManager
  validate,    \* Validate, after the stages that have been chosen
  live,        \* tags inserted and not deleted by those stages
  phase,       \* "ready", the stage or the maintenance under way, or an error
  stage,       \* tags and slots of the stage under way
  stages,      \* stages chosen
  config       \* member of Configs

manager == <<book, validate, live, phase, stage, stages, config>>
vars == <<graphVars, manager>>

Stages == {Interval(a, a + n) : a \in 0 .. NumRows - 1, n \in 1 .. MaxTags}
            \cap [start : 0 .. NumRows, end : 0 .. NumRows]
TagSeq(r) == [i \in 1 .. r.end - r.start |-> r.start + i - 1]
NoStage == [tags |-> <<>>, slots |-> <<>>]

Init ==
  /\ GraphInit
  /\ book = NewBook(Capacity)
  /\ validate = NewValidate
  /\ live = {}
  /\ phase = "ready"
  /\ stage = NoStage
  /\ stages = 0
  /\ config \in Configs

\* Managed::needs_maintenance
NeedsMaintenance ==
  Cardinality(book.deleted) >
    (NumActive(book, Capacity) * Threshold[1]) \div Threshold[2]

\* The next stage is due, and maintenance is not.
Ready == phase = "ready" /\ stages < MaxStages /\ ~NeedsMaintenance

\* An error ends the run: "full" or "unknown tag".
Fail(error) ==
  /\ phase' = error
  /\ UNCHANGED <<graphVars, book, stage, config>>

\* The items of a stage, in the order of its slots: rows from the given one on.
Items(op, slots, row) ==
  [i \in 1 .. Len(slots) |-> [op |-> op, id |-> slots[i], vector |-> Vectors[row + i - 1]]]

Launch(what, tags, slots, items) ==
  /\ phase' = what
  /\ stage' = [tags |-> tags, slots |-> slots]
  /\ work' = items
  /\ UNCHANGED <<index, task, shed, config>>

\* Managed::insert, as far as the insertions.
BeginInsert(r) ==
  LET tags == TagSeq(r)
      slots == EmptySlots(book, Len(tags))
  IN  /\ Ready /\ CanInsert(validate, r)
      /\ validate' = ValidateInsert(validate, r) /\ validate'.max <= MaxPoints
      /\ live' = live \cup Members(r)
      /\ stages' = stages + 1
      /\ IF HasEmptySlots(book, Len(tags))
         THEN /\ book' = TakeEmptySlots(book, Len(tags))
              /\ Launch("insert", tags, slots, Items("insert", slots, r.start))
         ELSE Fail("full")

EndInsert ==
  /\ phase = "insert" /\ AllIdle
  /\ book' = AssignSlotsToTags(book, stage.tags, stage.slots)
  /\ phase' = "ready" /\ stage' = NoStage
  /\ UNCHANGED <<graphVars, validate, live, stages, config>>

\* Managed::replace.  The slots are written again, with rows from anywhere.
BeginReplace(r, row) ==
  LET tags == TagSeq(r)
      slots == FindSlotsByTags(book, tags)
  IN  /\ Ready /\ CanReplace(validate, r) /\ row + Len(tags) <= NumRows
      /\ stages' = stages + 1
      /\ UNCHANGED <<validate, live>>
      /\ IF HasSlots(book, tags)
         THEN /\ Launch("replace", tags, slots, Items("insert", slots, row))
              /\ UNCHANGED book
         ELSE Fail("unknown tag")

EndReplace ==
  /\ phase = "replace" /\ AllIdle
  /\ phase' = "ready" /\ stage' = NoStage
  /\ UNCHANGED <<graphVars, book, validate, live, stages, config>>

\* Managed::delete, as far as the deletions.
BeginDelete(r) ==
  LET tags == TagSeq(r)
      slots == FindSlotsByTags(book, tags)
  IN  /\ Ready /\ CanReplace(validate, r)
      /\ validate' = ValidateDelete(validate, r)
      /\ live' = live \ Members(r)
      /\ stages' = stages + 1
      /\ IF HasSlots(book, tags)
         THEN /\ Launch("delete", tags, slots,
                        [i \in 1 .. Len(slots) |->
                           [op |-> "delete", id |-> slots[i], method |-> config.method]])
              /\ UNCHANGED book
         ELSE Fail("unknown tag")

EndDelete ==
  /\ phase = "delete" /\ AllIdle
  /\ book' = MarkTagsDeleted(book, stage.tags)
  /\ phase' = "ready" /\ stage' = NoStage
  /\ UNCHANGED <<graphVars, validate, live, stages, config>>

\* Managed::search: the groundtruth, tags that are live, is translated to slots.
Search(tag) ==
  /\ Ready /\ tag \in live
  /\ stages' = stages + 1
  /\ UNCHANGED <<validate, live>>
  /\ IF HasSlots(book, <<tag>>) THEN UNCHANGED <<graphVars, book, phase, stage, config>>
     ELSE Fail("unknown tag")
----------------------------------------------------------------------------
(* Maintenance: FullPrecisionStream::maintain and TagSlotManager::consolidate. *)

BeginMaintain ==
  /\ phase = "ready" /\ stages < MaxStages /\ NeedsMaintenance
  /\ phase' = "clean"
  /\ work' = [i \in 1 .. Capacity + 1 |-> i - 1]
  /\ UNCHANGED <<index, task, shed, book, validate, live, stage, stages, config>>

\* Each vertex is cleaned by one task.  Only its own list is written, and those
\* that are read belong to it or to deleted vertices.
CleanVertex ==
  /\ phase = "clean" /\ work # <<>>
  /\ WriteList(Head(work),
               IF config.cleaner = "drop" THEN DropDeletedNeighbors(Head(work), FALSE)
               ELSE ConsolidateVector(Head(work)), {})
  /\ work' = Tail(work)
  /\ UNCHANGED <<deleted, vec, task, manager>>

BeginRelease ==
  /\ phase = "clean" /\ work = <<>>
  /\ phase' = "release"
  /\ work' = [i \in 1 .. Capacity + 1 |-> i - 1]
  /\ UNCHANGED <<index, task, shed, book, validate, live, stage, stages, config>>

\* Release::build with DefaultProvider::release, of one id.
ReleaseVertex ==
  /\ phase = "release" /\ work # <<>>
  /\ deleted' = deleted \ {Head(work)}
  /\ IF Head(work) \in deleted THEN WriteList(Head(work), <<>>, {}) ELSE UNCHANGED <<lists, shed>>
  /\ work' = Tail(work)
  /\ UNCHANGED <<vec, task, manager>>

EndMaintain ==
  /\ phase = "release" /\ work = <<>>
  /\ \E order \in SetToSeqs(book.deleted) : book' = Consolidate(book, order)
  /\ phase' = "ready"
  /\ UNCHANGED <<graphVars, validate, live, stage, stages, config>>
----------------------------------------------------------------------------
TaskStep == /\ phase \in {"insert", "replace", "delete"}
            /\ \E t \in Tasks : Step(t)
            /\ UNCHANGED manager

Begin ==
  \/ \E r \in Stages : BeginInsert(r)
  \/ \E r \in Stages, row \in Replacements : BeginReplace(r, row)
  \/ \E r \in Stages : BeginDelete(r)
  \/ \E tag \in 0 .. NumRows - 1 : Search(tag)

Next ==
  \/ Begin \/ TaskStep
  \/ EndInsert \/ EndReplace \/ EndDelete
  \/ BeginMaintain \/ CleanVertex \/ BeginRelease \/ ReleaseVertex \/ EndMaintain

Spec == Init /\ [][Next]_vars
----------------------------------------------------------------------------
(***************************************************************************)
(* Whatever the tasks of a stage do to the lists that other tasks have     *)
(* read, a list holds no vertex twice, never its own, and no more than     *)
(* there is room for.  append_vector_sync and set_neighbors_sync rely on   *)
(* it: the latter panics on a longer list.                                 *)
(***************************************************************************)
ListsSound ==
  \A n \in Nodes : /\ IsInjective(lists[n])
                   /\ n \notin Range(lists[n])
                   /\ Len(lists[n]) <= MaxDegree

\* Slots that are neither free, nor deleted, hold one live tag each.
SlotsCounted ==
  Len(book.empty) + Cardinality(book.deleted) + Cardinality(live) = Capacity - 1

(***************************************************************************)
(* A slot is free, or holds a vector that some tag was given, and a free   *)
(* slot is in no list, leads nowhere and is not marked deleted: an         *)
(* insertion that reuses it is not found through edges of its former one.  *)
(* Between stages the deleted slots of TagSlotManager are those whose      *)
(* delete bit is set, and the others in use are as many as the live tags.  *)
(***************************************************************************)
SlotsAccounted ==
  LET free == Range(book.empty)
  IN  /\ IsInjective(book.empty)
      /\ free \cap DOMAIN book.tagOf = {}
      /\ \A s \in free : /\ lists[s] = <<>> /\ s \notin deleted
                        /\ \A n \in Nodes : s \notin Range(lists[n])
      /\ phase = "ready" => /\ book.deleted = deleted
                            /\ free \cup DOMAIN book.tagOf = 0 .. Capacity - 2
                            /\ SlotsCounted

(***************************************************************************)
(* As long as no list has lost an edge or was too full for one, whatever   *)
(* the insertions that ran at the same time did, every inserted vector can *)
(* be reached from the start point.                                        *)
(***************************************************************************)
InsertedReachable ==
  phase = "ready" /\ ~shed =>
    \A S \in Closed : Start \in S => DOMAIN book.tagOf \subseteq S

\* The ranges that validate a runbook are the tags that its stages leave live.
RangesExact == Exact(validate, live, Stages)

(***************************************************************************)
(* "Every tag that exists in slot_to_tag as a value must exist in          *)
(* tag_to_slot and mapping back to the same slot", at least for the slots  *)
(* that are not deleted: search, replace and delete find the slot of a tag *)
(* that is live.                                                           *)
(***************************************************************************)
TagsMapBack ==
  phase = "ready" =>
    \A slot \in DOMAIN book.tagOf \ book.deleted :
      /\ book.tagOf[slot] \in DOMAIN book.slotOf
      /\ book.slotOf[book.tagOf[slot]] = slot
============================================================================
