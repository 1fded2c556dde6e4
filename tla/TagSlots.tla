------------------------------ MODULE TagSlots ------------------------------
(***************************************************************************)
(* TagSlotManager (diskann-benchmark/src/utils/streaming.rs): which slot   *)
(* of the index holds the vector of which tag.  The operators take the     *)
(* book-keeping and return what a method leaves behind.                    *)
(***************************************************************************)
EXTENDS Integers, Sequences, Functions

\* TagSlotManager::new.  One slot is left over for a start point.
NewBook(capacity) ==
  [empty   |-> [i \in 1 .. capacity - 1 |-> i - 1],
   deleted |-> {},
   slotOf  |-> <<>>,      \* tag_to_slot
   tagOf   |-> <<>>]      \* slot_to_tag

NumActive(book, capacity) == capacity - Len(book.empty)

HasEmptySlots(book, n) == Len(book.empty) >= n

\* get_n_empty_slots: the slots, and the book without them.
EmptySlots(book, n) == SubSeq(book.empty, 1, n)
TakeEmptySlots(book, n) == [book EXCEPT !.empty = SubSeq(@, n + 1, Len(@))]

\* find_slots_by_tags
HasSlots(book, tags) == Range(tags) \subseteq DOMAIN book.slotOf
FindSlotsByTags(book, tags) == [i \in 1 .. Len(tags) |-> book.slotOf[tags[i]]]

Index(seq, e) == CHOOSE i \in 1 .. Len(seq) : seq[i] = e

\* assign_slots_to_tags
AssignSlotsToTags(book, tags, slots) ==
  [empty   |-> book.empty,
   deleted |-> book.deleted,
   slotOf  |-> [t \in Range(tags) \cup DOMAIN book.slotOf |->
                  IF t \in Range(tags) THEN slots[Index(tags, t)] ELSE book.slotOf[t]],
   tagOf   |-> [s \in Range(slots) \cup DOMAIN book.tagOf |->
                  IF s \in Range(slots) THEN tags[Index(slots, s)] ELSE book.tagOf[s]]]

\* mark_tags_deleted.  The tags keep their slots.
MarkTagsDeleted(book, tags) ==
  [book EXCEPT !.deleted = @ \cup Range(FindSlotsByTags(book, tags))]

\* Fault: a slot that is free again keeps its tag.
ConsolidateKeepsTag(book, order) ==
  [book EXCEPT !.deleted = {}, !.empty = @ \o order]

\* consolidate, the deleted slots taken in the given order.
Consolidate(book, order) ==
  LET gone == {book.tagOf[slot] : slot \in book.deleted \cap DOMAIN book.tagOf}
  IN  [empty   |-> book.empty \o order,
       deleted |-> {},
       slotOf  |-> Restrict(book.slotOf, DOMAIN book.slotOf \ gone),
       tagOf   |-> Restrict(book.tagOf, DOMAIN book.tagOf \ book.deleted)]
=============================================================================
