-------------------------- MODULE StreamingProofs --------------------------
(***************************************************************************)
(* The headroom of a streaming index.  Managed puts maintenance off until  *)
(* the deleted slots are more than a share t of those in use, and the      *)
(* index is created with ceil(MaxPoints * (1 + 2t)) slots, of which one is *)
(* left over.  For every t with 0 < t < 1/2 that is enough.  It is not for *)
(* t = 0, nor for t = 1/2 with two points.                                 *)
(***************************************************************************)
EXTENDS Streaming, ListProofs, TLAPS

(***************************************************************************)
(* The argument, with t = a / b, m live tags at most, c slots: suppose n   *)
(* new tags find fewer than n of the slots empty when d are deleted and l  *)
(* hold live tags.                                                         *)
(***************************************************************************)
LEMMA NoShortage ==
  ASSUME NEW a \in Nat \ {0}, NEW b \in Nat, 2 * a < b,
         NEW m \in Nat, NEW c \in Nat, c * b >= m * (b + 2 * a),
         NEW d \in Nat, NEW l \in Nat, NEW e \in Nat, e + d + l = c - 1,
         NEW n \in Nat \ {0}, l + n <= m,
         d * b <= (c - e) * a
  PROVE  e >= n
<1> SUFFICES ASSUME e < n PROVE FALSE  OBVIOUS
<1>1. c <= d + m  OBVIOUS
<1>2. c - e <= d + m  OBVIOUS
<1>3. c * b <= (d + m) * b
  <2>1. \A x, y, z \in Nat : x <= y => x * z <= y * z  OBVIOUS
  <2>. QED  BY <1>1, <2>1
<1>4. (c - e) * a <= (d + m) * a
  <2>1. \A x, y, z \in Nat : x <= y => x * z <= y * z  OBVIOUS
  <2>2. c - e \in Nat  OBVIOUS
  <2>. QED  BY <1>2, <2>1, <2>2
<1>5. m * (b + 2 * a) = m * b + 2 * (m * a) /\ (d + m) * b = d * b + m * b
      /\ (d + m) * a = d * a + m * a  OBVIOUS
<1>6. m * a <= d * a
  <2>1. m * a \in Nat /\ d * a \in Nat /\ m * b \in Nat /\ d * b \in Nat  OBVIOUS
  <2>. QED  BY <1>3, <1>4, <1>5, <2>1
<1>7. d * b <= 2 * (d * a)
  <2>1. m * a \in Nat /\ d * a \in Nat /\ d * b \in Nat  OBVIOUS
  <2>. QED  BY <1>4, <1>5, <1>6, <2>1
<1>8. m <= d
  <2>1. \A x, y \in Nat, z \in Nat \ {0} : x * z <= y * z => x <= y  OBVIOUS
  <2>. QED  BY <1>6, <2>1, Zenon
<1>9. d > 0  BY <1>8
<1>10. d * b > 2 * (d * a)
  <2>1. \A x, y \in Nat, z \in Nat \ {0} : x < y => z * x < z * y  OBVIOUS
  <2>2. d * (2 * a) < d * b  BY <1>9, <2>1
  <2>. QED  BY <2>2
<1>. QED
  <2>1. d * a \in Nat /\ d * b \in Nat  OBVIOUS
  <2>. QED  BY <1>7, <1>10, <2>1

\* What is no more than a quotient.
LEMMA DivBound ==
  ASSUME NEW x \in Nat, NEW y \in Nat, NEW z \in Nat \ {0}, ~(x > y \div z)
  PROVE  x * z <= y
<1>1. y \div z \in Nat  OBVIOUS
<1>2. PICK q \in Nat : q = y \div z  BY <1>1
<1>3. z * q <= y  BY <1>2
<1>4. x <= q  BY <1>2
<1>5. x * z <= q * z
  <2>1. \A u, v, w \in Nat : u <= v => u * w <= v * w  OBVIOUS
  <2>. QED  BY <1>4, <2>1, Zenon
<1>. QED  BY <1>3, <1>5

(***************************************************************************)
(* A stage that inserts n tags while maintenance is not due finds n empty  *)
(* slots, for every number of points and every threshold between 0 and     *)
(* 1/2: get_n_empty_slots does not fail.  That the slots are counted       *)
(* between stages is part of SlotsAccounted.                               *)
(***************************************************************************)
THEOREM HeadroomSuffices ==
  ASSUME NEW n \in Nat \ {0}, Capacity \in Nat, MaxPoints \in Nat,
         Threshold \in Nat \X Nat, 0 < Threshold[1], 2 * Threshold[1] < Threshold[2],
         Len(book.empty) \in Nat, Cardinality(book.deleted) \in Nat,
         Cardinality(live) \in Nat,
         SlotsCounted, ~NeedsMaintenance, Cardinality(live) + n <= MaxPoints
  PROVE  HasEmptySlots(book, n)
<1> DEFINE a == Threshold[1]
           b == Threshold[2]
           e == Len(book.empty)
           d == Cardinality(book.deleted)
           l == Cardinality(live)
<1>1. a \in Nat \ {0} /\ b \in Nat \ {0}  OBVIOUS
<1>2. Capacity * b >= MaxPoints * (b + 2 * a)  BY CapacityAssumption DEF CapacityFits
<1>3. e + d + l = Capacity - 1  BY DEF SlotsCounted
<1>4. ~(d > ((Capacity - e) * a) \div b)  BY Zenon DEF NeedsMaintenance, NumActive
<1>5. d * b <= (Capacity - e) * a
  <2>1. e \in Nat /\ d \in Nat /\ l \in Nat /\ Capacity \in Nat  BY Zenon
  <2> HIDE DEF a, b, d, e, l
  <2>2. Capacity - e \in Nat  BY <1>3, <2>1
  <2>3. (Capacity - e) * a \in Nat
    <3>1. \A x, y \in Nat : x * y \in Nat  OBVIOUS
    <3>. QED  BY ONLY <1>1, <2>2, <3>1, Zenon
  <2> DEFINE y == (Capacity - e) * a
  <2> HIDE DEF y
  <2>4. y \in Nat /\ ~(d > y \div b)  BY <1>4, <2>3, Zenon DEF y
  <2>. QED  BY ONLY <1>1, <2>1, <2>4, DivBound, Zenon DEF y
<1>6. e >= n
  <2> HIDE DEF a, b, e, d, l
  <2>1. e \in Nat /\ d \in Nat /\ l \in Nat  BY DEF e, d, l
  <2>2. 2 * a < b /\ l + n <= MaxPoints  BY DEF a, b, l
  <2>. QED  BY <1>1, <1>2, <1>3, <1>5, <2>1, <2>2, NoShortage, Zenon
<1>. QED  BY <1>6, Zenon DEF HasEmptySlots
----------------------------------------------------------------------------
(***************************************************************************)
(* A runbook is accepted exactly when its tags allow it: after any stages, *)
(* the ranges of Validate are the live tags, whatever the stages and their *)
(* tags are.                                                               *)
(***************************************************************************)
THEOREM AlwaysRangesExact == Spec => []RangesExact
<1>1. Stages \in SUBSET Ranges
  BY SizesAssumption DEF Stages, Ranges, Interval
<1>2. Init => Tracks(validate, live)
  BY NewTracks, Zenon DEF Init
<1>3. Tracks(validate, live) /\ [Next]_vars => Tracks(validate, live)'
  <2> SUFFICES ASSUME Tracks(validate, live), [Next]_vars PROVE Tracks(validate', live')
    BY Zenon DEF Tracks
  <2>1. ASSUME NEW r \in Stages, BeginInsert(r) PROVE Tracks(validate', live')
    <3>1. /\ CanInsert(validate, r) /\ validate' = ValidateInsert(validate, r)
          /\ live' = live \cup Members(r)
      BY <2>1, Zenon DEF BeginInsert
    <3> QED
      BY <1>1, <3>1, InsertTracks, Zenon
  <2>2. ASSUME NEW r \in Stages, BeginDelete(r) PROVE Tracks(validate', live')
    <3>1. /\ CanReplace(validate, r) /\ validate' = ValidateDelete(validate, r)
          /\ live' = live \ Members(r)
      BY <2>2, Zenon DEF BeginDelete
    <3> QED
      BY <1>1, <3>1, DeleteTracks, Zenon
  <2>3. ASSUME UNCHANGED <<validate, live>> PROVE Tracks(validate', live')
    BY <2>3, Zenon
  <2>4. ASSUME NEW r \in Stages, NEW row \in Replacements, BeginReplace(r, row)
        PROVE  UNCHANGED <<validate, live>>
    BY <2>4, Zenon DEF BeginReplace
  <2>5. ASSUME NEW tag, Search(tag) PROVE UNCHANGED <<validate, live>>
    BY <2>5, Zenon DEF Search
  <2>6. CASE Begin
    BY <2>1, <2>2, <2>3, <2>4, <2>5, <2>6, Zenon DEF Begin
  <2>7. CASE TaskStep \/ CleanVertex \/ ReleaseVertex
    BY <2>3, <2>7, Zenon DEF TaskStep, CleanVertex, ReleaseVertex, manager
  <2>8. CASE EndInsert \/ EndReplace \/ EndDelete
    BY <2>3, <2>8, Zenon DEF EndInsert, EndReplace, EndDelete
  <2>9. CASE BeginMaintain \/ BeginRelease \/ EndMaintain
    BY <2>3, <2>9, Zenon DEF BeginMaintain, BeginRelease, EndMaintain
  <2>10. CASE UNCHANGED vars
    BY <2>3, <2>10, Zenon DEF vars, manager
  <2> QED
    BY <2>6, <2>7, <2>8, <2>9, <2>10, Zenon DEF Next
<1>4. Tracks(validate, live) => RangesExact
  BY <1>1, TracksExactly, Zenon DEF RangesExact
<1> QED
  BY <1>2, <1>3, <1>4, PTL DEF Spec
----------------------------------------------------------------------------
(***************************************************************************)
(* The inductive invariant of the slots: what Validate tracks, and the     *)
(* book of TagSlotManager in the phase that the runbook has reached.  A    *)
(* stage takes or releases slots in two steps, so that the slots of its    *)
(* tags are in neither list while its tasks run.                           *)
(***************************************************************************)
SlotInv ==
  /\ Tracks(validate, live)
  /\ phase \in {"ready", "replace", "clean", "release"} => SlotsAtRest(book, live, Capacity - 1)
  /\ phase = "insert" => SlotsFilling(book, live, stage.tags, stage.slots, Capacity - 1)
  /\ phase = "delete" => SlotsLeaving(book, live, stage.tags, Capacity - 1)

\* The stages of a runbook are ranges.
LEMMA StagesAreRanges == Stages \in SUBSET Ranges
BY SizesAssumption DEF Stages, Ranges, Interval

\* The tags of a stage, in order.
LEMMA TagSeqFacts ==
  ASSUME NEW r \in Stages
  PROVE  /\ TagSeq(r) \in Seq(Nat) /\ IsInjective(TagSeq(r)) /\ Range(TagSeq(r)) = Members(r)
         /\ Len(TagSeq(r)) \in Nat \ {0}
<1>1. r.start \in Nat /\ r.end \in Nat /\ r.start < r.end
  BY StagesAreRanges, MembersFacts, Zenon
<1>2. PICK a, n : a = r.start /\ n = r.end - r.start
  BY Zenon
<1>3. a \in Nat /\ n \in Nat \ {0} /\ Members(r) = a .. a + n - 1
  BY <1>1, <1>2 DEF Members
<1>4. PICK s : s = TagSeq(r)
  BY Zenon
<1>5. s = [i \in 1 .. n |-> a + i - 1]
  BY <1>2, <1>4, Zenon DEF TagSeq
<1>6. s \in Seq(Nat) /\ Len(s) = n /\ \A k \in 1 .. n : s[k] = a + k - 1
  BY <1>3, <1>5
<1>7. ASSUME NEW j \in 1 .. n, NEW k \in 1 .. n, s[j] = s[k] PROVE j = k
  BY <1>3, <1>6, <1>7
<1>8. IsInjective(s)
  BY <1>6, <1>7, InjectiveMember, Zenon
<1>9. ASSUME NEW x PROVE x \in Range(s) <=> x \in Members(r)
  <2>1. x \in Range(s) <=> \E k \in 1 .. n : x = s[k]
    BY <1>6, RangeMember
  <2>2. ASSUME NEW k \in 1 .. n, x = s[k] PROVE x \in Members(r)
    BY <1>3, <1>6, <2>2
  <2>3. ASSUME x \in Members(r) PROVE \E k \in 1 .. n : x = s[k]
    <3>1. x - a + 1 \in 1 .. n /\ x = a + (x - a + 1) - 1
      BY <1>3, <2>3
    <3> QED
      BY <1>6, <3>1, Zenon
  <2> QED
    BY <2>1, <2>2, <2>3, Zenon
<1> QED
  BY <1>3, <1>4, <1>6, <1>8, <1>9, Zenon

\* A stage that Validate accepts, and the live tags.
LEMMA AcceptedStage ==
  ASSUME SlotInv, NEW r \in Stages
  PROVE  /\ CanInsert(validate, r) => Members(r) \cap live = {}
         /\ CanReplace(validate, r) => Members(r) \subseteq live
<1>1. Exact(validate, live, Stages)
  BY StagesAreRanges, TracksExactly, Zenon DEF SlotInv
<1> QED
  BY <1>1, Zenon DEF Exact

\* Managed::insert
LEMMA InsertKeepsSlots ==
  ASSUME SlotInv, NEW r \in Stages, BeginInsert(r)
  PROVE  SlotInv'
<1>1. /\ phase = "ready" /\ CanInsert(validate, r) /\ validate' = ValidateInsert(validate, r)
      /\ live' = live \cup Members(r)
  BY Zenon DEF BeginInsert, Ready
<1>2. Tracks(validate', live')
  BY <1>1, StagesAreRanges, InsertTracks, Zenon DEF SlotInv
<1>3. CASE HasEmptySlots(book, Len(TagSeq(r)))
  <2>1. PICK tags : tags = TagSeq(r)
    BY Zenon
  <2>2. /\ book' = TakeEmptySlots(book, Len(tags)) /\ phase' = "insert"
        /\ stage'.tags = tags /\ stage'.slots = EmptySlots(book, Len(tags))
    BY <1>3, <2>1 DEF BeginInsert, Launch
  <2>3. /\ tags \in Seq(Nat) /\ IsInjective(tags) /\ Range(tags) = Members(r)
        /\ Range(tags) \cap live = {} /\ HasEmptySlots(book, Len(tags))
    BY <1>1, <1>3, <2>1, TagSeqFacts, AcceptedStage, Zenon
  <2>4. SlotsAtRest(book, live, Capacity - 1) /\ Capacity - 1 \in Nat
    BY <1>1, SizesAssumption DEF SlotInv
  <2>5. SlotsFilling(TakeEmptySlots(book, Len(tags)), live \cup Range(tags), tags,
                     EmptySlots(book, Len(tags)), Capacity - 1)
    BY <2>3, <2>4, TakeFills
  <2> QED
    BY <1>1, <1>2, <2>2, <2>3, <2>5 DEF SlotInv
<1>4. CASE ~HasEmptySlots(book, Len(TagSeq(r)))
  <2>1. phase' = "full"
    BY <1>4, Zenon DEF BeginInsert, Fail
  <2> QED
    BY <1>2, <2>1, Zenon DEF SlotInv
<1> QED
  BY <1>3, <1>4, Zenon

\* Managed::delete
LEMMA DeleteKeepsSlots ==
  ASSUME SlotInv, NEW r \in Stages, BeginDelete(r)
  PROVE  SlotInv'
<1>1. /\ phase = "ready" /\ CanReplace(validate, r) /\ validate' = ValidateDelete(validate, r)
      /\ live' = live \ Members(r)
  BY Zenon DEF BeginDelete, Ready
<1>2. Tracks(validate', live')
  BY <1>1, StagesAreRanges, DeleteTracks DEF SlotInv
<1>3. CASE HasSlots(book, TagSeq(r))
  <2>1. PICK tags : tags = TagSeq(r)
    BY Zenon
  <2>2. book' = book /\ phase' = "delete" /\ stage'.tags = tags
    BY <1>3, <2>1 DEF BeginDelete, Launch
  <2>3. /\ tags \in Seq(Nat) /\ IsInjective(tags) /\ Range(tags) = Members(r)
        /\ Range(tags) \subseteq live /\ HasSlots(book, tags)
    BY <1>1, <1>3, <2>1, TagSeqFacts, AcceptedStage, Zenon
  <2>4. SlotsAtRest(book, live, Capacity - 1) /\ Capacity - 1 \in Nat
    BY <1>1, SizesAssumption DEF SlotInv
  <2>5. SlotsLeaving(book, live \ Range(tags), tags, Capacity - 1)
    BY <2>3, <2>4, DeleteLeaves, Zenon
  <2> QED
    BY <1>1, <1>2, <2>2, <2>3, <2>5 DEF SlotInv
<1>4. CASE ~HasSlots(book, TagSeq(r))
  <2>1. phase' = "unknown tag"
    BY <1>4, Zenon DEF BeginDelete, Fail
  <2> QED
    BY <1>2, <2>1, Zenon DEF SlotInv
<1> QED
  BY <1>3, <1>4, Zenon

\* Maintenance: the deleted slots are free again.
LEMMA MaintainKeepsSlots == SlotInv /\ EndMaintain => SlotInv'
<1> SUFFICES ASSUME SlotInv, EndMaintain PROVE SlotInv'
  BY Zenon
<1>1. /\ phase = "release" /\ phase' = "ready" /\ UNCHANGED <<validate, live>>
      /\ \E order \in SetToSeqs(book.deleted) : book' = Consolidate(book, order)
  BY Zenon DEF EndMaintain
<1>2. PICK order \in SetToSeqs(book.deleted) : book' = Consolidate(book, order)
  BY <1>1, Zenon
<1>3. SlotsAtRest(book, live, Capacity - 1) /\ Capacity - 1 \in Nat
  BY <1>1, SizesAssumption DEF SlotInv
<1>4. PICK n \in Nat : n = Cardinality(book.deleted)
  BY <1>3, FS_CardinalityType, Zenon DEF SlotsAtRest, BookInv
<1>5. /\ order \in [1 .. n -> book.deleted]
      /\ \A i, j \in 1 .. n : i # j => order[i] # order[j]
  BY <1>2, <1>4, Zenon DEF SetToSeqs
<1>6. order \in Seq(book.deleted) /\ Len(order) = n
  BY <1>4, <1>5
<1>7. IsInjective(order)
  BY <1>5, <1>6, InjectiveMember, Zenon
<1>8. SlotsAtRest(Consolidate(book, order), live, Capacity - 1)
  BY <1>3, <1>4, <1>6, <1>7, ConsolidateRests, Zenon
<1> QED
  BY <1>1, <1>2, <1>8, Zenon DEF SlotInv

\* Every step keeps the invariant.
LEMMA StepKeepsSlots == SlotInv /\ [Next]_vars => SlotInv'
<1> SUFFICES ASSUME SlotInv, [Next]_vars PROVE SlotInv'
  BY Zenon
<1>1. ASSUME UNCHANGED <<book, validate, live, stage>>,
             \/ phase' = phase \/ phase' = "unknown tag"
             \/ /\ phase \in {"ready", "replace", "clean", "release"}
                /\ phase' \in {"ready", "replace", "clean", "release"}
      PROVE  SlotInv'
  BY <1>1, Zenon DEF SlotInv
<1>2. ASSUME phase \in {"ready", "replace", "clean", "release"},
             phase' \in {"ready", "replace", "clean", "release"},
             UNCHANGED <<book, validate, live>>
      PROVE  SlotInv'
  BY <1>2, Zenon DEF SlotInv
<1>3. ASSUME NEW r \in Stages, NEW row \in Replacements, BeginReplace(r, row) PROVE SlotInv'
  <2>1. phase = "ready" /\ UNCHANGED <<validate, live>>
    BY <1>3, Zenon DEF BeginReplace, Ready
  <2>2. CASE HasSlots(book, TagSeq(r))
    <3>1. phase' = "replace" /\ UNCHANGED book
      BY <1>3, <2>2, Zenon DEF BeginReplace, Launch
    <3> QED
      BY <1>2, <2>1, <3>1, Zenon
  <2>3. CASE ~HasSlots(book, TagSeq(r))
    <3>1. phase' = "unknown tag" /\ UNCHANGED <<book, stage>>
      BY <1>3, <2>3, Zenon DEF BeginReplace, Fail
    <3> QED
      BY <1>1, <2>1, <3>1, Zenon
  <2> QED
    BY <2>2, <2>3, Zenon
<1>4. ASSUME NEW tag, Search(tag) PROVE SlotInv'
  BY <1>1, <1>4, Zenon DEF Search, Fail
<1>5. CASE Begin
  BY <1>3, <1>4, <1>5, InsertKeepsSlots, DeleteKeepsSlots, Zenon DEF Begin
<1>6. CASE TaskStep \/ CleanVertex \/ ReleaseVertex
  BY <1>1, <1>6, Zenon DEF TaskStep, CleanVertex, ReleaseVertex, manager
<1>7. CASE EndInsert
  <2>1. /\ phase = "insert" /\ phase' = "ready" /\ UNCHANGED <<validate, live>>
        /\ book' = AssignSlotsToTags(book, stage.tags, stage.slots)
    BY <1>7, Zenon DEF EndInsert
  <2>2. SlotsAtRest(AssignSlotsToTags(book, stage.tags, stage.slots), live, Capacity - 1)
    BY <2>1, AssignRests, Zenon DEF SlotInv
  <2> QED
    BY <2>1, <2>2, Zenon DEF SlotInv
<1>8. CASE EndDelete
  <2>1. /\ phase = "delete" /\ phase' = "ready" /\ UNCHANGED <<validate, live>>
        /\ book' = MarkTagsDeleted(book, stage.tags) /\ Capacity - 1 \in Nat
    BY <1>8, SizesAssumption DEF EndDelete
  <2>2. SlotsAtRest(MarkTagsDeleted(book, stage.tags), live, Capacity - 1)
    BY <2>1, MarkRests, Zenon DEF SlotInv
  <2> QED
    BY <2>1, <2>2, Zenon DEF SlotInv
<1>9. CASE EndReplace
  BY <1>2, <1>9, Zenon DEF EndReplace
<1>10. CASE BeginMaintain \/ BeginRelease
  BY <1>1, <1>10, Zenon DEF BeginMaintain, BeginRelease
<1>11. CASE EndMaintain
  BY <1>11, MaintainKeepsSlots, Zenon
<1>12. CASE UNCHANGED vars
  BY <1>1, <1>12, Zenon DEF vars, manager
<1> QED
  BY <1>5, <1>6, <1>7, <1>8, <1>9, <1>10, <1>11, <1>12, Zenon DEF Next

\* It holds at first.
LEMMA InitKeepsSlots == Init => SlotInv
BY NewTracks, NewAtRest, SizesAssumption, Zenon DEF Init, SlotInv

(***************************************************************************)
(* Whatever the runbook, its slots and its tasks are, between stages every *)
(* slot is free, deleted or held by one live tag: none is lost, by stages  *)
(* that take and release slots in two steps, by tags that are deleted and  *)
(* inserted again, or by maintenance.                                      *)
(***************************************************************************)
THEOREM AlwaysSlotsCounted == Spec => [](phase = "ready" => SlotsCounted)
<1>1. SlotInv => (phase = "ready" => SlotsCounted)
  BY Zenon DEF SlotInv, SlotsAtRest, SlotsCounted
<1> QED
  BY <1>1, InitKeepsSlots, StepKeepsSlots, PTL DEF Spec

(***************************************************************************)
(* With a threshold between 0 and 1/2, a runbook that Validate has         *)
(* accepted, with no more than MaxPoints live tags, never runs out of      *)
(* slots: get_n_empty_slots does not fail.                                 *)
(***************************************************************************)
THEOREM NeverFull ==
  ASSUME Threshold \in Nat \X Nat, 0 < Threshold[1], 2 * Threshold[1] < Threshold[2]
  PROVE  Spec => [](phase # "full")
<1>1. Init => phase # "full"
  BY Zenon DEF Init
<1>2. SlotInv /\ phase # "full" /\ [Next]_vars => (phase # "full")'
  <2> SUFFICES ASSUME SlotInv, phase # "full", [Next]_vars PROVE phase' # "full"
    BY Zenon
  <2>1. ASSUME NEW r \in Stages, BeginInsert(r) PROVE phase' # "full"
    <3>1. /\ phase = "ready" /\ ~NeedsMaintenance /\ CanInsert(validate, r)
          /\ validate' = ValidateInsert(validate, r) /\ validate'.max <= MaxPoints
          /\ live' = live \cup Members(r)
      BY <2>1, Zenon DEF BeginInsert, Ready
    <3>2. PICK n \in Nat \ {0} : n = Len(TagSeq(r))
      BY TagSeqFacts, Zenon
    <3>3. Tracks(validate', live')
      BY <3>1, StagesAreRanges, InsertTracks, Zenon DEF SlotInv
    <3>4. SlotsAtRest(book, live, Capacity - 1)
      BY <3>1, Zenon DEF SlotInv
    <3>5. IsFiniteSet(live) /\ Cardinality(live) \in Nat /\ Len(book.empty) \in Nat
          /\ Cardinality(book.deleted) \in Nat /\ SlotsCounted
      BY <3>4, FS_CardinalityType DEF SlotsAtRest, BookInv, SlotsCounted
    <3>6. Cardinality(live') = Cardinality(live) + n
      <4>1. PICK tags : tags = TagSeq(r)
        BY Zenon
      <4>2. /\ tags \in Seq(Nat) /\ IsInjective(tags) /\ Range(tags) = Members(r) /\ n = Len(tags)
            /\ Range(tags) \cap live = {}
        BY <3>1, <3>2, <4>1, TagSeqFacts, AcceptedStage, Zenon
      <4>3. Cardinality(live \cup Range(tags)) = Cardinality(live) + Len(tags)
        BY <3>5, <4>2, TagsCount, Zenon
      <4> QED
        BY <3>1, <4>2, <4>3, Zenon
    <3>7. Cardinality(live) + n <= MaxPoints
      <4>1. Cardinality(live') = validate'.current /\ validate'.current <= validate'.max
            /\ validate'.max \in Nat
        BY <3>3, Zenon DEF Tracks
      <4> QED
        BY <3>1, <3>5, <3>6, <4>1, SizesAssumption
    <3>8. HasEmptySlots(book, n)
      BY <3>1, <3>5, <3>7, SizesAssumption, HeadroomSuffices
    <3> QED
      BY <2>1, <3>2, <3>8, Zenon DEF BeginInsert, Launch
  <2>2. ASSUME NEW r \in Stages, NEW row \in Replacements, BeginReplace(r, row)
        PROVE  phase' # "full"
    BY <2>2, Zenon DEF BeginReplace, Launch, Fail
  <2>3. ASSUME NEW r \in Stages, BeginDelete(r) PROVE phase' # "full"
    BY <2>3, Zenon DEF BeginDelete, Launch, Fail
  <2>4. ASSUME NEW tag, Search(tag) PROVE phase' # "full"
    BY <2>4, Zenon DEF Search, Fail
  <2>5. CASE Begin
    BY <2>1, <2>2, <2>3, <2>4, <2>5 DEF Begin
  <2>6. CASE TaskStep \/ CleanVertex \/ ReleaseVertex
    BY <2>6, Zenon DEF TaskStep, CleanVertex, ReleaseVertex, manager
  <2>7. CASE EndInsert \/ EndReplace \/ EndDelete
    BY <2>7, Zenon DEF EndInsert, EndReplace, EndDelete
  <2>8. CASE BeginMaintain \/ BeginRelease \/ EndMaintain
    BY <2>8, Zenon DEF BeginMaintain, BeginRelease, EndMaintain
  <2>9. CASE UNCHANGED vars
    BY <2>9, Zenon DEF vars, manager
  <2> QED
    BY <2>5, <2>6, <2>7, <2>8, <2>9 DEF Next
<1> QED
  BY <1>1, <1>2, InitKeepsSlots, StepKeepsSlots, PTL DEF Spec
============================================================================
