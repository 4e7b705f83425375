-------------------------- MODULE RecordStoreProofs --------------------------
(***************************************************************************)
(* Theorems about RecordStore, for every value of its constants.           *)
(***************************************************************************)
EXTENDS RecordStore, FiniteSetTheorems, WellFoundedInduction, TLAPS

----------------------------------------------------------------------------
(* The helpers.                                                            *)

\* A set of numbers that is not empty has a least: below one of its members the
\* numbers up to a member are finite sets, and inclusion of those is well founded.
LEMMA LeastExists ==
    ASSUME NEW S \in SUBSET Nat, S # {}
    PROVE  \E r \in S : \A q \in S : r <= q
  <1>1. PICK top \in S : TRUE
    OBVIOUS
  <1> DEFINE few == {n \in S : n <= top}
             D == 0 .. top
             T == {0 .. n : n \in few}
             R == StrictSubsetOrdering(D)
  <1>2. T \in SUBSET (SUBSET D) /\ T # {}
    BY <1>1
  <1>3. IsFiniteSet(D)
    BY FS_Interval
  <1>4. T \subseteq FiniteSubsetsOf(D)
    BY <1>2, <1>3, FS_FiniteSubsetsOfFinite
  <1>5. PICK x \in T : \A y \in T : ~ (<<y, x>> \in R)
    <2> HIDE DEF T, R, D
    <2>1. IsWellFoundedOn(R, FiniteSubsetsOf(D))
      BY FS_StrictSubsetOrderingWellFounded DEF R
    <2> QED
      BY <1>2, <1>4, <2>1, WFMin
  <1>6. PICK r \in few : x = 0 .. r
    OBVIOUS
  <1>7. \A q \in few : r <= q
    <2> SUFFICES ASSUME NEW q \in few, q < r PROVE FALSE
      OBVIOUS
    <2>1. 0 .. q \in T /\ 0 .. q \subseteq 0 .. r /\ r \in 0 .. r /\ r \notin 0 .. q
      OBVIOUS
    <2>2. <<0 .. q, x>> \in R
      BY <1>2, <1>6, <2>1 DEF StrictSubsetOrdering
    <2> QED
      BY <1>5, <2>1, <2>2
  <1> QED
    BY <1>7

LEMMA OldestIsThere ==
    ASSUME NEW S \in SUBSET Record, S # {}
    PROVE  Oldest(S) \in S
  <1>1. S \in SUBSET Nat
    BY StoreAssumption DEF Record
  <1> QED
    BY <1>1, LeastExists DEF Oldest

\* And, where it is bounded, a greatest.
LEMMA HighestIsThere ==
    ASSUME NEW S \in SUBSET Revision, S # {}
    PROVE  Highest(S) \in S /\ \A m \in S : m <= Highest(S)
  <1> DEFINE below == {MaxRevision - n : n \in S}
  <1>1. below \in SUBSET Nat /\ below # {}
    <2>1. \A n \in S : n \in Nat /\ n <= MaxRevision
      BY StoreAssumption DEF Revision
    <2>2. \A n \in S : MaxRevision - n \in Nat
      BY <2>1, StoreAssumption
    <2> QED
      BY <2>2
  <1>2. PICK b \in below : \A c \in below : b <= c
    BY <1>1, LeastExists
  <1>3. PICK n \in S : b = MaxRevision - n
    BY <1>2
  <1>4. \A m \in S : m <= n
    <2> SUFFICES ASSUME NEW m \in S PROVE m <= n
      OBVIOUS
    <2>1. MaxRevision - n <= MaxRevision - m
      BY <1>2, <1>3
    <2> QED
      BY <2>1, StoreAssumption DEF Revision
  <1> QED
    BY <1>4 DEF Highest

\* A start goes on from what is on the disk, and from nothing less than it.
LEMMA RebuiltIsTheHighest ==
    ASSUME file \in [Record -> Revision], headRevision \in Revision
    PROVE  /\ Rebuilt \in Revision
           /\ headRevision <= Rebuilt /\ \A r \in Record : file[r] <= Rebuilt
           /\ Reached(Rebuilt)
  <1> DEFINE S == {headRevision} \cup {file[r] : r \in Record}
  <1>1. S \in SUBSET Revision /\ S # {}
    OBVIOUS
  <1>2. Rebuilt \in S /\ \A m \in S : m <= Rebuilt
    BY <1>1, HighestIsThere DEF Rebuilt
  <1>3. \A m \in S : m \in Nat
    BY <1>1 DEF Revision
  <1> QED
    BY <1>1, <1>2, <1>3 DEF Reached

\* Where records have to go, there is one that is not the one being written.
LEMMA OneCanGo ==
    ASSUME TooMuch
    PROVE  Held \ {keep} # {}
  <1> SUFFICES ASSUME Held \subseteq {keep} PROVE FALSE
    OBVIOUS
  <1>1. IsFiniteSet({keep}) /\ Cardinality({keep}) = 1
    BY FS_Singleton
  <1>2. Cardinality(Held) <= 1 /\ Cardinality(Held) \in Nat
    BY <1>1, FS_Subset, FS_CardinalityType
  <1> QED
    BY <1>2 DEF TooMuch

----------------------------------------------------------------------------
(* A page.                                                                 *)

LEMMA LaterIsFinite == IsFiniteSet(Later) /\ Cardinality(Later) \in Nat
  <1>1. IsFiniteSet(Record)
    BY FS_Interval, StoreAssumption DEF Record
  <1>2. Later \subseteq Record
    BY StoreAssumption DEF Later
  <1> QED
    BY <1>1, <1>2, FS_Subset, FS_CardinalityType

\* A page with more to come is not empty, and one without is all there is.
LEMMA PageIsEnough ==
    ASSUME NEW page, FirstOf(page)
    PROVE  (More => page # {}) /\ (~More => page = Later)
  <1>1. ASSUME More PROVE page # {}
    BY <1>1, FS_EmptySet, StoreAssumption DEF FirstOf
  <1>2. ASSUME ~More PROVE page = Later
    BY <1>2, LaterIsFinite, FS_Subset DEF FirstOf
  <1> QED
    BY <1>1, <1>2

\* The cursor of a page is past every record on it, and where more is to come it
\* is the revision of one of them.
LEMMA CursorIsThePages ==
    ASSUME TypeOK, NEW page, FirstOf(page)
    PROVE  /\ Cursor(page) \in Revision
           /\ ~More => Cursor(page) = revision
           /\ More => /\ \E r \in page : Cursor(page) = index[r]
                      /\ \A r \in page : index[r] <= Cursor(page)
  <1> DEFINE S == {index[r] : r \in page}
  <1>1. S \in SUBSET Revision
    BY StoreAssumption DEF TypeOK, FirstOf, Later
  <1>2. CASE More
    <2>1. S # {}
      BY <1>2, PageIsEnough
    <2>2. Highest(S) \in S /\ \A m \in S : m <= Highest(S)
      BY <1>1, <2>1, HighestIsThere
    <2> QED
      BY <1>1, <1>2, <2>2 DEF Cursor
  <1>3. CASE ~More
    BY <1>3 DEF Cursor, TypeOK
  <1> QED
    BY <1>2, <1>3

----------------------------------------------------------------------------
(* Types.                                                                  *)

LEMMA OutcomesCount ==
    ASSUME TypeOK, NEW outcome, Counted(outcome)
    PROVE  faults' \in Nat
  BY DEF TypeOK, Counted

LEMMA HeadTypes ==
    ASSUME TypeOK, NEW outcome, WriteHead(outcome)
    PROVE  headRevision' \in Revision /\ headRemoved' \in Revision
  BY DEF TypeOK, WriteHead

LEMMA RemoveTypes ==
    ASSUME TypeOK, NEW r \in Record, NEW outcome, Remove(r, outcome)
    PROVE  TypeOK'
  <1>1. faults' \in Nat
    BY OutcomesCount DEF Remove
  <1>2. index[r] \in Revision /\ 0 \in Revision
    <2>1. 0 \in Revision
      BY StoreAssumption DEF Revision
    <2> QED
      BY <2>1 DEF TypeOK
  <1>3. removed' \in Revision
    BY <1>2 DEF Remove, RemovedThrough, Larger, TypeOK
  <1>4. /\ index' \in [Record -> Revision] /\ lost' \in [Record -> Revision]
        /\ file' \in [Record -> Revision]
    BY <1>2 DEF Remove, TypeOK
  <1> QED
    BY <1>1, <1>3, <1>4 DEF Remove, TypeOK, consumer

LEMMA HeadAfterTypes ==
    ASSUME TypeOK, NEW outcome, HeadAfterRemovals(outcome),
           at' \in {"idle", "purging"}, keep' \in Record \cup {0}
    PROVE  TypeOK'
  <1>1. faults' \in Nat
    BY OutcomesCount DEF HeadAfterRemovals
  <1>2. headRevision' \in Revision /\ headRemoved' \in Revision
    BY HeadTypes DEF HeadAfterRemovals, TypeOK
  <1> QED
    BY <1>1, <1>2 DEF HeadAfterRemovals, TypeOK, consumer

LEMMA PageTypes == TypeOK /\ Page => TypeOK'
  <1> SUFFICES ASSUME TypeOK, Page PROVE TypeOK'
    OBVIOUS
  <1>1. PICK page \in SUBSET Wanted :
           /\ FirstOf(page)
           /\ seen' = [r \in Record |-> IF r \in page /\ file[r] # 0 THEN file[r] ELSE seen[r]]
           /\ since' = IF since > revision THEN 0 ELSE Cursor(page)
    BY DEF Page
  <1>2. seen' \in [Record -> Revision]
    BY <1>1 DEF TypeOK
  <1>3. since' \in Revision
    <2>1. Cursor(page) \in Revision /\ 0 \in Revision
      BY <1>1, CursorIsThePages, StoreAssumption DEF Revision
    <2> QED
      BY <1>1, <2>1
  <1>4. told' \in Revision
    BY DEF Page, Larger, TypeOK
  <1> QED
    BY <1>2, <1>3, <1>4 DEF Page, TypeOK, disk, process

LEMMA PutTypes == TypeOK /\ Put => TypeOK'
  <1> SUFFICES ASSUME TypeOK, Put PROVE TypeOK'
    OBVIOUS
  <1>1. ASSUME NEW r \in Record, NEW outcome \in Outcomes, PutFile(r, outcome)
        PROVE  TypeOK'
    <2>1. faults' \in Nat
      BY <1>1, OutcomesCount DEF PutFile
    <2>2. revision + 1 \in Revision
      BY <1>1, StoreAssumption DEF PutFile, TypeOK, Revision
    <2>3. file' \in [Record -> Revision]
      BY <1>1, <2>2 DEF PutFile, TypeOK
    <2>4. created' \in 0 .. MaxRecords
      BY <1>1, StoreAssumption DEF PutFile, TypeOK, Larger, Record
    <2>5. revision' \in Revision /\ at' \in {"idle", "heading"} /\ keep' \in Record \cup {0}
      BY <1>1, <2>2 DEF PutFile, TypeOK
    <2> QED
      BY <1>1, <2>1, <2>3, <2>4, <2>5 DEF PutFile, TypeOK, consumer
  <1>2. ASSUME NEW outcome \in Outcomes, PutHead(outcome)
        PROVE  TypeOK'
    <2>1. faults' \in Nat
      BY <1>2, OutcomesCount DEF PutHead
    <2>2. headRevision' \in Revision /\ headRemoved' \in Revision
      BY <1>2, HeadTypes DEF PutHead
    <2>3. /\ index' \in [Record -> Revision] /\ at' \in {"idle", "room"}
          /\ keep' \in Record \cup {0} /\ doubt' \in {"none", "some"}
      BY <1>2 DEF PutHead, TypeOK
    <2> QED
      BY <1>2, <2>1, <2>2, <2>3 DEF PutHead, TypeOK, consumer
  <1>3. ASSUME NEW outcome \in Outcomes, RoomMade(outcome)
        PROVE  TypeOK'
    BY <1>3, HeadAfterTypes DEF RoomMade
  <1>4. ASSUME NEW outcome \in Removals, MakeRoom(outcome)
        PROVE  TypeOK'
    <2>1. Oldest(Held \ {keep}) \in Record
      BY <1>4, OneCanGo, OldestIsThere DEF MakeRoom, Held
    <2> QED
      BY <1>4, <2>1, RemoveTypes DEF MakeRoom
  <1> QED
    BY <1>1, <1>2, <1>3, <1>4 DEF Put

LEMMA AgeTypes == TypeOK /\ Age => TypeOK'
  <1> SUFFICES ASSUME TypeOK, Age PROVE TypeOK'
    OBVIOUS
  <1>1. CASE Grow
    BY <1>1, StoreAssumption DEF Grow, TypeOK, disk, process, consumer
  <1>2. CASE Purge
    BY <1>2 DEF Purge, TypeOK, disk, consumer
  <1>3. ASSUME NEW outcome \in Removals, PurgeOldest(outcome)
        PROVE  TypeOK'
    <2>1. Oldest(Held) \in Record
      BY <1>3, OldestIsThere DEF PurgeOldest, TooOld, Held
    <2> QED
      BY <1>3, <2>1, RemoveTypes DEF PurgeOldest
  <1>4. ASSUME NEW outcome \in Outcomes, Purged(outcome)
        PROVE  TypeOK'
    BY <1>4, HeadAfterTypes DEF Purged, TypeOK
  <1> QED
    BY <1>1, <1>2, <1>3, <1>4 DEF Age

\* Every variable keeps its type.
THEOREM StoreTypesHold == Spec => []TypeOK
  <1>1. Init => TypeOK
    BY StoreAssumption DEF Init, TypeOK, Nothing, Revision
  <1>2. TypeOK /\ [Next]_vars => TypeOK'
    <2> SUFFICES ASSUME TypeOK, [Next]_vars PROVE TypeOK'
      OBVIOUS
    <2>1. CASE Open
      <3>1. Rebuilt \in Revision
        BY RebuiltIsTheHighest DEF TypeOK
      <3> QED
        BY <2>1, <3>1 DEF Open, TypeOK, disk, consumer
    <2>2. CASE Put
      BY <2>2, PutTypes
    <2>3. CASE Age
      BY <2>3, AgeTypes
    <2>4. CASE Dies
      BY <2>4, StoreAssumption DEF Dies, TypeOK, Nothing, Revision, disk, consumer
    <2>5. CASE Page
      BY <2>5, PageTypes
    <2>6. CASE UNCHANGED vars
      BY <2>6 DEF vars, disk, process, consumer, TypeOK
    <2> QED
      BY <2>1, <2>2, <2>3, <2>4, <2>5, <2>6 DEF Next
  <1> QED
    BY <1>1, <1>2, PTL DEF Spec

----------------------------------------------------------------------------
(* The store's invariant.                                                  *)

\* What the numbers are, for arithmetic.
LEMMA Numbers ==
    ASSUME TypeOK
    PROVE  /\ revision \in Nat /\ removed \in Nat /\ since \in Nat /\ told \in Nat
           /\ headRevision \in Nat /\ headRemoved \in Nat
           /\ \A r \in Record : file[r] \in Nat /\ index[r] \in Nat
           /\ \A r \in Record : seen[r] \in Nat /\ lost[r] \in Nat
           /\ Wanted \subseteq Record
  <1>1. \A n \in Revision : n \in Nat
    BY StoreAssumption DEF Revision
  <1> QED
    BY <1>1, StoreAssumption DEF TypeOK

\* A start counts on from what was served.
LEMMA OpenKeeps == TypeOK /\ StoreInv /\ Open => StoreInv'
  <1> SUFFICES ASSUME TypeOK, StoreInv, Open PROVE StoreInv'
    OBVIOUS
  <1>1. /\ Rebuilt \in Nat /\ headRevision <= Rebuilt /\ Reached(Rebuilt)
        /\ \A r \in Record : file[r] <= Rebuilt
    BY RebuiltIsTheHighest, StoreAssumption DEF TypeOK, Revision
  <1>2. SUFFICES ASSUME Trusted PROVE (HeadIsBehind /\ IndexIsTheDisk /\ CounterIsKept
                                      /\ CursorIsServed /\ RemovalsAreKept)'
    BY DEF Open, StoreInv, Trusted
  <1>3. HeadIsBehind /\ IndexIsTheDisk /\ CounterIsKept /\ CursorIsServed /\ RemovalsAreKept
    BY <1>2 DEF StoreInv
  <1>4. HeadIsBehind'
    BY <1>1, <1>3, Numbers DEF Open, HeadIsBehind, disk
  <1>5. IndexIsTheDisk'
    BY <1>1, <1>3, Numbers DEF Open, IndexIsTheDisk, disk
  <1>6. since <= Rebuilt
    BY <1>1, <1>3, Numbers DEF Open, CounterIsKept, Reached
  <1>7. CounterIsKept'
    BY <1>1, <1>6 DEF Open, CounterIsKept, Reached, disk, consumer
  <1>8. CursorIsServed' /\ RemovalsAreKept'
    BY <1>3 DEF Open, CursorIsServed, RemovalsAreKept, disk, consumer
  <1> QED
    BY <1>4, <1>5, <1>7, <1>8

\* A write takes a revision nobody has been served.
LEMMA PutFileKeeps ==
    ASSUME TypeOK, StoreInv, NEW r \in Record, NEW outcome \in Outcomes, PutFile(r, outcome)
    PROVE  StoreInv'
  <1>1. outcome \in {"done", "refused", "refused_late"}
    BY DEF Outcomes
  <1>2. CASE outcome = "refused"
    BY <1>2 DEF PutFile, InPlace, StoreInv, Trusted, HeadIsBehind, IndexIsTheDisk,
                CounterIsKept, CursorIsServed, RemovalsAreKept, Reached, consumer
  <1>3. CASE outcome = "refused_late"
    BY <1>3 DEF PutFile, StoreInv, Trusted
  <1>4. CASE outcome = "done"
    <2>1. /\ at = "idle" /\ at' = "heading" /\ keep' = r /\ revision' = revision + 1
          /\ file' = [file EXCEPT ![r] = revision + 1]
          /\ UNCHANGED <<headRevision, headRemoved, index, removed, since, seen, told, lost,
                         doubt, untold>>
      BY <1>4 DEF PutFile, InPlace, consumer
    <2>2. file'[r] = revision + 1 /\ \A q \in Record : q # r => file'[q] = file[q]
      BY <2>1 DEF TypeOK
    <2>3. SUFFICES ASSUME Trusted PROVE (HeadIsBehind /\ IndexIsTheDisk /\ CounterIsKept
                                        /\ CursorIsServed /\ RemovalsAreKept)'
      BY <2>1, StoreAssumption DEF StoreInv, Trusted, Record
    <2>4. HeadIsBehind /\ IndexIsTheDisk /\ CounterIsKept /\ CursorIsServed /\ RemovalsAreKept
      BY <2>3 DEF StoreInv
    <2>5. HeadIsBehind'
      BY <2>1, <2>4, Numbers DEF HeadIsBehind
    <2>6. IndexIsTheDisk'
      BY <2>1, <2>2, <2>4, Numbers DEF IndexIsTheDisk
    <2>7. CounterIsKept'
      BY <2>1, <2>2, <2>4, Numbers DEF CounterIsKept, Reached
    <2>8. CursorIsServed'
      BY <2>1, <2>2, <2>4, Numbers DEF CursorIsServed, CounterIsKept
    <2>9. RemovalsAreKept'
      BY <2>1, <2>4 DEF RemovalsAreKept
    <2> QED
      BY <2>5, <2>6, <2>7, <2>8, <2>9
  <1> QED
    BY <1>1, <1>2, <1>3, <1>4

\* The head is written: from here a start counts from at least this write.
LEMMA PutHeadKeeps ==
    ASSUME TypeOK, StoreInv, NEW outcome \in Outcomes, PutHead(outcome)
    PROVE  StoreInv'
  <1>1. CASE outcome # "done"
    BY <1>1 DEF PutHead, StoreInv, Trusted
  <1>2. CASE outcome = "done"
    <2>1. /\ at = "heading" /\ at' = "room" /\ keep' = keep
          /\ headRevision' = revision /\ headRemoved' = removed
          /\ index' = [index EXCEPT ![keep] = revision]
          /\ UNCHANGED <<file, revision, removed, since, seen, told, lost, doubt, untold>>
      BY <1>2 DEF PutHead, WriteHead, InPlace, consumer
    <2>2. keep \in Record
      BY <2>1 DEF StoreInv, TypeOK
    <2>3. index'[keep] = revision /\ \A q \in Record : q # keep => index'[q] = index[q]
      BY <2>1, <2>2 DEF TypeOK
    <2>4. SUFFICES ASSUME Trusted PROVE (HeadIsBehind /\ IndexIsTheDisk /\ CounterIsKept
                                        /\ CursorIsServed /\ RemovalsAreKept)'
      BY <2>1 DEF StoreInv, Trusted
    <2>5. HeadIsBehind /\ IndexIsTheDisk /\ CounterIsKept /\ CursorIsServed /\ RemovalsAreKept
      BY <2>4 DEF StoreInv
    <2>6. HeadIsBehind'
      BY <2>1, <2>5, Numbers DEF HeadIsBehind
    <2>7. IndexIsTheDisk'
      BY <2>1, <2>2, <2>3, <2>5, Numbers DEF IndexIsTheDisk
    <2>8. CounterIsKept'
      BY <2>1, <2>5, Numbers DEF CounterIsKept, Reached
    <2>9. CursorIsServed' /\ RemovalsAreKept'
      BY <2>1, <2>5 DEF CursorIsServed, RemovalsAreKept
    <2> QED
      BY <2>6, <2>7, <2>8, <2>9
  <1> QED
    BY <1>1, <1>2

\* A removal: what a start would count from is lower for it only if the head has
\* yet to be told, and the consumer has been served the record or will be told.
LEMMA RemoveKeeps ==
    ASSUME TypeOK, StoreInv, NEW r \in Record, NEW outcome \in Removals,
           at \in {"room", "purging"}, index[r] # 0, Remove(r, outcome)
    PROVE  StoreInv'
  <1>1. CASE outcome # "done"
    BY <1>1 DEF Remove, StoreInv, Trusted
  <1>2. CASE outcome = "done"
    <2>1. /\ index' = [index EXCEPT ![r] = 0] /\ file' = [file EXCEPT ![r] = 0]
          /\ lost' = [lost EXCEPT ![r] = index[r]]
          /\ removed' = IF removed < index[r] THEN index[r] ELSE removed
          /\ UNCHANGED <<at, keep, headRevision, headRemoved, revision, since, seen, told,
                         doubt, untold>>
      BY <1>2 DEF Remove, RemovedThrough, Larger, consumer
    <2>2. /\ index'[r] = 0 /\ file'[r] = 0 /\ lost'[r] = index[r]
          /\ \A q \in Record : q # r => /\ index'[q] = index[q] /\ file'[q] = file[q]
                                        /\ lost'[q] = lost[q]
      BY <2>1 DEF TypeOK
    <2>3. SUFFICES ASSUME Trusted PROVE (HeadIsBehind /\ IndexIsTheDisk /\ CounterIsKept
                                        /\ CursorIsServed /\ RemovalsAreKept)'
      BY <2>1 DEF StoreInv, Trusted
    <2>4. HeadIsBehind /\ IndexIsTheDisk /\ CounterIsKept /\ CursorIsServed /\ RemovalsAreKept
      BY <2>3 DEF StoreInv
    <2>5. file[r] = index[r] /\ index[r] <= revision
      BY <2>4 DEF IndexIsTheDisk
    <2>6. HeadIsBehind'
      BY <2>1, <2>4, <2>5, Numbers DEF HeadIsBehind
    <2>7. IndexIsTheDisk'
      BY <2>1, <2>2, <2>4, Numbers DEF IndexIsTheDisk
    <2>8. CounterIsKept'
      <3>1. CASE removed # headRemoved
        BY <2>1, <2>4, <3>1, Numbers DEF CounterIsKept, HeadIsBehind
      <3>2. CASE revision <= headRevision
        BY <2>1, <2>4, <3>2 DEF CounterIsKept, Reached
      <3>3. ASSUME removed = headRemoved, headRevision < revision
            PROVE  CounterIsKept'
        <4>1. PICK q \in Record : revision <= file[q]
          BY <2>4, <3>3, Numbers DEF CounterIsKept, Reached
        <4>2. CASE q = r
          BY <2>1, <2>4, <2>5, <3>3, <4>1, <4>2, Numbers DEF CounterIsKept, HeadIsBehind
        <4>3. CASE q # r
          BY <2>1, <2>2, <2>4, <4>1, <4>3 DEF CounterIsKept, Reached
        <4> QED
          BY <4>2, <4>3
      <3> QED
        BY <3>1, <3>2, <3>3, Numbers
    <2>9. CursorIsServed'
      BY <2>1, <2>2, <2>4, Numbers DEF CursorIsServed
    <2>10. RemovalsAreKept'
      BY <2>1, <2>2, <2>4, <2>5, Numbers DEF RemovalsAreKept, CursorIsServed
    <2> QED
      BY <2>6, <2>7, <2>8, <2>9, <2>10
  <1> QED
    BY <1>1, <1>2

\* The head after removals, written or not: the disk has all it had.
LEMMA HeadAfterKeeps ==
    ASSUME TypeOK, StoreInv, NEW outcome \in Outcomes, HeadAfterRemovals(outcome),
           at \in {"room", "purging"}, at' \in {"idle", "purging"}
    PROVE  StoreInv'
  <1>1. /\ UNCHANGED <<file, index, revision, removed, since, seen, told, lost, doubt, untold>>
        /\ \/ headRevision' = revision /\ headRemoved' = removed
           \/ UNCHANGED <<headRevision, headRemoved>>
    BY DEF HeadAfterRemovals, WriteHead, consumer
  <1>2. SUFFICES ASSUME Trusted PROVE (HeadIsBehind /\ IndexIsTheDisk /\ CounterIsKept
                                      /\ CursorIsServed /\ RemovalsAreKept)'
    BY <1>1 DEF StoreInv, Trusted
  <1>3. HeadIsBehind /\ IndexIsTheDisk /\ CounterIsKept /\ CursorIsServed /\ RemovalsAreKept
    BY <1>2 DEF StoreInv
  <1>4. HeadIsBehind'
    BY <1>1, <1>3, Numbers DEF HeadIsBehind
  <1>5. IndexIsTheDisk'
    BY <1>1, <1>3 DEF IndexIsTheDisk
  <1>6. CounterIsKept'
    BY <1>1, <1>3, Numbers DEF CounterIsKept, Reached
  <1>7. CursorIsServed' /\ RemovalsAreKept'
    BY <1>1, <1>3 DEF CursorIsServed, RemovalsAreKept
  <1> QED
    BY <1>4, <1>5, <1>6, <1>7

LEMMA PutKeeps == TypeOK /\ StoreInv /\ Put => StoreInv'
  <1> SUFFICES ASSUME TypeOK, StoreInv, Put PROVE StoreInv'
    OBVIOUS
  <1>1. ASSUME NEW outcome \in Outcomes, RoomMade(outcome)
        PROVE  StoreInv'
    BY <1>1, HeadAfterKeeps DEF RoomMade
  <1>2. ASSUME NEW outcome \in Removals, MakeRoom(outcome)
        PROVE  StoreInv'
    <2>1. Oldest(Held \ {keep}) \in Held
      BY <1>2, OneCanGo, OldestIsThere DEF MakeRoom, Held
    <2> QED
      BY <1>2, <2>1, RemoveKeeps DEF MakeRoom, Held
  <1> QED
    BY <1>1, <1>2, PutFileKeeps, PutHeadKeeps DEF Put

LEMMA AgeKeeps == TypeOK /\ StoreInv /\ Age => StoreInv'
  <1> SUFFICES ASSUME TypeOK, StoreInv, Age PROVE StoreInv'
    OBVIOUS
  <1>1. CASE Grow
    BY <1>1 DEF Grow, disk, process, consumer, StoreInv, Trusted, HeadIsBehind, IndexIsTheDisk,
                CounterIsKept, CursorIsServed, RemovalsAreKept, Reached
  <1>2. CASE Purge
    BY <1>2 DEF Purge, disk, consumer, StoreInv, Trusted, HeadIsBehind, IndexIsTheDisk,
                CounterIsKept, CursorIsServed, RemovalsAreKept, Reached
  <1>3. ASSUME NEW outcome \in Removals, PurgeOldest(outcome)
        PROVE  StoreInv'
    <2>1. Oldest(Held) \in Held
      BY <1>3, OldestIsThere DEF PurgeOldest, TooOld, Held
    <2> QED
      BY <1>3, <2>1, RemoveKeeps DEF PurgeOldest, Held
  <1>4. ASSUME NEW outcome \in Outcomes, Purged(outcome)
        PROVE  StoreInv'
    BY <1>4, HeadAfterKeeps DEF Purged
  <1> QED
    BY <1>1, <1>2, <1>3, <1>4 DEF Age

\* The process dies: with every removal in the head, what was served is on the disk.
LEMMA DiesKeeps == TypeOK /\ StoreInv /\ Dies => StoreInv'
  <1> SUFFICES ASSUME TypeOK, StoreInv, Dies PROVE StoreInv'
    OBVIOUS
  <1>1. /\ at # "shut" /\ at' = "shut"
        /\ UNCHANGED <<file, headRevision, headRemoved, since, seen, told, lost, doubt>>
    BY DEF Dies, disk, consumer
  <1>2. SUFFICES ASSUME Trusted' PROVE (HeadIsBehind /\ IndexIsTheDisk /\ CounterIsKept
                                       /\ CursorIsServed /\ RemovalsAreKept)'
    BY DEF Dies, StoreInv, Trusted
  <1>3. removed = headRemoved /\ Trusted
    BY <1>2 DEF Dies, Trusted
  <1>4. HeadIsBehind /\ IndexIsTheDisk /\ CounterIsKept /\ CursorIsServed /\ RemovalsAreKept
    BY <1>3 DEF StoreInv
  <1>5. HeadIsBehind' /\ IndexIsTheDisk'
    BY <1>1, <1>4 DEF HeadIsBehind, IndexIsTheDisk
  <1>6. CounterIsKept'
    BY <1>1, <1>3, <1>4, Numbers DEF CounterIsKept, Reached
  <1>7. CursorIsServed' /\ RemovalsAreKept'
    BY <1>1, <1>3, <1>4 DEF CursorIsServed, RemovalsAreKept
  <1> QED
    BY <1>5, <1>6, <1>7

\* A page: what its cursor passes is on it, or was served before; what was removed
\* under the cursor it says.
LEMMA PageKeeps == TypeOK /\ StoreInv /\ Page => StoreInv'
  <1> SUFFICES ASSUME TypeOK, StoreInv, Page PROVE StoreInv'
    OBVIOUS
  <1>1. PICK page \in SUBSET Wanted :
           /\ FirstOf(page)
           /\ seen' = [r \in Record |-> IF r \in page /\ file[r] # 0 THEN file[r] ELSE seen[r]]
           /\ since' = IF since > revision THEN 0 ELSE Cursor(page)
    BY DEF Page
  <1>2. /\ UNCHANGED <<file, headRevision, headRemoved, at, keep, index, revision, removed,
                       lost, doubt, untold>>
        /\ at \in {"idle", "shut"}
        /\ told' = IF since < removed THEN (IF told < removed THEN removed ELSE told) ELSE told
    BY DEF Page, disk, process, Larger
  <1>3. SUFFICES ASSUME Trusted PROVE (HeadIsBehind /\ IndexIsTheDisk /\ CounterIsKept
                                      /\ CursorIsServed /\ RemovalsAreKept)'
    BY <1>2 DEF StoreInv, Trusted
  <1>4. HeadIsBehind /\ IndexIsTheDisk /\ CounterIsKept /\ CursorIsServed /\ RemovalsAreKept
    BY <1>3 DEF StoreInv
  <1>5. HeadIsBehind' /\ IndexIsTheDisk'
    BY <1>2, <1>4 DEF HeadIsBehind, IndexIsTheDisk
  <1>6. page \subseteq Later /\ Later \subseteq Wanted
    BY <1>1 DEF FirstOf, Later
  <1>7. CASE at = "shut"
    <2>1. revision = 0 /\ \A r \in Record : index[r] = 0
      BY <1>7 DEF StoreInv, Nothing
    <2>2. Later = {}
      BY <2>1, Numbers DEF Later
    <2>3. ~More
      BY <2>2, FS_EmptySet, StoreAssumption DEF More
    <2>4. since' = 0
      BY <1>1, <2>1, <2>3, CursorIsThePages
    <2>5. CounterIsKept'
      BY <1>2, <1>7, <2>4, Numbers DEF CounterIsKept, Reached
    <2>6. CursorIsServed' /\ RemovalsAreKept'
      BY <1>2, <1>4, <1>7, <2>4, Numbers DEF CursorIsServed, RemovalsAreKept
    <2> QED
      BY <1>5, <2>5, <2>6
  <1>8. CASE at = "idle"
    <2>1. \A r \in Record : index[r] = file[r] /\ file[r] <= revision
      BY <1>4, <1>8 DEF IndexIsTheDisk
    <2>2. since' = Cursor(page) /\ since' \in Nat
      <3>1. since <= revision
        BY <1>4, <1>8 DEF CounterIsKept
      <3>2. Cursor(page) \in Nat
        BY <1>1, CursorIsThePages, StoreAssumption DEF Revision
      <3> QED
        BY <1>1, <3>1, <3>2, Numbers
    <2>3. since' <= revision
      BY <1>1, <1>6, <2>1, <2>2, CursorIsThePages, Numbers
    <2>4. CounterIsKept'
      BY <1>2, <1>4, <1>8, <2>3 DEF CounterIsKept, Reached
    <2>5. ASSUME NEW r \in Wanted, file[r] # 0, file[r] <= since', file[r] > since
          PROVE  r \in page
      <3>1. r \in Later
        BY <2>1, <2>5, Numbers DEF Later
      <3>2. CASE ~More
        BY <1>1, <3>1, <3>2, PageIsEnough
      <3>3. CASE More
        <4>1. PICK q \in page : since' = index[q]
          BY <1>1, <2>2, <3>3, CursorIsThePages
        <4>2. ASSUME r \notin page PROVE FALSE
          <5>1. index[q] <= index[r]
            BY <1>1, <3>1, <4>2 DEF FirstOf
          <5>2. file[q] = file[r] /\ q \in Record /\ r \in Record
            BY <1>6, <2>1, <2>5, <4>1, <5>1, Numbers
          <5>3. q = r
            BY <1>4, <2>5, <5>2 DEF IndexIsTheDisk
          <5> QED
            BY <4>2, <5>3
        <4> QED
          BY <4>2
      <3> QED
        BY <3>2, <3>3
    <2>6. \A r \in Wanted : seen'[r] = IF r \in page /\ file[r] # 0 THEN file[r] ELSE seen[r]
      BY <1>1, Numbers
    <2>7. CursorIsServed'
      <3> SUFFICES ASSUME NEW r \in Wanted, file[r] # 0, file[r] <= since'
                   PROVE  seen'[r] >= file[r]
        BY <1>2 DEF CursorIsServed
      <3>1. CASE r \in page
        BY <2>6, <3>1, Numbers
      <3>2. CASE r \notin page
        BY <1>4, <2>2, <2>5, <2>6, <3>2, Numbers DEF CursorIsServed
      <3> QED
        BY <3>1, <3>2
    <2>8. RemovalsAreKept'
      <3> SUFFICES ASSUME NEW r \in Wanted, lost[r] # 0, lost[r] <= since', seen'[r] < lost[r]
                   PROVE  told' >= lost[r]
        BY <1>2, <1>4, <1>8 DEF RemovalsAreKept
      <3>1. lost[r] <= removed
        BY <1>4, <1>8 DEF RemovalsAreKept
      <3>2. CASE since < lost[r]
        BY <1>2, <3>1, <3>2, Numbers
      <3>3. CASE lost[r] <= since
        <4>1. seen[r] <= seen'[r]
          <5>1. CASE r \in page /\ file[r] # 0
            <6>1. file[r] > since
              BY <1>6, <2>1, <5>1, Numbers DEF Later
            <6> QED
              BY <2>6, <3>3, <5>1, <6>1, Numbers
          <5> QED
            BY <2>6, <5>1, Numbers
        <4>2. told >= lost[r]
          BY <1>4, <3>3, <4>1, <2>6, Numbers DEF RemovalsAreKept
        <4> QED
          BY <1>2, <4>2, Numbers
      <3> QED
        BY <3>2, <3>3, Numbers
    <2> QED
      BY <1>5, <2>4, <2>7, <2>8
  <1> QED
    BY <1>2, <1>7, <1>8

----------------------------------------------------------------------------
\* The store's invariant holds of every reachable state: whatever the capacity, the
\* page size and the filter, and however many crashes and refused writes.
THEOREM StoreIsKept == Spec => [](TypeOK /\ StoreInv)
  <1>1. Init => StoreInv
    BY StoreAssumption
       DEF Init, StoreInv, Nothing, HeadIsBehind, IndexIsTheDisk, CounterIsKept, Reached,
           CursorIsServed, RemovalsAreKept
  <1>2. TypeOK /\ StoreInv /\ [Next]_vars => StoreInv'
    <2> SUFFICES ASSUME TypeOK, StoreInv, UNCHANGED vars PROVE StoreInv'
      BY OpenKeeps, PutKeeps, AgeKeeps, DiesKeeps, PageKeeps DEF Next
    <2> QED
      BY DEF vars, disk, process, consumer, StoreInv, Nothing, Trusted, HeadIsBehind,
             IndexIsTheDisk, CounterIsKept, CursorIsServed, RemovalsAreKept, Reached
  <1> QED
    BY <1>1, <1>2, StoreTypesHold, PTL DEF Spec

\* A consumer that has come to a revision has been served every change up to it
\* that the store still holds, restarts and pages cut short included (page).
THEOREM CursorsCoverChanges == Spec => []CursorCoversChanges
  <1>1. TypeOK /\ StoreInv => CursorCoversChanges
    BY Numbers DEF StoreInv, IndexIsTheDisk, CursorIsServed, CursorCoversChanges
  <1> QED
    BY <1>1, StoreIsKept, PTL

\* A record removed before it was served has been told (page, _remove).
THEOREM RemovalsAreTold == Spec => []RemovalIsTold
  <1>1. StoreInv => RemovalIsTold
    BY DEF StoreInv, RemovalsAreKept, RemovalIsTold
  <1> QED
    BY <1>1, StoreIsKept, PTL

\* No start counts from less than was served (_rebuild).
THEOREM CountersGoOn == Spec => []ResetIsAnotherStore
  <1>1. StoreInv => ResetIsAnotherStore
    BY DEF StoreInv, CounterIsKept, ResetIsAnotherStore
  <1> QED
    BY <1>1, StoreIsKept, PTL
=============================================================================
