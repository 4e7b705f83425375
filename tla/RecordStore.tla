----------------------------- MODULE RecordStore -----------------------------
(***************************************************************************)
(* The durable store of message and call records (records.py), and one     *)
(* consumer that pages it with a cursor.                                   *)
(*                                                                         *)
(* A record is one file; every write gives it the next revision of one     *)
(* counter, kept in the head file beside the records.  The oldest records  *)
(* are removed past a size and past an age.  The consumer keeps a cursor   *)
(* and is told `gap' when a record it has not been served was removed, and *)
(* `reset' when the cursor is not of this store.                           *)
(*                                                                         *)
(* The store's lock makes a write, a purge and a page atomic to each       *)
(* other.  What can come between two of their steps is a crash, and any    *)
(* write to the disk may be refused -- before or after the new file is in  *)
(* its place.  Records are numbered by their own time, the oldest first; a *)
(* file's content is known by the revision written in it.                  *)
(***************************************************************************)
EXTENDS Naturals, FiniteSets

CONSTANTS
    MaxRecords,     \* records there ever are
    MaxRevision,    \* writes
    Capacity,       \* records that fit in max_bytes
    Limit,          \* records on a page
    Wanted,         \* those the consumer's lane filter lets through
    MaxCrashes,     \* times the process dies
    MaxFaults       \* writes the disk refuses

Record == 1 .. MaxRecords

ASSUME StoreAssumption ==
    /\ MaxRecords \in Nat /\ MaxRevision \in Nat
    /\ Capacity \in Nat /\ Limit \in Nat \ {0}
    /\ Wanted \subseteq Record
    /\ MaxCrashes \in Nat /\ MaxFaults \in Nat

VARIABLES
    \* the disk
    file,           \* [record -> the revision in its file, 0 for no file]
    headRevision, headRemoved,      \* the head file
    \* the process
    at,             \* where the store is
    keep,           \* the record being written, 0 for none
    index,          \* [record -> its revision, 0 if it is not held]
    revision, removed,
    dirty,          \* something was removed since the head was written
    \* the owner, and time
    created,        \* records begun so far
    horizon,        \* records whose time is past the retention rule
    \* the consumer
    since,          \* its cursor
    seen,           \* [record -> the revision it was last served]
    told,           \* removals it has been told of, through this revision
    \* history and bounds
    lost,           \* [record -> the revision it was last removed at]
    doubt,          \* "some" once the disk refused a change that was made
    untold,         \* "some" once the process died with a removal the head has not
    crashes, faults

disk == <<file, headRevision, headRemoved>>
process == <<at, keep, index, revision, removed, dirty>>
consumer == <<since, seen, told>>
vars == <<disk, process, created, horizon, consumer, lost, doubt, untold,
          crashes, faults>>

Revision == 0 .. MaxRevision

TypeOK ==
    /\ file \in [Record -> Revision] /\ index \in [Record -> Revision]
    /\ headRevision \in Revision /\ headRemoved \in Revision
    /\ revision \in Revision /\ removed \in Revision
    /\ at \in {"shut", "idle", "heading", "room", "purging"}
    /\ keep \in Record \cup {0} /\ dirty \in {"yes", "no"}
    /\ created \in 0 .. MaxRecords /\ horizon \in 0 .. MaxRecords
    /\ since \in Revision /\ told \in Revision
    /\ seen \in [Record -> Revision] /\ lost \in [Record -> Revision]
    /\ doubt \in {"none", "some"} /\ untold \in {"none", "some"}
    /\ crashes \in Nat /\ faults \in Nat

Nothing == [r \in Record |-> 0]

Init ==
    /\ file = Nothing /\ headRevision = 0 /\ headRemoved = 0
    /\ at = "shut" /\ keep = 0 /\ index = Nothing
    /\ revision = 0 /\ removed = 0 /\ dirty = "no"
    /\ created = 0 /\ horizon = 0
    /\ since = 0 /\ seen = Nothing /\ told = 0
    /\ lost = Nothing /\ doubt = "none" /\ untold = "none"
    /\ crashes = 0 /\ faults = 0

----------------------------------------------------------------------------
(* Helpers.                                                                *)

Highest(S) == CHOOSE n \in S : \A m \in S : m <= n
Larger(m, n) == IF m < n THEN n ELSE m

Held == {r \in Record : index[r] # 0}

\* The record with the earliest time.
Oldest(S) == CHOOSE r \in S : \A q \in S : r <= q

\* A file written under another name, synced and renamed, and the directory
\* synced: done; refused with the old file in place; or refused with the new.
Outcomes == {"done"} \cup IF faults < MaxFaults THEN {"refused", "refused_late"} ELSE {}

InPlace(outcome) == outcome # "refused"

Counted(outcome) == faults' = IF outcome = "done" THEN faults ELSE faults + 1

----------------------------------------------------------------------------
(* Opening.                                                                *)

\* Mutation of Rebuilt: the newest record's on the disk.
RebuiltFromTheFiles == Highest({file[r] : r \in Record} \cup {0})

\* The revision a start goes on from: the head's, or a newer one found.
Rebuilt == Highest({headRevision} \cup {file[r] : r \in Record})

\* open(): the index is read off the directory, and the age rule applied.
Open ==
    /\ at = "shut"
    /\ at' = "purging" /\ keep' = 0 /\ dirty' = "no"
    /\ index' = file /\ revision' = Rebuilt /\ removed' = headRemoved
    /\ UNCHANGED <<disk, created, horizon, consumer, lost, doubt, untold,
                   crashes, faults>>

----------------------------------------------------------------------------
(* put(): the record's file, the head, the index, then the two bounds.     *)

PutFile(r, outcome) ==
    /\ at = "idle" /\ revision < MaxRevision
    /\ r <= created + 1 /\ created' = Larger(created, r)
    /\ file' = IF InPlace(outcome) THEN [file EXCEPT ![r] = revision + 1] ELSE file
    /\ IF outcome = "done"
       THEN revision' = revision + 1 /\ at' = "heading" /\ keep' = r
       ELSE UNCHANGED <<revision, at, keep>>
    /\ doubt' = IF outcome = "refused_late" THEN "some" ELSE doubt
    /\ Counted(outcome)
    /\ UNCHANGED <<headRevision, headRemoved, index, removed, dirty, horizon,
                   consumer, lost, untold, crashes>>

WriteHead(outcome) ==
    IF InPlace(outcome)
    THEN headRevision' = revision /\ headRemoved' = removed
    ELSE UNCHANGED <<headRevision, headRemoved>>

\* Refused, the put raises: the record is in its file and not in the index.
PutHead(outcome) ==
    /\ at = "heading"
    /\ WriteHead(outcome)
    /\ IF outcome = "done"
       THEN /\ index' = [index EXCEPT ![keep] = revision]
            /\ at' = "room" /\ UNCHANGED <<keep, doubt>>
       ELSE at' = "idle" /\ keep' = 0 /\ doubt' = "some" /\ UNCHANGED index
    /\ dirty' = "no"
    /\ Counted(outcome)
    /\ UNCHANGED <<file, revision, removed, created, horizon, consumer, lost,
                   untold, crashes>>

\* Mutation of RemovedThrough: the last removal's revision, not the highest.
RemovedThroughTheLast(r) == index[r]

\* What a consumer has to have been served through to miss nothing.
RemovedThrough(r) == Larger(removed, index[r])

\* _remove: out of the index, then off the disk.  The disk may refuse, and
\* nothing catches that: the record is on the disk and not in the index.
Remove(r, outcome) ==
    /\ index' = [index EXCEPT ![r] = 0]
    /\ removed' = RemovedThrough(r)
    /\ lost' = [lost EXCEPT ![r] = index[r]]
    /\ IF outcome = "done"
       THEN file' = [file EXCEPT ![r] = 0] /\ dirty' = "yes" /\ UNCHANGED <<at, keep, doubt>>
       ELSE at' = "idle" /\ keep' = 0 /\ dirty' = "no" /\ doubt' = "some" /\ UNCHANGED file
    /\ Counted(outcome)
    /\ UNCHANGED <<headRevision, headRemoved, revision, created, horizon, consumer,
                   untold, crashes>>

Removals == Outcomes \ {"refused_late"}

\* _make_room: past the size the oldest go, never the one just written.
TooMuch == Cardinality(Held) > Capacity /\ Cardinality(Held) > 1

MakeRoom(outcome) ==
    /\ at = "room" /\ TooMuch
    /\ Remove(Oldest(Held \ {keep}), outcome)

\* Some were removed: the head says so, unless the disk refuses, which is logged.
HeadAfterRemovals(outcome) ==
    /\ IF dirty = "yes" THEN WriteHead(outcome)
       ELSE outcome = "done" /\ UNCHANGED <<headRevision, headRemoved>>
    /\ Counted(outcome) /\ dirty' = "no"
    /\ UNCHANGED <<file, index, revision, removed, created, horizon, consumer,
                   lost, doubt, untold, crashes>>

RoomMade(outcome) ==
    /\ at = "room" /\ ~TooMuch
    /\ at' = "purging" /\ keep' = 0
    /\ HeadAfterRemovals(outcome)

----------------------------------------------------------------------------
(* purge(): after a put, at open, and at every pass of the monitor.        *)

Grow ==
    /\ horizon < MaxRecords /\ horizon' = horizon + 1
    /\ UNCHANGED <<disk, process, created, consumer, lost, doubt, untold,
                   crashes, faults>>

Purge ==
    /\ at = "idle" /\ at' = "purging"
    /\ UNCHANGED <<disk, keep, index, revision, removed, dirty, created, horizon,
                   consumer, lost, doubt, untold, crashes, faults>>

TooOld == Held # {} /\ Oldest(Held) <= horizon

PurgeOldest(outcome) ==
    /\ at = "purging" /\ TooOld
    /\ Remove(Oldest(Held), outcome)

Purged(outcome) ==
    /\ at = "purging" /\ ~TooOld
    /\ at' = "idle" /\ UNCHANGED keep
    /\ HeadAfterRemovals(outcome)

----------------------------------------------------------------------------
(* The process dies.                                                       *)

Dies ==
    /\ at # "shut" /\ crashes < MaxCrashes /\ crashes' = crashes + 1
    /\ at' = "shut" /\ keep' = 0 /\ dirty' = "no"
    /\ index' = Nothing /\ revision' = 0 /\ removed' = 0
    /\ untold' = IF removed # headRemoved THEN "some" ELSE untold
    /\ UNCHANGED <<disk, created, horizon, consumer, lost, doubt, faults>>

----------------------------------------------------------------------------
(* page(): what was written after the cursor, in the order it was written. *)

Later == {r \in Wanted : index[r] > since}

More == Cardinality(Later) > Limit

\* Mutation of Cursor: the page counts as whole.
CursorAtTheHead(page) == revision

\* The last record's revision when there is more, the store's own otherwise.
Cursor(page) == IF More THEN Highest({index[r] : r \in page}) ELSE revision

FirstOf(page) ==
    /\ page \subseteq Later
    /\ Cardinality(page) = IF More THEN Limit ELSE Cardinality(Later)
    /\ \A r \in page, q \in Later \ page : index[r] <= index[q]

\* A process runs without its store where the directory was refused at start: it
\* answers as an empty one.  Told `reset', the consumer starts again from 0.
Page ==
    /\ at \in {"idle", "shut"}
    /\ \E page \in SUBSET Wanted :
          /\ FirstOf(page)
          /\ seen' = [r \in Record |-> IF r \in page /\ file[r] # 0 THEN file[r] ELSE seen[r]]
          /\ since' = IF since > revision THEN 0 ELSE Cursor(page)
    /\ told' = IF since < removed THEN Larger(told, removed) ELSE told
    /\ UNCHANGED <<disk, process, created, horizon, lost, doubt, untold, crashes, faults>>

----------------------------------------------------------------------------
Put ==
    \/ \E r \in Record, outcome \in Outcomes : PutFile(r, outcome)
    \/ \E outcome \in Outcomes : PutHead(outcome) \/ RoomMade(outcome)
    \/ \E outcome \in Removals : MakeRoom(outcome)

Age ==
    \/ Grow \/ Purge
    \/ \E outcome \in Removals : PurgeOldest(outcome)
    \/ \E outcome \in Outcomes : Purged(outcome)

Next == Open \/ Put \/ Age \/ Dies \/ Page

Spec == Init /\ [][Next]_vars
----------------------------------------------------------------------------
(* Properties.                                                             *)

(* The inductive invariant.                                                *)

\* The disk has kept every change, and no removal is unwritten for ever.
Trusted == doubt = "none" /\ untold = "none"

\* A start would count on from n at least.
Reached(n) == n <= headRevision \/ \E r \in Record : n <= file[r]

HeadIsBehind ==
    /\ headRemoved <= headRevision
    /\ at # "shut" =>
          headRevision <= revision /\ headRemoved <= removed /\ removed <= revision

\* The index is what the directory holds, but for the record being written.
IndexIsTheDisk ==
    /\ \A r, q \in Record : file[r] = file[q] /\ file[r] # 0 => r = q
    /\ at # "shut" => \A r \in Record :
          /\ file[r] <= revision /\ index[r] <= revision
          /\ IF at = "heading" /\ r = keep THEN file[r] = revision ELSE index[r] = file[r]

\* What was served is counted on from, unless a removal has yet to be written.
CounterIsKept ==
    IF at = "shut" THEN Reached(since)
    ELSE since <= revision /\ (Reached(revision) \/ removed # headRemoved)

CursorIsServed ==
    \A r \in Wanted : file[r] # 0 /\ file[r] <= since => seen[r] >= file[r]

RemovalsAreKept ==
    \A r \in Wanted : lost[r] # 0 =>
        /\ lost[r] <= IF at = "shut" THEN headRemoved ELSE removed
        /\ lost[r] <= since /\ seen[r] < lost[r] => told >= lost[r]

\* What every step keeps of the disk, the process and the consumer, and what the
\* three properties below follow from (put, _remove, _write_head, _rebuild, page).
StoreInv ==
    /\ at = "shut" => revision = 0 /\ removed = 0 /\ index = Nothing
    /\ at = "heading" => keep # 0
    /\ Trusted => /\ HeadIsBehind /\ IndexIsTheDisk /\ CounterIsKept
                  /\ CursorIsServed /\ RemovalsAreKept

\* A cursor covers every change before it: what the store holds at a revision
\* the consumer has passed, the consumer was served -- across restarts, removals
\* and pages cut short (page, put, _rebuild).  Until the disk refuses a change it
\* has made, or the process dies with a removal the head does not have yet.
CursorCoversChanges ==
    at = "idle" /\ Trusted =>
        \A r \in Wanted : index[r] # 0 /\ index[r] <= since => seen[r] >= index[r]

\* A record removed before it was served is never missed in silence: the page
\* that passes it says `gap' (page, _remove, _write_head).  The same exceptions.
RemovalIsTold ==
    Trusted =>
        \A r \in Wanted : lost[r] # 0 /\ lost[r] <= since /\ seen[r] < lost[r] =>
            told >= lost[r]

\* An open store tells no consumer of its own that the cursor is another
\* store's: no start counts from less than was served (_rebuild, put).  The same
\* exceptions.
ResetIsAnotherStore ==
    at # "shut" /\ Trusted => since <= revision

=============================================================================
