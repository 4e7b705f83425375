----------------------------- MODULE ImageStore ------------------------------
(***************************************************************************)
(* The image store of the capture process (store.py): one record is two    *)
(* files, an image and its sidecar, written under temporary names and      *)
(* renamed; the index is read off the directory at every start; a purge    *)
(* deletes by age and then by size.                                        *)
(*                                                                         *)
(* One thread calls the store.  `call' is how far that thread is in the    *)
(* call it has made: a write, or a purge of its own at a start, is a       *)
(* handful of steps on the disk, and the process can be killed between     *)
(* any two.  A record is known by the order its write was begun in.        *)
(* Names, sizes in bytes and the clock are abstracted to small numbers.    *)
(***************************************************************************)
EXTENDS Naturals, Sequences, FiniteSets

CONSTANTS
    MaxShots,       \* writes begun
    Cap,            \* [capture] max_bytes
    Sizes,          \* how long a camera's answer may be
    Retention,      \* [capture] retention_days
    MaxTime,        \* how far the clock goes
    MaxTroubles     \* times the disk refuses what is asked of it, the clock steps back,
                    \* or the process is killed

Shots == 1 .. MaxShots
Times == 0 .. MaxTime
Parts == {"image", "sidecar"}

ASSUME ImageStoreAssumption ==
    /\ MaxShots \in Nat /\ Cap \in Nat /\ Sizes \subseteq Nat
    /\ Retention \in Nat /\ MaxTime \in Nat /\ MaxTroubles \in Nat

VARIABLES
    \* the disk
    disk,           \* [shot -> [part -> whether the file is there, or a temporary of it]]
    made,           \* what is in the files of each shot: when it was taken, how long it is
    \* the process
    up,
    index,          \* [shot -> its cursor, or 0]
    cursor,
    incomplete,     \* whether the rebuild found half a record
    steppedBack,    \* clock_stepped_back
    call,           \* the step of the call the thread has made, and what it has in hand
    outcome,        \* what the last write came to
    \* the clock, and the bounds
    now, troubles,
    \* history
    stray           \* shots of which the disk refused to rename or unlink a file, till a
                    \* purge has counted them

onDisk == <<disk, made, stray>>
indexed == <<up, index, cursor, incomplete, steppedBack>>
storeVars == <<onDisk, indexed, call, outcome, now, troubles>>

\* The step to make next; the shot being written, till it is filed; in a purge, what is
\* to be forgotten for its age, the files still to unlink, and the moment it began.
Calling(step, shot) ==
    [step |-> step, shot |-> shot, old |-> {}, files |-> {}, moment |-> 0]
NoCall == Calling("none", 0)
At(step) == up /\ call.step = step
Goes(step) == call' = [call EXCEPT !.step = step]

Made == 1 .. Len(made)
Indexed == {r \in Made : index[r] # 0}

\* The bytes of the images of these shots, and how many they are.
Bytes(S) == UNION {{r} \X (1 .. made[r].size) : r \in S}
Size(S) == Cardinality(Bytes(S))

NoFiles == [part \in Parts |-> "none"]

StoreInit ==
    /\ up = FALSE
    /\ index = [r \in Shots |-> 0]
    /\ cursor = 0
    /\ incomplete = FALSE /\ steppedBack = FALSE
    /\ call = NoCall /\ outcome = "none"
    /\ disk = [r \in Shots |-> NoFiles]
    /\ made = <<>>
    /\ now = 0 /\ troubles = 0
    /\ stray = {}

(***************************************************************************)
(* write()                                                                 *)
(***************************************************************************)
\* A capture larger than the whole cap is refused before anything is purged for
\* it.  Otherwise: make room, write, and apply the rule again.

\* (mutant: no room is made before the write, only after it)
WriteWithoutRoom(shot) == Calling("temporaries", shot)

WriteCall(shot) == Calling("purge", shot)

Write(size) ==
    IF size > Cap
    THEN outcome' = "over_budget" /\ UNCHANGED <<made, call>>
    ELSE /\ Len(made) < MaxShots
         /\ made' = Append(made, [at |-> now, size |-> size])
         /\ call' = WriteCall(Len(made) + 1)
         /\ outcome' = "stored"

\* The disk does what it is asked, or refuses.
Trouble == troubles < MaxTroubles /\ troubles' = troubles + 1
DiskRefuses == Trouble
DiskTakes == UNCHANGED troubles

\* The rest of a write that failed is given up, its `finally' apart.
Fails(files, strays) ==
    /\ DiskRefuses
    /\ disk' = [disk EXCEPT ![call.shot] = files]
    /\ stray' = stray \cup strays
    /\ outcome' = "unwritable"
    /\ call' = NoCall

Takes(files, next) ==
    /\ DiskTakes
    /\ disk' = [disk EXCEPT ![call.shot] = files]
    /\ Goes(next)
    /\ UNCHANGED <<stray, outcome>>

\* Both temporary files, complete, before either is renamed.
Temporaries ==
    /\ At("temporaries")
    /\ \/ Takes([part \in Parts |-> "temporary"], "rename_image")
       \/ Fails(NoFiles, {})
    /\ UNCHANGED <<made, indexed, now>>

RenameImage ==
    /\ At("rename_image")
    /\ \/ Takes([disk[call.shot] EXCEPT !["image"] = "there"], "rename_sidecar")
       \/ Fails(NoFiles, {})
    /\ UNCHANGED <<made, indexed, now>>

\* The image already has its name when the disk refuses its sidecar's.
RenameSidecar ==
    /\ At("rename_sidecar")
    /\ \/ Takes([disk[call.shot] EXCEPT !["sidecar"] = "there"], "file")
       \/ Fails([NoFiles EXCEPT !["image"] = "there"], {call.shot})
    /\ UNCHANGED <<made, indexed, now>>

NextCursor == cursor + 1

File ==
    /\ At("file")
    /\ cursor' = NextCursor
    /\ index' = [index EXCEPT ![call.shot] = NextCursor]
    /\ call' = Calling("purge", 0)
    /\ UNCHANGED <<onDisk, up, incomplete, steppedBack, outcome, now, troubles>>

(***************************************************************************)
(* purge(): age first, then size, both by value and not by position.       *)
(***************************************************************************)
TooOld(r, moment) == made[r].at + Retention < moment

\* What is too old is unlinked, then forgotten.
Purge ==
    /\ At("purge")
    /\ LET old == {r \in Indexed : TooOld(r, now)} IN
       call' = [call EXCEPT !.step = IF old = {} THEN "fit" ELSE "age", !.old = old,
                            !.files = old \X Parts, !.moment = now]
    /\ UNCHANGED <<onDisk, indexed, outcome, now, troubles>>

\* In the order of the index, the image of a record before its sidecar.
IsFirst(r, part) ==
    \A file \in call.files :
        \/ index[r] < index[file[1]]
        \/ r = file[1] /\ (part = "image" \/ part = file[2])

\* _remove: a file the disk will not unlink is left, and nothing says so.
UnlinkFile ==
    /\ up
    /\ \E r \in Shots, part \in Parts :
          /\ <<r, part>> \in call.files /\ IsFirst(r, part)
          /\ \/ /\ DiskTakes
                /\ disk' = [disk EXCEPT ![r][part] = "none"]
                /\ UNCHANGED stray
             \/ /\ DiskRefuses
                /\ stray' = stray \cup {r}
                /\ UNCHANGED disk
          /\ call' = [call EXCEPT !.files = @ \ {<<r, part>>}]
    /\ UNCHANGED <<made, indexed, outcome, now>>

Forgotten(S) == index' = [r \in Shots |-> IF r \in S THEN 0 ELSE index[r]]

Forget ==
    /\ At("age") /\ call.files = {}
    /\ Forgotten(call.old)
    /\ call' = [call EXCEPT !.step = "fit", !.old = {}]
    /\ UNCHANGED <<onDisk, up, cursor, incomplete, steppedBack, outcome, now, troubles>>

Older(r, s) == \/ made[r].at < made[s].at
               \/ /\ made[r].at = made[s].at
                  /\ index[r] < index[s]
Oldest(r) == \A s \in Indexed \ {r} : Older(r, s)

\* Bytes about to be written, of which there is room for under the cap.
Headroom == IF call.shot = 0 THEN 0 ELSE made[call.shot].size
Fits == Indexed = {} \/ Size(Indexed) + Headroom <= Cap

\* One record at a time until what is wanted fits; then the clock is measured, and
\* the write, if there is one, goes on.
Fit ==
    /\ At("fit") /\ call.files = {}
    /\ \/ /\ ~Fits
          /\ \E r \in Indexed :
                /\ Oldest(r)
                /\ Forgotten({r})
                /\ call' = [call EXCEPT !.files = {r} \X Parts]
          /\ UNCHANGED <<steppedBack, stray>>
       \/ /\ Fits
          /\ steppedBack' = (\E r \in Indexed : made[r].at > call.moment)
          /\ stray' = stray \ Indexed
          /\ call' = IF call.shot = 0 THEN NoCall ELSE Calling("temporaries", call.shot)
          /\ UNCHANGED index
    /\ UNCHANGED <<disk, made, up, cursor, incomplete, outcome, now, troubles>>

StoreStep ==
    \/ Temporaries \/ RenameImage \/ RenameSidecar \/ File
    \/ Purge \/ UnlinkFile \/ Forget \/ Fit

(***************************************************************************)
(* The process and its clock.                                              *)
(***************************************************************************)
Whole(r) == \A part \in Parts : disk[r][part] = "there"
Half(r) == ~Whole(r) /\ \E part \in Parts : disk[r][part] = "there"

\* The place of each record in capture order; of one moment, the one
\* sequence number decides.
RankIn(S, r) ==
    Cardinality({s \in S : \/ made[s].at < made[r].at
                          \/ /\ made[s].at = made[r].at
                             /\ s <= r})

\* open() and rebuild(): the index read off the directory; half a record and a
\* temporary file are removed, but for one the disk will not let go.
Rebuilt ==
    LET whole == {r \in Made : Whole(r)}
        rest == {r \in Made \ whole : disk[r] # NoFiles}
    IN
    /\ up' = TRUE
    /\ index' = [r \in Shots |-> IF r \in whole THEN RankIn(whole, r) ELSE 0]
    /\ cursor' = Cardinality(whole)
    /\ \E left \in SUBSET rest :
          /\ IF left = {} THEN DiskTakes ELSE DiskRefuses
          /\ disk' = [r \in Shots |-> IF r \in whole \cup left THEN disk[r] ELSE NoFiles]
          /\ stray' = {r \in stray \cup left : r \in whole \cup left}
    /\ incomplete' = (\E r \in Made : Half(r))
    /\ steppedBack' = FALSE
    /\ UNCHANGED made

\* What was in memory is gone; what is on the disk is there.
StoreEnds ==
    /\ up
    /\ up' = FALSE
    /\ index' = [r \in Shots |-> 0]
    /\ cursor' = 0
    /\ incomplete' = FALSE /\ steppedBack' = FALSE
    /\ call' = NoCall /\ outcome' = "none"
    /\ UNCHANGED <<onDisk, now>>

Ticks ==
    /\ now < MaxTime
    /\ now' = now + 1
    /\ UNCHANGED <<onDisk, indexed, call, outcome, troubles>>

StepsBack ==
    /\ Trouble
    /\ now' \in {t \in Times : t < now}
    /\ UNCHANGED <<onDisk, indexed, call, outcome>>

(***************************************************************************)
(* Properties                                                              *)
(***************************************************************************)
StoreTypeOK ==
    /\ disk \in [Shots -> [Parts -> {"none", "temporary", "there"}]]
    /\ made \in Seq([at : Times, size : Sizes]) /\ Len(made) <= MaxShots
    /\ up \in BOOLEAN
    /\ index \in [Shots -> Nat] /\ cursor \in Nat
    /\ incomplete \in BOOLEAN /\ steppedBack \in BOOLEAN
    /\ call \in [step : {"none", "purge", "age", "fit", "temporaries", "rename_image",
                          "rename_sidecar", "file"},
                  shot : 0 .. Len(made), old : SUBSET Shots, files : SUBSET (Shots \X Parts),
                  moment : Times]
    /\ outcome \in {"none", "stored", "over_budget", "unwritable"}
    /\ now \in Times /\ troubles \in 0 .. MaxTroubles
    /\ stray \subseteq Shots

\* The shots whose bytes count: not those of which the disk refused a file.
Counted == {r \in Made \ stray : disk[r]["image"] # "none"}

\* The store stays under its cap, temporary files and all, whenever it is killed:
\* but for a record of which the disk refused to rename or unlink a file, till a purge
\* after the next start has counted it.
CapHolds == Size(Counted) <= Cap

=============================================================================
