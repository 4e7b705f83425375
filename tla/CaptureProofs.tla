---------------------------- MODULE CaptureProofs ----------------------------
(***************************************************************************)
(* The image store stays under its cap, no event is photographed twice,    *)
(* each is answered for, and what was passed over is counted: proofs.      *)
(***************************************************************************)
EXTENDS Capture, FiniteSetTheorems, SequenceTheorems, TLAPS

-------------------------------------------------------------------------------
(* How many bytes some shots are.                                           *)

Sized == made \in Seq([at : Times, size : Sizes]) /\ \A r \in Made : made[r].size <= Cap

LEMMA WhatIsMade ==
    ASSUME Sized
    PROVE  /\ Len(made) \in Nat /\ IsFiniteSet(Made) /\ Made = 1 .. Len(made)
           /\ \A r \in Made : made[r] \in [at : Times, size : Sizes] /\ made[r].size \in 0 .. Cap
                              /\ made[r].at \in Times
  <1>1. Len(made) \in Nat
    BY LenProperties DEF Sized
  <1>2. IsFiniteSet(1 .. Len(made))
    BY <1>1, FS_Interval
  <1>3. \A r \in 1 .. Len(made) : made[r] \in [at : Times, size : Sizes]
    BY ElementOfSeq DEF Sized
  <1>4. \A r \in 1 .. Len(made) : made[r].size \in Nat /\ made[r].size <= Cap /\ made[r].at \in Times
    BY <1>3, ImageStoreAssumption DEF Sized, Made
  <1>5. \A r \in 1 .. Len(made) : made[r].size \in 0 .. Cap
    BY <1>4, ImageStoreAssumption
  <1> QED
    BY <1>1, <1>2, <1>3, <1>4, <1>5 DEF Made

LEMMA BytesFinite ==
    ASSUME Sized, NEW S \in SUBSET Made
    PROVE  IsFiniteSet(Bytes(S)) /\ Size(S) \in Nat
  <1>1. Bytes(S) \subseteq Made \X (1 .. Cap)
    BY WhatIsMade, ImageStoreAssumption DEF Bytes
  <1>2. IsFiniteSet(1 .. Cap)
    BY FS_Interval, ImageStoreAssumption
  <1>3. IsFiniteSet(Made \X (1 .. Cap))
    BY <1>2, WhatIsMade, FS_Product
  <1> QED
    BY <1>1, <1>3, FS_Subset, FS_CardinalityType DEF Size

LEMMA SizeOfFewer ==
    ASSUME Sized, NEW S \in SUBSET Made, NEW T \in SUBSET S
    PROVE  Size(T) <= Size(S) /\ Size(T) \in Nat /\ Size(S) \in Nat
  <1>1. IsFiniteSet(Bytes(S)) /\ Size(S) \in Nat /\ Size(T) \in Nat
    BY BytesFinite
  <1>2. Bytes(T) \subseteq Bytes(S)
    BY DEF Bytes
  <1> QED
    BY <1>1, <1>2, FS_Subset DEF Size

LEMMA SizeOfOneMore ==
    ASSUME Sized, NEW S \in SUBSET Made, NEW r \in Made
    PROVE  Size(S \cup {r}) <= Size(S) + made[r].size
  <1> DEFINE B == {r} \X (1 .. made[r].size)
  <1>1. made[r].size \in Nat
    BY WhatIsMade, ImageStoreAssumption
  <1>2. IsFiniteSet(B) /\ Cardinality(B) = made[r].size
    <2>1. IsFiniteSet({r}) /\ Cardinality({r}) = 1
      BY FS_Singleton
    <2>2. IsFiniteSet(1 .. made[r].size) /\ Cardinality(1 .. made[r].size) = made[r].size
      <3> DEFINE n == made[r].size
      <3>1. n \in Int /\ n \in Nat /\ 1 \in Int
        BY <1>1
      <3> HIDE DEF n
      <3>2. IsFiniteSet(1 .. n) /\ Cardinality(1 .. n) = IF 1 > n THEN 0 ELSE n - 1 + 1
        BY <3>1, FS_Interval
      <3> QED
        BY <3>1, <3>2 DEF n
    <2>3. IsFiniteSet(B) /\ Cardinality(B) = Cardinality({r}) * Cardinality(1 .. made[r].size)
      BY <2>1, <2>2, FS_Product
    <2> QED
      BY <1>1, <2>1, <2>2, <2>3
  <1>3. IsFiniteSet(Bytes(S)) /\ Size(S) \in Nat
    BY BytesFinite
  <1>4. Bytes(S \cup {r}) = Bytes(S) \cup B
    BY DEF Bytes
  <1>5. Cardinality(Bytes(S) \cup B) = Cardinality(Bytes(S)) + Cardinality(B) - Cardinality(Bytes(S) \cap B)
    BY <1>2, <1>3, FS_Union
  <1>6. Cardinality(Bytes(S) \cap B) \in Nat
    BY <1>3, FS_Intersection, FS_CardinalityType
  <1>7. Size(S \cup {r}) = Size(S) + made[r].size - Cardinality(Bytes(S) \cap B)
    BY <1>2, <1>4, <1>5 DEF Size
  <1> HIDE DEF B
  <1> QED
    BY <1>1, <1>3, <1>6, <1>7

LEMMA SizeOfNone == Size({}) = 0
  <1>1. Bytes({}) = {}
    BY DEF Bytes
  <1> QED
    BY <1>1, FS_EmptySet DEF Size

\* What is made later has no part in it.
LEMMA SizeKept ==
    ASSUME NEW S, \A r \in S : made'[r] = made[r]
    PROVE  Cardinality(UNION {{r} \X (1 .. made'[r].size) : r \in S}) = Size(S)
  <1>1. {{r} \X (1 .. made'[r].size) : r \in S} = {{r} \X (1 .. made[r].size) : r \in S}
    OBVIOUS
  <1> QED
    BY <1>1 DEF Size, Bytes

-------------------------------------------------------------------------------
(* The induction.                                                           *)

WriteSteps == {"temporaries", "rename_image", "rename_sidecar", "file"}

\* The image a purge is still to unlink, and the one a write has on the disk already.
Leaving == {r \in Shots : <<r, "image">> \in call.files}
Coming == {r \in {call.shot} : call.step \in {"rename_image", "rename_sidecar", "file"}}

\* What is counted is indexed, or on its way in or out; and a write that goes on has room.
StoreSound ==
    /\ \A r \in Made : made[r].size <= Cap
    /\ ~up => call = NoCall /\ Indexed = {}
    /\ \A r \in Shots \ Made : index[r] = 0 /\ disk[r] = NoFiles
    /\ call.shot # 0 => index[call.shot] = 0
    /\ call.step \notin {"age", "fit"} => call.files = {}
    /\ call.step = "age" =>
          \A r \in call.old : <<r, "image">> \in call.files \/ r \in stray \/ disk[r]["image"] = "none"
    /\ call.step \in WriteSteps => call.shot # 0 /\ Size(Indexed) + made[call.shot].size <= Cap
    /\ up => Counted \subseteq Indexed \cup Leaving \cup Coming

\* An event that was not answered for was not asked about, but on a page that an exception
\* ended; and a poll that takes pictures of its page has a cursor to adopt that is past it.
Pending(e, c) == <<e, c>> \in todo.shots
Unasked(e, c) == shown[e][c] = 0 \/ e \in cutOff
AskedOnce ==
    /\ \A e \in Events, c \in Cameras :
          /\ e > Len(happened) => shown[e][c] = 0
          /\ following /\ e > seen /\ (todo.adopt = {} \/ e \notin Page) => Unasked(e, c)
          /\ Pending(e, c) => Unasked(e, c) /\ todo.adopt # {} /\ e \in Page /\ e <= Len(happened)
    /\ following => seen <= before + place
    /\ todo.adopt # {} => todo.adopt = {LaneCursor} /\ following /\ ~todo.lane /\ ~Reset

\* What was answered for so far in this process, and what this page is about to.
Shown(e) == happened[e] => \A c \in Cameras : shown[e][c] >= 1
AnsweredFor ==
    /\ ~up => todo = NothingToDo
    /\ passed \subseteq 1 .. seen
    /\ \A e \in first + 1 .. seen : e \in passed \/ Shown(e)
    /\ todo.adopt # {} =>
          \A e \in Page : happened[e] => \A c \in Cameras : shown[e][c] >= 1 \/ Pending(e, c)
    /\ ~restarted /\ following => seen = before + place

StoreInv == StoreTypeOK /\ StoreSound /\ CapHolds

-------------------------------------------------------------------------------
(* The store's steps.                                                       *)

LEMMA StoreInvInit == StoreInit => StoreInv
  <1> SUFFICES ASSUME StoreInit PROVE StoreInv
    OBVIOUS
  <1> USE ImageStoreAssumption DEF StoreInit
  <1>1. <<>> \in Seq([at : Times, size : Sizes]) /\ Len(<<>>) = 0 /\ Made = {}
    BY EmptySeq DEF Made
  <1>2. 0 \in Times
    BY DEF Times
  <1>3. NoCall \in [step : {"none", "purge", "age", "fit", "temporaries", "rename_image",
                            "rename_sidecar", "file"},
                    shot : 0 .. 0, old : SUBSET Shots, files : SUBSET (Shots \X Parts),
                    moment : Times]
    BY <1>2 DEF NoCall, Calling
  <1>4. StoreTypeOK
    <2>1. disk \in [Shots -> [Parts -> {"none", "temporary", "there"}]]
      BY DEF NoFiles
    <2>2. index \in [Shots -> Nat] /\ cursor \in Nat
      OBVIOUS
    <2>3. Len(made) <= MaxShots /\ troubles \in 0 .. MaxTroubles
      BY <1>1
    <2> QED
      BY <1>1, <1>2, <1>3, <2>1, <2>2, <2>3 DEF StoreTypeOK
  <1>5. Indexed = {} /\ Counted = {}
    BY <1>1 DEF Indexed, Counted
  <1>6. StoreSound
    BY <1>1, <1>5 DEF StoreSound, WriteSteps, NoCall, Calling, Leaving, Coming
  <1>7. CapHolds
    BY <1>5, SizeOfNone DEF CapHolds
  <1> QED
    BY <1>4, <1>6, <1>7 DEF StoreInv

\* Where nothing is made, what is counted after it fits if it did before, or if it is
\* among what there is room for.
LEMMA CapKept ==
    ASSUME StoreInv, made' = made, NEW S \in SUBSET Made, Counted' \subseteq S, Size(S) <= Cap
    PROVE  CapHolds'
  <1>1. Size(Counted') <= Size(S) /\ Size(Counted') \in Nat /\ Size(S) \in Nat
    BY SizeOfFewer DEF Sized, StoreInv, StoreTypeOK, StoreSound
  <1>2. Size(Counted)' = Size(Counted')
    BY DEF Size, Bytes
  <1> QED
    BY <1>1, <1>2, ImageStoreAssumption DEF CapHolds

LEMMA StoreUntouched == StoreInv /\ UNCHANGED storeVars => StoreInv'
  <1> SUFFICES ASSUME StoreInv, UNCHANGED storeVars PROVE StoreInv'
    OBVIOUS
  <1> USE DEF StoreInv, storeVars, onDisk, indexed
  <1>1. StoreTypeOK'
    BY DEF StoreTypeOK
  <1>2. Counted' = Counted /\ Indexed' = Indexed /\ Made' = Made
    BY DEF Counted, Indexed, Made
  <1>3. Size(Indexed)' = Size(Indexed) /\ Size(Counted)' = Size(Counted)
    BY <1>2 DEF Size, Bytes
  <1>4. StoreSound'
    BY <1>2, <1>3 DEF StoreSound, Leaving, Coming
  <1>5. CapHolds'
    BY <1>3 DEF CapHolds
  <1> QED
    BY <1>1, <1>4, <1>5

\* The step and the shot the thread is at.
Steps ==
    {"none", "purge", "age", "fit", "temporaries", "rename_image", "rename_sidecar", "file"}
CallTypes ==
    [step : Steps, shot : 0 .. Len(made), old : SUBSET Shots, files : SUBSET (Shots \X Parts),
     moment : Times]

LEMMA StoreTypes ==
    ASSUME StoreInv
    PROVE  /\ Sized /\ call \in CallTypes /\ Made \subseteq Shots
           /\ call.shot # 0 => call.shot \in Made
           /\ Indexed \subseteq Made /\ Counted \subseteq Made
           /\ disk \in [Shots -> [Parts -> {"none", "temporary", "there"}]]
           /\ index \in [Shots -> Nat]
           /\ Size(Indexed) \in Nat /\ Size(Counted) \in Nat
  <1> USE DEF StoreInv
  <1>1. Sized /\ call \in CallTypes
    BY DEF StoreTypeOK, StoreSound, Sized, CallTypes, Steps
  <1>2. Len(made) \in Nat /\ Made = 1 .. Len(made) /\ Len(made) <= MaxShots
    BY <1>1, WhatIsMade DEF StoreTypeOK
  <1>3. Made \subseteq Shots
    BY <1>2, ImageStoreAssumption DEF Shots
  <1>4. call.shot # 0 => call.shot \in Made
    BY <1>1, <1>2 DEF CallTypes
  <1>5. Indexed \subseteq Made /\ Counted \subseteq Made
    BY DEF Indexed, Counted
  <1> QED
    BY <1>1, <1>3, <1>4, <1>5, BytesFinite DEF StoreTypeOK

LEMMA CallingTypes ==
    ASSUME StoreInv, NEW step \in Steps, NEW shot \in 0 .. Len(made)
    PROVE  Calling(step, shot) \in CallTypes
  BY ImageStoreAssumption DEF Calling, CallTypes, Times

LEMMA NoCallTypes == StoreInv => NoCall \in CallTypes /\ Calling("purge", 0) \in CallTypes
  <1> SUFFICES ASSUME StoreInv PROVE NoCall \in CallTypes /\ Calling("purge", 0) \in CallTypes
    OBVIOUS
  <1>1. 0 \in 0 .. Len(made)
    BY StoreTypes, WhatIsMade
  <1>2. "none" \in Steps /\ "purge" \in Steps
    BY DEF Steps
  <1> QED
    BY <1>1, <1>2, CallingTypes DEF NoCall

\* The disk does what a write asks: its shot is counted, and had room.
LEMMA StoreTakes ==
    ASSUME StoreInv, up, call.step \in {"temporaries", "rename_image", "rename_sidecar"},
           NEW files \in [Parts -> {"none", "temporary", "there"}],
           NEW next \in {"rename_image", "rename_sidecar", "file"},
           disk' = [disk EXCEPT ![call.shot] = files], call' = [call EXCEPT !.step = next],
           UNCHANGED <<stray, outcome, troubles, made, indexed, now>>
    PROVE  StoreInv'
  <1> DEFINE s == call.shot
  <1>1. /\ disk' = [disk EXCEPT ![s] = files] /\ call' = [call EXCEPT !.step = next]
        /\ UNCHANGED <<stray, outcome, troubles, made, up, index, cursor, incomplete, steppedBack, now>>
    BY DEF indexed
  <1>2. /\ s \in Made /\ s # 0 /\ s \in Shots /\ Size(Indexed) + made[s].size <= Cap
        /\ call.files = {} /\ index[s] = 0
    BY StoreTypes DEF StoreInv, StoreSound, WriteSteps
  <1>3. StoreTypeOK'
    <2>1. call' \in CallTypes
      BY <1>1, StoreTypes DEF CallTypes, Steps
    <2>2. disk' \in [Shots -> [Parts -> {"none", "temporary", "there"}]]
      BY <1>1, <1>2, StoreTypes
    <2> QED
      BY <1>1, <2>1, <2>2 DEF StoreInv, StoreTypeOK, CallTypes, Steps
  <1>4. Made' = Made /\ Indexed' = Indexed /\ Size(Indexed)' = Size(Indexed)
    BY <1>1 DEF Made, Indexed, Size, Bytes
  <1>5. Counted \subseteq Indexed \cup {s}
    BY <1>2 DEF StoreInv, StoreSound, Leaving, Coming
  <1>6. Counted' \subseteq Counted \cup {s}
    BY <1>1, <1>2, <1>4, StoreTypes DEF Counted
  <1>7. Coming' = {s}
    BY <1>1, StoreTypes DEF Coming, CallTypes
  <1>8. /\ call'.step = next /\ call'.shot = s /\ call'.files = {}
    BY <1>1, <1>2, StoreTypes DEF CallTypes
  <1>9. StoreSound'
    <2>1. \A r \in Shots \ Made : disk'[r] = disk[r]
      BY <1>1, <1>2, StoreTypes
    <2>2. Counted' \subseteq Indexed' \cup Leaving' \cup Coming'
      BY <1>4, <1>5, <1>6, <1>7
    <2> HIDE DEF s
    <2>3. StoreSound
      BY DEF StoreInv
    <2> QED
      BY <1>1, <1>2, <1>4, <1>8, <2>1, <2>2, <2>3 DEF StoreSound, WriteSteps, NoFiles
  <1>10. CapHolds'
    <2>1. Size(Indexed \cup {s}) <= Size(Indexed) + made[s].size
      BY <1>2, StoreTypes, SizeOfOneMore
    <2>2. Size(Indexed \cup {s}) \in Nat /\ Size(Indexed) \in Nat /\ made[s].size \in 0 .. Cap
          /\ Indexed \cup {s} \in SUBSET Made
      BY <1>2, StoreTypes, BytesFinite, WhatIsMade
    <2>3. Size(Indexed \cup {s}) <= Cap
      <3> DEFINE a == Size(Indexed \cup {s})
                 b == Size(Indexed)
                 c == made[s].size
      <3>1. a <= b + c /\ b + c <= Cap /\ a \in Nat /\ b \in Nat /\ c \in Nat /\ Cap \in Nat
        BY <1>2, <2>1, <2>2, ImageStoreAssumption
      <3> HIDE DEF a, b, c
      <3>2. a <= Cap
        BY <3>1
      <3> QED
        BY <3>2 DEF a
    <2> QED
      BY <1>1, <1>5, <1>6, <2>2, <2>3, CapKept
  <1> QED
    BY <1>3, <1>9, <1>10 DEF StoreInv

\* The disk refuses: the shot's image is not there, or it is one of those.
LEMMA StoreFails ==
    ASSUME StoreInv, up, call.step \in {"temporaries", "rename_image", "rename_sidecar"},
           NEW files \in [Parts -> {"none", "temporary", "there"}],
           NEW strays \in SUBSET {call.shot}, files["image"] = "none" \/ call.shot \in strays,
           disk' = [disk EXCEPT ![call.shot] = files], call' = NoCall, stray' = stray \cup strays,
           troubles < MaxTroubles, troubles' = troubles + 1, outcome' = "unwritable",
           UNCHANGED <<made, indexed, now>>
    PROVE  StoreInv'
  <1> DEFINE s == call.shot
  <1>1. /\ disk' = [disk EXCEPT ![s] = files] /\ call' = NoCall /\ stray' = stray \cup strays
        /\ troubles < MaxTroubles /\ troubles' = troubles + 1 /\ outcome' = "unwritable"
        /\ UNCHANGED <<made, up, index, cursor, incomplete, steppedBack, now>>
    BY DEF indexed
  <1>2. s \in Made /\ s # 0 /\ s \in Shots /\ call.files = {}
    BY StoreTypes DEF StoreInv, StoreSound, WriteSteps
  <1>3. StoreTypeOK'
    <2>1. call' \in CallTypes
      BY <1>1, NoCallTypes
    <2>2. disk' \in [Shots -> [Parts -> {"none", "temporary", "there"}]] /\ stray' \subseteq Shots
      BY <1>1, <1>2, StoreTypes DEF StoreInv, StoreTypeOK
    <2>0. troubles \in 0 .. MaxTroubles /\ MaxTroubles \in Nat
      BY ImageStoreAssumption DEF StoreInv, StoreTypeOK
    <2>4. troubles < MaxTroubles /\ troubles' = troubles + 1
      BY <1>1
    <2>3. troubles' \in 0 .. MaxTroubles
      BY <2>4, <2>0
    <2> QED
      BY <1>1, <2>1, <2>2, <2>3 DEF StoreInv, StoreTypeOK, CallTypes, Steps
  <1>4. Made' = Made /\ Indexed' = Indexed /\ Size(Indexed)' = Size(Indexed)
    BY <1>1 DEF Made, Indexed, Size, Bytes
  <1>5. Counted \subseteq Indexed \cup {s}
    BY <1>2 DEF StoreInv, StoreSound, Leaving, Coming
  <1>6. Counted' \subseteq Counted \ {s}
    BY <1>1, <1>2, <1>4, StoreTypes DEF Counted
  <1>7. StoreSound'
    <2>1. \A r \in Shots \ Made : disk'[r] = disk[r]
      BY <1>1, <1>2, StoreTypes
    <2>2. Counted' \subseteq Indexed'
      BY <1>4, <1>5, <1>6
    <2>3. call'.step = "none" /\ call'.shot = 0 /\ call'.files = {}
      BY <1>1 DEF NoCall, Calling
    <2> QED
      BY <1>1, <1>4, <2>1, <2>2, <2>3 DEF StoreInv, StoreSound, WriteSteps, NoFiles
  <1>8. CapHolds'
    <2>1. Counted' \subseteq Counted /\ Counted \in SUBSET Made /\ Size(Counted) <= Cap
      BY <1>6, StoreTypes DEF StoreInv, CapHolds
    <2> QED
      BY <1>1, <2>1, CapKept
  <1> QED
    BY <1>3, <1>7, <1>8 DEF StoreInv

LEMMA StoreTemporaries == StoreInv /\ Temporaries => StoreInv'
  <1> SUFFICES ASSUME StoreInv, Temporaries PROVE StoreInv'
    OBVIOUS
  <1>1. up /\ call.step = "temporaries" /\ UNCHANGED <<made, indexed, now>>
    BY DEF Temporaries, At
  <1>2. CASE Takes([part \in Parts |-> "temporary"], "rename_image")
    <2>1. [part \in Parts |-> "temporary"] \in [Parts -> {"none", "temporary", "there"}]
      OBVIOUS
    <2> QED
      BY <1>1, <1>2, <2>1, StoreTakes DEF Takes, Goes, DiskTakes
  <1>3. CASE Fails(NoFiles, {})
    <2>1. NoFiles \in [Parts -> {"none", "temporary", "there"}] /\ NoFiles["image"] = "none"
      BY DEF NoFiles, Parts
    <2> QED
      BY <1>1, <1>3, <2>1, StoreFails DEF Fails, DiskRefuses, Trouble
  <1> QED
    BY <1>2, <1>3 DEF Temporaries

LEMMA StoreRenameImage == StoreInv /\ RenameImage => StoreInv'
  <1> SUFFICES ASSUME StoreInv, RenameImage PROVE StoreInv'
    OBVIOUS
  <1>1. up /\ call.step = "rename_image" /\ UNCHANGED <<made, indexed, now>>
    BY DEF RenameImage, At
  <1>2. CASE Takes([disk[call.shot] EXCEPT !["image"] = "there"], "rename_sidecar")
    <2>1. call.shot \in Shots
      BY <1>1, StoreTypes DEF StoreInv, StoreSound, WriteSteps
    <2>2. [disk[call.shot] EXCEPT !["image"] = "there"] \in [Parts -> {"none", "temporary", "there"}]
      BY <2>1, StoreTypes
    <2> QED
      BY <1>1, <1>2, <2>2, StoreTakes DEF Takes, Goes, DiskTakes
  <1>3. CASE Fails(NoFiles, {})
    <2>1. NoFiles \in [Parts -> {"none", "temporary", "there"}] /\ NoFiles["image"] = "none"
      BY DEF NoFiles, Parts
    <2> QED
      BY <1>1, <1>3, <2>1, StoreFails DEF Fails, DiskRefuses, Trouble
  <1> QED
    BY <1>2, <1>3 DEF RenameImage

LEMMA StoreRenameSidecar == StoreInv /\ RenameSidecar => StoreInv'
  <1> SUFFICES ASSUME StoreInv, RenameSidecar PROVE StoreInv'
    OBVIOUS
  <1>1. up /\ call.step = "rename_sidecar" /\ UNCHANGED <<made, indexed, now>>
    BY DEF RenameSidecar, At
  <1>2. CASE Takes([disk[call.shot] EXCEPT !["sidecar"] = "there"], "file")
    <2>1. call.shot \in Shots
      BY <1>1, StoreTypes DEF StoreInv, StoreSound, WriteSteps
    <2>2. [disk[call.shot] EXCEPT !["sidecar"] = "there"] \in [Parts -> {"none", "temporary", "there"}]
      BY <2>1, StoreTypes
    <2> QED
      BY <1>1, <1>2, <2>2, StoreTakes DEF Takes, Goes, DiskTakes
  <1>3. CASE Fails([NoFiles EXCEPT !["image"] = "there"], {call.shot})
    <2>1. [NoFiles EXCEPT !["image"] = "there"] \in [Parts -> {"none", "temporary", "there"}]
      BY DEF NoFiles
    <2> QED
      BY <1>1, <1>3, <2>1, StoreFails DEF Fails, DiskRefuses, Trouble
  <1> QED
    BY <1>2, <1>3 DEF RenameSidecar

LEMMA StoreFile == StoreInv /\ File => StoreInv'
  <1> SUFFICES ASSUME StoreInv, File PROVE StoreInv'
    OBVIOUS
  <1> DEFINE s == call.shot
  <1>1. /\ up /\ call.step = "file" /\ cursor' = cursor + 1
        /\ index' = [index EXCEPT ![s] = cursor + 1] /\ call' = Calling("purge", 0)
        /\ UNCHANGED <<disk, made, stray, up, incomplete, steppedBack, outcome, now, troubles>>
    BY DEF File, At, NextCursor, onDisk
  <1>2. s \in Made /\ s # 0 /\ s \in Shots /\ call.files = {}
    BY <1>1, StoreTypes DEF StoreInv, StoreSound, WriteSteps
  <1>3. StoreTypeOK'
    <2>1. call' \in CallTypes
      BY <1>1, NoCallTypes
    <2>0. index \in [Shots -> Nat] /\ cursor \in Nat
      BY DEF StoreInv, StoreTypeOK
    <2>3. cursor' = cursor + 1 /\ index' = [index EXCEPT ![s] = cursor + 1]
      BY <1>1
    <2>2. index' \in [Shots -> Nat] /\ cursor' \in Nat
      BY <1>2, <2>3, <2>0
    <2> QED
      BY <1>1, <2>1, <2>2 DEF StoreInv, StoreTypeOK, CallTypes, Steps
  <1>4. Made' = Made
    BY <1>1 DEF Made
  <1>5. Indexed' = Indexed \cup {s}
    <2>0. cursor \in Nat
      BY DEF StoreInv, StoreTypeOK
    <2>1. cursor + 1 # 0
      BY <2>0
    <2> QED
      BY <1>1, <1>2, <1>4, <2>1, StoreTypes DEF Indexed
  <1>6. Counted' = Counted
    BY <1>1, <1>4 DEF Counted
  <1>7. Counted \subseteq Indexed \cup {s}
    BY <1>1, <1>2 DEF StoreInv, StoreSound, Leaving, Coming
  <1>8. StoreSound'
    <2>1. call'.step = "purge" /\ call'.shot = 0 /\ call'.files = {}
      BY <1>1 DEF Calling
    <2>2. \A r \in Shots \ Made : index'[r] = index[r]
      BY <1>1, <1>2, StoreTypes
    <2> QED
      BY <1>1, <1>4, <1>5, <1>6, <1>7, <2>1, <2>2 DEF StoreInv, StoreSound, WriteSteps, NoFiles
  <1>9. CapHolds'
    BY <1>1, <1>6, CapKept, StoreTypes DEF StoreInv, CapHolds
  <1> QED
    BY <1>3, <1>8, <1>9 DEF StoreInv

LEMMA StorePurge == StoreInv /\ Purge => StoreInv'
  <1> SUFFICES ASSUME StoreInv, Purge PROVE StoreInv'
    OBVIOUS
  <1> DEFINE old == {r \in Indexed : TooOld(r, now)}
  <1>1. /\ up /\ call.step = "purge"
        /\ call' = [call EXCEPT !.step = IF old = {} THEN "fit" ELSE "age", !.old = old,
                                !.files = old \X Parts, !.moment = now]
        /\ UNCHANGED <<disk, made, stray, up, index, cursor, incomplete, steppedBack, outcome, now,
                       troubles>>
    BY DEF Purge, At, onDisk, indexed
  <1>2. old \subseteq Shots /\ old \subseteq Indexed
    BY StoreTypes
  <1> HIDE DEF old
  <1>3. /\ call'.step = IF old = {} THEN "fit" ELSE "age"
        /\ call'.old = old /\ call'.files = old \X Parts /\ call'.shot = call.shot
        /\ call' \in CallTypes
    BY <1>1, <1>2, StoreTypes DEF CallTypes, Steps, StoreInv, StoreTypeOK
  <1>4. StoreTypeOK'
    BY <1>1, <1>3 DEF StoreInv, StoreTypeOK, CallTypes, Steps
  <1>5. Made' = Made /\ Indexed' = Indexed /\ Counted' = Counted
    BY <1>1 DEF Made, Indexed, Counted
  <1>6. Counted \subseteq Indexed
    BY <1>1 DEF StoreInv, StoreSound, Leaving, Coming
  <1>7. \A r \in old : <<r, "image">> \in old \X Parts
    BY DEF Parts
  <1>8. StoreSound'
    BY <1>1, <1>3, <1>5, <1>6, <1>7 DEF StoreInv, StoreSound, WriteSteps
  <1>9. CapHolds'
    BY <1>1, <1>5, CapKept, StoreTypes DEF StoreInv, CapHolds
  <1> QED
    BY <1>4, <1>8, <1>9 DEF StoreInv

LEMMA StoreUnlinkFile == StoreInv /\ UnlinkFile => StoreInv'
  <1> SUFFICES ASSUME StoreInv, UnlinkFile PROVE StoreInv'
    OBVIOUS
  <1>1. PICK r \in Shots, part \in Parts :
          /\ <<r, part>> \in call.files
          /\ \/ troubles' = troubles /\ disk' = [disk EXCEPT ![r][part] = "none"] /\ stray' = stray
             \/ troubles < MaxTroubles /\ troubles' = troubles + 1 /\ stray' = stray \cup {r} /\ disk' = disk
          /\ call' = [call EXCEPT !.files = @ \ {<<r, part>>}]
    BY DEF UnlinkFile, DiskTakes, DiskRefuses, Trouble
  <1>2. up /\ UNCHANGED <<made, up, index, cursor, incomplete, steppedBack, outcome, now>>
    BY DEF UnlinkFile, indexed
  <1>3. /\ call'.step = call.step /\ call'.shot = call.shot /\ call'.old = call.old
        /\ call'.files = call.files \ {<<r, part>>} /\ call' \in CallTypes
    BY <1>1, <1>2, StoreTypes DEF CallTypes
  <1>4. StoreTypeOK'
    <2>0. /\ disk \in [Shots -> [Parts -> {"none", "temporary", "there"}]]
          /\ troubles \in 0 .. MaxTroubles /\ stray \subseteq Shots
      BY DEF StoreInv, StoreTypeOK
    <2>1. disk' \in [Shots -> [Parts -> {"none", "temporary", "there"}]]
      BY <1>1, <2>0
    <2>2. troubles' \in 0 .. MaxTroubles /\ stray' \subseteq Shots
      BY <1>1, <2>0, ImageStoreAssumption
    <2> QED
      BY <1>2, <1>3, <2>1, <2>2 DEF StoreInv, StoreTypeOK, CallTypes, Steps
  <1>5. Made' = Made /\ Indexed' = Indexed /\ Size(Indexed)' = Size(Indexed)
    BY <1>2 DEF Made, Indexed, Size, Bytes
  <1>6. \A q \in Shots : disk'[q]["image"] = disk[q]["image"] \/ disk'[q]["image"] = "none"
    BY <1>1, StoreTypes DEF Parts
  <1>7. part = "image" => r \in stray' \/ disk'[r]["image"] = "none"
    BY <1>1, StoreTypes DEF Parts
  <1>8. stray \subseteq stray'
    BY <1>1
  <1>9. Counted' \subseteq Counted /\ (part = "image" => r \notin Counted')
    BY <1>5, <1>6, <1>7, <1>8, StoreTypes DEF Counted
  <1>10. StoreSound'
    <2>1. \A q \in Shots \ Made : disk'[q] = NoFiles
      BY <1>1, StoreTypes DEF StoreInv, StoreSound, NoFiles, Parts
    <2>2. Counted' \subseteq Indexed' \cup Leaving' \cup Coming'
      <3>1. Counted' \subseteq Indexed \cup Leaving \cup Coming
        BY <1>2, <1>9 DEF StoreInv, StoreSound
      <3>2. Leaving \ {q \in {r} : part = "image"} \subseteq Leaving'
        BY <1>3 DEF Leaving
      <3>3. Coming' = Coming
        BY <1>3 DEF Coming
      <3> QED
        BY <1>5, <1>9, <3>1, <3>2, <3>3
    <2>3. call'.step = "age" =>
             \A q \in call'.old :
                 <<q, "image">> \in call'.files \/ q \in stray' \/ disk'[q]["image"] = "none"
      <3> SUFFICES ASSUME call.step = "age", NEW q \in call.old
                   PROVE  <<q, "image">> \in call'.files \/ q \in stray' \/ disk'[q]["image"] = "none"
        BY <1>3
      <3>1. q \in Shots
        BY StoreTypes DEF CallTypes
      <3>2. <<q, "image">> \in call.files \/ q \in stray \/ disk[q]["image"] = "none"
        BY DEF StoreInv, StoreSound
      <3> QED
        BY <1>3, <1>6, <1>7, <1>8, <3>1, <3>2
    <2>4. call.files # {}
      BY <1>1
    <2> QED
      BY <1>2, <1>3, <1>5, <2>1, <2>2, <2>3, <2>4 DEF StoreInv, StoreSound, WriteSteps
  <1>11. CapHolds'
    BY <1>2, <1>9, CapKept, StoreTypes DEF StoreInv, CapHolds
  <1> QED
    BY <1>4, <1>10, <1>11 DEF StoreInv

LEMMA StoreForget == StoreInv /\ Forget => StoreInv'
  <1> SUFFICES ASSUME StoreInv, Forget PROVE StoreInv'
    OBVIOUS
  <1>1. /\ up /\ call.step = "age" /\ call.files = {}
        /\ index' = [r \in Shots |-> IF r \in call.old THEN 0 ELSE index[r]]
        /\ call' = [call EXCEPT !.step = "fit", !.old = {}]
        /\ UNCHANGED <<disk, made, stray, up, cursor, incomplete, steppedBack, outcome, now, troubles>>
    BY DEF Forget, At, Forgotten, onDisk
  <1>2. /\ call'.step = "fit" /\ call'.files = {} /\ call'.shot = call.shot /\ call' \in CallTypes
        /\ index' \in [Shots -> Nat]
    BY <1>1, StoreTypes DEF CallTypes, Steps
  <1>3. StoreTypeOK'
    BY <1>1, <1>2 DEF StoreInv, StoreTypeOK, CallTypes, Steps
  <1>4. Made' = Made /\ Counted' = Counted
    BY <1>1 DEF Made, Counted
  <1>5. Counted \subseteq Indexed \ call.old
    BY <1>1, StoreTypes DEF StoreInv, StoreSound, Leaving, Coming, Counted
  <1>6. Indexed \ call.old \subseteq Indexed'
    BY <1>1, <1>4, StoreTypes DEF Indexed
  <1>7. \A r \in Shots : index[r] = 0 => index'[r] = 0
    BY <1>1
  <1>8. StoreSound'
    BY <1>1, <1>2, <1>4, <1>5, <1>6, <1>7, StoreTypes DEF StoreInv, StoreSound, WriteSteps
  <1>9. CapHolds'
    BY <1>1, <1>4, CapKept, StoreTypes DEF StoreInv, CapHolds
  <1> QED
    BY <1>3, <1>8, <1>9 DEF StoreInv

LEMMA StoreFit == StoreInv /\ Fit => StoreInv'
  <1> SUFFICES ASSUME StoreInv, Fit PROVE StoreInv'
    OBVIOUS
  <1>1. /\ up /\ call.step = "fit" /\ call.files = {}
        /\ UNCHANGED <<disk, made, up, cursor, incomplete, outcome, now, troubles>>
    BY DEF Fit, At
  <1>2. Made' = Made /\ Counted \subseteq Indexed
    BY <1>1 DEF Made, StoreInv, StoreSound, Leaving, Coming
  <1>3. CASE ~Fits /\ UNCHANGED <<steppedBack, stray>>
    <2>1. PICK r \in Indexed : Forgotten({r}) /\ call' = [call EXCEPT !.files = {r} \X Parts]
      BY <1>3 DEF Fit
    <2>2. r \in Shots
      BY StoreTypes
    <2>3. /\ call'.step = "fit" /\ call'.files = {r} \X Parts /\ call'.shot = call.shot
          /\ call' \in CallTypes
      BY <1>1, <2>1, <2>2, StoreTypes DEF CallTypes
    <2>4. index' = [q \in Shots |-> IF q \in {r} THEN 0 ELSE index[q]] /\ index' \in [Shots -> Nat]
      BY <2>1, StoreTypes DEF Forgotten
    <2>5. StoreTypeOK'
      BY <1>1, <1>3, <2>3, <2>4 DEF StoreInv, StoreTypeOK, CallTypes, Steps
    <2>6. Counted' = Counted /\ Indexed \ {r} \subseteq Indexed'
      BY <1>1, <1>2, <1>3, <2>4, StoreTypes DEF Counted, Indexed
    <2>7. r \in Leaving'
      BY <2>2, <2>3 DEF Leaving, Parts
    <2>8. StoreSound'
      BY <1>1, <1>2, <2>2, <2>3, <2>4, <2>6, <2>7, StoreTypes DEF StoreInv, StoreSound, WriteSteps
    <2>9. CapHolds'
      BY <1>1, <2>6, CapKept, StoreTypes DEF StoreInv, CapHolds
    <2> QED
      BY <2>5, <2>8, <2>9 DEF StoreInv
  <1>4. CASE /\ Fits /\ steppedBack' = (\E r \in Indexed : made[r].at > call.moment)
             /\ stray' = stray \ Indexed /\ UNCHANGED index
             /\ call' = IF call.shot = 0 THEN NoCall ELSE Calling("temporaries", call.shot)
    <2>1. call' \in CallTypes
      <3>1. call.shot \in 0 .. Len(made) /\ "temporaries" \in Steps
        BY StoreTypes DEF CallTypes, Steps
      <3> QED
        BY <1>4, <3>1, NoCallTypes, CallingTypes
    <2>2. steppedBack' \in BOOLEAN
      BY <1>4, Zenon
    <2>3. StoreTypeOK'
      BY <1>1, <1>4, <2>1, <2>2 DEF StoreInv, StoreTypeOK, CallTypes, Steps
    <2>4. Indexed' = Indexed /\ Size(Indexed)' = Size(Indexed) /\ Counted' \subseteq Indexed
      BY <1>1, <1>2, <1>4 DEF Indexed, Counted, Size, Bytes
    <2>5. /\ call'.files = {} /\ call'.shot = call.shot
          /\ call'.step = IF call.shot = 0 THEN "none" ELSE "temporaries"
      BY <1>4 DEF NoCall, Calling
    <2>6. Size(Indexed) \in Nat /\ (call.shot # 0 => made[call.shot].size \in 0 .. Cap)
      BY StoreTypes, WhatIsMade
    <2>7. Size(Indexed) <= Cap /\ (call.shot # 0 => Size(Indexed) + made[call.shot].size <= Cap)
      <3>1. CASE Indexed = {}
        BY <2>6, <3>1, SizeOfNone, ImageStoreAssumption
      <3>2. CASE Size(Indexed) + Headroom <= Cap
        BY <2>6, <3>2, ImageStoreAssumption DEF Headroom
      <3> QED
        BY <1>4, <3>1, <3>2 DEF Fits
    <2>8. StoreSound'
      <3>1. call'.step \in WriteSteps =>
                call'.shot # 0 /\ Size(Indexed)' + made'[call'.shot].size <= Cap
        BY <1>1, <2>4, <2>5, <2>7 DEF WriteSteps
      <3>2. Counted' \subseteq Indexed'
        BY <2>4
      <3> QED
        BY <1>1, <1>2, <1>4, <2>4, <2>5, <3>1, <3>2 DEF StoreInv, StoreSound
    <2>9. CapHolds'
      BY <1>1, <2>4, <2>7, CapKept, StoreTypes
    <2> QED
      BY <2>3, <2>8, <2>9 DEF StoreInv
  <1> QED
    BY <1>3, <1>4 DEF Fit

LEMMA StoreStepKeeps == StoreInv /\ StoreStep => StoreInv'
  BY StoreTemporaries, StoreRenameImage, StoreRenameSidecar, StoreFile, StorePurge,
     StoreUnlinkFile, StoreForget, StoreFit DEF StoreStep

\* The places of some records are numbers, and none of them is 0.
LEMMA RankOf ==
    ASSUME Sized, NEW S \in SUBSET Made, NEW r \in S
    PROVE  RankIn(S, r) \in Nat \ {0} /\ Cardinality(S) \in Nat
  <1> DEFINE T == {s \in S : \/ made[s].at < made[r].at
                            \/ /\ made[s].at = made[r].at
                               /\ s <= r}
  <1>1. IsFiniteSet(S) /\ IsFiniteSet(T)
    <2>1. T \subseteq S
      OBVIOUS
    <2> HIDE DEF T
    <2> QED
      BY <2>1, WhatIsMade, FS_Subset
  <1>2. r \in T
    BY WhatIsMade
  <1>3. RankIn(S, r) = Cardinality(T)
    BY DEF RankIn
  <1> HIDE DEF T
  <1> QED
    BY <1>1, <1>2, <1>3, FS_EmptySet, FS_CardinalityType

LEMMA StoreStarts ==
    ASSUME StoreInv, ~up, Rebuilt, call' = Calling("purge", 0), UNCHANGED <<outcome, now>>
    PROVE  StoreInv'
  <1> DEFINE whole == {r \in Made : Whole(r)}
             rest == {r \in Made \ whole : disk[r] # NoFiles}
  <1>1. /\ up' = TRUE
        /\ index' = [r \in Shots |-> IF r \in whole THEN RankIn(whole, r) ELSE 0]
        /\ cursor' = Cardinality(whole)
        /\ incomplete' = (\E r \in Made : Half(r)) /\ steppedBack' = FALSE /\ made' = made
    BY DEF Rebuilt
  <1>2. PICK left \in SUBSET rest :
          /\ troubles' = troubles \/ (troubles < MaxTroubles /\ troubles' = troubles + 1)
          /\ disk' = [r \in Shots |-> IF r \in whole \cup left THEN disk[r] ELSE NoFiles]
          /\ stray' = {r \in stray \cup left : r \in whole \cup left}
    BY DEF Rebuilt, DiskTakes, DiskRefuses, Trouble
  <1>3. Sized /\ Made \subseteq Shots /\ whole \in SUBSET Made /\ left \in SUBSET Made /\ Made' = Made
    BY <1>1, StoreTypes DEF Made
  <1>4. \A r \in whole : disk[r]["image"] = "there"
    BY DEF Whole, Parts
  <1>5. \A r \in whole : RankIn(whole, r) \in Nat \ {0}
    BY <1>3, RankOf
  <1>6. Cardinality(whole) \in Nat
    BY <1>3, WhatIsMade, FS_Subset, FS_CardinalityType
  <1>7. call' \in CallTypes /\ call'.step = "purge" /\ call'.shot = 0 /\ call'.files = {}
    BY NoCallTypes DEF Calling
  <1> HIDE DEF whole, rest
  <1>8. index' \in [Shots -> Nat] /\ cursor' \in Nat /\ incomplete' \in BOOLEAN
    <2>1. incomplete' \in BOOLEAN
      BY <1>1, Zenon
    <2> QED
      BY <1>1, <1>5, <1>6, <2>1
  <1>9. disk' \in [Shots -> [Parts -> {"none", "temporary", "there"}]]
    <2>1. NoFiles \in [Parts -> {"none", "temporary", "there"}]
      BY DEF NoFiles
    <2> QED
      BY <1>2, <2>1, StoreTypes
  <1>10. troubles' \in 0 .. MaxTroubles /\ stray' \subseteq Shots
    BY <1>2, <1>3, ImageStoreAssumption DEF StoreInv, StoreTypeOK
  <1>11. StoreTypeOK'
    BY <1>1, <1>7, <1>8, <1>9, <1>10 DEF StoreInv, StoreTypeOK, CallTypes, Steps
  <1>12. Indexed' = whole
    BY <1>1, <1>3, <1>5 DEF Indexed
  <1>13. Counted' \subseteq Counted \cap whole
    <2> SUFFICES ASSUME NEW r \in Counted' PROVE r \in Counted /\ r \in whole
      OBVIOUS
    <2>1. r \in Made /\ r \in Shots /\ r \notin stray' /\ disk'[r]["image"] # "none"
      BY <1>3 DEF Counted
    <2>2. r \in whole \cup left
      BY <1>2, <2>1 DEF NoFiles, Parts
    <2>3. r \in whole /\ r \notin stray /\ disk'[r] = disk[r]
      BY <1>2, <2>1, <2>2
    <2> QED
      BY <2>1, <2>3 DEF Counted
  <1>14. StoreSound'
    <2>1. \A r \in Shots \ Made : index'[r] = 0 /\ disk'[r] = NoFiles
      BY <1>1, <1>2, <1>3
    <2> QED
      BY <1>1, <1>3, <1>7, <1>12, <1>13, <2>1 DEF StoreInv, StoreSound, WriteSteps, NoFiles
  <1>15. CapHolds'
    BY <1>1, <1>13, CapKept, StoreTypes DEF StoreInv, CapHolds
  <1> QED
    BY <1>11, <1>14, <1>15 DEF StoreInv

LEMMA StoreStops == StoreInv /\ StoreEnds /\ troubles' \in 0 .. MaxTroubles => StoreInv'
  <1> SUFFICES ASSUME StoreInv, StoreEnds, troubles' \in 0 .. MaxTroubles PROVE StoreInv'
    OBVIOUS
  <1>1. /\ up' = FALSE /\ index' = [r \in Shots |-> 0] /\ cursor' = 0
        /\ incomplete' = FALSE /\ steppedBack' = FALSE /\ call' = NoCall /\ outcome' = "none"
        /\ UNCHANGED <<disk, made, stray, now>>
    BY DEF StoreEnds, onDisk
  <1>2. call' \in CallTypes /\ call'.step = "none" /\ call'.shot = 0 /\ call'.files = {}
    BY <1>1, NoCallTypes DEF NoCall, Calling
  <1>3. StoreTypeOK'
    BY <1>1, <1>2 DEF StoreInv, StoreTypeOK, CallTypes, Steps
  <1>4. Made' = Made /\ Counted' = Counted /\ Indexed' = {}
    BY <1>1, StoreTypes DEF Made, Counted, Indexed
  <1>5. StoreSound'
    BY <1>1, <1>2, <1>4 DEF StoreInv, StoreSound, WriteSteps
  <1>6. CapHolds'
    BY <1>1, <1>4, CapKept, StoreTypes DEF StoreInv, CapHolds
  <1> QED
    BY <1>3, <1>5, <1>6 DEF StoreInv

\* The clock, the lane and the poll touch nothing the cap is about.
LEMMA StoreApart ==
    ASSUME StoreInv, UNCHANGED <<onDisk, indexed, call>>, now' \in Times,
           outcome' \in {"none", "stored", "over_budget", "unwritable"},
           troubles' \in 0 .. MaxTroubles
    PROVE  StoreInv'
  <1>1. UNCHANGED <<disk, made, stray, up, index, cursor, incomplete, steppedBack, call>>
    BY DEF onDisk, indexed
  <1>2. StoreTypeOK'
    BY <1>1 DEF StoreInv, StoreTypeOK
  <1>3. Made' = Made /\ Counted' = Counted /\ Indexed' = Indexed
    BY <1>1 DEF Made, Counted, Indexed
  <1>4. Size(Indexed)' = Size(Indexed)
    BY <1>1, <1>3 DEF Size, Bytes
  <1>5. StoreSound'
    BY <1>1, <1>3, <1>4 DEF StoreInv, StoreSound, Leaving, Coming
  <1>6. CapHolds'
    BY <1>1, <1>3, CapKept, StoreTypes DEF StoreInv, CapHolds
  <1> QED
    BY <1>2, <1>5, <1>6 DEF StoreInv

LEMMA StoreClock == StoreInv /\ (Ticks \/ StepsBack) => StoreInv'
  <1> SUFFICES ASSUME StoreInv, Ticks \/ StepsBack PROVE StoreInv'
    OBVIOUS
  <1>1. now \in Times /\ troubles \in 0 .. MaxTroubles
    BY DEF StoreInv, StoreTypeOK
  <1>2. now' \in Times /\ troubles' \in 0 .. MaxTroubles
    BY <1>1, ImageStoreAssumption DEF Ticks, StepsBack, Trouble, Times
  <1>3. UNCHANGED <<onDisk, indexed, call, outcome>>
    BY DEF Ticks, StepsBack
  <1> QED
    BY <1>2, <1>3, StoreApart DEF StoreInv, StoreTypeOK

\* A write begun has nothing on the disk yet, and nothing in the index.
LEMMA StoreWrites ==
    ASSUME StoreInv, up, call = NoCall, NEW size \in Sizes, Write(size),
           UNCHANGED <<disk, stray, indexed, now, troubles>>
    PROVE  StoreInv'
  <1> DEFINE n == Len(made) + 1
  <1>1. UNCHANGED <<disk, stray, up, index, cursor, incomplete, steppedBack, now, troubles>>
    BY DEF indexed
  <1>2. size \in Nat
    BY ImageStoreAssumption
  <1>3. CASE size > Cap
    <2>1. outcome' = "over_budget" /\ UNCHANGED <<made, call>>
      BY <1>3 DEF Write
    <2> QED
      BY <1>1, <2>1, StoreApart DEF StoreInv, StoreTypeOK, onDisk, indexed
  <1>4. CASE ~(size > Cap)
    <2>1. /\ Len(made) < MaxShots /\ made' = Append(made, [at |-> now, size |-> size])
          /\ call' = Calling("purge", n) /\ outcome' = "stored"
      BY <1>4 DEF Write, WriteCall
    <2>2. /\ made \in Seq([at : Times, size : Sizes]) /\ Len(made) \in Nat /\ now \in Times
          /\ [at |-> now, size |-> size] \in [at : Times, size : Sizes]
      BY LenProperties DEF StoreInv, StoreTypeOK
    <2>3. /\ made' \in Seq([at : Times, size : Sizes]) /\ Len(made') = n
          /\ \A r \in 1 .. Len(made) : made'[r] = made[r]
          /\ made'[n] = [at |-> now, size |-> size]
      BY <2>1, <2>2, AppendProperties
    <2>4. n \in Nat \ {0} /\ n <= MaxShots /\ n \in Shots \ Made /\ Made' = Made \cup {n}
      BY <2>1, <2>2, <2>3, ImageStoreAssumption DEF Made, Shots
    <2> HIDE DEF n
    <2>5. call' \in [step : Steps, shot : 0 .. n, old : SUBSET Shots, files : SUBSET (Shots \X Parts),
                     moment : Times]
      BY <2>1, <2>4, ImageStoreAssumption DEF Calling, Steps, Times
    <2>6. StoreTypeOK'
      BY <1>1, <2>1, <2>3, <2>4, <2>5 DEF StoreInv, StoreTypeOK, Steps
    <2>7. index[n] = 0 /\ disk[n]["image"] = "none"
      BY <2>4 DEF StoreInv, StoreSound, NoFiles, Parts
    <2>8. Indexed' = Indexed /\ Counted' = Counted
      BY <1>1, <2>4, <2>7 DEF Indexed, Counted
    <2>9. Size(Counted)' = Size(Counted) /\ \A r \in Made : made'[r] = made[r]
      <3>1. \A r \in Made : made'[r] = made[r]
        BY <2>3 DEF Made
      <3>2. \A r \in Counted : made'[r] = made[r]
        BY <3>1, StoreTypes
      <3> QED
        BY <2>8, <3>1, <3>2, SizeKept DEF Size, Bytes
    <2>10. call'.step = "purge" /\ call'.shot = n /\ call'.files = {}
      BY <2>1 DEF Calling
    <2>11. Counted \subseteq Indexed
      BY DEF StoreInv, StoreSound, NoCall, Calling, Leaving, Coming
    <2>12. \A r \in Made' : made'[r].size <= Cap
      <3>1. made'[n].size <= Cap
        BY <1>2, <1>4, <2>3, ImageStoreAssumption
      <3>2. \A r \in Made : made'[r].size <= Cap
        BY <2>9 DEF StoreInv, StoreSound
      <3> QED
        BY <2>4, <3>1, <3>2
    <2>13. StoreSound'
      BY <1>1, <2>4, <2>7, <2>8, <2>10, <2>11, <2>12 DEF StoreInv, StoreSound, WriteSteps, NoFiles
    <2>14. CapHolds'
      BY <2>9 DEF StoreInv, CapHolds
    <2> QED
      BY <2>6, <2>13, <2>14 DEF StoreInv
  <1> QED
    BY <1>3, <1>4

-------------------------------------------------------------------------------
(* The lane's events.                                                       *)

LaneInv == LaneTypeOK /\ AskedOnce /\ AnsweredFor /\ NoEventTwice /\ LossIsCounted

Todos == [clock : BOOLEAN, lane : BOOLEAN, shots : SUBSET ((0 .. MaxEvents) \X Cameras),
          adopt : SUBSET Nat]

LEMMA LaneNumbers ==
    ASSUME LaneTypeOK
    PROVE  /\ Len(happened) \in Nat /\ Len(happened) <= MaxEvents /\ MaxEvents \in Nat
           /\ before \in Nat /\ before <= Len(happened)
           /\ first \in Nat /\ seen \in Nat /\ first <= seen /\ seen <= Len(happened)
           /\ place \in Nat /\ missed \in Nat /\ todo \in Todos
           /\ LaneCursor \in Nat /\ LaneCursor = Len(happened) - before
           /\ Window \in Nat /\ Window > 0
  <1>1. Len(happened) \in Nat
    BY LenProperties DEF LaneTypeOK
  <1>2. before \in Nat /\ before <= Len(happened) /\ first \in Nat
    BY <1>1 DEF LaneTypeOK
  <1>3. seen \in Nat /\ first <= seen /\ seen <= Len(happened)
    BY <1>1, <1>2 DEF LaneTypeOK
  <1> QED
    BY <1>1, <1>2, <1>3, CaptureAssumption DEF LaneTypeOK, Todos, LaneCursor

LEMMA UnaskedTypes ==
    /\ LaneUnasked \in [unsupported : State, backlog : State]
    /\ CamerasUnasked \in [Cameras -> [unreachable : State, refused : State, frozen : State]]
    /\ NoPictureYet \in [Cameras -> Views \cup {"none"}]
    /\ NothingToDo \in Todos /\ NothingToDo.shots = {} /\ NothingToDo.adopt = {}
  <1>1. LaneUnasked \in [unsupported : State, backlog : State]
    BY DEF LaneUnasked, State
  <1>2. CamerasUnasked \in [Cameras -> [unreachable : State, refused : State, frozen : State]]
    BY DEF CamerasUnasked, State
  <1>3. NoPictureYet \in [Cameras -> Views \cup {"none"}]
    BY DEF NoPictureYet
  <1>4. NothingToDo \in Todos /\ NothingToDo.shots = {} /\ NothingToDo.adopt = {}
    BY DEF NothingToDo, Todos
  <1> QED
    BY <1>1, <1>2, <1>3, <1>4

\* Where the lane and what was answered for are left alone, so is all that is said of them.
LEMMA LaneUntouched ==
    ASSUME LaneInv, LaneTypeOK', up' = up,
           UNCHANGED <<lane, todo, followed, restarted, shown, cutOff>>
    PROVE  LaneInv'
  <1>1. UNCHANGED <<happened, before, following, place, missed, first, seen, passed>>
    BY DEF lane, followed
  <1>0. Page' = Page /\ LaneCursor' = LaneCursor /\ Reset' = Reset
    BY <1>1 DEF Page, Held, Since, LaneCursor, Reset
  <1>2. AskedOnce'
    BY <1>0, <1>1 DEF LaneInv, AskedOnce, Pending, Unasked
  <1>3. AnsweredFor'
    BY <1>0, <1>1 DEF LaneInv, AnsweredFor, Pending, Shown
  <1> QED
    BY <1>1, <1>2, <1>3 DEF LaneInv, NoEventTwice, LossIsCounted

LEMMA LaneInvInit == Init => LaneInv
  <1> SUFFICES ASSUME Init PROVE LaneInv
    OBVIOUS
  <1> USE CaptureAssumption DEF Init
  <1>1. happened \in Seq(BOOLEAN) /\ Len(happened) = 0
    BY EmptySeq
  <1>2. LaneTypeOK
    <2>1. storeCode \in [unwritable : State, overBudget : State, steppedBack : State,
                         incomplete : State]
      BY DEF State
    <2>2. shown \in [Events -> [Cameras -> Nat]]
      OBVIOUS
    <2>3. before \in 0 .. Len(happened) /\ first \in 0 .. Len(happened) /\ seen \in first .. Len(happened)
      BY <1>1
    <2>4. /\ todo \in Todos /\ laneCode \in [unsupported : State, backlog : State]
          /\ cameraCode \in [Cameras -> [unreachable : State, refused : State, frozen : State]]
          /\ last \in [Cameras -> Views \cup {"none"}]
      BY UnaskedTypes
    <2>5. /\ following \in BOOLEAN /\ place \in Nat /\ missed \in Nat /\ passed \subseteq Events
          /\ restarted \in BOOLEAN /\ cutOff \subseteq Events
      OBVIOUS
    <2>6. Len(happened) <= MaxEvents
      BY <1>1
    <2> HIDE DEF Init
    <2> QED
      BY <1>1, <2>1, <2>2, <2>3, <2>4, <2>5, <2>6 DEF LaneTypeOK, Todos
  <1>3. AskedOnce
    BY DEF AskedOnce, Pending, NothingToDo, Unasked
  <1>4. AnsweredFor
    BY DEF AnsweredFor, NothingToDo
  <1>5. NoEventTwice
    BY DEF NoEventTwice
  <1>6. LossIsCounted
    BY FS_EmptySet DEF LossIsCounted
  <1> QED
    BY <1>2, <1>3, <1>4, <1>5, <1>6 DEF LaneInv

\* A process that begins knows nothing, and has taken no picture for it.
LEMMA LaneForgotten ==
    ASSUME LaneInv, KnowsNothing, UNCHANGED <<lane, shown, cutOff>>, up' \/ todo' = NothingToDo,
           todo' \in Todos, todo'.shots = {}, todo'.adopt = {},
           storeCode' \in [unwritable : State, overBudget : State, steppedBack : State,
                           incomplete : State]
    PROVE  LaneInv'
  <1>1. /\ following' = FALSE /\ place' = 0 /\ missed' = 0
        /\ first' = 0 /\ seen' = 0 /\ passed' = {} /\ restarted' = FALSE
        /\ laneCode' = LaneUnasked /\ cameraCode' = CamerasUnasked /\ last' = NoPictureYet
        /\ UNCHANGED <<happened, before, shown, cutOff>>
    BY DEF KnowsNothing, lane
  <1>2. LaneTypeOK'
    <2>1. first' \in 0 .. Len(happened) /\ seen' \in first' .. Len(happened)
      BY <1>1, LaneNumbers DEF LaneInv
    <2> QED
      BY <1>1, <2>1, UnaskedTypes DEF LaneInv, LaneTypeOK, Todos
  <1>3. AskedOnce'
    BY <1>1 DEF LaneInv, AskedOnce, Pending
  <1>4. AnsweredFor'
    BY <1>1 DEF AnsweredFor
  <1>5. LossIsCounted'
    BY <1>1, FS_EmptySet DEF LossIsCounted
  <1> QED
    BY <1>1, <1>2, <1>3, <1>4, <1>5 DEF LaneInv, NoEventTwice

LEMMA LaneStart == LaneInv /\ Start => LaneInv'
  <1> SUFFICES ASSUME LaneInv, Start PROVE LaneInv'
    OBVIOUS
  <1>1. todo' = [NothingToDo EXCEPT !.clock = TRUE, !.lane = TRUE] /\ up' = TRUE
    BY DEF Start, Rebuilt
  <1>2. todo' \in Todos /\ todo'.shots = {} /\ todo'.adopt = {}
    BY <1>1 DEF NothingToDo, Todos
  <1>3. storeCode' \in [unwritable : State, overBudget : State, steppedBack : State,
                        incomplete : State]
    BY DEF Start, ActiveIf, State
  <1> QED
    BY <1>1, <1>2, <1>3, LaneForgotten DEF Start

LEMMA LaneEnds == LaneInv /\ Ends => LaneInv'
  <1> SUFFICES ASSUME LaneInv, Ends PROVE LaneInv'
    OBVIOUS
  <1>1. todo' = NothingToDo /\ todo' \in Todos /\ todo'.shots = {} /\ todo'.adopt = {}
    BY DEF Ends, NothingToDo, Todos
  <1>2. storeCode' = storeCode
    BY DEF Ends
  <1> QED
    BY <1>1, <1>2, LaneForgotten DEF Ends, LaneInv, LaneTypeOK

LEMMA LanePoll == LaneInv /\ Poll => LaneInv'
  <1> SUFFICES ASSUME LaneInv, Poll PROVE LaneInv'
    OBVIOUS
  <1>1. PICK asks \in BOOLEAN, cameras \in SUBSET Cameras :
          todo' = [NothingToDo EXCEPT !.lane = asks, !.shots = {0} \X cameras]
    BY DEF Poll
  <1>2. /\ todo = NothingToDo /\ up /\ up' = up
        /\ UNCHANGED <<happened, before, following, place, missed, first, seen, passed, laneCode,
                       cameraCode, storeCode, last, restarted, shown, cutOff>>
    BY DEF Poll, BetweenPolls, Ready, lane, followed, codes, storeVars, indexed
  <1>3. /\ todo' = [clock |-> FALSE, lane |-> asks, shots |-> {0} \X cameras, adopt |-> {}]
        /\ todo' \in Todos
    <2>1. {0} \X cameras \subseteq (0 .. MaxEvents) \X Cameras
      BY CaptureAssumption
    <2>2. todo' = [clock |-> FALSE, lane |-> asks, shots |-> {0} \X cameras, adopt |-> {}]
      BY <1>1 DEF NothingToDo
    <2> QED
      BY <2>1, <2>2 DEF Todos
  <1>4. \A e \in Events, c \in Cameras : ~Pending(e, c) /\ ~Pending(e, c)'
    BY <1>2, <1>3 DEF Pending, NothingToDo, Events
  <1>5. todo.adopt = {} /\ todo'.adopt = {}
    BY <1>2, <1>3 DEF NothingToDo
  <1>6. LaneTypeOK'
    BY <1>2, <1>3 DEF LaneInv, LaneTypeOK, Todos
  <1>7. AskedOnce'
    BY <1>2, <1>4, <1>5 DEF LaneInv, AskedOnce, Unasked
  <1>8. AnsweredFor'
    BY <1>2, <1>5 DEF LaneInv, AnsweredFor, Shown
  <1> QED
    BY <1>2, <1>6, <1>7, <1>8 DEF LaneInv, NoEventTwice, LossIsCounted

LEMMA LaneReadClock == LaneInv /\ ReadClock => LaneInv'
  <1> SUFFICES ASSUME LaneInv, ReadClock PROVE LaneInv'
    OBVIOUS
  <1>1. /\ up /\ up' = up /\ todo' = [todo EXCEPT !.clock = FALSE]
        /\ storeCode' = [storeCode EXCEPT !.steppedBack = ActiveIf(steppedBack)]
        /\ UNCHANGED <<happened, before, following, place, missed, first, seen, passed, laneCode,
                       cameraCode, last, restarted, shown, cutOff>>
    BY DEF ReadClock, ClockRead, Ready, lane, followed, storeVars, indexed
  <1>2. /\ todo' \in Todos /\ todo'.shots = todo.shots /\ todo'.adopt = todo.adopt
        /\ todo'.lane = todo.lane
    BY <1>1, LaneNumbers DEF LaneInv, Todos
  <1>3. storeCode' \in [unwritable : State, overBudget : State, steppedBack : State,
                        incomplete : State]
    BY <1>1 DEF LaneInv, LaneTypeOK, ActiveIf, State
  <1>4. LaneTypeOK'
    BY <1>1, <1>2, <1>3 DEF LaneInv, LaneTypeOK, Todos
  <1>0. Page' = Page /\ LaneCursor' = LaneCursor /\ Reset' = Reset
    BY <1>1 DEF Page, Held, Since, LaneCursor, Reset
  <1>5. AskedOnce'
    BY <1>0, <1>1, <1>2 DEF LaneInv, AskedOnce, Pending, Unasked
  <1>6. AnsweredFor'
    BY <1>0, <1>1, <1>2 DEF LaneInv, AnsweredFor, Pending, Shown
  <1> QED
    BY <1>1, <1>4, <1>5, <1>6 DEF LaneInv, NoEventTwice, LossIsCounted

\* A poll that is to read the lane has no picture of an event before it, and no cursor.
LEMMA LaneAt ==
    ASSUME LaneInv, AtLane
    PROVE  /\ up /\ todo.lane /\ todo.adopt = {} /\ todo \in Todos
           /\ \A e \in Events, c \in Cameras : ~Pending(e, c)
           /\ \A e \in Events, c \in Cameras : following /\ e > seen => Unasked(e, c)
  <1>1. up /\ todo.lane /\ todo \in Todos
    BY LaneNumbers DEF LaneInv, AtLane, Ready
  <1>2. todo.adopt = {}
    BY <1>1 DEF LaneInv, AskedOnce
  <1>3. \A e \in Events, c \in Cameras : ~Pending(e, c)
    BY <1>2 DEF LaneInv, AskedOnce
  <1>4. \A e \in Events, c \in Cameras : following /\ e > seen => Unasked(e, c)
    BY <1>2 DEF LaneInv, AskedOnce
  <1> QED
    BY <1>1, <1>2, <1>3, <1>4

LEMMA LaneReads ==
    ASSUME LaneInv, NEW S \in SUBSET ((0 .. MaxEvents) \X Cameras), NEW C \in SUBSET Nat,
           LaneRead(S, C)
    PROVE  /\ todo' \in Todos /\ todo'.lane = FALSE /\ todo'.adopt = C
           /\ todo'.shots = todo.shots \cup S
  BY LaneNumbers DEF LaneInv, LaneRead, Todos

LEMMA LaneReadsNothing ==
    ASSUME LaneInv, LaneRead({}, {})
    PROVE  /\ todo' \in Todos /\ todo'.lane = FALSE /\ todo'.adopt = {}
           /\ todo'.shots = todo.shots
  BY LaneNumbers DEF LaneInv, LaneRead, Todos

LEMMA LaneSays ==
    ASSUME NEW unsupported \in State, NEW backlog \in State, Say(unsupported, backlog)
    PROVE  laneCode' \in [unsupported : State, backlog : State]
  BY DEF Say

\* A page that comes to nothing leaves everything to the next poll.
LEMMA LaneNoPage ==
    ASSUME LaneInv, AtLane, NoPage,
           UNCHANGED <<storeVars, lane, cameraCode, storeCode, last, restarted, shown, cutOff>>
    PROVE  LaneInv'
  <1>1. /\ LaneRead({}, {}) \/ todo' = NothingToDo
        /\ up /\ up' = up
        /\ UNCHANGED <<happened, before, following, place, missed, first, seen, passed, cameraCode,
                       storeCode, last, restarted, shown, cutOff>>
    BY LaneAt DEF NoPage, RefusePage, followed, lane, storeVars, indexed
  <1>2. /\ todo' \in Todos /\ todo'.lane = FALSE /\ todo'.adopt = {}
        /\ todo'.shots \subseteq todo.shots
    <2>1. CASE LaneRead({}, {})
      BY <2>1, LaneReadsNothing
    <2>2. CASE todo' = NothingToDo
      BY <2>2, UnaskedTypes DEF NothingToDo
    <2> QED
      BY <1>1, <2>1, <2>2
  <1>3. laneCode' \in [unsupported : State, backlog : State]
    <2>1. laneCode \in [unsupported : State, backlog : State]
      BY DEF LaneInv, LaneTypeOK
    <2>2. "active" \in State /\ laneCode.backlog \in State
      BY <2>1 DEF State
    <2> QED
      BY <2>1, <2>2, LaneSays DEF NoPage, RefusePage
  <1>4. LaneTypeOK'
    BY <1>1, <1>2, <1>3 DEF LaneInv, LaneTypeOK, Todos
  <1>5. AskedOnce'
    BY <1>1, <1>2, LaneAt DEF LaneInv, AskedOnce, Pending, Unasked
  <1>6. AnsweredFor'
    BY <1>1, <1>2 DEF LaneInv, AnsweredFor, Shown
  <1> QED
    BY <1>1, <1>4, <1>5, <1>6 DEF LaneInv, NoEventTwice, LossIsCounted

LEMMA LaneTakesItsPlace ==
    ASSUME LaneInv, AtLane, TakeItsPlace,
           UNCHANGED <<storeVars, lane, cameraCode, storeCode, last, restarted, shown, cutOff>>
    PROVE  LaneInv'
  <1>1. /\ LaneRead({}, {}) /\ up' = up /\ following' = TRUE /\ place' = LaneCursor
        /\ first' = Len(happened) /\ seen' = Len(happened)
        /\ UNCHANGED <<happened, before, missed, passed, cameraCode, storeCode, last, restarted, shown, cutOff>>
    BY DEF TakeItsPlace, lane, storeVars, indexed
  <1>2. /\ todo' \in Todos /\ todo'.lane = FALSE /\ todo'.adopt = {} /\ todo'.shots = todo.shots
    BY <1>1, LaneReadsNothing
  <1>3. laneCode' \in [unsupported : State, backlog : State]
    BY LaneSays DEF TakeItsPlace, State
  <1>4. /\ Len(happened) \in Nat /\ before \in Nat /\ LaneCursor \in Nat /\ seen \in Nat
        /\ LaneCursor = Len(happened) - before /\ seen <= Len(happened)
    BY LaneNumbers DEF LaneInv
  <1>5. LaneTypeOK'
    BY <1>1, <1>2, <1>3, <1>4 DEF LaneInv, LaneTypeOK, Todos
  <1>6. AskedOnce'
    <2>2. \A e \in Events, c \in Cameras : ~Pending(e, c)'
      BY <1>2, LaneAt DEF Pending
    <2>3. seen' <= before' + place'
      BY <1>1, <1>4
    <2> QED
      BY <1>1, <1>2, <2>2, <2>3 DEF LaneInv, AskedOnce, Unasked
  <1>7. AnsweredFor'
    <2>1. passed' \subseteq 1 .. seen'
      BY <1>1, <1>4 DEF LaneInv, AnsweredFor
    <2>2. first' + 1 .. seen' = {}
      BY <1>1, <1>4
    <2>3. seen' = before' + place' /\ up'
      BY <1>1, <1>4, LaneAt
    <2> QED
      BY <1>1, <1>2, <2>1, <2>2, <2>3 DEF AnsweredFor
  <1> QED
    BY <1>1, <1>5, <1>6, <1>7 DEF LaneInv, NoEventTwice, LossIsCounted

\* What is passed over at once is the events after the place, and none was before.
LEMMA LanePlaceLost ==
    ASSUME LaneInv, AtLane, PlaceLost,
           UNCHANGED <<storeVars, lane, cameraCode, storeCode, last, restarted, shown, cutOff>>
    PROVE  LaneInv'
  <1> DEFINE more == seen + 1 .. Len(happened)
  <1>1. /\ LaneRead({}, {}) /\ up' = up /\ following /\ place' = LaneCursor
        /\ missed' = missed + PassedOver /\ passed' = passed \cup more /\ seen' = Len(happened)
        /\ UNCHANGED <<happened, before, following, first, cameraCode, storeCode, last, restarted, shown, cutOff>>
    BY DEF PlaceLost, lane, storeVars, indexed
  <1>2. /\ todo' \in Todos /\ todo'.lane = FALSE /\ todo'.adopt = {} /\ todo'.shots = todo.shots
    BY <1>1, LaneReadsNothing
  <1>3. laneCode' \in [unsupported : State, backlog : State]
    BY LaneSays DEF PlaceLost, State
  <1>4. /\ Len(happened) \in Nat /\ before \in Nat /\ LaneCursor \in Nat /\ seen \in Nat
        /\ LaneCursor = Len(happened) - before /\ seen <= Len(happened) /\ place \in Nat
        /\ first \in Nat /\ first <= seen /\ Len(happened) <= MaxEvents /\ MaxEvents \in Nat
        /\ missed \in Nat
    BY LaneNumbers DEF LaneInv
  <1>5. PassedOver \in Nat
    BY <1>4 DEF PassedOver
  <1>6. LaneTypeOK'
    <2>0. passed \subseteq Events /\ more \subseteq Events
      BY <1>4 DEF LaneInv, LaneTypeOK, Events
    <2>1. missed' \in Nat /\ place' \in Nat /\ passed' \subseteq Events
      BY <1>1, <1>4, <1>5, <2>0
    <2>2. first' \in 0 .. Len(happened) /\ seen' \in first' .. Len(happened)
      BY <1>1, <1>4
    <2> QED
      BY <1>1, <1>2, <1>3, <2>1, <2>2 DEF LaneInv, LaneTypeOK, Todos
  <1>7. AskedOnce'
    <2>2. \A e \in Events, c \in Cameras : ~Pending(e, c)'
      BY <1>2, LaneAt DEF Pending
    <2>3. seen' <= before' + place'
      BY <1>1, <1>4
    <2> QED
      BY <1>1, <1>2, <2>2, <2>3 DEF LaneInv, AskedOnce, Unasked
  <1>8. AnsweredFor'
    <2>0. passed \subseteq 1 .. seen
      BY DEF LaneInv, AnsweredFor
    <2>1. passed' \subseteq 1 .. seen'
      <3>1. \A e \in passed' : e \in 1 .. seen \/ e \in more
        BY <1>1, <2>0
      <3>2. \A e \in more : e \in 1 .. Len(happened)
        BY <1>4
      <3>3. \A e \in 1 .. seen : e \in 1 .. Len(happened)
        BY <1>4
      <3> HIDE DEF more
      <3> QED
        BY <1>1, <3>1, <3>2, <3>3
    <2>2. \A e \in first + 1 .. Len(happened) : e \in first + 1 .. seen \/ e \in more
      BY <1>4
    <2>3. seen' = before' + place'
      BY <1>1, <1>4
    <2> HIDE DEF more
    <2>4. \A e \in first' + 1 .. seen' : e \in passed' \/ Shown(e)'
      BY <1>1, <2>2 DEF LaneInv, AnsweredFor, Shown
    <2> QED
      BY <1>1, <1>2, <2>1, <2>3, <2>4, LaneAt DEF AnsweredFor
  <1>10. \A e \in passed', c \in Cameras : shown'[e][c] > 0 => e \in cutOff'
    <2>1. \A e \in more : e \in Events /\ e > seen
      BY <1>4 DEF Events
    <2>2. \A e \in more, c \in Cameras : shown[e][c] > 0 => e \in cutOff
      BY <1>1, <2>1, LaneAt DEF Unasked
    <2> HIDE DEF more
    <2> QED
      BY <1>1, <2>2 DEF LaneInv, LossIsCounted
  <1>9. LossIsCounted'
    <2> SUFFICES ASSUME ~restarted PROVE missed' = Cardinality(passed')
      BY <1>1, <1>10 DEF LossIsCounted
    <2>1. seen = before + place /\ missed = Cardinality(passed)
      BY <1>1 DEF LaneInv, LossIsCounted, AnsweredFor
    <2>2. PassedOver = Len(happened) - seen
      BY <1>4, <2>1 DEF PassedOver
    <2>3. passed \subseteq 1 .. seen
      BY DEF LaneInv, AnsweredFor
    <2>4. IsFiniteSet(passed)
      <3>1. IsFiniteSet(1 .. seen)
        BY <1>4, FS_Interval
      <3> QED
        BY <2>3, <3>1, FS_Subset
    <2>5. IsFiniteSet(more) /\ Cardinality(more) = Len(happened) - seen
      <3> DEFINE a == seen + 1
                 b == Len(happened)
      <3>1. a \in Int /\ b \in Int
        BY <1>4
      <3> HIDE DEF a, b
      <3>2. IsFiniteSet(a .. b) /\ Cardinality(a .. b) = IF a > b THEN 0 ELSE b - a + 1
        BY <3>1, FS_Interval
      <3> QED
        BY <1>4, <3>2 DEF a, b
    <2>6. passed \cap more = {}
      BY <1>4, <2>3
    <2> HIDE DEF more
    <2>7. Cardinality(passed \cup more)
             = Cardinality(passed) + Cardinality(more) - Cardinality(passed \cap more)
      BY <2>4, <2>5, FS_Union
    <2>8. Cardinality(passed \cap more) = 0 /\ Cardinality(passed) \in Nat
      BY <2>4, <2>6, FS_EmptySet, FS_CardinalityType
    <2> QED
      BY <1>1, <1>4, <2>1, <2>2, <2>5, <2>7, <2>8
  <1> QED
    BY <1>1, <1>6, <1>7, <1>8, <1>9 DEF LaneInv, NoEventTwice

\* Where the lane does not say `reset', its page has every event after the place.
LEMMA WholePage ==
    ASSUME LaneTypeOK, following, ~Reset, NEW e \in Nat, e > before + place, e <= Len(happened)
    PROVE  e \in Page
  <1>1. /\ Len(happened) \in Nat /\ before \in Nat /\ place \in Nat /\ Window \in Nat
        /\ Window > 0 /\ Since = place
    BY LaneNumbers DEF Since
  <1>2. Len(happened) \in Held
    BY <1>1 DEF Held
  <1>3. PICK h \in Held : ~(before + place + 1 < h)
    BY <1>1, <1>2 DEF Reset
  <1>4. h \in Nat /\ h > Len(happened) - Window
    BY <1>1 DEF Held
  <1>5. e \in Held
    BY <1>1, <1>3, <1>4 DEF Held
  <1> QED
    BY <1>1, <1>5 DEF Page

LEMMA LaneFollows ==
    ASSUME LaneInv, AtLane, Follow,
           UNCHANGED <<storeVars, lane, cameraCode, storeCode, last, restarted, shown, cutOff>>
    PROVE  LaneInv'
  <1> DEFINE shots == {e \in Page : happened[e]} \X Cameras
  <1>1. /\ LaneRead(shots, {LaneCursor}) /\ up /\ up' = up /\ following /\ ~Reset
        /\ UNCHANGED <<happened, before, following, place, missed, first, seen, passed, cameraCode,
                       storeCode, last, restarted, shown, cutOff>>
    BY LaneAt DEF Follow, followed, lane, storeVars, indexed
  <1>2. /\ Len(happened) \in Nat /\ before \in Nat /\ LaneCursor \in Nat /\ seen \in Nat
        /\ seen <= Len(happened) /\ place \in Nat
        /\ Len(happened) <= MaxEvents /\ MaxEvents \in Nat
    BY LaneNumbers DEF LaneInv
  <1>3. Page \subseteq 1 .. Len(happened) /\ \A e \in Page : e > before + place
    BY <1>1, <1>2 DEF Page, Held, Since
  <1>4. shots \in SUBSET ((0 .. MaxEvents) \X Cameras) /\ {LaneCursor} \in SUBSET Nat
    <2>1. \A e \in Page : e \in 0 .. MaxEvents
      BY <1>2, <1>3
    <2> QED
      BY <1>2, <2>1
  <1>5. \A e \in Page, c \in Cameras : happened[e] => <<e, c>> \in shots
    OBVIOUS
  <1>6. \A e \in Events, c \in Cameras : <<e, c>> \in shots => e \in Page
    OBVIOUS
  <1> HIDE DEF shots
  <1>7. /\ todo' \in Todos /\ todo'.lane = FALSE /\ todo'.adopt = {LaneCursor}
        /\ todo'.shots = todo.shots \cup shots
    BY <1>1, <1>4, LaneReads
  <1>8. laneCode' \in [unsupported : State, backlog : State]
    BY LaneSays DEF Follow, State
  <1>9. LaneTypeOK'
    BY <1>1, <1>7, <1>8 DEF LaneInv, LaneTypeOK, Todos
  <1>10. LaneCursor' = LaneCursor /\ Page' = Page /\ Reset' = Reset
    BY <1>1 DEF LaneCursor, Page, Held, Since, Reset
  <1>11. AskedOnce'
    <2>1. \A e \in Events, c \in Cameras : Pending(e, c)' => e \in Page
      BY <1>6, <1>7, LaneAt DEF Pending
    <2>2. seen <= before + place
      BY <1>1 DEF LaneInv, AskedOnce
    <2>3. \A e \in Page, c \in Cameras : e <= Len(happened) /\ e > seen /\ Unasked(e, c)
      <3>1. \A e \in Page : e \in Events /\ e <= Len(happened) /\ e > seen
        BY <1>2, <1>3, <2>2 DEF Events
      <3> QED
        BY <1>1, <3>1, LaneAt
    <2>4. todo'.adopt # {}
      BY <1>7
    <2>5. \A e \in Events, c \in Cameras : e > Len(happened) => shown[e][c] = 0
      BY DEF LaneInv, AskedOnce
    <2> QED
      BY <1>1, <1>7, <1>10, <2>1, <2>2, <2>3, <2>4, <2>5, LaneAt DEF AskedOnce, Unasked
  <1>12. AnsweredFor'
    <2>1. \A e \in Page : happened[e] => \A c \in Cameras : Pending(e, c)'
      BY <1>5, <1>7 DEF Pending
    <2> QED
      BY <1>1, <1>10, <2>1 DEF LaneInv, AnsweredFor, Shown
  <1> QED
    BY <1>1, <1>9, <1>11, <1>12 DEF LaneInv, NoEventTwice, LossIsCounted

LEMMA LanePollLane == LaneInv /\ PollLane => LaneInv'
  <1> SUFFICES ASSUME LaneInv, PollLane PROVE LaneInv'
    OBVIOUS
  <1>1. /\ AtLane
        /\ NoPage \/ TakeItsPlace \/ PlaceLost \/ Follow
        /\ UNCHANGED <<storeVars, lane, cameraCode, storeCode, last, restarted, shown, cutOff>>
    BY DEF PollLane, WentBack, NoPage
  <1> QED
    BY <1>1, LaneNoPage, LaneTakesItsPlace, LanePlaceLost, LaneFollows

\* The cursor is adopted once every picture that came of its page was asked for.
LEMMA LaneAdopts == LaneInv /\ AdoptCursor => LaneInv'
  <1> SUFFICES ASSUME LaneInv, AdoptCursor PROVE LaneInv'
    OBVIOUS
  <1> DEFINE more == (seen + 1 .. Len(happened)) \ Page
  <1>1. /\ OfEvents = {} /\ place' \in todo.adopt /\ todo' = [todo EXCEPT !.adopt = {}]
        /\ up /\ up' = up /\ passed' = passed \cup more /\ seen' = Len(happened)
        /\ UNCHANGED <<happened, before, following, missed, first, laneCode, cameraCode,
                       storeCode, last, restarted, shown, cutOff>>
    BY DEF AdoptCursor, Ready, lane, codes, storeVars, indexed
  <1>2. /\ todo' \in Todos /\ todo'.lane = todo.lane /\ todo'.shots = todo.shots
        /\ todo'.adopt = {}
    BY <1>1, LaneNumbers DEF LaneInv, Todos
  <1>3. place' = LaneCursor /\ following /\ todo.adopt # {}
    BY <1>1 DEF LaneInv, AskedOnce
  <1>4. /\ Len(happened) \in Nat /\ before \in Nat /\ LaneCursor \in Nat /\ seen \in Nat
        /\ LaneCursor = Len(happened) - before /\ seen <= Len(happened)
        /\ first \in Nat /\ first <= seen /\ Len(happened) <= MaxEvents /\ MaxEvents \in Nat
    BY LaneNumbers DEF LaneInv
  <1>5. \A e \in Events, c \in Cameras : ~Pending(e, c)
    <2> SUFFICES ASSUME NEW e \in Events, NEW c \in Cameras, <<e, c>> \in todo.shots PROVE FALSE
      BY DEF Pending
    <2>1. <<e, c>> \in OfEvents
      BY DEF OfEvents, Events
    <2> QED
      BY <1>1, <2>1
  <1>6. \A e \in more : e \in Events /\ e > seen /\ e <= Len(happened) /\ e \notin Page
    BY <1>4 DEF Events
  <1>7. \A e \in more, c \in Cameras : shown[e][c] > 0 => e \in cutOff
    BY <1>3, <1>6 DEF LaneInv, AskedOnce, Unasked
  <1>8. \A e \in first + 1 .. Len(happened) :
           e \in Events /\ (e \in first + 1 .. seen \/ e \in more \/ e \in Page)
    BY <1>4 DEF Events
  <1>9. \A e \in 1 .. seen : e \in 1 .. Len(happened)
    BY <1>4
  <1>10. \A e \in more : e \in 1 .. Len(happened)
    BY <1>4
  <1> HIDE DEF more
  <1>11. LaneTypeOK'
    <2>1. passed' \subseteq Events
      BY <1>1, <1>6 DEF LaneInv, LaneTypeOK
    <2>2. place' \in Nat /\ first' \in 0 .. Len(happened) /\ seen' \in first' .. Len(happened)
      BY <1>1, <1>3, <1>4
    <2> QED
      BY <1>1, <1>2, <2>1, <2>2 DEF LaneInv, LaneTypeOK, Todos
  <1>12. AskedOnce'
    <2>1. seen' <= before' + place'
      BY <1>1, <1>3, <1>4
    <2>2. \A e \in Events, c \in Cameras : ~Pending(e, c)'
      BY <1>2, <1>5 DEF Pending
    <2> QED
      BY <1>1, <1>2, <2>1, <2>2 DEF LaneInv, AskedOnce, Unasked
  <1>13. AnsweredFor'
    <2>1. seen' = before' + place'
      BY <1>1, <1>3, <1>4
    <2>2. passed' \subseteq 1 .. seen'
      BY <1>1, <1>9, <1>10 DEF LaneInv, AnsweredFor
    <2>3. \A e \in Page : e \in Events => Shown(e)
      BY <1>3, <1>5 DEF LaneInv, AnsweredFor, Shown
    <2>4. \A e \in first' + 1 .. seen' : e \in passed' \/ Shown(e)'
      BY <1>1, <1>8, <2>3 DEF LaneInv, AnsweredFor, Shown
    <2> QED
      BY <1>1, <1>2, <2>1, <2>2, <2>4 DEF AnsweredFor
  <1>14. LossIsCounted'
    <2>1. \A e \in passed', c \in Cameras : shown[e][c] > 0 => e \in cutOff
      BY <1>1, <1>7 DEF LaneInv, LossIsCounted
    <2> SUFFICES ASSUME ~restarted PROVE passed' = passed
      BY <1>1, <2>1 DEF LaneInv, LossIsCounted
    <2>2. seen = before + place /\ following /\ ~Reset
      BY <1>3 DEF LaneInv, AnsweredFor, AskedOnce
    <2>3. more = {}
      BY <1>4, <1>6, <2>2, WholePage DEF LaneInv, Events
    <2> QED
      BY <1>1, <2>3
  <1> QED
    BY <1>1, <1>11, <1>12, <1>13, <1>14 DEF LaneInv, NoEventTwice

\* What a camera's answer makes of the codes about it.
LEMMA CameraTypes ==
    ASSUME LaneTypeOK, NEW c \in Cameras,
           \/ Unanswered(c, "ok", "active")
           \/ Unanswered(c, "active", "unknown")
           \/ \E view \in Views : Answered(c, view)
    PROVE  /\ cameraCode' \in [Cameras -> [unreachable : State, refused : State, frozen : State]]
           /\ last' \in [Cameras -> Views \cup {"none"}]
  <1> DEFINE Code == [unreachable : State, refused : State, frozen : State]
  <1>0. cameraCode \in [Cameras -> Code] /\ last \in [Cameras -> Views \cup {"none"}]
    BY DEF LaneTypeOK
  <1>1. PICK code \in Code, view \in Views \cup {"none"} :
          cameraCode' = [cameraCode EXCEPT ![c] = code] /\ last' = [last EXCEPT ![c] = view]
    <2>1. CASE Unanswered(c, "ok", "active")
      <3>1. [unreachable |-> "ok", refused |-> "active", frozen |-> "unknown"] \in Code
        BY DEF State
      <3> HIDE DEF Code
      <3> QED
        BY <2>1, <3>1 DEF Unanswered
    <2>2. CASE Unanswered(c, "active", "unknown")
      <3>1. [unreachable |-> "active", refused |-> "unknown", frozen |-> "unknown"] \in Code
        BY DEF State
      <3> HIDE DEF Code
      <3> QED
        BY <2>2, <3>1 DEF Unanswered
    <2>3. ASSUME NEW view \in Views, Answered(c, view)
          PROVE  \E code \in Code :
                     cameraCode' = [cameraCode EXCEPT ![c] = code] /\ last' = [last EXCEPT ![c] = view]
      <3> DEFINE frozen == IF last[c] = "none" THEN "unknown" ELSE ActiveIf(last[c] = view)
                 code == [unreachable |-> "ok", refused |-> "ok", frozen |-> frozen]
      <3>1. code \in Code
        BY DEF State, ActiveIf
      <3>2. cameraCode' = [cameraCode EXCEPT ![c] = code] /\ last' = [last EXCEPT ![c] = view]
        BY <2>3 DEF Answered
      <3> HIDE DEF code, Code
      <3> QED
        BY <3>1, <3>2
    <2> HIDE DEF Code
    <2> QED
      BY <2>1, <2>2, <2>3
  <1> HIDE DEF Code
  <1>2. cameraCode' \in [Cameras -> Code]
    BY <1>0, <1>1
  <1>3. last' \in [Cameras -> Views \cup {"none"}]
    BY <1>0, <1>1
  <1> QED
    BY <1>2, <1>3 DEF Code

\* A picture of an event is taken once, and is no longer one to take.
LEMMA LanePictures == StoreInv /\ LaneInv /\ TakePicture => LaneInv'
  <1> SUFFICES ASSUME StoreInv, LaneInv, TakePicture PROVE LaneInv'
    OBVIOUS
  <1>1. PICK e \in 0 .. MaxEvents, c \in Cameras :
          /\ <<e, c>> \in Waiting
          /\ Asked(e, c)
          /\ \/ /\ \/ Unanswered(c, "ok", "active")
                   \/ Unanswered(c, "active", "unknown")
                   \/ \E view \in Views, size \in Sizes : Answered(c, view) /\ Write(size)
                /\ todo' = [todo EXCEPT !.shots = todo.shots \ {<<e, c>>}]
                /\ UNCHANGED cutOff
             \/ Raised
    BY DEF TakePicture, Left
  <1>2. /\ up /\ up' = up
        /\ UNCHANGED <<happened, before, following, place, missed, first, seen, passed, laneCode,
                       storeCode, restarted>>
    BY <1>1 DEF TakePicture, Ready, Asked, lane, followed, indexed
  <1>3. Page' = Page /\ LaneCursor' = LaneCursor /\ Reset' = Reset
    BY <1>2 DEF Page, Held, Since, LaneCursor, Reset
  <1>4. <<e, c>> \in todo.shots
    BY <1>1 DEF Waiting, OfEvents
  <1>5. e # 0 => e \in Events
    BY LaneNumbers DEF LaneInv, Events
  <1>6. shown' \in [Events -> [Cameras -> Nat]]
    BY <1>1, <1>5 DEF Asked, LaneInv, LaneTypeOK
  <1>7. \A f \in Events, d \in Cameras :
           /\ shown[f][d] \in Nat
           /\ shown'[f][d] = IF f = e /\ d = c THEN shown[f][d] + 1 ELSE shown[f][d]
    <2>1. shown \in [Events -> [Cameras -> Nat]] /\ 0 \notin Events
      BY DEF LaneInv, LaneTypeOK, Events
    <2> QED
      BY <1>1, <1>5, <2>1 DEF Asked
  <1>8. e # 0 => Pending(e, c) /\ Unasked(e, c) /\ todo.adopt # {} /\ e <= Len(happened) /\ e \in Page
    BY <1>4, <1>5 DEF LaneInv, AskedOnce, Pending
  <1>9. cutOff \subseteq cutOff' /\ cutOff' \subseteq Events
    <2>1. Page \subseteq Events
      BY LaneNumbers DEF LaneInv, Page, Held, Events
    <2>2. CASE Raised
      BY <1>3, <2>1, <2>2 DEF Raised, LaneInv, LaneTypeOK
    <2>3. CASE UNCHANGED cutOff
      BY <2>3 DEF LaneInv, LaneTypeOK
    <2> QED
      BY <1>1, <2>2, <2>3
  <1>10. /\ todo' \in Todos
         /\ todo'.shots \subseteq todo.shots \ {<<e, c>>}
         /\ todo'.adopt # {} => /\ todo'.shots = todo.shots \ {<<e, c>>}
                                /\ todo'.adopt = todo.adopt /\ todo'.lane = todo.lane
    <2>0. todo \in Todos
      BY LaneNumbers DEF LaneInv
    <2>1. CASE todo' = [todo EXCEPT !.shots = todo.shots \ {<<e, c>>}]
      BY <2>0, <2>1 DEF Todos
    <2>2. CASE Raised
      BY <2>2, UnaskedTypes DEF Raised
    <2> QED
      BY <1>1, <2>1, <2>2
  <1>11. \A f \in Events, d \in Cameras : Unasked(f, d) /\ ~(f = e /\ d = c) => Unasked(f, d)'
    BY <1>7, <1>9 DEF Unasked
  <1>12. \A f \in Events, d \in Cameras : Pending(f, d)' => Pending(f, d) /\ ~(f = e /\ d = c)
    BY <1>10 DEF Pending
  <1>13. \A f \in Events, d \in Cameras : f = e /\ d = c => e # 0
    BY DEF Events
  <1>14. LaneTypeOK'
    <2>1. /\ cameraCode' \in [Cameras -> [unreachable : State, refused : State, frozen : State]]
          /\ last' \in [Cameras -> Views \cup {"none"}]
      <3>1. CASE Raised
        BY <3>1 DEF Raised, LaneInv, LaneTypeOK
      <3>2. CASE ~Raised
        BY <1>1, <3>2, CameraTypes DEF LaneInv
      <3> QED
        BY <3>1, <3>2
    <2> QED
      BY <1>2, <1>6, <1>9, <1>10, <2>1 DEF LaneInv, LaneTypeOK, Todos
  <1>15. AskedOnce'
    <2>1. ASSUME NEW f \in Events, NEW d \in Cameras, following, f > seen,
                 todo'.adopt = {} \/ f \notin Page
          PROVE  Unasked(f, d)'
      <3>1. CASE todo'.adopt # {} \/ todo.adopt = {} \/ f \notin Page
        <4>1. Unasked(f, d)
          BY <1>10, <2>1, <3>1 DEF LaneInv, AskedOnce
        <4>2. ~(f = e /\ d = c)
          BY <1>8, <1>10, <1>13, <2>1, <3>1
        <4> QED
          BY <1>11, <4>1, <4>2
      <3>2. CASE todo'.adopt = {} /\ todo.adopt # {} /\ f \in Page
        <4>1. Raised
          BY <1>1, <3>2, LaneNumbers DEF LaneInv, Todos
        <4>2. shown'[f][d] > 0 => f \in cutOff'
          BY <1>3, <3>2, <4>1 DEF Raised
        <4>3. shown'[f][d] \in Nat
          BY <1>6
        <4> QED
          BY <4>2, <4>3 DEF Unasked
      <3> QED
        BY <3>1, <3>2
    <2>2. ASSUME NEW f \in Events, NEW d \in Cameras, Pending(f, d)'
          PROVE  Unasked(f, d)' /\ todo'.adopt # {} /\ f \in Page /\ f <= Len(happened)
      <3>1. Pending(f, d) /\ ~(f = e /\ d = c)
        BY <1>12, <2>2
      <3>2. Unasked(f, d) /\ todo.adopt # {} /\ f \in Page /\ f <= Len(happened)
        BY <3>1 DEF LaneInv, AskedOnce
      <3>3. ~Raised
        BY <2>2, UnaskedTypes DEF Raised, Pending
      <3>4. todo'.adopt = todo.adopt
        BY <1>1, <3>3, LaneNumbers DEF LaneInv, Todos
      <3> QED
        BY <1>11, <3>1, <3>2, <3>4
    <2>3. \A f \in Events, d \in Cameras : f > Len(happened) => shown'[f][d] = 0
      <3> SUFFICES ASSUME NEW f \in Events, NEW d \in Cameras, f > Len(happened)
                   PROVE  shown'[f][d] = 0
        OBVIOUS
      <3>1. shown[f][d] = 0
        BY DEF LaneInv, AskedOnce
      <3>2. ~(f = e /\ d = c)
        BY <1>8, <1>13, LaneNumbers DEF LaneInv, Events
      <3> QED
        BY <1>7, <3>1, <3>2
    <2>4. /\ following => seen <= before + place
          /\ todo'.adopt # {} => todo'.adopt = {LaneCursor} /\ following /\ ~todo'.lane /\ ~Reset
      BY <1>10 DEF LaneInv, AskedOnce
    <2> QED
      BY <1>2, <1>3, <2>1, <2>2, <2>3, <2>4 DEF AskedOnce
  <1>16. AnsweredFor'
    <2>1. first + 1 .. seen \subseteq Events
      BY LaneNumbers DEF LaneInv, Events
    <2>2. \A f \in Events, d \in Cameras : shown[f][d] >= 1 => shown'[f][d] >= 1
      BY <1>7
    <2>3. \A f \in first + 1 .. seen : f \in passed \/ Shown(f)'
      BY <1>2, <2>1, <2>2 DEF LaneInv, AnsweredFor, Shown
    <2>4. ASSUME todo'.adopt # {}, NEW f \in Page, happened[f], NEW d \in Cameras
          PROVE  shown'[f][d] >= 1 \/ Pending(f, d)'
      <3>1. f \in Events
        BY LaneNumbers DEF LaneInv, Page, Held, Events
      <3>2. shown[f][d] >= 1 \/ Pending(f, d)
        BY <1>10, <2>4 DEF LaneInv, AnsweredFor
      <3>3. CASE f = e /\ d = c
        BY <1>7, <3>1, <3>3
      <3>4. CASE ~(f = e /\ d = c)
        BY <1>7, <1>10, <2>4, <3>1, <3>2, <3>4 DEF Pending
      <3> QED
        BY <3>3, <3>4
    <2> QED
      BY <1>2, <1>3, <2>3, <2>4 DEF LaneInv, AnsweredFor
  <1>17. NoEventTwice'
    <2> SUFFICES ASSUME NEW f \in Events, NEW d \in Cameras, shown'[f][d] > 1 PROVE f \in cutOff'
      BY DEF NoEventTwice
    <2>1. CASE f = e /\ d = c
      BY <1>7, <1>8, <1>9, <1>13, <2>1 DEF Unasked
    <2>2. CASE ~(f = e /\ d = c)
      BY <1>7, <1>9, <2>2 DEF LaneInv, NoEventTwice
    <2> QED
      BY <2>1, <2>2
  <1>18. LossIsCounted'
    <2>1. \A f \in passed : f \in Events /\ f <= seen
      BY LaneNumbers DEF LaneInv, AnsweredFor, LaneTypeOK, Events
    <2>2. e # 0 => e > seen
      <3> SUFFICES ASSUME e # 0 PROVE e > seen
        OBVIOUS
      <3>1. e \in Page /\ following /\ seen <= before + place
        BY <1>8 DEF LaneInv, AskedOnce
      <3>2. e > before + place
        BY <3>1, LaneNumbers DEF Page, Held, Since, LaneInv
      <3> QED
        BY <3>1, <3>2, LaneNumbers DEF LaneInv
    <2>3. \A f \in passed, d \in Cameras : shown'[f][d] = shown[f][d]
      BY <1>7, <1>13, <2>1, <2>2, LaneNumbers DEF LaneInv, Events
    <2> QED
      BY <1>2, <1>9, <2>3 DEF LaneInv, LossIsCounted
  <1> QED
    BY <1>14, <1>15, <1>16, <1>17, <1>18 DEF LaneInv

LEMMA LaneStored == StoreInv /\ LaneInv /\ Stored => LaneInv'
  <1> SUFFICES ASSUME StoreInv, LaneInv, Stored PROVE LaneInv'
    OBVIOUS
  <1>1. /\ up' = up
        /\ UNCHANGED <<lane, todo, followed, laneCode, cameraCode, last, restarted, shown, cutOff>>
    BY DEF Stored, indexed
  <1>2. storeCode' \in [unwritable : State, overBudget : State, steppedBack : State,
                        incomplete : State]
    <2>1. storeCode \in [unwritable : State, overBudget : State, steppedBack : State,
                         incomplete : State]
      BY DEF LaneInv, LaneTypeOK
    <2>2. \/ storeCode' = [storeCode EXCEPT !.overBudget = "active"]
          \/ storeCode' = [storeCode EXCEPT !.unwritable = "active"]
          \/ storeCode' = [storeCode EXCEPT !.overBudget = "ok", !.unwritable = "ok",
                                            !.steppedBack = ActiveIf(steppedBack)]
      BY DEF Stored
    <2>3. "ok" \in State /\ "active" \in State /\ ActiveIf(steppedBack) \in State
      BY DEF State, ActiveIf
    <2> HIDE DEF State
    <2> QED
      BY <2>1, <2>2, <2>3
  <1>3. LaneTypeOK'
    BY <1>1, <1>2 DEF LaneInv, LaneTypeOK, lane, followed
  <1> QED
    BY <1>1, <1>3, LaneUntouched

LEMMA LaneApart == LaneInv /\ UNCHANGED <<lane, process>> /\ up' = up => LaneInv'
  <1> SUFFICES ASSUME LaneInv, UNCHANGED <<lane, process>>, up' = up PROVE LaneInv'
    OBVIOUS
  <1>1. UNCHANGED <<lane, todo, followed, laneCode, cameraCode, storeCode, last, restarted, shown, cutOff>>
    BY DEF process, codes
  <1>2. LaneTypeOK'
    BY <1>1 DEF LaneInv, LaneTypeOK, lane, followed
  <1> QED
    BY <1>1, <1>2, LaneUntouched

LEMMA LaneHappens == LaneInv /\ Happens => LaneInv'
  <1> SUFFICES ASSUME LaneInv, Happens PROVE LaneInv'
    OBVIOUS
  <1>1. PICK trigger \in BOOLEAN : happened' = Append(happened, trigger)
    BY DEF Happens
  <1>2. /\ AtLane /\ Len(happened) < MaxEvents /\ up' = up
        /\ UNCHANGED <<before, todo, following, place, missed, first, seen, passed, laneCode,
                       cameraCode, storeCode, last, restarted, shown, cutOff>>
    BY DEF Happens, process, codes, followed, storeVars, indexed
  <1>3. happened \in Seq(BOOLEAN)
    BY DEF LaneInv, LaneTypeOK
  <1>4. /\ happened' \in Seq(BOOLEAN) /\ Len(happened') = Len(happened) + 1
        /\ \A e \in 1 .. Len(happened) : happened'[e] = happened[e]
    BY <1>1, <1>3, AppendProperties
  <1>5. /\ Len(happened) \in Nat /\ before \in Nat /\ before <= Len(happened) /\ MaxEvents \in Nat
        /\ first \in Nat /\ seen \in Nat /\ first <= seen /\ seen <= Len(happened)
    BY LaneNumbers DEF LaneInv
  <1>6. LaneTypeOK'
    <2>1. before' \in 0 .. Len(happened') /\ first' \in 0 .. Len(happened')
          /\ seen' \in first' .. Len(happened') /\ Len(happened') <= MaxEvents
      BY <1>2, <1>4, <1>5
    <2> QED
      BY <1>2, <1>4, <2>1 DEF LaneInv, LaneTypeOK
  <1>7. AskedOnce'
    <2>1. \A e \in Events : e > Len(happened') => e > Len(happened)
      BY <1>4, <1>5 DEF Events
    <2>2. todo.adopt = {} /\ \A e \in Events, c \in Cameras : ~Pending(e, c)
      BY <1>2, LaneAt
    <2> QED
      BY <1>2, <2>1, <2>2 DEF LaneInv, AskedOnce, Pending, Unasked
  <1>8. AnsweredFor'
    <2>1. \A e \in first + 1 .. seen : happened'[e] = happened[e]
      BY <1>4, <1>5
    <2>2. todo.adopt = {}
      BY <1>2, LaneAt
    <2> QED
      BY <1>2, <2>1, <2>2 DEF LaneInv, AnsweredFor, Shown
  <1> QED
    BY <1>2, <1>6, <1>7, <1>8 DEF LaneInv, NoEventTwice, LossIsCounted

\* A lane that restarts begins its count again: none of its events is after the place
\* that was not before.
LEMMA LaneRestartsToo == LaneInv /\ LaneRestarts => LaneInv'
  <1> SUFFICES ASSUME LaneInv, LaneRestarts PROVE LaneInv'
    OBVIOUS
  <1>1. /\ AtLane /\ up' = up /\ before' = Len(happened) /\ restarted' = (restarted \/ following)
        /\ UNCHANGED <<happened, todo, following, place, missed, first, seen, passed, laneCode,
                       cameraCode, storeCode, last, shown, cutOff>>
    BY DEF LaneRestarts, codes, followed, indexed
  <1>2. Len(happened) \in Nat /\ place \in Nat /\ before \in Nat
    BY LaneNumbers DEF LaneInv
  <1>3. LaneTypeOK'
    <2>1. before' \in 0 .. Len(happened) /\ restarted' \in BOOLEAN
      BY <1>1, <1>2 DEF LaneInv, LaneTypeOK
    <2> QED
      BY <1>1, <2>1 DEF LaneInv, LaneTypeOK
  <1>4. AskedOnce'
    <2>1. seen <= before' + place
      BY <1>1, <1>2, LaneNumbers DEF LaneInv
    <2>2. todo.adopt = {} /\ \A e \in Events, c \in Cameras : ~Pending(e, c)
      BY <1>1, LaneAt
    <2> QED
      BY <1>1, <2>1, <2>2 DEF LaneInv, AskedOnce, Pending, Unasked
  <1>5. AnsweredFor'
    <2>1. ~restarted' => ~following
      BY <1>1
    <2>2. todo.adopt = {}
      BY <1>1, LaneAt
    <2> QED
      BY <1>1, <2>1, <2>2 DEF LaneInv, AnsweredFor, Shown
  <1>6. LossIsCounted'
    BY <1>1 DEF LaneInv, LossIsCounted
  <1> QED
    BY <1>1, <1>3, <1>4, <1>5, <1>6 DEF LaneInv, NoEventTwice

-------------------------------------------------------------------------------
(* The process: its store and its lane.                                     *)

CaptureInv == StoreInv /\ LaneInv

LEMMA StoreIsTheSameRun == StoreStep \/ Ticks \/ StepsBack => up' = up
  <1>1. Temporaries \/ RenameImage \/ RenameSidecar \/ File => up' = up
    BY DEF Temporaries, RenameImage, RenameSidecar, File, indexed
  <1>2. Purge \/ UnlinkFile \/ Forget \/ Fit => up' = up
    BY DEF Purge, UnlinkFile, Forget, Fit, indexed
  <1>3. Ticks \/ StepsBack => up' = up
    BY DEF Ticks, StepsBack, indexed
  <1> QED
    BY <1>1, <1>2, <1>3 DEF StoreStep

LEMMA TroubleIsBounded ==
    StoreInv /\ (Trouble \/ UNCHANGED troubles) => troubles' \in 0 .. MaxTroubles
  <1> SUFFICES ASSUME StoreInv, Trouble \/ UNCHANGED troubles PROVE troubles' \in 0 .. MaxTroubles
    OBVIOUS
  <1>1. troubles \in 0 .. MaxTroubles
    BY DEF StoreInv, StoreTypeOK
  <1> QED
    BY <1>1, ImageStoreAssumption DEF Trouble

LEMMA StorePictures == StoreInv /\ TakePicture => StoreInv'
  <1> SUFFICES ASSUME StoreInv, TakePicture PROVE StoreInv'
    OBVIOUS
  <1>1. up /\ call = NoCall /\ UNCHANGED <<disk, stray, indexed, now>>
    BY DEF TakePicture, Asked, Ready
  <1>2. troubles' \in 0 .. MaxTroubles
    BY TroubleIsBounded DEF TakePicture, Raised
  <1>3. CASE UNCHANGED <<made, call, outcome>>
    <2>1. UNCHANGED <<onDisk, indexed, call, outcome, now>>
      BY <1>1, <1>3 DEF onDisk
    <2> QED
      BY <1>2, <2>1, StoreApart DEF StoreInv, StoreTypeOK
  <1>4. CASE UNCHANGED troubles /\ \E size \in Sizes : Write(size)
    BY <1>1, <1>4, StoreWrites
  <1> QED
    BY <1>3, <1>4 DEF TakePicture, Unanswered, Raised

LEMMA CaptureInvInit == Init => CaptureInv
  BY StoreInvInit, LaneInvInit DEF Init, CaptureInv

LEMMA CaptureInvKept == CaptureInv /\ [Next]_vars => CaptureInv'
  <1> SUFFICES ASSUME StoreInv, LaneInv, [Next]_vars PROVE StoreInv' /\ LaneInv'
    BY DEF CaptureInv
  <1>1. CASE Start
    <2>1. StoreInv'
      BY <1>1, StoreStarts DEF Start
    <2> QED
      BY <1>1, <2>1, LaneStart
  <1>2. CASE Poll
    BY <1>2, StoreUntouched, LanePoll DEF Poll
  <1>3. CASE ReadClock
    BY <1>3, StoreUntouched, LaneReadClock DEF ReadClock
  <1>4. CASE PollLane
    BY <1>4, StoreUntouched, LanePollLane DEF PollLane
  <1>5. CASE AdoptCursor
    BY <1>5, StoreUntouched, LaneAdopts DEF AdoptCursor
  <1>6. CASE TakePicture
    BY <1>6, StorePictures, LanePictures
  <1>7. CASE Stored
    <2>1. UNCHANGED <<onDisk, indexed, call, now, troubles>> /\ outcome' = "none"
      BY <1>7 DEF Stored
    <2>2. StoreInv'
      BY <2>1, StoreApart DEF StoreInv, StoreTypeOK
    <2> QED
      BY <1>7, <2>2, LaneStored
  <1>8. CASE StoreStep /\ UNCHANGED <<lane, process>>
    BY <1>8, StoreStepKeeps, StoreIsTheSameRun, LaneApart
  <1>9. CASE ClockIsRead /\ (Ticks \/ StepsBack) /\ UNCHANGED <<lane, process>>
    BY <1>9, StoreClock, StoreIsTheSameRun, LaneApart
  <1>10. CASE Happens
    BY <1>10, StoreUntouched, LaneHappens DEF Happens
  <1>11. CASE LaneRestarts
    <2>1. UNCHANGED <<onDisk, indexed, call, outcome, now>> /\ troubles' \in 0 .. MaxTroubles
      BY <1>11, TroubleIsBounded DEF LaneRestarts
    <2>2. StoreInv'
      BY <2>1, StoreApart DEF StoreInv, StoreTypeOK
    <2> QED
      BY <1>11, <2>2, LaneRestartsToo
  <1>12. CASE Ends
    <2>1. StoreEnds /\ troubles' \in 0 .. MaxTroubles
      BY <1>12, TroubleIsBounded DEF Ends
    <2> QED
      BY <1>12, <2>1, StoreStops, LaneEnds
  <1>13. CASE UNCHANGED vars
    <2>1. UNCHANGED <<storeVars, lane, process>> /\ up' = up
      BY <1>13 DEF vars, storeVars, indexed
    <2> QED
      BY <2>1, StoreUntouched, LaneApart
  <1> QED
    BY <1>1, <1>2, <1>3, <1>4, <1>5, <1>6, <1>7, <1>8, <1>9, <1>10, <1>11, <1>12, <1>13 DEF Next

LEMMA CaptureInvAlways == Spec => []CaptureInv
  <1>1. Init => CaptureInv
    BY CaptureInvInit
  <1>2. CaptureInv /\ [Next]_vars => CaptureInv'
    BY CaptureInvKept
  <1> QED
    BY <1>1, <1>2, PTL DEF Spec

\* The types of the store, of the poll and of everything the process says, whatever the
\* cap, the sizes of the pictures and the lane's window.
THEOREM CaptureTypeCorrect == Spec => []TypeOK
  <1>1. CaptureInv => TypeOK
    BY DEF CaptureInv, StoreInv, LaneInv, TypeOK
  <1> QED
    BY <1>1, CaptureInvAlways, PTL

\* The files on the disk stay under [capture] max_bytes at every instant a kill could come,
\* between two steps of a write or of a purge (store.py write, purge, rebuild): but for a
\* record of which the disk refused a file.
THEOREM StoreStaysUnderItsCap == Spec => []CapHolds
  <1>1. CaptureInv => CapHolds
    BY DEF CaptureInv, StoreInv
  <1> QED
    BY <1>1, CaptureInvAlways, PTL

\* The pictures of an event are asked of a camera at most once (capture.py _poll_lane):
\* the cursor is adopted after them, a page is judged whole before any, and neither a
\* restart of the lane or of the process nor a page read again brings one back.  The one
\* way to be asked again is an answer that raises out of the poll before the cursor is
\* adopted (camera.py snapshot catches no http.client.HTTPException).
THEOREM EventsArePhotographedOnce == Spec => []NoEventTwice
  <1>1. CaptureInv => NoEventTwice
    BY DEF CaptureInv, LaneInv
  <1> QED
    BY <1>1, CaptureInvAlways, PTL

\* Between two polls no event up to the adopted cursor is left over (capture.py poll,
\* capture): every camera was asked for each that is to be photographed, or it is among
\* those passed over.  A page an exception ended has not moved the cursor.
THEOREM NoEventIsLeftOver == Spec => []EventsAreAnsweredFor
  <1>1. CaptureInv => EventsAreAnsweredFor
    <2> SUFFICES ASSUME CaptureInv, todo = NothingToDo, NEW e \in first + 1 .. seen, happened[e],
                        e \notin passed, NEW c \in Cameras
                 PROVE  shown[e][c] >= 1
      BY DEF EventsAreAnsweredFor, BetweenPolls
    <2> QED
      BY DEF CaptureInv, LaneInv, AnsweredFor, Shown
  <1> QED
    BY <1>1, CaptureInvAlways, PTL

\* The count of lane_events_missed is exact (capture.py _poll_lane): as long as the lane is
\* the run whose place was taken, it is how many events were passed over; and whatever was
\* passed over was photographed by nobody, but for a page that an exception ended.
THEOREM LossIsCountedToTheEvent == Spec => []LossIsCounted
  <1>1. CaptureInv => LossIsCounted
    BY DEF CaptureInv, LaneInv
  <1> QED
    BY <1>1, CaptureInvAlways, PTL
===============================================================================
