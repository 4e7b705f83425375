------------------------------ MODULE Capture --------------------------------
(***************************************************************************)
(* The capture process (capture.py): it follows a lane's events by cursor, *)
(* photographs each arrival and each vend with every camera, takes a       *)
(* picture on a timer as well, and keeps the pictures in its image store.  *)
(*                                                                         *)
(* One thread polls.  `todo' is what is left of its poll, and the store's  *)
(* call comes before it, so that the lane, the cameras, the disk, the      *)
(* clock and a kill come in anywhere.  A lane event is known by the order  *)
(* it happened in; a lane numbers its own from one after every start, and  *)
(* serves the last `Window' of them.                                       *)
(***************************************************************************)
EXTENDS ImageStore

CONSTANTS
    NumCameras,     \* [cameras], photographed in the order they are declared
    Views,          \* what a camera can be looking at
    MaxEvents,      \* events of the lane
    Window          \* how many of them it still serves

Cameras == 1 .. NumCameras
Events == 1 .. MaxEvents

ASSUME CaptureAssumption ==
    /\ NumCameras \in Nat /\ MaxEvents \in Nat
    /\ Window \in Nat \ {0}
    /\ "none" \notin Views

VARIABLES
    \* the lane
    happened,       \* [event -> whether it is one that is photographed], so far
    before,         \* events of the lane's earlier runs
    \* the process
    todo,           \* what is left of the poll
    following,      \* whether it has taken the lane's place: _cursor is not None
    place,          \* _cursor
    missed,         \* _lane_events_missed
    laneCode,       \* the two codes about the lane's pages; whether it answers is left out
    cameraCode,     \* [camera -> the three codes about it]
    storeCode,      \* the codes about the store
    last,           \* [camera -> the digest of its last picture]
    \* history
    first, seen,    \* the events the process has answered for: after first, up to seen
    passed,         \* those of them it passed over
    restarted,      \* whether the lane was restarted under a process that follows it
    shown,          \* [event -> how often each camera was asked to photograph it]
    cutOff          \* those a camera was asked about on a page that an exception ended

lane == <<happened, before>>
followed == <<following, place, missed, first, seen, passed>>
codes == <<laneCode, cameraCode, storeCode>>
process == <<todo, followed, codes, last, restarted, shown, cutOff>>
vars == <<storeVars, lane, process>>

\* What a poll still has to do, in this order: read the clock's code, read the lane, take
\* these pictures, adopt the lane's cursor, take the timer's.  A picture is an event and
\* a camera; 0 is the timer, and no event.
NothingToDo == [clock |-> FALSE, lane |-> FALSE, shots |-> {}, adopt |-> {}]
Ready == up /\ call = NoCall /\ outcome = "none"
BetweenPolls == Ready /\ todo = NothingToDo
AtLane == Ready /\ ~todo.clock /\ todo.lane

ActiveIf(condition) == IF condition THEN "active" ELSE "ok"

\* Every code of every subject is there from the first answer on.
LaneUnasked == [unsupported |-> "unknown", backlog |-> "unknown"]
CamerasUnasked ==
    [c \in Cameras |-> [unreachable |-> "unknown", refused |-> "unknown", frozen |-> "unknown"]]
NoPictureYet == [c \in Cameras |-> "none"]

Init ==
    /\ StoreInit
    /\ happened = <<>> /\ before = 0
    /\ todo = NothingToDo
    /\ following = FALSE /\ place = 0 /\ missed = 0
    /\ first = 0 /\ seen = 0 /\ passed = {} /\ restarted = FALSE
    /\ laneCode = LaneUnasked /\ cameraCode = CamerasUnasked /\ last = NoPictureYet
    /\ storeCode = [unwritable |-> "unknown", overBudget |-> "unknown",
                    steppedBack |-> "unknown", incomplete |-> "unknown"]
    /\ shown = [e \in Events |-> [c \in Cameras |-> 0]] /\ cutOff = {}

KnowsNothing ==
    /\ following' = FALSE /\ place' = 0 /\ missed' = 0
    /\ first' = 0 /\ seen' = 0 /\ passed' = {} /\ restarted' = FALSE
    /\ laneCode' = LaneUnasked /\ cameraCode' = CamerasUnasked /\ last' = NoPictureYet

(***************************************************************************)
(* start() and poll()                                                      *)
(***************************************************************************)
\* The store first, and its rule applied before anything is captured; then the
\* lane's place is taken.
Start ==
    /\ ~up
    /\ Rebuilt
    /\ call' = Calling("purge", 0)
    /\ todo' = [NothingToDo EXCEPT !.clock = TRUE, !.lane = TRUE]
    /\ KnowsNothing
    /\ storeCode' = [unwritable |-> "ok", overBudget |-> "ok", steppedBack |-> "unknown",
                     incomplete |-> ActiveIf(incomplete')]
    /\ UNCHANGED <<outcome, now, lane, shown, cutOff>>

\* Whatever is due: the lane's events first, then the timer's pictures.
Poll ==
    /\ BetweenPolls
    /\ \E asks \in BOOLEAN, cameras \in SUBSET Cameras :
          /\ asks \/ cameras # {}
          /\ todo' = [NothingToDo EXCEPT !.lane = asks, !.shots = {0} \X cameras]
    /\ UNCHANGED <<storeVars, lane, followed, codes, last, restarted, shown, cutOff>>

\* clock_stepped_back, as the last purge measured it.
ClockRead == storeCode' = [storeCode EXCEPT !.steppedBack = ActiveIf(steppedBack)]

ReadClock ==
    /\ Ready /\ todo.clock
    /\ ClockRead
    /\ todo' = [todo EXCEPT !.clock = FALSE]
    /\ UNCHANGED <<storeVars, lane, followed, laneCode, cameraCode, last, restarted, shown, cutOff>>

(***************************************************************************)
(* _poll_lane(): one read of the lane's events, and every ending of it.    *)
(***************************************************************************)
\* What the lane serves: its cursor, the events of this run it still holds, whether
\* the reader's place is out of them, and those after that place.
LaneCursor == Len(happened) - before
Held == {e \in 1 .. Len(happened) : e > before /\ e > Len(happened) - Window}
Since == IF following THEN place ELSE 0
Reset == Since > LaneCursor \/ (Held # {} /\ \A e \in Held : before + Since + 1 < e)
Page == {e \in Held : e - before > Since}

Say(unsupported, backlog) == laneCode' = [unsupported |-> unsupported, backlog |-> backlog]

\* The lane was read, and these are the pictures that came of it.
LaneRead(shots, cursors) ==
    todo' = [todo EXCEPT !.lane = FALSE, !.shots = @ \cup shots, !.adopt = cursors]

\* Nothing is adopted from a page that is refused, and the next poll asks again.
RefusePage ==
    /\ Say("active", laneCode.backlog)
    /\ LaneRead({}, {})
    /\ UNCHANGED followed

\* It refused us, or is unreachable; or there is no cursor, or an event it cannot read.  An
\* answer that is cut, or is not HTTP, raises what nothing here catches: it ends the poll,
\* and the timer's pictures with it.  (Out of start() it ends the process: `Ends'.)
NoPage ==
    \/ UNCHANGED <<laneCode, followed>> /\ LaneRead({}, {})
    \/ UNCHANGED <<laneCode, followed>> /\ todo' = NothingToDo
    \/ RefusePage

\* The first page it can read: the cars of the events on it have gone.
TakeItsPlace ==
    /\ ~following
    /\ following' = TRUE /\ place' = LaneCursor
    /\ first' = Len(happened) /\ seen' = Len(happened)
    /\ Say("ok", "ok")
    /\ LaneRead({}, {})
    /\ UNCHANGED <<missed, passed>>

\* (mutant: the event at the cursor is not one of them)
PassedOverButOne == IF LaneCursor > place THEN LaneCursor - place - 1 ELSE 0

PassedOver == IF LaneCursor > place THEN LaneCursor - place ELSE 0

\* The lane says that the place it was asked about is not one of its window.
PlaceLost ==
    /\ following /\ Reset
    /\ missed' = missed + PassedOver
    /\ place' = LaneCursor
    /\ passed' = passed \cup (seen + 1 .. Len(happened)) /\ seen' = Len(happened)
    /\ Say("ok", "active")
    /\ LaneRead({}, {})
    /\ UNCHANGED <<following, first>>

\* (mutant: the place is where the lane says it is)
WentBackAndAdopted ==
    /\ following
    /\ place' \in {behind \in 0 .. place : behind < place}
    /\ Say("ok", "ok")
    /\ LaneRead({}, {})
    /\ UNCHANGED <<following, missed, first, seen, passed>>

\* A lane that answers a cursor behind, and does not say `reset', breaks its contract.
WentBack ==
    /\ following
    /\ \E behind \in 0 .. place : behind < place
    /\ RefusePage

\* Every trigger is judged before any camera is asked, and every camera is asked
\* before the cursor is adopted.
Follow ==
    /\ following /\ ~Reset
    /\ LaneRead({e \in Page : happened[e]} \X Cameras, {LaneCursor})
    /\ Say("ok", "ok")
    /\ UNCHANGED followed

PollLane ==
    /\ AtLane
    /\ NoPage \/ TakeItsPlace \/ PlaceLost \/ WentBack \/ Follow
    /\ UNCHANGED <<storeVars, lane, cameraCode, storeCode, last, restarted, shown, cutOff>>

\* The pictures of events, then the cursor, then the timer's pictures.
OfEvents == {shot \in todo.shots : shot[1] # 0}
Waiting == IF OfEvents # {} THEN OfEvents ELSE IF todo.adopt = {} THEN todo.shots ELSE {}

AdoptCursor ==
    /\ Ready /\ ~todo.clock /\ ~todo.lane /\ OfEvents = {}
    /\ place' \in todo.adopt
    /\ passed' = passed \cup ((seen + 1 .. Len(happened)) \ Page) /\ seen' = Len(happened)
    /\ todo' = [todo EXCEPT !.adopt = {}]
    /\ UNCHANGED <<storeVars, lane, following, missed, first, codes, last, restarted, shown,
                   cutOff>>

(***************************************************************************)
(* capture(): one picture by one camera, and every ending of it.           *)
(***************************************************************************)
Answered(c, view) ==
    /\ cameraCode' = [cameraCode EXCEPT ![c] =
          [unreachable |-> "ok", refused |-> "ok",
           frozen |-> IF last[c] = "none" THEN "unknown" ELSE ActiveIf(last[c] = view)]]
    /\ last' = [last EXCEPT ![c] = view]

Unanswered(c, unreachable, refused) ==
    /\ cameraCode' = [cameraCode EXCEPT ![c] =
          [unreachable |-> unreachable, refused |-> refused, frozen |-> "unknown"]]
    /\ last' = [last EXCEPT ![c] = "none"]
    /\ UNCHANGED <<made, call, outcome>>

\* What is left when this picture is taken, or is not.
\* (mutant: what is left of the page is given up when a camera does not answer)
LeftOrNothing(shot) == IF last'[shot[2]] = "none" THEN {} ELSE todo.shots \ {shot}

Left(shot) == todo.shots \ {shot}

\* In the order of the events, and for each in the order the cameras are declared.
ComesFirst(e, c) ==
    \A shot \in Waiting : e < shot[1] \/ (e = shot[1] /\ c <= shot[2])

\* The camera is asked, and the picture is one less to take.
Asked(e, c) ==
    /\ shown' = IF e = 0 THEN shown ELSE [shown EXCEPT ![e][c] = @ + 1]
    /\ UNCHANGED <<disk, stray, indexed, now, lane, followed, laneCode, storeCode, restarted>>

\* An answer that is cut in its body, or is not HTTP, raises what neither the camera nor
\* the poll catches.  It ends the poll where it stands: a page whose cursor was not
\* adopted is the next poll's again.
Raised ==
    /\ Trouble
    /\ todo' = NothingToDo
    /\ cutOff' = IF todo.adopt = {} THEN cutOff
                 ELSE cutOff \cup {e \in Page : \E c \in Cameras : shown'[e][c] > 0}
    /\ UNCHANGED <<made, call, outcome, cameraCode, last>>

TakePicture ==
    /\ Ready /\ ~todo.clock /\ ~todo.lane
    /\ \E e \in 0 .. MaxEvents, c \in Cameras :
          /\ <<e, c>> \in Waiting /\ ComesFirst(e, c)
          /\ Asked(e, c)
          /\ \/ /\ \/ Unanswered(c, "ok", "active")
                   \/ Unanswered(c, "active", "unknown")
                   \/ \E view \in Views, size \in Sizes : Answered(c, view) /\ Write(size)
                /\ todo' = [todo EXCEPT !.shots = Left(<<e, c>>)]
                /\ UNCHANGED <<troubles, cutOff>>
             \/ Raised

\* What the write came to.
Stored ==
    /\ up /\ call = NoCall /\ outcome # "none"
    /\ storeCode' =
          CASE outcome = "over_budget" -> [storeCode EXCEPT !.overBudget = "active"]
            [] outcome = "unwritable"  -> [storeCode EXCEPT !.unwritable = "active"]
            [] OTHER -> [storeCode EXCEPT !.overBudget = "ok", !.unwritable = "ok",
                                          !.steppedBack = ActiveIf(steppedBack)]
    /\ outcome' = "none"
    /\ UNCHANGED <<onDisk, indexed, call, now, troubles, lane, todo, followed, laneCode,
                   cameraCode, last, restarted, shown, cutOff>>

(***************************************************************************)
(* The lane, and how a process ends.                                       *)
(***************************************************************************)
\* Cars come whenever they like; it is told apart only where the lane is read.
Happens ==
    /\ AtLane
    /\ Len(happened) < MaxEvents
    /\ \E trigger \in BOOLEAN : happened' = Append(happened, trigger)
    /\ UNCHANGED <<storeVars, before, process>>

LaneRestarts ==
    /\ AtLane
    /\ Trouble
    /\ before' = Len(happened)
    /\ restarted' = (restarted \/ following)
    /\ UNCHANGED <<onDisk, indexed, call, outcome, now, happened, todo, followed, codes, last,
                   shown, cutOff>>

\* Stopped between two polls, or killed anywhere.
Ends ==
    /\ IF BetweenPolls THEN UNCHANGED troubles ELSE Trouble
    /\ StoreEnds
    /\ todo' = NothingToDo
    /\ KnowsNothing
    /\ UNCHANGED <<lane, storeCode, shown, cutOff>>

\* Time passes whenever it likes; it is told apart only where the clock is read.
ClockIsRead == At("purge") \/ (Ready /\ ~todo.clock /\ ~todo.lane /\ Waiting # {})

Next ==
    \/ Start \/ Poll \/ ReadClock \/ PollLane \/ AdoptCursor \/ TakePicture \/ Stored
    \/ StoreStep /\ UNCHANGED <<lane, process>>
    \/ ClockIsRead /\ (Ticks \/ StepsBack) /\ UNCHANGED <<lane, process>>
    \/ Happens \/ LaneRestarts \/ Ends

Spec == Init /\ [][Next]_vars

(***************************************************************************)
(* Properties                                                              *)
(***************************************************************************)
State == {"unknown", "ok", "active"}
LaneTypeOK ==
    /\ happened \in Seq(BOOLEAN) /\ Len(happened) <= MaxEvents
    /\ before \in 0 .. Len(happened)
    /\ todo \in [clock : BOOLEAN, lane : BOOLEAN,
                 shots : SUBSET ((0 .. MaxEvents) \X Cameras), adopt : SUBSET Nat]
    /\ following \in BOOLEAN /\ place \in Nat /\ missed \in Nat
    /\ laneCode \in [unsupported : State, backlog : State]
    /\ cameraCode \in [Cameras -> [unreachable : State, refused : State, frozen : State]]
    /\ storeCode \in [unwritable : State, overBudget : State, steppedBack : State,
                       incomplete : State]
    /\ last \in [Cameras -> Views \cup {"none"}]
    /\ first \in 0 .. Len(happened) /\ seen \in first .. Len(happened)
    /\ passed \subseteq Events /\ restarted \in BOOLEAN
    /\ shown \in [Events -> [Cameras -> Nat]] /\ cutOff \subseteq Events

\* The type invariant of the process and its store.
TypeOK == StoreTypeOK /\ LaneTypeOK

\* No car is photographed twice for one event: not by a page read again, not after a
\* restart of the lane or of this process, not by a lane that goes back unsaid.  But one
\* is, when an answer that raises ended the page before its cursor was adopted.
NoEventTwice == \A e \in Events, c \in Cameras : shown[e][c] > 1 => e \in cutOff

\* Between two polls every event up to the adopted cursor, since this process took the
\* lane's place, is answered for: one to photograph was asked of every camera, whatever
\* became of the others' pictures and of earlier polls of its page, or was passed over.
EventsAreAnsweredFor ==
    BetweenPolls =>
        \A e \in first + 1 .. seen :
            happened[e] => e \in passed \/ \A c \in Cameras : shown[e][c] >= 1

\* What was passed over is counted, to the event, while the lane is the same run; and
\* none of it was photographed, but on a page that an exception ended.
LossIsCounted ==
    /\ ~restarted => missed = Cardinality(passed)
    /\ \A e \in passed, c \in Cameras : shown[e][c] > 0 => e \in cutOff

=============================================================================
