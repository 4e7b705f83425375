------------------------------- MODULE Screen --------------------------------
(***************************************************************************)
(* The screen of one lane (agent.py, display.py, fee.py, board.py): what   *)
(* the lane publishes -- a fee, its closing, a board of items -- and the   *)
(* ticket that is up want it, one at a time; the screen changes its mode,  *)
(* cannot be asked or refuses a write, and the process stops and starts.   *)
(*                                                                         *)
(* A pass of the agent's loop is cut where the screen may change between   *)
(* two writes: `at' says where it is.  The driver's presses and the lane's *)
(* decisions, that issue and end tickets, are Tickets'; here a ticket is   *)
(* its number.                                                             *)
(***************************************************************************)
EXTENDS Naturals, Sequences, SequencesExt

CONSTANTS
    Fees,           \* the fees the lane may publish
    Boards,         \* the boards, sequences of items
    Turn,           \* BOARD_ITEM_SECONDS, in ticks
    MaxTickets,     \* tickets issued, in all
    MaxNews,        \* changes of what the lane publishes
    MaxTroubles     \* troubles of the screen, passes left half way, and ends of the process

ASSUME ScreenAssumption ==
    /\ Turn \in Nat \ {0} /\ MaxTickets \in Nat /\ MaxNews \in Nat /\ MaxTroubles \in Nat
    /\ "none" \notin Fees
    /\ <<>> \in Boards /\ \A b \in Boards : b \in Seq(ToSet(b))

VARIABLES
    news,
    \* the screen: what it answers, what it is, what is on it
    health, mode, shown, troubles,
    \* the agent: where its pass is, what it read of the lane
    at, exiting, fee, closed, board,
    index, up, age,     \* Rotation: the item, whether it is up, for how long
    pending, issued,    \* the ticket that is up, 0 for none
    drawn,              \* _lane_drawn
    geometry,           \* as last read
    code,               \* display_unavailable
    \* history
    unseen,     \* the screen had a trouble since it was last asked what it is
    raised,     \* an exception left a pass before the lane was painted, or a ticket gone
                \* with its code still up: "pass" till the next is painted, "ticket" till
                \* anything is drawn
    ticked,     \* the clock ran since the last pass: a pass is shorter than a turn
    seen        \* [the item it last showed, for how long, whether a pass has left
                \*  something else there, the board it is of while nothing changed]

screenVars == <<health, mode, shown, troubles>>
readVars == <<fee, closed, board>>
rotation == <<index, up, age>>
ticketVars == <<pending, issued>>
drawVars == <<shown, drawn, geometry, code, unseen, raised>>
vars == <<news, screenVars, at, exiting, readVars, rotation, ticketVars, drawn, geometry, code,
          unseen, raised, ticked, seen>>

Frame(kind, about) == [kind |-> kind, about |-> about]
Black == Frame("black", "none")
Noise == Frame("noise", "none")
Impossible == Frame("impossible", "none")

Modes == {"large", "small", "tiny"}
\* What the lane may publish: open with nothing to show, and the rest.  A version
\* this build does not read is read as the first.
Nothing == [fee |-> "none", closed |-> FALSE, board |-> <<>>]
Publications == [fee : Fees \cup {"none"}, closed : BOOLEAN, board : Boards]

NothingSeen == [item |-> "none", for |-> 0, lost |-> FALSE, of |-> <<>>]

\* A process that starts: every screen read, and blanked (open_display).
Fresh ==
    /\ at' = "handle" /\ exiting' = FALSE /\ ticked' = FALSE
    /\ fee' = "none" /\ closed' = FALSE /\ board' = <<>>
    /\ index' = 1 /\ up' = FALSE /\ age' = 0
    /\ pending' = 0
    /\ shown' = Black /\ drawn' = FALSE /\ geometry' = mode /\ code' = "ok" /\ unseen' = FALSE
    /\ raised' = "no"

Init ==
    /\ news = 0
    /\ health = "well" /\ mode \in Modes /\ shown = Black /\ troubles = 0
    /\ at = "handle" /\ exiting = FALSE /\ ticked = FALSE
    /\ fee = "none" /\ closed = FALSE /\ board = <<>>
    /\ index = 1 /\ up = FALSE /\ age = 0
    /\ pending = 0 /\ issued = 0
    /\ drawn = FALSE /\ geometry = mode /\ code = "ok" /\ unseen = FALSE /\ raised = "no"
    /\ seen = NothingSeen

----------------------------------------------------------------------------
(* Which frame, and what comes of drawing it.                               *)

\* frame_wanted: the ticket, the fee, the closing, the board, else black.
Wanted(ticketUp) ==
    IF ticketUp THEN "ticket" ELSE IF fee # "none" THEN "fee"
    ELSE IF closed THEN "closed" ELSE IF board # <<>> THEN "board" ELSE "black"

\* fee_frame_for, closed_frame_for: where the figure or the message does not fit
\* there is a sentence that does, or no line at all; board_frame_for: where the
\* item does not fit its turn is black.
FrameFor(wanted, item, m) ==
    CASE wanted = "fee" /\ m = "large" -> Frame("fee", fee)
      [] wanted = "fee" /\ m = "small" -> Frame("not_shown", fee)
      [] wanted = "closed" /\ m = "large" -> Frame("closed", "message")
      [] wanted = "closed" /\ m = "small" -> Frame("closed", "sentence")
      [] wanted = "board" /\ m = "large" -> Frame("item", board[item])
      [] wanted = "black" \/ (wanted = "board" /\ m # "large") -> Black
      [] wanted = "ticket" -> Frame("ticket", pending)
      [] OTHER -> Impossible

\* show: the frame laid out for the geometry last read, on the screen there is.
On(frame, laidOutFor) == IF laidOutFor = mode THEN frame ELSE Noise

\* Mutation of DrawLane: the geometry is that of the start.
DrawLaneAsItWas(wanted, item) ==
    LET frame == FrameFor(wanted, item, geometry) IN
    /\ drawn' = TRUE /\ raised' = "no"
    /\ code' = IF frame = Impossible \/ health = "refusing" THEN "active" ELSE "ok"
    /\ unseen' = FALSE /\ UNCHANGED geometry
    /\ shown' = IF health = "refusing" THEN shown
                ELSE IF frame = Impossible THEN Black ELSE On(frame, geometry)

\* _show_lane_frame: the screen asked what it is, the frame drawn; one that cannot
\* be is taken for a screen that is blanked.
DrawLane(wanted, item) ==
    LET frame == FrameFor(wanted, item, mode) IN
    /\ drawn' = TRUE /\ raised' = "no"
    /\ IF health = "mute"
       THEN code' = "active" /\ UNCHANGED <<shown, geometry, unseen>>
       ELSE /\ geometry' = mode /\ unseen' = FALSE
            /\ code' = IF frame = Impossible \/ health = "refusing" THEN "active" ELSE "ok"
            /\ shown' = IF health = "refusing" THEN shown
                        ELSE IF frame = Impossible THEN Black ELSE frame

\* _blank_screens: once, at the geometry last read.
BlankScreens ==
    /\ drawn' = FALSE /\ raised' = "no"
    /\ IF health = "refusing" THEN code' = "active" /\ UNCHANGED shown
       ELSE shown' = On(Black, geometry) /\ UNCHANGED code
    /\ UNCHANGED <<geometry, unseen>>

----------------------------------------------------------------------------
(* The board's turns (Rotation).                                            *)

IndexOf(item, items) == CHOOSE i \in 1 .. Len(items) : items[i] = item /\ \A j \in 1 .. i - 1 : items[j] # item

\* update: the item that is up keeps its turn if it is still published.
Update(items) ==
    IF items = board THEN UNCHANGED rotation
    ELSE IF items = <<>> THEN index' = 1 /\ up' = FALSE /\ age' = 0
    ELSE IF board # <<>> /\ board[index] \in ToSet(items)
    THEN index' = IndexOf(board[index], items) /\ UNCHANGED <<up, age>>
    ELSE /\ index' = IF index < Len(items) THEN index ELSE Len(items)
         /\ up' = FALSE /\ age' = 0

\* Mutation of Pause: the turn runs on while something else has the screen.
NoPause == UNCHANGED rotation

\* pause.
Pause == up' = FALSE /\ age' = 0 /\ UNCHANGED index

\* A turn is over, or none has begun.
TurnEnds == up /\ age = Turn
IsNew == ~up \/ TurnEnds

\* Mutation of NextItem: the last of the board is passed over.
NextItemButLast == IF index + 1 >= Len(board) THEN 1 ELSE index + 1

\* The item after the one that is up.
NextItem == (index % Len(board)) + 1

\* turn: the item whose turn it is now.
TakeTurn ==
    /\ up' = TRUE
    /\ index' = IF TurnEnds THEN NextItem ELSE index
    /\ age' = IF IsNew THEN 0 ELSE age

----------------------------------------------------------------------------
(* _paint_fee, _blank.                                                      *)

\* A lane that wants nothing, and of which nothing was drawn.
NothingToDraw ==
    /\ raised' = IF raised = "pass" THEN "no" ELSE raised
    /\ UNCHANGED <<shown, drawn, geometry, code, unseen>>

\* What the lane's screen goes to by frame_wanted; a ticket that is up keeps it.
Paint(ticketUp) ==
    LET wanted == Wanted(ticketUp) IN
    CASE wanted = "ticket" -> UNCHANGED <<rotation, drawVars>>
      [] wanted = "board" -> TakeTurn /\ DrawLane(wanted, index')
      [] wanted \in {"fee", "closed"} -> DrawLane(wanted, index) /\ UNCHANGED rotation
      [] OTHER -> (IF drawn THEN BlankScreens ELSE NothingToDraw) /\ UNCHANGED rotation

\* A ticket has ended: its screen goes to what the lane wants now.
Blank ==
    IF Wanted(FALSE) = "black" THEN BlankScreens /\ UNCHANGED rotation ELSE Paint(FALSE)

TakeDown == pending' = 0 /\ Blank /\ UNCHANGED issued

\* _show: the ticket's frame, at the geometry last read.
ShowTicket(t) ==
    /\ raised' = "no"
    /\ IF health = "refusing" THEN code' = "active" /\ UNCHANGED shown
       ELSE shown' = On(Frame("ticket", t), geometry') /\ code' = "ok"

----------------------------------------------------------------------------
(* The pass (poll, _follow_lanes, _turn_boards).                            *)

Goes(from, to) ==
    /\ at = from /\ at' = to
    /\ ticked' = (ticked /\ to # "handle")
    /\ UNCHANGED <<health, mode, troubles, exiting>>
Stays(places) ==
    /\ at \in places /\ at' = at
    /\ UNCHANGED <<health, mode, troubles, exiting>>

\* A press, in the pass that follows the sleep, or a decision issues a ticket; a
\* screen that refuses it voids it.
TicketIssued ==
    /\ Stays({"handle", "poll"}) /\ ticked' = TRUE
    /\ pending = 0 /\ issued < MaxTickets
    /\ issued' = issued + 1
    /\ pending' = IF health = "refusing" THEN 0 ELSE issued + 1
    /\ UNCHANGED geometry
    /\ ShowTicket(issued + 1)
    /\ UNCHANGED <<news, readVars, rotation, drawn, unseen>>

\* It is confirmed, voided, or its window has elapsed.
TicketEnds ==
    /\ Stays({"handle", "poll", "expire"}) /\ UNCHANGED ticked
    /\ pending # 0
    /\ TakeDown
    /\ UNCHANGED <<news, readVars>>

\* What nothing on its way catches ends the pass where it is (_agent_forever).
Leaves(places) ==
    /\ troubles < MaxTroubles /\ troubles' = troubles + 1
    /\ at \in places /\ at' = "handle" /\ ticked' = FALSE
    /\ UNCHANGED <<news, health, mode, exiting, readVars, rotation, issued, shown, drawn,
                   geometry, code, unseen>>

\* The ticket has been taken from its lane, and a record that cannot be written, or a vend
\* that raises, leaves the pass before the screen is blanked.
TicketDropped ==
    /\ Leaves({"handle", "poll", "reassert", "expire"})
    /\ pending # 0 /\ pending' = 0
    /\ raised' = "ticket"

\* An answer of the lane that is cut, or is not HTTP, to the read of its state or of its
\* events: nothing more of this pass is done, and the lane is not due till its next.
PassLeft ==
    /\ Leaves({"read", "poll"})
    /\ raised' = IF raised = "ticket" THEN "ticket" ELSE "pass"
    /\ UNCHANGED pending

\* The lane is due, or not yet; another pass begins.
PassTo(to) ==
    /\ Goes("handle", to)
    /\ ~exiting
    /\ UNCHANGED <<news, readVars, rotation, ticketVars, drawVars>>

PassBegins == PassTo("read") \/ PassTo("expire")

LaneUnread ==
    /\ Goes("read", "poll")
    /\ UNCHANGED <<news, readVars, rotation, ticketVars, drawVars>>

\* _read_fee: fee, closing and board from one reading; a version this build does
\* not read wants nothing.
Read == [fee |-> fee, closed |-> closed, board |-> board]
ReadFee ==
    /\ Goes("read", "poll")
    /\ \E says \in Publications :
          /\ says # Read => news < MaxNews
          /\ news' = IF says = Read THEN news ELSE news + 1
          /\ fee' = says.fee /\ closed' = says.closed /\ board' = says.board
          /\ Update(says.board)
    /\ UNCHANGED <<ticketVars, drawVars>>

LanePolled ==
    /\ Goes("poll", "reassert")
    /\ UNCHANGED <<news, readVars, rotation, ticketVars, drawVars>>

\* _reassert: the geometry and the frame, on every poll a ticket is up.
Reassert ==
    /\ Goes("reassert", "paint")
    /\ IF pending = 0 THEN UNCHANGED <<rotation, ticketVars, drawVars>>
       ELSE IF health = "well"
       THEN /\ geometry' = mode /\ unseen' = FALSE
            /\ ShowTicket(pending)
            /\ UNCHANGED <<rotation, ticketVars, drawn>>
       ELSE TakeDown
    /\ UNCHANGED <<news, readVars>>

PaintFee ==
    /\ Goes("paint", "expire")
    /\ Paint(pending # 0)
    /\ UNCHANGED <<news, readVars, ticketVars>>

Expired ==
    /\ Goes("expire", "turn")
    /\ UNCHANGED <<news, readVars, rotation, ticketVars, drawVars>>

\* _turn_boards, and the end of the pass.
TurnBoards ==
    /\ Goes("turn", "handle")
    /\ IF Wanted(pending # 0) # "board" THEN Pause /\ UNCHANGED drawVars
       ELSE /\ TakeTurn
            /\ IF IsNew THEN DrawLane("board", index') ELSE UNCHANGED drawVars
    /\ UNCHANGED <<news, readVars, ticketVars>>

----------------------------------------------------------------------------
(* What happens to the agent.                                               *)

Tick ==
    /\ at = "handle" /\ ~ticked
    /\ ticked' = TRUE
    /\ age' = IF up /\ age < Turn THEN age + 1 ELSE age
    /\ UNCHANGED <<news, screenVars, at, exiting, readVars, index, up, ticketVars, drawn, geometry,
                   code, unseen, raised>>

\* The screen: cannot be asked, refuses a write, is another size; and is well again.
Troubled ==
    /\ troubles < MaxTroubles
    /\ troubles' = troubles + 1
    /\ unseen' = TRUE
    /\ UNCHANGED <<news, at, exiting, readVars, rotation, ticketVars, drawn, geometry, code, raised,
                   ticked>>

ScreenFails == Troubled /\ health = "well" /\ health' \in {"mute", "refusing"} /\ UNCHANGED <<mode, shown>>

ModeChanges == Troubled /\ mode' \in Modes \ {mode} /\ shown' = Noise /\ UNCHANGED health

ScreenRecovers ==
    /\ health # "well" /\ health' = "well"
    /\ UNCHANGED <<news, mode, shown, troubles, at, exiting, readVars, rotation, ticketVars, drawn,
                   geometry, code, unseen, raised, ticked>>

Ending == troubles < MaxTroubles /\ troubles' = troubles + 1 /\ at # "down" /\ ~exiting
Ended == UNCHANGED <<news, health, mode, readVars, rotation, ticketVars, drawn, geometry, code, unseen,
                     raised, ticked>>

\* A kill: the screen keeps its frame.
Dies == Ending /\ at' = "down" /\ UNCHANGED <<exiting, shown>> /\ Ended

\* SIGTERM: the screen is blanked once the pass is over -- or after two seconds,
\* with the pass still under way (run_agent's finally, _blank_displays).
Stops ==
    /\ Ending
    /\ shown' = IF health = "refusing" THEN shown ELSE On(Black, geometry)
    /\ IF at = "handle" THEN at' = "down" /\ UNCHANGED exiting
       ELSE exiting' = TRUE /\ UNCHANGED at
    /\ Ended

\* The pass is over, or the process gone before it is.
Exits ==
    /\ exiting
    /\ at' = "down" /\ exiting' = FALSE
    /\ UNCHANGED <<news, screenVars, readVars, rotation, ticketVars, drawn, geometry, code, unseen,
                   raised, ticked>>

Starts ==
    /\ at = "down" /\ health = "well"
    /\ Fresh
    /\ UNCHANGED <<news, health, mode, troubles, issued>>

\* History: an item that comes up anew, the time it is there, a pass that ends with
\* something else there; and whether the board and the screen stay as they were, and
\* no pass is left half way.
Watches ==
    LET undisturbed == /\ board' = seen.of /\ health' = "well" /\ mode' = "large" /\ ~exiting'
                       /\ raised' = "no"
        anew == shown'.about # seen.item \/ seen.lost
    IN  seen' = IF at' = "down" THEN NothingSeen
                ELSE IF shown'.kind = "item" /\ anew
                THEN [item |-> shown'.about, for |-> 0, lost |-> FALSE,
                      of |-> IF age' = 0 THEN board' ELSE <<>>]
                ELSE [seen EXCEPT
                        !.for = IF ~ticked /\ ticked' /\ shown.kind = "item" /\ @ < Turn THEN @ + 1 ELSE @,
                        !.lost = @ \/ (at = "turn" /\ at' = "handle" /\ shown'.kind # "item"),
                        !.of = IF undisturbed THEN @ ELSE <<>>]

Next ==
    \/ TicketIssued /\ Watches
    \/ TicketEnds /\ Watches
    \/ TicketDropped /\ Watches
    \/ PassLeft /\ Watches
    \/ PassBegins /\ Watches
    \/ LaneUnread /\ Watches
    \/ ReadFee /\ Watches
    \/ LanePolled /\ Watches
    \/ Reassert /\ Watches
    \/ PaintFee /\ Watches
    \/ Expired /\ Watches
    \/ TurnBoards /\ Watches
    \/ Exits /\ Watches
    \/ Starts /\ Watches
    \/ Tick /\ Watches
    \/ ScreenFails /\ Watches
    \/ ModeChanges /\ Watches
    \/ ScreenRecovers /\ Watches
    \/ Dies /\ Watches
    \/ Stops /\ Watches

Spec == Init /\ [][Next]_vars

\* The loop passes, the clock runs between two passes, the lane is due now and
\* then and answers, and a screen that went comes back.
FairSpec ==
    /\ Spec
    /\ WF_vars(PassBegins /\ Watches) /\ SF_vars(PassTo("read") /\ Watches)
    /\ SF_vars(ReadFee /\ Watches) /\ WF_vars(LanePolled /\ Watches)
    /\ WF_vars(Reassert /\ Watches) /\ WF_vars(PaintFee /\ Watches)
    /\ WF_vars(Expired /\ Watches) /\ WF_vars(TurnBoards /\ Watches)
    /\ SF_vars(Tick /\ Watches) /\ WF_vars(ScreenRecovers /\ Watches)
    /\ WF_vars(Exits /\ Watches) /\ WF_vars(Starts /\ Watches)

----------------------------------------------------------------------------
(* What must hold.                                                          *)

Places == {"handle", "read", "poll", "reassert", "paint", "expire", "turn", "down"}
Kinds == {"black", "noise", "fee", "not_shown", "closed", "item", "ticket"}

\* The types, and the rotation within the board.
TypeOK ==
    /\ news \in 0 .. MaxNews
    /\ health \in {"well", "mute", "refusing"} /\ mode \in Modes /\ geometry \in Modes
    /\ shown.kind \in Kinds /\ troubles \in 0 .. MaxTroubles
    /\ at \in Places /\ exiting \in BOOLEAN
    /\ Read \in Publications
    /\ (board = <<>> => index = 1) /\ (board # <<>> => index \in 1 .. Len(board))
    /\ up \in BOOLEAN /\ age \in 0 .. Turn /\ (board = <<>> => ~up)
    /\ issued \in 0 .. MaxTickets /\ pending \in {0, issued}
    /\ drawn \in BOOLEAN /\ code \in {"ok", "active"} /\ unseen \in BOOLEAN /\ ticked \in BOOLEAN
    /\ raised \in {"no", "pass", "ticket"}
    /\ seen.for \in 0 .. Turn /\ seen.of \in Boards

\* What the screen shows between two passes is the frame of whoever has it -- the
\* ticket, then the fee, the closing, the item whose turn it is, black -- or
\* display_unavailable says it is not, or it changed since it was last looked at
\* (frame_wanted, _show_lane_frame, _blank_screens, _reassert, _turn_boards).  Nothing
\* says so where an exception left the pass before the lane was painted, until it is; or
\* left a ticket gone with its code still up, until something else is drawn.
WrongIsSaid ==
    LET wanted == IF pending # 0 THEN "ticket" ELSE Wanted(FALSE)
        frame == FrameFor(wanted, index, mode)
    IN  at = "handle" /\ ~exiting =>
            shown = frame \/ code = "active" \/ unseen \/ raised # "no"

\* The item of a board that does not change, on passes nothing leaves half way, gives way
\* to the next in order, and only after a whole turn; when something else had the screen
\* at the end of a pass, it is the item the board was on that comes back (Rotation,
\* _turn_boards).
TurnsAreWhole ==
    [][ seen'.item # seen.item /\ seen.of # <<>> /\ seen'.of = seen.of =>
            /\ ~seen.lost /\ seen.for = Turn
            /\ \E i \in 1 .. Len(seen.of) : /\ seen.of[i] = seen.item
                                            /\ seen'.item = seen.of[(i % Len(seen.of)) + 1] ]_vars

\* An item that stays on a board that keeps its screen is shown again and again
\* (_turn_boards, Rotation.turn).
Items == UNION {ToSet(b) : b \in Boards}
HasTheBoard(item) ==
    /\ at # "down" /\ pending = 0 /\ Wanted(FALSE) = "board" /\ item \in ToSet(board)
    /\ health = "well" /\ mode = "large"
EveryItemHasItsTurn ==
    \A item \in Items :
        <>[]HasTheBoard(item) => []<>(shown = Frame("item", item))

=============================================================================
