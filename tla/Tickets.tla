-------------------------------- MODULE Tickets --------------------------------
(***************************************************************************)
(* The ticket path of the gate agent at ONE lane: a code is minted, shown  *)
(* on the lane's screen, confirmed by a press of the intercom or used for  *)
(* a person's open, and vended by the lane -- against a lane that decides  *)
(* whenever it likes, requests that are lost or answered late, a screen    *)
(* that may refuse a frame, a process that may be killed at any point, an  *)
(* answer that is not HTTP and a disk that refuses a record: those two are *)
(* caught by nothing on these paths, end the pass and leave what they      *)
(* leave (cli.py, _agent_forever).                                         *)
(*                                                                         *)
(* The agent is one thread.  It gives way to the world only where it waits *)
(* for an answer of the lane or writes the screen; `at' says where it is,  *)
(* and every action below is the code between two such points.  A call is  *)
(* here only as far as tickets need it: at which door it is, and whether   *)
(* it is in its case, with a person, or closing (module Dialogue has the   *)
(* rest).  A ticket is a number in the order of minting; 0 is no ticket.   *)
(***************************************************************************)
EXTENDS Integers, FiniteSets

CONSTANTS
    Door,           \* the intercoms of this lane
    ScreenDoor,     \* the one whose screen shows the lane's code
    NoDoor,         \* no call is up
    HasAct,         \* whether this agent holds an act token for the lane
    MaxTickets,     \* bound: tickets minted in a behaviour
    MaxDecisions,   \* bound: decisions the lane makes in a behaviour
    MaxLaneStarts,  \* bound: times the lane starts again in a behaviour
    MaxCrashes,     \* bound: times the process is killed in a behaviour
    MaxFaults       \* bound: records that cannot be read or written, and exceptions

ASSUME DoorsAssumption == ScreenDoor \in Door /\ NoDoor \notin Door
ASSUME ActAssumption == HasAct \in BOOLEAN
ASSUME BoundsAssumption ==
    /\ MaxTickets \in Nat /\ MaxDecisions \in Nat
    /\ MaxLaneStarts \in Nat /\ MaxCrashes \in Nat /\ MaxFaults \in Nat

Ticket == 1 .. MaxTickets
Authority == {"press", "person", "replay"}

VARIABLES
    \* the lane, external
    decision,   \* the last decision's moment, 0 before the first
    offers,     \* whether that decision is one a ticket is offered for
    present,    \* decision.presence is true
    cursor,     \* the lane's event cursor: decisions since it last started
    accepted,   \* [ticket -> on whose authority its vend was accepted, or "no"]
    wire,       \* vend requests sent that the lane may still consider: one that is
                \* lost is one it never does
    reply,      \* the answer on its way to the agent, or "none"
    \* the disk
    rec,        \* [ticket -> its record]
    next,       \* the next ticket to be minted
    \* the screen
    screen,     \* the ticket it shows, 0 for none
    frame,      \* "live", or "left" up by a process that was killed
    display,    \* the health surface's "ok" or "unavailable" for it
    \* the process
    at,         \* where the agent is
    purpose,    \* on whose behalf it is minting or asking for a vend
    subject,    \* the ticket that is about
    pending,    \* the ticket that is up and may be confirmed
    held,       \* the lane cursor it follows from, -1 before the first read
    help,       \* [door -> the help window open there]
    session,    \* the call that is up
    \* history, for the properties
    laneStarts, \* times the lane started again
    crashes,    \* times the process was killed
    adopted,    \* the decision the lane had made when its cursor was taken up
    unheard,    \* tickets minted with a driver on the phone who has not been told
    faults,     \* records not read or written, and exceptions
    dropped     \* tickets this process let go of with their record still open

laneVars == <<decision, offers, present, cursor>>
vendVars == <<accepted, wire, reply>>
diskVars == <<rec, next>>
screenVars == <<screen, frame, display>>
agentVars == <<at, purpose, subject, pending, held, help, session>>
trouble == <<faults, dropped>>
history == <<laneStarts, crashes, adopted, unheard, trouble>>
vars == <<laneVars, vendVars, diskVars, screenVars, agentVars, history>>

-------------------------------------------------------------------------------
(* Records, help windows and sessions. *)

RecordState == {"none", "issued", "confirmed", "vended", "voided"}

\* Reasons that say the barrier was not asked to open by this ticket.
Definite == {"window_elapsed", "presence_lost", "lane_decided_again",
             "display_unavailable", "lane_refused", "act_refused",
             "no_act_route", "do_not_open"}

\* Reasons that do not: nobody answered, or nobody was left to be answered.
Indefinite == {"lane_unreachable", "restarted", "outcome_unknown"}

TicketRecord == [state : RecordState, reason : Definite \cup Indefinite \cup {"none"},
                 told : BOOLEAN, decision : 0 .. MaxDecisions]

Request == [ticket : Ticket, by : Authority]

HelpWindow == [ticket : 0 .. MaxTickets, said : {"nothing", "commanded", "refused"}]

\* A call is in its "case" before it has reached a person -- "confirmed" if it has
\* confirmed a ticket (session.confirmed_ticket) -- then with a "person", and
\* "closing" once its case is decided.
Session == [door : Door \cup {NoDoor},
            phase : {"none", "case", "confirmed", "person", "closing"},
            telling : 0 .. MaxTickets, shown : 0 .. MaxTickets]

NoRecord == [state |-> "none", reason |-> "none", told |-> FALSE, decision |-> 0]

NoHelp == [ticket |-> 0, said |-> "nothing"]

NoSession == [door |-> NoDoor, phase |-> "none", telling |-> 0, shown |-> 0]

\* confirmed(), vended() and voided() on a record, as the store then holds it.
Confirmed(r) == [r EXCEPT !.state = "confirmed"]
Vended(r) == [r EXCEPT !.state = "vended"]
Voided(r, reason) ==
    [state |-> "voided", reason |-> reason, told |-> r.told, decision |-> r.decision]

Told(r) == [r EXCEPT !.told = TRUE]

Unsettled(t) == rec[t].state \in {"issued", "confirmed"}

\* Something outside this process fails as nothing here expects it to: a record
\* that cannot be read or written, or an answer of the lane that is not HTTP.
Faulty == faults < MaxFaults /\ faults' = faults + 1

\* And the ticket's open record is left for the next start to settle.
Drops(t) == Faulty /\ dropped' = dropped \cup {t}

Write(t, r) == rec' = [rec EXCEPT ![t] = r] /\ UNCHANGED trouble

\* A record is read before it is settled.  One that cannot be read is taken for
\* none: nothing is written, and what was being done goes on.
Settle(t, r) ==
    \/ Write(t, r)
    \/ UNCHANGED rec /\ Drops(t)

Init ==
    /\ decision = 0 /\ offers = FALSE /\ present = FALSE /\ cursor = 0
    /\ accepted = [t \in Ticket |-> "no"] /\ wire = {} /\ reply = "none"
    /\ rec = [t \in Ticket |-> NoRecord] /\ next = 1
    /\ screen = 0 /\ frame = "live" /\ display = "ok"
    /\ at = "down" /\ purpose = "none" /\ subject = 0
    /\ pending = 0 /\ held = -1
    /\ help = [d \in Door |-> NoHelp] /\ session = NoSession
    /\ laneStarts = 0 /\ crashes = 0 /\ adopted = 0 /\ unheard = {}
    /\ faults = 0 /\ dropped = {}

-------------------------------------------------------------------------------
(* The screen.  Either write may be refused, which is a health code and not *)
(* an exception.                                                            *)

Show(t, ok) ==
    /\ screen' = IF ok THEN t ELSE screen
    /\ frame' = IF ok THEN "live" ELSE frame
    /\ display' = IF ok THEN "ok" ELSE "unavailable"

Blank(ok) ==
    /\ screen' = IF ok THEN 0 ELSE screen
    /\ frame' = IF ok THEN "live" ELSE frame
    /\ display' = IF ok THEN display ELSE "unavailable"

\* Mutation of TakeDown: the code is left up with the case over.
TakeDownForgotten(ok) == UNCHANGED screenVars

\* A ticket a person's open used comes down unless a newer one is up.
TakeDown(ok) ==
    IF pending = 0 THEN Blank(ok) ELSE UNCHANGED screenVars

-------------------------------------------------------------------------------
(* What the agent reads off the lane.  A read may fail; past the bound on   *)
(* tickets every read that could lead to a mint is taken to have failed.    *)

Reads == IF next \in Ticket THEN BOOLEAN ELSE {FALSE}

OffersTicket(readable) == readable /\ decision # 0 /\ offers /\ present

\* The call's case is decided and only its closing sentences are left.
Closing(telling, shown) ==
    [door |-> session.door, phase |-> "closing", telling |-> telling, shown |-> shown]

\* Mutation of OnThePhone: a driver talking to a person is forgotten.
OnThePhoneBeforeAPerson ==
    session.door = ScreenDoor /\ session.phase \in {"case", "confirmed"}

OnThePhone == session.door = ScreenDoor /\ session.phase # "closing"

\* A call at the screen's door that has not reached a person and is not about
\* a ticket already.
BeingSpoken == session.door = ScreenDoor /\ session.phase = "case"

\* History: a driver is on the phone at the screen's door as a ticket is minted.
DriverTalking == session'.door = ScreenDoor /\ session'.phase # "closing"

\* _issue, up to the screen: the record is on the disk before the frame is.
\* `before' is the store as the step that mints has left it.
Issue(before, for, told) ==
    /\ next \in Ticket
    /\ rec' = [before EXCEPT ![next] = [state |-> "issued", reason |-> "none",
                                        told |-> told, decision |-> decision]]
    /\ next' = next + 1
    /\ at' = "showing" /\ purpose' = for /\ subject' = next
    /\ unheard' = IF DriverTalking THEN unheard \cup {next} ELSE unheard

\* The vend request for t leaves; the agent waits for the answer.
AskLane(t, by) ==
    /\ wire' = wire \cup {[ticket |-> t, by |-> by]}
    /\ reply' = "none"
    /\ at' = "vending" /\ purpose' = by /\ subject' = t

GoTo(place) == at' = place /\ purpose' = "none" /\ subject' = 0

\* Mutation of EndHelp: a new decision or ticket leaves the window open.
EndHelpForgotten == UNCHANGED help

EndHelp == help' = [d \in Door |-> NoHelp]

\* Back from a lane's poll: a ticket that is up is redrawn before anything else.
AfterPoll == GoTo(IF pending' = 0 THEN "idle" ELSE "reasserting")

-------------------------------------------------------------------------------
(* Following the lane. *)

\* Mutation of VoidPending: the code comes down and the record is not settled.
VoidPendingUnrecorded(reason, ok) ==
    IF pending = 0
      THEN UNCHANGED <<rec, pending, screenVars, trouble>>
      ELSE UNCHANGED <<rec, trouble>> /\ pending' = 0 /\ Blank(ok)

\* _void_at(lane, reason): the pending ticket, if any, is settled and its code
\* comes off the screen.
VoidPending(reason, ok) ==
    IF pending = 0
      THEN UNCHANGED <<rec, pending, screenVars, trouble>>
      ELSE /\ Settle(pending, Voided(rec[pending], reason))
           /\ pending' = 0
           /\ Blank(ok)

\* The ticket is out of the pending map, and its record is not written: the
\* exception ends the pass with the code still up.
VoidRaises == pending # 0 /\ pending' = 0 /\ Drops(pending) /\ UNCHANGED rec

\* Mutation of AdoptCursor: the first page is acted on.
AdoptCursorAndActOnIt ==
    /\ at = "idle" /\ held = -1
    /\ held' = cursor
    /\ adopted' = decision
    /\ GoTo(IF cursor > 0 THEN "considering" ELSE "idle")
    /\ UNCHANGED <<laneVars, vendVars, diskVars, screenVars, pending, help, session,
                   laneStarts, crashes, unheard, trouble>>

\* The page of events: the first one is adopted and acted on by nothing.
AdoptCursor ==
    /\ at = "idle" /\ held = -1
    /\ held' = cursor
    /\ adopted' = decision
    /\ UNCHANGED <<laneVars, vendVars, diskVars, screenVars, pending, help, session,
                   laneStarts, crashes, unheard, trouble>>
    /\ AfterPoll

\* The page says the cursor was reset, or it has gone back: what was held means
\* nothing any more.
CursorReset(ok) ==
    /\ at = "idle" /\ held # -1
    /\ held' = cursor
    /\ adopted' = decision
    /\ \/ VoidPending("lane_decided_again", ok) /\ AfterPoll
       \/ VoidRaises /\ GoTo("idle") /\ UNCHANGED screenVars
    /\ UNCHANGED <<laneVars, vendVars, next, help, session,
                   laneStarts, crashes, unheard>>

\* A page with a decision on it, or with nothing new while a ticket is up.
FollowLane ==
    /\ at = "idle" /\ held # -1 /\ cursor >= held
    /\ cursor > held \/ pending # 0
    /\ held' = cursor
    /\ GoTo(IF cursor > held THEN "considering" ELSE "checking")
    /\ UNCHANGED <<laneVars, vendVars, diskVars, screenVars, pending, help, session, history>>

\* A lane whose page could not be read: the cursor stays, the screen is redrawn.
LaneUnread ==
    /\ at = "idle" /\ pending # 0
    /\ GoTo("reasserting")
    /\ UNCHANGED <<laneVars, vendVars, diskVars, screenVars, pending, held, help, session,
                   history>>

\* _consider_ticket, the same decision read again.
SameDecision(readable) ==
    /\ at = "considering"
    /\ pending # 0 /\ readable /\ rec[pending].decision = decision
    /\ GoTo("reasserting")
    /\ UNCHANGED <<laneVars, vendVars, diskVars, screenVars, pending, held, help, session,
                   history>>

\* The store as a new decision has left it, and a ticket if one is offered.  A
\* record that cannot be written mints none, as a lane that cannot be read.
MintsOrNot(store, readable) ==
    \/ OffersTicket(readable) /\ Issue(store, "poll", ~OnThePhone)
    \/ /\ ~OffersTicket(readable)
       /\ rec' = store
       /\ GoTo("idle")
       /\ UNCHANGED <<next, unheard>>

\* _consider_ticket, anything else: what was up is voided, the help window ends,
\* and a ticket is minted if this decision is one that offers it.
NewDecision(readable, ok) ==
    /\ at = "considering"
    /\ ~(pending # 0 /\ readable /\ rec[pending].decision = decision)
    /\ EndHelp
    /\ pending' = 0
    /\ UNCHANGED session
    /\ IF pending = 0
         THEN MintsOrNot(rec, readable) /\ UNCHANGED <<screenVars, trouble>>
         ELSE /\ Blank(ok)
              /\ \/ /\ MintsOrNot([rec EXCEPT ![pending] = Voided(@, "lane_decided_again")],
                                  readable)
                    /\ UNCHANGED trouble
                 \/ MintsOrNot(rec, readable) /\ Drops(pending)
    /\ UNCHANGED <<laneVars, vendVars, held, laneStarts, crashes, adopted>>

\* _check_pending: is the code still about the car in front of it?
CheckPending(readable, ok) ==
    /\ at = "checking"
    /\ IF readable /\ rec[pending].decision # decision
         THEN VoidPending("lane_decided_again", ok)
       ELSE IF readable /\ ~present
         THEN VoidPending("presence_lost", ok)
       ELSE UNCHANGED <<rec, pending, screenVars, trouble>>
    /\ AfterPoll
    /\ UNCHANGED <<laneVars, vendVars, next, held, help, session,
                   laneStarts, crashes, adopted, unheard>>

\* _reassert: the frame is written again on every poll, and a screen that
\* refuses it ends the ticket.  The clearing that follows may fail as well.
Reassert(shown, ok) ==
    /\ at = "reasserting"
    /\ IF shown
         THEN Show(pending, TRUE) /\ UNCHANGED <<rec, pending, trouble>>
         ELSE /\ Settle(pending, Voided(rec[pending], "display_unavailable"))
              /\ pending' = 0
              /\ screen' = IF ok THEN 0 ELSE screen
              /\ frame' = IF ok THEN "live" ELSE frame
              /\ display' = "unavailable"
    /\ GoTo("idle")
    /\ UNCHANGED <<laneVars, vendVars, next, held, help, session,
                   laneStarts, crashes, adopted, unheard>>

\* _expire_tickets, once the confirm window has run out.
Expire(ok) ==
    /\ at = "idle" /\ pending # 0
    /\ VoidPending("window_elapsed", ok)
    /\ UNCHANGED <<laneVars, vendVars, next, at, purpose, subject, held, help, session,
                   laneStarts, crashes, adopted, unheard>>

\* The lane's state is answered by what is not HTTP: the event that was to be
\* considered is behind the cursor already, and nothing is redrawn.
LaneReadRaises ==
    /\ at \in {"considering", "checking"}
    /\ Faulty
    /\ GoTo("idle")
    /\ UNCHANGED <<laneVars, vendVars, diskVars, screenVars, pending, held, help, session,
                   laneStarts, crashes, adopted, unheard, dropped>>

\* _void_at, on any of its ways, where the record cannot be written.
VoidAtRaises ==
    /\ \/ at \in {"idle", "considering", "reasserting"}
       \/ at = "checking" /\ (rec[pending].decision # decision \/ ~present)
    /\ VoidRaises
    /\ display' = IF at = "reasserting" THEN "unavailable" ELSE display
    /\ GoTo("idle")
    /\ UNCHANGED <<laneVars, vendVars, next, screen, frame, held, help, session,
                   laneStarts, crashes, adopted, unheard>>

\* The rest of _issue and of whoever called it, once the screen has answered.
\* A ticket OFFERED to a driver is voided by a screen that refuses it; a
\* person's open is not.
Showing(shown) ==
    /\ at = "showing"
    /\ Show(subject, shown)
    /\ IF ~shown /\ purpose # "person"
         THEN /\ \/ Write(subject, Voided(rec[subject], "display_unavailable"))
                 \/ UNCHANGED rec /\ Drops(subject)
              /\ GoTo("idle")
              /\ UNCHANGED <<pending, help, session, wire, reply>>
         ELSE /\ EndHelp
              /\ UNCHANGED <<rec, trouble>>
              /\ \/ /\ purpose = "person"
                    /\ IF HasAct THEN AskLane(subject, "person")
                                 ELSE GoTo("idle") /\ UNCHANGED <<wire, reply>>
                    /\ session' = [session EXCEPT !.phase = "closing"]
                    /\ UNCHANGED pending
                 \/ /\ purpose # "person"
                    /\ pending' = subject
                    /\ session' = IF purpose = "press" \/ BeingSpoken
                                    THEN Closing(subject, session.shown)
                                    ELSE session
                    /\ GoTo(IF purpose = "poll" THEN "reasserting" ELSE "idle")
                    /\ UNCHANGED <<wire, reply>>
    /\ UNCHANGED <<laneVars, accepted, next, held, laneStarts, crashes, adopted, unheard>>

-------------------------------------------------------------------------------
(* The press.  A call comes in at a door; the lane is read once, and what   *)
(* the call is about follows from that reading and from what is up.         *)

Answered(d, phase) == [door |-> d, phase |-> phase, telling |-> 0, shown |-> 0]

\* A lane that decided and did not fall back: nothing_to_do ends the call,
\* anything else is told as a case and rings a person.
Telling(d, t) == [door |-> d, phase |-> "closing", telling |-> t, shown |-> 0]

TellCase(d, readable) ==
    \/ session' = Answered(d, "case")
    \/ readable /\ decision # 0 /\ ~offers /\ session' = Answered(d, "closing")

\* The help window of a door runs out on the clock.
HelpExpires(d) ==
    /\ at = "idle" /\ help[d] # NoHelp
    /\ help' = [help EXCEPT ![d] = NoHelp]
    /\ UNCHANGED <<laneVars, vendVars, diskVars, screenVars, at, purpose, subject, pending,
                   held, session, history>>

\* Inside the help window of the door: for a person, with what the vend answered.
PressForHelp(d, readable) ==
    /\ at = "idle" /\ session = NoSession
    /\ help[d] # NoHelp
    /\ TellCase(d, readable)
    /\ UNCHANGED <<laneVars, vendVars, diskVars, screenVars, at, purpose, subject, pending,
                   held, help, history>>

\* A code the driver has not been told about: they are told where to look.
PressUntold(d) ==
    /\ at = "idle" /\ session = NoSession
    /\ help[d] = NoHelp /\ pending # 0 /\ d = ScreenDoor
    /\ ~rec[pending].told
    /\ session' = Telling(d, pending)
    /\ UNCHANGED <<laneVars, vendVars, diskVars, screenVars, at, purpose, subject, pending,
                   held, help, history>>

\* A code they have been told about: this press confirms it and asks the lane.
PressConfirms(d, ok) ==
    /\ at = "idle" /\ session = NoSession
    /\ help[d] = NoHelp /\ pending # 0 /\ d = ScreenDoor
    /\ rec[pending].told
    /\ pending' = 0
    /\ session' = Answered(d, "confirmed")
    /\ help' = [help EXCEPT ![d] = [ticket |-> pending, said |-> "nothing"]]
    /\ Blank(ok)
    /\ IF HasAct
         THEN /\ \/ Write(pending, Confirmed(rec[pending]))
                 \/ Faulty /\ UNCHANGED <<rec, dropped>>
              /\ AskLane(pending, "press")
         ELSE /\ \/ Settle(pending, Voided(rec[pending], "no_act_route"))
                 \/ rec' = [rec EXCEPT ![pending] = Confirmed(@)] /\ Drops(pending)
              /\ UNCHANGED <<at, purpose, subject, wire, reply>>
    /\ UNCHANGED <<laneVars, accepted, next, held, laneStarts, crashes, adopted, unheard>>

\* The press is not on the disk: the window is open, the lane is not asked, and
\* the code is still up.
ConfirmRaises(d) ==
    /\ at = "idle" /\ session = NoSession
    /\ help[d] = NoHelp /\ pending # 0 /\ d = ScreenDoor
    /\ rec[pending].told
    /\ VoidRaises
    /\ session' = Answered(d, "confirmed")
    /\ help' = [help EXCEPT ![d] = [ticket |-> pending, said |-> "nothing"]]
    /\ UNCHANGED <<laneVars, vendVars, next, screenVars, at, purpose, subject, held,
                   laneStarts, crashes, adopted, unheard>>

\* The lane raises before the press is about anything, or the record of a ticket
\* it would mint cannot be written.
PressRaises(d) ==
    /\ at = "idle" /\ session = NoSession
    /\ Faulty
    /\ session' = Answered(d, "case")
    /\ UNCHANGED <<laneVars, vendVars, diskVars, screenVars, at, purpose, subject, pending,
                   held, help, laneStarts, crashes, adopted, unheard, dropped>>

\* Nothing is up yet and the lane offers a ticket: the press mints it.
PressMints(d, readable) ==
    /\ at = "idle" /\ session = NoSession
    /\ help[d] = NoHelp /\ pending = 0 /\ d = ScreenDoor
    /\ OffersTicket(readable)
    /\ session' = Answered(d, "case")
    /\ Issue(rec, "press", FALSE)
    /\ UNCHANGED <<laneVars, vendVars, screenVars, pending, held, help,
                   laneStarts, crashes, adopted, trouble>>

\* Anything else is the case path.
PressForCase(d, readable) ==
    /\ at = "idle" /\ session = NoSession
    /\ help[d] = NoHelp
    /\ ~(d = ScreenDoor /\ (pending # 0 \/ OffersTicket(readable)))
    /\ TellCase(d, readable)
    /\ UNCHANGED <<laneVars, vendVars, diskVars, screenVars, at, purpose, subject, pending,
                   held, help, history>>

-------------------------------------------------------------------------------
(* The rest of the call. *)

\* The case has been spoken; a person is rung.
CallHuman ==
    /\ at = "idle" /\ session.phase \in {"case", "confirmed"}
    /\ session' = [session EXCEPT !.phase = "person"]
    /\ UNCHANGED <<laneVars, vendVars, diskVars, screenVars, at, purpose, subject, pending,
                   held, help, history>>

\* No person answered, or none keyed anything usable.
NobodyDecides ==
    /\ at = "idle" /\ session.phase = "person"
    /\ session' = [session EXCEPT !.phase = "closing"]
    /\ UNCHANGED <<laneVars, vendVars, diskVars, screenVars, at, purpose, subject, pending,
                   held, help, history>>

\* do_not_open: a ticket left up would be vended against the person's word.
PersonSaysNo(ok) ==
    /\ at = "idle" /\ session.phase = "person"
    /\ VoidPending("do_not_open", ok)
    /\ session' = [session EXCEPT !.phase = "closing"]
    /\ UNCHANGED <<laneVars, vendVars, next, at, purpose, subject, held, help,
                   laneStarts, crashes, adopted, unheard>>

\* open_now and open_and_flag, with a ticket up: it is used for the person's open.
PersonOpensWithTicket ==
    /\ at = "idle" /\ session.phase = "person" /\ pending # 0
    /\ session' = [session EXCEPT !.phase = "closing"]
    /\ pending' = 0
    /\ IF HasAct THEN AskLane(pending, "person")
                 ELSE UNCHANGED <<at, purpose, subject, wire, reply>>
    /\ UNCHANGED <<laneVars, accepted, diskVars, screenVars, held, help, history>>

\* With none up, one is minted against the decision the lane publishes now; with
\* no decision to be read there is nothing to name and the person is told so.
PersonOpensByMinting(readable) ==
    /\ at = "idle" /\ session.phase = "person" /\ pending = 0
    /\ \/ /\ readable /\ decision # 0
          /\ UNCHANGED session
          /\ Issue(rec, "person", TRUE)
       \/ /\ ~(readable /\ decision # 0)
          /\ session' = [session EXCEPT !.phase = "closing"]
          /\ UNCHANGED <<diskVars, at, purpose, subject, unheard>>
    /\ UNCHANGED <<laneVars, vendVars, screenVars, pending, held, help,
                   laneStarts, crashes, adopted, trouble>>

\* _end: the code a person's open left up comes down with the case.
EndSession(ok) ==
    /\ session' = NoSession
    /\ IF session.shown # 0 THEN TakeDown(ok) ELSE UNCHANGED screenVars

\* The sentence about the code on the screen has been heard to its end.
ToldOnScreen(ok) ==
    /\ at = "idle" /\ session.phase = "closing" /\ session.telling # 0
    /\ EndSession(ok)
    /\ IF pending = session.telling
         THEN Write(pending, Told(rec[pending]))
         ELSE UNCHANGED <<rec, trouble>>
    /\ unheard' = unheard \ {session.telling}
    /\ UNCHANGED <<laneVars, vendVars, next, at, purpose, subject, pending, held, help,
                   laneStarts, crashes, adopted>>

\* Any other end: said to the end with nothing to mark, hung up, or lost.
CallEnds(ok) ==
    /\ at = "idle" /\ session # NoSession
    /\ EndSession(ok)
    /\ UNCHANGED <<laneVars, vendVars, diskVars, at, purpose, subject, pending, held, help,
                   history>>

-------------------------------------------------------------------------------
(* What the lane answered, and the agent's wait for it. *)

\* _remember_help writes to whatever window is open at the call's door.
RememberHelp(said) ==
    help' = IF help[session.door] = NoHelp THEN help
            ELSE [help EXCEPT ![session.door] = [ticket |-> @.ticket, said |-> said]]

Hears(who) == at = "vending" /\ purpose \in who /\ reply' = "none"

\* A wait that runs out is "unreachable" whatever the lane did or will do.
Refusals == {"lane_unreachable"} \cup
            (CASE reply = "refused" -> {"lane_refused"}
               [] reply = "act_refused" -> {"act_refused"}
               [] OTHER -> {})

VendCommanded ==
    /\ Hears({"press", "person"}) /\ reply = "commanded"
    /\ Settle(subject, Vended(rec[subject]))
    /\ RememberHelp("commanded")
    /\ session' = Closing(session.telling, IF purpose = "person" THEN subject ELSE session.shown)
    /\ GoTo("idle")
    /\ UNCHANGED <<laneVars, accepted, wire, next, screenVars, pending, held,
                   laneStarts, crashes, adopted, unheard>>

\* Refused, not considered, or not answered at all (the last whether or not the
\* request arrived): the press goes to a person, a person hears it and the menu.
VendNotCommanded(reason, ok) ==
    /\ Hears({"press", "person"})
    /\ Settle(subject, Voided(rec[subject], reason))
    /\ IF reason = "lane_refused" THEN RememberHelp("refused") ELSE UNCHANGED help
    /\ session' = IF purpose = "person" THEN [session EXCEPT !.phase = "person"] ELSE session
    /\ IF purpose = "person" THEN TakeDown(ok) ELSE UNCHANGED screenVars
    /\ GoTo("idle")
    /\ UNCHANGED <<laneVars, accepted, wire, next, pending, held,
                   laneStarts, crashes, adopted, unheard>>

\* The answer, or the body of a refusal, is not HTTP, or the record of the outcome
\* cannot be written: the call stays where it was, and so does the code that is up.
VendRaises ==
    /\ Hears({"press", "person"})
    /\ Drops(subject)
    /\ GoTo("idle")
    /\ UNCHANGED <<laneVars, accepted, wire, diskVars, screenVars, pending, held, help,
                   session, laneStarts, crashes, adopted, unheard>>

-------------------------------------------------------------------------------
(* The lane, external: as much of it as the agent relies on. *)

LaneDecides(offer, there) ==
    /\ decision < MaxDecisions
    /\ decision' = decision + 1 /\ cursor' = cursor + 1
    /\ offers' = offer /\ present' = there
    /\ UNCHANGED <<vendVars, diskVars, screenVars, agentVars, history>>

\* The decision grows stale or the lane is closed; the car drives off.
StopsOffering ==
    /\ offers /\ offers' = FALSE
    /\ UNCHANGED <<decision, present, cursor, vendVars, diskVars, screenVars, agentVars, history>>

CarLeaves ==
    /\ present /\ present' = FALSE
    /\ UNCHANGED <<decision, offers, cursor, vendVars, diskVars, screenVars, agentVars, history>>

LaneRestarts ==
    /\ cursor > 0 /\ cursor' = 0
    /\ laneStarts < MaxLaneStarts /\ laneStarts' = laneStarts + 1
    /\ UNCHANGED <<decision, offers, present, vendVars, diskVars, screenVars, agentVars,
                   crashes, adopted, unheard, trouble>>

Completed(d) == \E t \in Ticket : accepted[t] # "no" /\ rec[t].decision = d

Waiting(r) == at = "vending" /\ subject = r.ticket /\ purpose = r.by

\* A request is considered: a key the lane holds gives its 202 again, another is
\* accepted if it completes the last decision, with a car there, for the first
\* time.  The answer reaches the agent only if it is still waiting for it.
LaneAccepts(r) ==
    /\ r \in wire
    /\ \/ accepted[r.ticket] # "no"
       \/ rec[r.ticket].decision = decision /\ present /\ ~Completed(decision)
    /\ accepted' = [accepted EXCEPT ![r.ticket] =
                       IF @ # "no" THEN @ ELSE IF r.by = "person" THEN "person" ELSE "press"]
    /\ wire' = wire \ {r}
    /\ reply' = IF Waiting(r) THEN "commanded" ELSE reply
    /\ UNCHANGED <<laneVars, diskVars, screenVars, agentVars, history>>

\* The lane may refuse for reasons of its own, or not consider the request.
LaneRefuses(r, answer) ==
    /\ r \in wire /\ accepted[r.ticket] = "no"
    /\ wire' = wire \ {r}
    /\ reply' = IF Waiting(r) THEN answer ELSE reply
    /\ UNCHANGED <<laneVars, accepted, diskVars, screenVars, agentVars, history>>

-------------------------------------------------------------------------------
(* The process. *)

\* Killed at any point, leaving the last frame up; or stopped, blanking it.
Dies(blanked) ==
    /\ at # "down" /\ crashes < MaxCrashes
    /\ crashes' = crashes + 1
    /\ GoTo("down")
    /\ pending' = 0 /\ held' = -1 /\ session' = NoSession /\ EndHelp
    /\ reply' = "none" /\ display' = "ok"
    /\ screen' = IF blanked THEN 0 ELSE screen
    /\ frame' = IF screen' = 0 THEN "live" ELSE "left"
    /\ adopted' = 0 /\ dropped' = {}
    /\ UNCHANGED <<laneVars, accepted, wire, diskVars, laneStarts, unheard, faults>>

Start ==
    /\ at = "down"
    /\ GoTo("reconciling")
    /\ UNCHANGED <<laneVars, vendVars, diskVars, screenVars, pending, held, help, session,
                   history>>

\* Mutation of ReconcileIssued: a restart claims the window had run out.
ReconcileIssuedAsElapsed(t) ==
    /\ at = "reconciling" /\ rec[t].state = "issued" /\ t \notin dropped
    /\ Settle(t, Voided(rec[t], "window_elapsed"))
    /\ UNCHANGED <<laneVars, vendVars, next, screenVars, agentVars,
                   laneStarts, crashes, adopted, unheard>>

\* _reconcile: a record left issued is voided, one left confirmed is settled by
\* asking the lane again with the same key and the same decision.  A record that
\* cannot be read is passed over.
ReconcileIssued(t) ==
    /\ at = "reconciling" /\ rec[t].state = "issued" /\ t \notin dropped
    /\ Settle(t, Voided(rec[t], "restarted"))
    /\ UNCHANGED <<laneVars, vendVars, next, screenVars, agentVars,
                   laneStarts, crashes, adopted, unheard>>

ReconcileConfirmed(t) ==
    /\ at = "reconciling" /\ rec[t].state = "confirmed" /\ t \notin dropped
    /\ \/ /\ HasAct
          /\ AskLane(t, "replay") /\ UNCHANGED <<rec, trouble>>
       \/ /\ ~HasAct
          /\ Write(t, Voided(rec[t], "outcome_unknown"))
          /\ UNCHANGED <<at, purpose, subject, wire, reply>>
       \/ /\ Drops(t)
          /\ UNCHANGED <<rec, at, purpose, subject, wire, reply>>
    /\ UNCHANGED <<laneVars, accepted, next, screenVars, pending, held, help, session,
                   laneStarts, crashes, adopted, unheard>>

\* Mutation of ReplayAnswered: an answer that is none is taken for a refusal.
ReplayAnsweredAsRefused(commanded) ==
    /\ Hears({"replay"})
    /\ commanded => reply = "commanded"
    /\ Write(subject, IF commanded THEN Vended(rec[subject])
                                   ELSE Voided(rec[subject], "lane_refused"))
    /\ GoTo("reconciling")
    /\ UNCHANGED <<laneVars, accepted, wire, next, screenVars, pending, held, help, session,
                   laneStarts, crashes, adopted, unheard>>

ReplayAnswered(commanded) ==
    /\ Hears({"replay"})
    /\ commanded => reply = "commanded"
    /\ Write(subject, IF commanded THEN Vended(rec[subject])
                                   ELSE Voided(rec[subject], "outcome_unknown"))
    /\ GoTo("reconciling")
    /\ UNCHANGED <<laneVars, accepted, wire, next, screenVars, pending, held, help, session,
                   laneStarts, crashes, adopted, unheard>>

\* A replay answered by what is not HTTP, or a record that cannot be written: the
\* start fails, and the service manager makes another.
StartRaises ==
    /\ at = "reconciling" \/ Hears({"replay"})
    /\ Faulty /\ dropped' = {}
    /\ GoTo("down") /\ reply' = "none"
    /\ UNCHANGED <<laneVars, accepted, wire, diskVars, screenVars, pending, held, help,
                   session, laneStarts, crashes, adopted, unheard>>

\* Mutation of Reconciled: the loop starts with confirmed records left open.
ReconciledPastConfirmed ==
    /\ at = "reconciling" /\ \A t \in Ticket : rec[t].state = "issued" => t \in dropped
    /\ GoTo("idle")
    /\ UNCHANGED <<laneVars, vendVars, diskVars, screenVars, pending, held, help, session, history>>

Reconciled ==
    /\ at = "reconciling" /\ \A t \in Ticket : Unsettled(t) => t \in dropped
    /\ GoTo("idle")
    /\ UNCHANGED <<laneVars, vendVars, diskVars, screenVars, pending, held, help, session, history>>

-------------------------------------------------------------------------------
LaneNext ==
    \/ \E offer, there \in BOOLEAN : LaneDecides(offer, there)
    \/ StopsOffering \/ CarLeaves \/ LaneRestarts
    \/ \E r \in wire :
          \/ LaneAccepts(r)
          \/ \E answer \in {"refused", "act_refused"} : LaneRefuses(r, answer)

FollowNext ==
    \/ AdoptCursor \/ FollowLane \/ LaneUnread
    \/ \E ok \in BOOLEAN : CursorReset(ok) \/ Expire(ok)
    \/ \E readable \in Reads : SameDecision(readable)
    \/ \E readable \in Reads, ok \in BOOLEAN : NewDecision(readable, ok)
    \/ \E readable, ok \in BOOLEAN : CheckPending(readable, ok)
    \/ \E shown, ok \in BOOLEAN : Reassert(shown, ok)
    \/ \E shown \in BOOLEAN : Showing(shown)
    \/ LaneReadRaises \/ VoidAtRaises

PressNext ==
    \E d \in Door :
        \/ HelpExpires(d) \/ PressUntold(d)
        \/ PressRaises(d) \/ ConfirmRaises(d)
        \/ \E ok \in BOOLEAN : PressConfirms(d, ok)
        \/ \E readable \in Reads :
              PressForHelp(d, readable) \/ PressMints(d, readable) \/ PressForCase(d, readable)

CallNext ==
    \/ CallHuman \/ NobodyDecides \/ PersonOpensWithTicket
    \/ \E readable \in Reads : PersonOpensByMinting(readable)
    \/ \E ok \in BOOLEAN : PersonSaysNo(ok) \/ ToldOnScreen(ok) \/ CallEnds(ok)

VendNext ==
    \/ VendCommanded \/ VendRaises
    \/ \E reason \in Refusals, ok \in BOOLEAN : VendNotCommanded(reason, ok)

ProcessNext ==
    \/ \E blanked \in BOOLEAN : Dies(blanked)
    \/ Start \/ StartRaises \/ Reconciled
    \/ \E t \in Ticket : ReconcileIssued(t) \/ ReconcileConfirmed(t)
    \/ \E commanded \in BOOLEAN : ReplayAnswered(commanded)

Next == LaneNext \/ FollowNext \/ PressNext \/ CallNext \/ VendNext \/ ProcessNext

Spec == Init /\ [][Next]_vars

-------------------------------------------------------------------------------
(* Fairness: the loop passes five times a second, every wait for the lane    *)
(* has a time-out, a confirm window runs out on the clock, and a service     *)
(* manager starts the process again.  No driver, person, lane or network is  *)
(* assumed to do anything.  Expiry is strongly fair: it is looked at at the  *)
(* end of every pass, between two polls of the lane.                         *)

Fairness ==
    /\ SF_vars(\E ok \in BOOLEAN : Expire(ok))
    /\ WF_vars(\E readable \in Reads, ok \in BOOLEAN :
                  SameDecision(readable) \/ NewDecision(readable, ok))
    /\ WF_vars(\E readable, ok \in BOOLEAN : CheckPending(readable, ok))
    /\ WF_vars(\E shown, ok \in BOOLEAN : Reassert(shown, ok))
    /\ WF_vars(\E shown \in BOOLEAN : Showing(shown))
    /\ WF_vars(VendNext)
    /\ WF_vars(Start) /\ WF_vars(Reconciled)
    /\ WF_vars(\E t \in Ticket : ReconcileIssued(t) \/ ReconcileConfirmed(t))
    /\ WF_vars(\E commanded \in BOOLEAN : ReplayAnswered(commanded))

FairSpec == Spec /\ Fairness

-------------------------------------------------------------------------------
(* Properties. *)

LaneTypeOK ==
    /\ decision \in 0 .. MaxDecisions /\ cursor \in 0 .. MaxDecisions
    /\ offers \in BOOLEAN /\ present \in BOOLEAN

VendTypeOK ==
    /\ accepted \in [Ticket -> {"no", "press", "person"}]
    /\ wire \subseteq Request
    /\ reply \in {"none", "commanded", "refused", "act_refused"}

DiskTypeOK == rec \in [Ticket -> TicketRecord] /\ next \in 1 .. MaxTickets + 1

ScreenTypeOK == screen \in 0 .. MaxTickets /\ frame \in {"live", "left"}
                /\ display \in {"ok", "unavailable"}

AgentTypeOK ==
    /\ at \in {"down", "reconciling", "idle", "considering", "checking", "reasserting",
               "showing", "vending"}
    /\ purpose \in {"none", "poll"} \cup Authority
    /\ subject \in 0 .. MaxTickets /\ pending \in 0 .. MaxTickets
    /\ held \in -1 .. MaxDecisions
    /\ help \in [Door -> HelpWindow]
    /\ session \in Session

HistoryTypeOK ==
    /\ laneStarts \in 0 .. MaxLaneStarts /\ crashes \in 0 .. MaxCrashes
    /\ adopted \in 0 .. MaxDecisions
    /\ unheard \subseteq Ticket
    /\ faults \in 0 .. MaxFaults /\ dropped \subseteq Ticket

\* Every variable holds a value of its kind.
TypeOK ==
    /\ LaneTypeOK /\ VendTypeOK /\ DiskTypeOK /\ ScreenTypeOK /\ AgentTypeOK /\ HistoryTypeOK

Sent(t) == \E r \in wire : r.ticket = t

\* Whether the lane was, or may still be, brought to open by this ticket.
Asked(t) == Sent(t) \/ accepted[t] # "no"

\* A record settled with a reason that says the barrier was not asked to open
\* is right, whatever was lost, answered late or killed, and stays right: no
\* request that names the ticket is still on its way to the lane.  And a record
\* that says "vended" is about a vend the lane did accept.  (_finish_ticket,
\* _void_at, _command_vend, _reconcile.)
RecordsAreHonest ==
    \A t \in Ticket :
        /\ rec[t].state = "voided" /\ rec[t].reason \in Definite => ~Asked(t)
        /\ rec[t].state = "vended" => accepted[t] # "no"

\* Why: what is up, being minted or not minted yet has been asked of nobody; a
\* ticket that has been asked for is settled only by an answer to that, or by a
\* reason that claims nothing; and an answer is about the request in hand.
OneInHand ==
    /\ at \in {"down", "reconciling", "showing", "vending"} => pending = 0
    /\ purpose = "replay" => at = "vending"

FreshUntilAsked ==
    /\ pending # 0 => rec[pending].state = "issued" /\ ~Asked(pending)
    /\ at = "showing" => rec[subject].state = "issued" /\ ~Asked(subject)
    /\ \A t \in Ticket : t >= next => rec[t].state = "none" /\ ~Asked(t)

OpenWhileAsked ==
    /\ at = "vending" => Unsettled(subject)
    /\ \A t \in Ticket : Asked(t) =>
          \/ rec[t].state \in {"confirmed", "vended"}
          \/ /\ rec[t].state = "issued"
             /\ \/ at \in {"down", "reconciling"} \/ purpose = "replay"
                \/ at = "vending" /\ subject = t
                \/ t \in dropped
          \/ rec[t].state = "voided" /\ rec[t].reason \in Indefinite

AnswerIsAboutIt ==
    at = "vending" =>
        /\ reply = "commanded" => accepted[subject] # "no"
        /\ purpose # "replay" =>
              /\ \A r \in wire : r.ticket = subject => r.by = purpose
              /\ reply \in {"refused", "act_refused"} => ~Asked(subject)

HonestInv == OneInHand /\ FreshUntilAsked /\ OpenWhileAsked /\ AnswerIsAboutIt /\ RecordsAreHonest

\* Nothing is lost track of but by a failure nothing catches: while the agent runs,
\* the only records left open are the ticket that is up, the one being minted or
\* asked for, and those let go of where a record could not be read or written or
\* the lane's answer was not HTTP, which the next start settles.  The store is on
\* the disk and the pending ticket in memory, and a call, a poll and a person all
\* take the latter away.
NothingForgotten ==
    at \notin {"down", "reconciling"} /\ purpose # "replay" =>
        \A t \in Ticket : Unsettled(t) => t \in {pending, subject} \cup dropped

\* A press vends a ticket that was minted while a call at that screen's door
\* was in its case only if ticket.on_screen was heard to its end about it: the
\* driver of that call, or the next, has been told where to look.
PressKnowsTheCode ==
    \A t \in unheard : accepted[t] # "press" /\ [ticket |-> t, by |-> "press"] \notin wire

\* A help window is about the lane's latest ticket -- a later one, if any, was
\* refused by the screen -- and when it has the person told that the barrier was
\* asked to open, it was.
HelpIsAboutTheLatest ==
    \A d \in Door : help[d] # NoHelp =>
        /\ \A t \in Ticket : t > help[d].ticket =>
              \/ rec[t].state = "none" \/ rec[t].reason = "display_unavailable"
              \/ at = "showing" /\ t = subject
              \/ t \in dropped
        /\ help[d].said = "commanded" => accepted[help[d].ticket] # "no"

\* What an idle agent's screen shows is the ticket that is up or the one a
\* person has just opened with, unless a write to the screen failed and the
\* health surface says so, a killed process left it, or the agent let go of the
\* ticket in an exception, with its record open.
ScreenIsLive ==
    at = "idle" /\ screen # 0 /\ display = "ok" /\ frame = "live" =>
        screen \in {pending, session.shown} \cup dropped

\* The poll mints for a decision made since it took up the lane's cursor, never
\* for one that was in the window before: that car has gone.
PollMintsForNewDecisions ==
    [][at' = "showing" /\ purpose' = "poll" /\ next' # next
        => rec'[next].decision > adopted]_vars

LifeOf(r) ==
    IF r.state # "voided" THEN r.state
    ELSE IF r.reason \in Definite THEN "closed" ELSE "unclear"

Opened == {t \in Ticket : accepted[t] # "no"}

Life == INSTANCE TicketLife WITH
    life <- [t \in Ticket |-> LifeOf(rec[t])], opened <- Opened

\* The records keep the promise of TicketLife.
KeepsTicketLife == Life!Spec

\* Every ticket that is issued is settled, whatever is lost or refused and however
\* often the process is killed -- or waits for the next start with its record open,
\* because of a failure that nothing on its path catches.
EveryTicketSettles ==
    \A t \in Ticket : Unsettled(t) ~> (~Unsettled(t) \/ t \in dropped)
================================================================================
