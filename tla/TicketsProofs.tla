----------------------------- MODULE TicketsProofs -----------------------------
(***************************************************************************)
(* Theorems about Tickets, for every value of its constants.               *)
(***************************************************************************)
EXTENDS Tickets, TLAPS

-------------------------------------------------------------------------------
(* Types.  An agent that is minting or asking has a ticket in hand, one that  *)
(* is checking or redrawing has one up, and the lane's cursor counts no more  *)
(* decisions than the lane has made.                                          *)

InHand ==
    /\ at \in {"showing", "vending"} => subject \in Ticket
    /\ at \in {"checking", "reasserting"} => pending # 0

CursorBehind == cursor <= decision

TypeInv == TypeOK /\ InHand /\ CursorBehind

Records == [Ticket -> TicketRecord]

\* What the functions of tickets.py make of a record is a record.
LEMMA RecordTypes ==
    ASSUME NEW r \in TicketRecord, NEW reason \in Definite \cup Indefinite
    PROVE  /\ Voided(r, reason) \in TicketRecord
           /\ Confirmed(r) \in TicketRecord
           /\ Vended(r) \in TicketRecord
           /\ Told(r) \in TicketRecord
  BY DEF Voided, Confirmed, Vended, Told, TicketRecord, RecordState

LEMMA NothingTypes ==
    /\ NoRecord \in TicketRecord
    /\ NoHelp \in HelpWindow
    /\ NoSession \in Session
  BY BoundsAssumption
     DEF NoRecord, NoHelp, NoSession, TicketRecord, RecordState, HelpWindow, Session

LEMMA ScreenTypes ==
    ASSUME ScreenTypeOK, NEW ok \in BOOLEAN
    PROVE  /\ Blank(ok) => ScreenTypeOK'
           /\ TakeDown(ok) => ScreenTypeOK'
           /\ \A t \in Ticket : Show(t, ok) => ScreenTypeOK'
  <1> USE BoundsAssumption DEF ScreenTypeOK
  <1>1. Blank(ok) => ScreenTypeOK'
    BY DEF Blank
  <1>2. TakeDown(ok) => ScreenTypeOK'
    BY <1>1 DEF TakeDown, screenVars
  <1>3. \A t \in Ticket : Show(t, ok) => ScreenTypeOK'
    BY DEF Show, Ticket
  <1> QED
    BY <1>1, <1>2, <1>3

\* A record that is settled, or marked, is still a record; a ticket that is none
\* settles nothing.
LEMMA SettleTypes ==
    ASSUME NEW s \in Records, NEW t, NEW reason \in Definite \cup Indefinite
    PROVE  /\ [s EXCEPT ![t] = Voided(s[t], reason)] \in Records
           /\ [s EXCEPT ![t] = Confirmed(s[t])] \in Records
           /\ [s EXCEPT ![t] = Vended(s[t])] \in Records
           /\ [s EXCEPT ![t] = Told(s[t])] \in Records
  <1>1. CASE t \in Ticket
    <2>1. s[t] \in TicketRecord
      BY <1>1 DEF Records
    <2> QED
      BY <2>1, RecordTypes DEF Records
  <1>2. CASE t \notin Ticket
    BY <1>2 DEF Records
  <1> QED
    BY <1>1, <1>2

TroubleOK == faults \in 0 .. MaxFaults /\ dropped \subseteq Ticket

\* The bound on failures holds, and what is let go of is a ticket.
LEMMA TroubleTypes ==
    ASSUME TypeOK
    PROVE  /\ UNCHANGED trouble => TroubleOK'
           /\ Faulty /\ UNCHANGED dropped => TroubleOK'
           /\ Faulty /\ dropped' = {} => TroubleOK'
           /\ \A t \in Ticket : Drops(t) => TroubleOK'
           /\ \A t \in Ticket : \A x : Settle(t, x) => TroubleOK'
  <1> USE BoundsAssumption DEF TypeOK, HistoryTypeOK, TroubleOK
  <1>1. Faulty => faults' \in 0 .. MaxFaults
    BY DEF Faulty
  <1>2. UNCHANGED trouble => TroubleOK'
    BY DEF trouble
  <1>3. \A t \in Ticket : Drops(t) => TroubleOK'
    BY <1>1 DEF Drops
  <1> QED
    BY <1>1, <1>2, <1>3 DEF Settle, Write

\* A record is settled, or it is left as it is.
LEMMA SettleWrites ==
    ASSUME NEW t, NEW x, Settle(t, x)
    PROVE  rec' = [rec EXCEPT ![t] = x] \/ rec' = rec
  BY DEF Settle, Write

\* _void_at leaves the store, the pending ticket and the screen well typed, on
\* its way out or raising.
LEMMA VoidPendingTypes ==
    ASSUME TypeOK, NEW reason \in Definite, NEW ok \in BOOLEAN, VoidPending(reason, ok)
    PROVE  rec' \in Records /\ pending' \in 0 .. MaxTickets /\ ScreenTypeOK' /\ TroubleOK'
  <1>1. CASE pending = 0
    BY <1>1, TroubleTypes
       DEF VoidPending, TypeOK, DiskTypeOK, AgentTypeOK, ScreenTypeOK, screenVars, Records
  <1>2. CASE pending # 0
    <2>1. pending \in Ticket /\ rec \in Records
      BY <1>2, BoundsAssumption DEF TypeOK, AgentTypeOK, DiskTypeOK, Ticket, Records
    <2>2. Voided(rec[pending], reason) \in TicketRecord
      BY <2>1, RecordTypes DEF Records
    <2>3. Settle(pending, Voided(rec[pending], reason))
      BY <1>2 DEF VoidPending
    <2>4. rec' \in Records /\ TroubleOK'
      BY <2>1, <2>2, <2>3, SettleWrites, TroubleTypes DEF Records
    <2>5. ScreenTypeOK'
      BY <1>2, ScreenTypes DEF VoidPending, TypeOK
    <2> QED
      BY <1>2, <2>4, <2>5, BoundsAssumption DEF VoidPending
  <1> QED
    BY <1>1, <1>2

LEMMA VoidRaisesTypes ==
    ASSUME TypeOK, VoidRaises
    PROVE  /\ rec' = rec /\ pending' = 0 /\ TroubleOK'
           /\ pending \in Ticket
  <1>1. pending \in Ticket
    BY BoundsAssumption DEF VoidRaises, TypeOK, AgentTypeOK, Ticket
  <1> QED
    BY <1>1, TroubleTypes DEF VoidRaises

\* _issue writes a record and leaves the ticket it minted in hand.
LEMMA IssueTypes ==
    ASSUME TypeOK, NEW before \in Records, NEW for, NEW told \in BOOLEAN,
           Issue(before, for, told)
    PROVE  /\ DiskTypeOK'
           /\ at' = "showing" /\ purpose' = for /\ subject' \in Ticket
           /\ unheard' \subseteq Ticket
  <1>1. [state |-> "issued", reason |-> "none", told |-> told, decision |-> decision]
          \in TicketRecord
    BY DEF TypeOK, LaneTypeOK, TicketRecord, RecordState
  <1>2. next \in Ticket /\ next' \in 1 .. MaxTickets + 1
    BY BoundsAssumption DEF Issue, TypeOK, DiskTypeOK, Ticket
  <1>3. rec' \in Records
    BY <1>1, <1>2 DEF Issue, Records
  <1>4. unheard' \subseteq Ticket
    BY <1>2 DEF Issue, TypeOK, HistoryTypeOK
  <1> QED
    BY <1>2, <1>3, <1>4 DEF Issue, DiskTypeOK, Records

LEMMA AskLaneTypes ==
    ASSUME TypeOK, NEW t \in Ticket, NEW by \in Authority, AskLane(t, by)
    PROVE  /\ wire' \subseteq Request /\ reply' = "none"
           /\ at' = "vending" /\ purpose' = by /\ subject' = t
  BY DEF AskLane, TypeOK, VendTypeOK, Request

LEMMA EndHelpTypes == EndHelp => help' \in [Door -> HelpWindow]
  BY NothingTypes DEF EndHelp

LEMMA AnsweredTypes ==
    ASSUME NEW d \in Door, NEW phase \in {"case", "confirmed", "person", "closing"}
    PROVE  Answered(d, phase) \in Session
  BY NothingTypes DEF Answered, Session, NoSession

LEMMA TypeInit == Init => TypeInv
  <1> SUFFICES ASSUME Init PROVE TypeInv
    OBVIOUS
  <1>1. offers \in BOOLEAN /\ present \in BOOLEAN
    BY Zenon DEF Init
  <1>5. LaneTypeOK
    BY <1>1, BoundsAssumption DEF Init, LaneTypeOK
  <1>6. HistoryTypeOK
    BY <1>1, BoundsAssumption DEF Init, HistoryTypeOK
  <1>7. ScreenTypeOK /\ VendTypeOK
    BY BoundsAssumption DEF Init, ScreenTypeOK, VendTypeOK
  <1>2. DiskTypeOK
    BY BoundsAssumption, NothingTypes DEF Init, DiskTypeOK
  <1>3. AgentTypeOK
    BY BoundsAssumption, NothingTypes DEF Init, AgentTypeOK
  <1>4. InHand /\ CursorBehind
    BY DEF Init, InHand, CursorBehind
  <1> QED
    BY <1>2, <1>3, <1>4, <1>5, <1>6, <1>7 DEF TypeInv, TypeOK

LEMMA FollowTypes ==
    ASSUME TypeInv, FollowNext
    PROVE  TypeInv'
  <1> USE BoundsAssumption
      DEF TypeInv, TypeOK, LaneTypeOK, VendTypeOK, DiskTypeOK, ScreenTypeOK, AgentTypeOK,
          HistoryTypeOK, InHand, CursorBehind, laneVars, vendVars, diskVars, screenVars,
          history, trouble, TroubleOK, GoTo, AfterPoll, Ticket
  <1>1. CASE AdoptCursor
    BY <1>1 DEF AdoptCursor
  <1>2. CASE FollowLane
    BY <1>2 DEF FollowLane
  <1>3. CASE LaneUnread
    BY <1>3 DEF LaneUnread
  <1>4. ASSUME NEW ok \in BOOLEAN, CursorReset(ok) PROVE TypeInv'
    <2>1. /\ rec' \in Records /\ pending' \in 0 .. MaxTickets
          /\ ScreenTypeOK' /\ TroubleOK'
      BY <1>4, VoidPendingTypes, VoidRaisesTypes DEF CursorReset, Definite, Records
    <2> QED
      BY <1>4, <2>1 DEF CursorReset, Records
  <1>5. ASSUME NEW ok \in BOOLEAN, Expire(ok) PROVE TypeInv'
    <2>1. /\ rec' \in Records /\ pending' \in 0 .. MaxTickets
          /\ ScreenTypeOK' /\ TroubleOK'
      BY <1>5, VoidPendingTypes DEF Expire, Definite
    <2> QED
      BY <1>5, <2>1 DEF Expire, Records
  <1>6. ASSUME NEW readable, SameDecision(readable) PROVE TypeInv'
    BY <1>6 DEF SameDecision
  <1>7. ASSUME NEW readable \in BOOLEAN, NEW ok \in BOOLEAN, NewDecision(readable, ok)
        PROVE TypeInv'
    <2>1. /\ rec \in Records
          /\ [rec EXCEPT ![pending] = Voided(rec[pending], "lane_decided_again")] \in Records
      BY SettleTypes DEF Records, Definite
    <2>2. ScreenTypeOK' /\ pending' = 0 /\ help' \in [Door -> HelpWindow]
      BY <1>7, ScreenTypes, EndHelpTypes DEF NewDecision
    <2>3. TroubleOK'
      <3>1. pending # 0 => pending \in Ticket
        OBVIOUS
      <3>2. UNCHANGED trouble \/ (pending # 0 /\ Drops(pending))
        BY <1>7 DEF NewDecision
      <3> QED
        BY <3>1, <3>2, TroubleTypes
    <2>4. PICK store \in Records : MintsOrNot(store, readable)
      BY <1>7, <2>1 DEF NewDecision
    <2>5. (~OnThePhone) \in BOOLEAN
      BY DEF OnThePhone
    <2>6. UNCHANGED <<laneVars, vendVars, held, session, laneStarts, crashes, adopted>>
      BY <1>7 DEF NewDecision
    <2>7. CASE Issue(store, "poll", ~OnThePhone)
      <3>1. /\ DiskTypeOK'
            /\ at' = "showing" /\ purpose' = "poll" /\ subject' \in Ticket
            /\ unheard' \subseteq Ticket
        BY <2>5, <2>7, IssueTypes
      <3> QED
        BY <2>2, <2>3, <2>6, <3>1
    <2>8. CASE rec' = store /\ GoTo("idle") /\ UNCHANGED <<next, unheard>>
      BY <2>2, <2>3, <2>6, <2>8 DEF Records
    <2> QED
      BY <2>4, <2>7, <2>8 DEF MintsOrNot
  <1>8. ASSUME NEW readable \in BOOLEAN, NEW ok \in BOOLEAN, CheckPending(readable, ok)
        PROVE TypeInv'
    <2>1. /\ rec' \in Records /\ pending' \in 0 .. MaxTickets
          /\ ScreenTypeOK' /\ TroubleOK'
      BY <1>8, VoidPendingTypes, TroubleTypes DEF CheckPending, Definite, Records
    <2> QED
      BY <1>8, <2>1 DEF CheckPending, Records
  <1>9. ASSUME NEW shown \in BOOLEAN, NEW ok \in BOOLEAN, Reassert(shown, ok)
        PROVE TypeInv'
    <2>1. rec' \in Records /\ TroubleOK'
      <3>1. [rec EXCEPT ![pending] = Voided(rec[pending], "display_unavailable")] \in Records
        BY SettleTypes DEF Records, Definite
      <3>2. pending \in Ticket
        BY <1>9 DEF Reassert
      <3>3. UNCHANGED <<rec, trouble>> \/ Settle(pending, Voided(rec[pending], "display_unavailable"))
        BY <1>9 DEF Reassert
      <3>4. TroubleOK'
        BY <3>2, <3>3, TroubleTypes
      <3>5. rec' \in Records
        BY <3>1, <3>3, SettleWrites DEF Records
      <3> QED
        BY <3>4, <3>5
    <2>2. ScreenTypeOK' /\ pending' \in 0 .. MaxTickets
      BY <1>9 DEF Reassert, Show
    <2> QED
      BY <1>9, <2>1, <2>2 DEF Reassert, Records
  <1>10. ASSUME NEW shown \in BOOLEAN, Showing(shown) PROVE TypeInv'
    <2>1. subject \in Ticket /\ ScreenTypeOK'
      BY <1>10, ScreenTypes DEF Showing
    <2>2. rec' \in Records
      <3>1. [rec EXCEPT ![subject] = Voided(rec[subject], "display_unavailable")] \in Records
        BY SettleTypes DEF Records, Definite
      <3> QED
        BY <1>10, <3>1 DEF Showing, Write, Records
    <2>9. TroubleOK'
      BY <1>10, <2>1, TroubleTypes DEF Showing, Write
    <2>3. help' \in [Door -> HelpWindow] /\ pending' \in 0 .. MaxTickets
      BY <1>10, <2>1, EndHelpTypes DEF Showing
    <2>4. session' \in Session
      <3>1. Closing(subject, session.shown) \in Session
        BY <2>1 DEF Closing, Session
      <3>2. [session EXCEPT !.phase = "closing"] \in Session
        BY DEF Session
      <3> QED
        BY <1>10, <3>1, <3>2 DEF Showing
    <2>8. UNCHANGED <<laneVars, accepted, next, held, laneStarts, crashes, adopted, unheard>>
      BY <1>10 DEF Showing
    <2>5. CASE AskLane(subject, "person")
      <3>1. /\ wire' \subseteq Request /\ reply' = "none"
            /\ at' = "vending" /\ purpose' = "person" /\ subject' = subject
        BY <2>1, <2>5, AskLaneTypes DEF Authority
      <3> QED
        BY <2>1, <2>2, <2>3, <2>4, <2>8, <2>9, <3>1 DEF Records, Authority
    <2>6. CASE /\ UNCHANGED <<wire, reply>>
               /\ purpose' = "none" /\ subject' = 0
               /\ at' = "idle" \/ (at' = "reasserting" /\ pending' # 0)
      <3>1. TypeOK'
        BY <2>1, <2>2, <2>3, <2>4, <2>6, <2>8, <2>9 DEF Records
      <3>2. InHand' /\ CursorBehind'
        BY <2>6, <2>8
      <3> QED
        BY <3>1, <3>2
    <2>7. \/ AskLane(subject, "person")
          \/ /\ UNCHANGED <<wire, reply>>
             /\ purpose' = "none" /\ subject' = 0
             /\ at' = "idle" \/ (at' = "reasserting" /\ pending' # 0)
      <3>1. subject # 0
        BY <2>1
      <3> QED
        BY ONLY <1>10, <3>1 DEF Showing, GoTo
    <2> QED
      BY <2>5, <2>6, <2>7
  <1>11. CASE LaneReadRaises
    BY <1>11, TroubleTypes DEF LaneReadRaises
  <1>12. CASE VoidAtRaises
    <2>1. rec' = rec /\ pending' = 0 /\ TroubleOK'
      BY <1>12, VoidRaisesTypes DEF VoidAtRaises
    <2>2. display' \in {"ok", "unavailable"}
      BY <1>12 DEF VoidAtRaises
    <2> QED
      BY <1>12, <2>1, <2>2 DEF VoidAtRaises
  <1> QED
    BY <1>1, <1>2, <1>3, <1>4, <1>5, <1>6, <1>7, <1>8, <1>9, <1>10, <1>11, <1>12
       DEF FollowNext, Reads

LEMMA PressTypes ==
    ASSUME TypeInv, PressNext
    PROVE  TypeInv'
  <1> USE BoundsAssumption
      DEF TypeInv, TypeOK, LaneTypeOK, VendTypeOK, DiskTypeOK, ScreenTypeOK, AgentTypeOK,
          HistoryTypeOK, InHand, CursorBehind, laneVars, vendVars, diskVars, screenVars,
          history, trouble, TroubleOK, GoTo, Ticket
  <1>1. ASSUME NEW d \in Door, PressUntold(d) PROVE TypeInv'
    <2>1. session' \in Session
      BY <1>1 DEF PressUntold, Telling, Session
    <2> QED
      BY <1>1, <2>1 DEF PressUntold
  <1>2. ASSUME NEW d \in Door, NEW ok \in BOOLEAN, PressConfirms(d, ok) PROVE TypeInv'
    <2>1. pending \in Ticket /\ pending' = 0
      BY <1>2 DEF PressConfirms
    <2>2. session' \in Session
      BY <1>2, AnsweredTypes DEF PressConfirms
    <2>3. help' \in [Door -> HelpWindow]
      BY <1>2, <2>1 DEF PressConfirms, HelpWindow
    <2>4. ScreenTypeOK'
      BY <1>2, ScreenTypes DEF PressConfirms
    <2>5. rec' \in Records /\ TroubleOK'
      <3>1. /\ [rec EXCEPT ![pending] = Voided(rec[pending], "no_act_route")] \in Records
            /\ [rec EXCEPT ![pending] = Confirmed(rec[pending])] \in Records
        BY SettleTypes DEF Records, Definite
      <3> QED
        BY <1>2, <2>1, <3>1, SettleWrites, TroubleTypes DEF PressConfirms, Write, Records
    <2>6. UNCHANGED <<laneVars, accepted, next, held, laneStarts, crashes, adopted, unheard>>
      BY <1>2 DEF PressConfirms
    <2>7. CASE AskLane(pending, "press")
      <3>1. /\ wire' \subseteq Request /\ reply' = "none"
            /\ at' = "vending" /\ purpose' = "press" /\ subject' = pending
        BY <2>1, <2>7, AskLaneTypes DEF Authority
      <3> QED
        BY <2>1, <2>2, <2>3, <2>4, <2>5, <2>6, <3>1 DEF Records, Authority
    <2>8. CASE UNCHANGED <<at, purpose, subject, wire, reply>>
      <3>1. at = "idle"
        BY <1>2 DEF PressConfirms
      <3> QED
        BY <2>1, <2>2, <2>3, <2>4, <2>5, <2>6, <2>8, <3>1 DEF Records
    <2> QED
      BY <1>2, <2>7, <2>8 DEF PressConfirms
  <1>3. ASSUME NEW d \in Door, NEW readable, PressForHelp(d, readable) PROVE TypeInv'
    <2>1. session' \in Session
      BY <1>3, AnsweredTypes DEF PressForHelp, TellCase
    <2> QED
      BY <1>3, <2>1 DEF PressForHelp
  <1>4. ASSUME NEW d \in Door, NEW readable, PressMints(d, readable) PROVE TypeInv'
    <2>1. session' \in Session
      BY <1>4, AnsweredTypes DEF PressMints
    <2>2. /\ DiskTypeOK'
          /\ at' = "showing" /\ purpose' = "press" /\ subject' \in Ticket
          /\ unheard' \subseteq Ticket
      BY <1>4, IssueTypes DEF PressMints, Records
    <2> QED
      BY <1>4, <2>1, <2>2 DEF PressMints, Authority
  <1>5. ASSUME NEW d \in Door, NEW readable, PressForCase(d, readable) PROVE TypeInv'
    <2>1. session' \in Session
      BY <1>5, AnsweredTypes DEF PressForCase, TellCase
    <2> QED
      BY <1>5, <2>1 DEF PressForCase
  <1>6. ASSUME NEW d \in Door, HelpExpires(d) PROVE TypeInv'
    BY <1>6, NothingTypes DEF HelpExpires
  <1>7. ASSUME NEW d \in Door, PressRaises(d) PROVE TypeInv'
    <2>1. session' \in Session /\ TroubleOK'
      BY <1>7, AnsweredTypes, TroubleTypes DEF PressRaises
    <2> QED
      BY <1>7, <2>1 DEF PressRaises
  <1>8. ASSUME NEW d \in Door, ConfirmRaises(d) PROVE TypeInv'
    <2>1. rec' = rec /\ pending' = 0 /\ TroubleOK' /\ pending \in Ticket
      BY <1>8, VoidRaisesTypes DEF ConfirmRaises
    <2>2. session' \in Session
      BY <1>8, AnsweredTypes DEF ConfirmRaises
    <2>3. help' \in [Door -> HelpWindow]
      BY <1>8, <2>1 DEF ConfirmRaises, HelpWindow
    <2> QED
      BY <1>8, <2>1, <2>2, <2>3 DEF ConfirmRaises
  <1> QED
    BY <1>1, <1>2, <1>3, <1>4, <1>5, <1>6, <1>7, <1>8 DEF PressNext

LEMMA CallTypes ==
    ASSUME TypeInv, CallNext
    PROVE  TypeInv'
  <1> USE BoundsAssumption
      DEF TypeInv, TypeOK, LaneTypeOK, VendTypeOK, DiskTypeOK, ScreenTypeOK, AgentTypeOK,
          HistoryTypeOK, InHand, CursorBehind, laneVars, vendVars, diskVars, screenVars,
          history, trouble, TroubleOK, GoTo, Ticket
  <1>1. CASE CallHuman \/ NobodyDecides
    <2>1. session' \in Session
      BY <1>1 DEF CallHuman, NobodyDecides, Session
    <2> QED
      BY <1>1, <2>1 DEF CallHuman, NobodyDecides
  <1>2. CASE PersonOpensWithTicket
    <2>1. pending \in Ticket /\ pending' = 0
      BY <1>2 DEF PersonOpensWithTicket
    <2>2. session' \in Session
      BY <1>2 DEF PersonOpensWithTicket, Session
    <2>5. /\ at = "idle"
          /\ UNCHANGED <<laneVars, accepted, diskVars, screenVars, held, help, history>>
      BY <1>2 DEF PersonOpensWithTicket
    <2>3. CASE AskLane(pending, "person")
      <3>1. /\ wire' \subseteq Request /\ reply' = "none"
            /\ at' = "vending" /\ purpose' = "person" /\ subject' = pending
        BY <2>1, <2>3, AskLaneTypes DEF Authority
      <3> QED
        BY <2>1, <2>2, <2>5, <3>1 DEF Authority
    <2>4. CASE UNCHANGED <<at, purpose, subject, wire, reply>>
      BY <2>1, <2>2, <2>4, <2>5
    <2> QED
      BY <1>2, <2>3, <2>4 DEF PersonOpensWithTicket
  <1>3. ASSUME NEW readable, PersonOpensByMinting(readable) PROVE TypeInv'
    <2>1. session' \in Session
      BY <1>3 DEF PersonOpensByMinting, Session
    <2>4. UNCHANGED <<laneVars, vendVars, screenVars, pending, held, help,
                      laneStarts, crashes, adopted, trouble>>
      BY <1>3 DEF PersonOpensByMinting
    <2>2. CASE Issue(rec, "person", TRUE)
      <3>1. /\ DiskTypeOK'
            /\ at' = "showing" /\ purpose' = "person" /\ subject' \in Ticket
            /\ unheard' \subseteq Ticket
        BY <2>2, IssueTypes DEF Records
      <3> QED
        BY <2>1, <2>4, <3>1 DEF Authority
    <2>3. CASE UNCHANGED <<diskVars, at, purpose, subject, unheard>>
      BY <1>3, <2>1, <2>3 DEF PersonOpensByMinting
    <2> QED
      BY <1>3, <2>2, <2>3 DEF PersonOpensByMinting
  <1>4. ASSUME NEW ok \in BOOLEAN, PersonSaysNo(ok) PROVE TypeInv'
    <2>1. /\ rec' \in Records /\ pending' \in 0 .. MaxTickets
          /\ ScreenTypeOK' /\ TroubleOK'
      BY <1>4, VoidPendingTypes DEF PersonSaysNo, Definite
    <2>2. session' \in Session
      BY <1>4 DEF PersonSaysNo, Session
    <2> QED
      BY <1>4, <2>1, <2>2 DEF PersonSaysNo, Records
  <1>5. ASSUME NEW ok \in BOOLEAN, EndSession(ok) PROVE session' \in Session /\ ScreenTypeOK'
    BY <1>5, ScreenTypes, NothingTypes DEF EndSession
  <1>6. ASSUME NEW ok \in BOOLEAN, ToldOnScreen(ok) PROVE TypeInv'
    <2>1. rec' \in Records
      <3>1. [rec EXCEPT ![pending] = Told(rec[pending])] \in Records
        BY SettleTypes DEF Records, Definite
      <3> QED
        BY <1>6, <3>1 DEF ToldOnScreen, Write, Records
    <2>2. session' \in Session /\ ScreenTypeOK'
      BY <1>5, <1>6 DEF ToldOnScreen
    <2>3. TroubleOK'
      BY <1>6 DEF ToldOnScreen, Write
    <2> QED
      BY <1>6, <2>1, <2>2, <2>3 DEF ToldOnScreen, Records
  <1>7. ASSUME NEW ok \in BOOLEAN, CallEnds(ok) PROVE TypeInv'
    <2>1. session' \in Session /\ ScreenTypeOK'
      BY <1>5, <1>7 DEF CallEnds
    <2> QED
      BY <1>7, <2>1 DEF CallEnds
  <1> QED
    BY <1>1, <1>2, <1>3, <1>4, <1>6, <1>7 DEF CallNext

LEMMA VendTypes ==
    ASSUME TypeInv, VendNext
    PROVE  TypeInv'
  <1> USE BoundsAssumption
      DEF TypeInv, TypeOK, LaneTypeOK, VendTypeOK, DiskTypeOK, ScreenTypeOK, AgentTypeOK,
          HistoryTypeOK, InHand, CursorBehind, laneVars, vendVars, diskVars, screenVars,
          history, trouble, TroubleOK, GoTo, Ticket
  <1>1. ASSUME NEW said \in {"commanded", "refused"}, RememberHelp(said)
        PROVE  help' \in [Door -> HelpWindow]
    BY <1>1 DEF RememberHelp, HelpWindow
  <1>2. CASE VendCommanded
    <2>1. subject \in Ticket
      BY <1>2 DEF VendCommanded, Hears
    <2>2. rec' \in Records /\ TroubleOK'
      <3>1. [rec EXCEPT ![subject] = Vended(rec[subject])] \in Records
        BY SettleTypes DEF Records, Definite
      <3> QED
        BY <1>2, <2>1, <3>1, SettleWrites, TroubleTypes DEF VendCommanded, Records
    <2>3. session' \in Session
      BY <1>2, <2>1 DEF VendCommanded, Session, Closing
    <2> QED
      BY <1>1, <1>2, <2>2, <2>3 DEF VendCommanded, Hears, Records
  <1>3. ASSUME NEW reason \in Refusals, NEW ok \in BOOLEAN, VendNotCommanded(reason, ok)
        PROVE  TypeInv'
    <2>1. reason \in Definite \cup Indefinite
      BY DEF Refusals, Definite, Indefinite
    <2>2. rec' \in Records /\ TroubleOK'
      <3>1. [rec EXCEPT ![subject] = Voided(rec[subject], reason)] \in Records
        BY <2>1, SettleTypes DEF Records
      <3>2. subject \in Ticket
        BY <1>3 DEF VendNotCommanded, Hears
      <3> QED
        BY <1>3, <3>1, <3>2, SettleWrites, TroubleTypes DEF VendNotCommanded, Records
    <2>3. session' \in Session
      BY <1>3 DEF VendNotCommanded, Session
    <2>4. help' \in [Door -> HelpWindow]
      BY <1>1, <1>3 DEF VendNotCommanded
    <2>5. ScreenTypeOK'
      BY <1>3, ScreenTypes DEF VendNotCommanded
    <2>6. /\ at = "vending" /\ reply' = "none"
          /\ at' = "idle" /\ purpose' = "none" /\ subject' = 0
          /\ UNCHANGED <<laneVars, accepted, wire, next, pending, held,
                         laneStarts, crashes, adopted, unheard>>
      BY <1>3 DEF VendNotCommanded, Hears
    <2> QED
      BY <2>2, <2>3, <2>4, <2>5, <2>6 DEF Records
  <1>4. CASE VendRaises
    <2>1. subject \in Ticket
      BY <1>4 DEF VendRaises, Hears
    <2>2. TroubleOK'
      BY <1>4, <2>1, TroubleTypes DEF VendRaises
    <2> QED
      BY <1>4, <2>2 DEF VendRaises, Hears
  <1> QED
    BY <1>2, <1>3, <1>4 DEF VendNext

LEMMA LaneTypes ==
    ASSUME TypeInv, LaneNext
    PROVE  TypeInv'
  <1> USE BoundsAssumption
      DEF TypeInv, TypeOK, LaneTypeOK, VendTypeOK, DiskTypeOK, ScreenTypeOK, AgentTypeOK,
          HistoryTypeOK, InHand, CursorBehind, laneVars, vendVars, diskVars, screenVars,
          agentVars, history, trouble, TroubleOK, GoTo, Ticket
  <1>1. ASSUME NEW offer \in BOOLEAN, NEW there \in BOOLEAN, LaneDecides(offer, there)
        PROVE  TypeInv'
    <2>1. offers' \in BOOLEAN /\ present' \in BOOLEAN
      BY Zenon, <1>1 DEF LaneDecides
    <2> QED
      BY <1>1, <2>1 DEF LaneDecides
  <1>2. CASE StopsOffering \/ CarLeaves \/ LaneRestarts
    <2>1. offers' \in BOOLEAN /\ present' \in BOOLEAN
      BY Zenon, <1>2 DEF StopsOffering, CarLeaves, LaneRestarts, laneVars
    <2>2. CASE StopsOffering
      BY <2>1, <2>2 DEF StopsOffering
    <2>3. CASE CarLeaves
      BY <2>1, <2>3 DEF CarLeaves
    <2>4. CASE LaneRestarts
      BY <2>1, <2>4 DEF LaneRestarts
    <2> QED
      BY <1>2, <2>2, <2>3, <2>4
  <1>3. ASSUME NEW r \in wire, LaneAccepts(r) PROVE TypeInv'
    <2>1. accepted' \in [Ticket -> {"no", "press", "person"}]
      BY <1>3 DEF LaneAccepts
    <2> QED
      BY <1>3, <2>1 DEF LaneAccepts
  <1>4. ASSUME NEW r \in wire, NEW answer \in {"refused", "act_refused"},
               LaneRefuses(r, answer)
        PROVE  TypeInv'
    BY <1>4 DEF LaneRefuses
  <1> QED
    BY <1>1, <1>2, <1>3, <1>4 DEF LaneNext

LEMMA ProcessTypes ==
    ASSUME TypeInv, ProcessNext
    PROVE  TypeInv'
  <1> USE BoundsAssumption
      DEF TypeInv, TypeOK, LaneTypeOK, VendTypeOK, DiskTypeOK, ScreenTypeOK, AgentTypeOK,
          HistoryTypeOK, InHand, CursorBehind, laneVars, vendVars, diskVars, screenVars,
          agentVars, history, trouble, TroubleOK, GoTo, Ticket
  <1>1. ASSUME NEW blanked \in BOOLEAN, Dies(blanked) PROVE TypeInv'
    BY <1>1, EndHelpTypes, NothingTypes DEF Dies
  <1>2. CASE Start
    BY <1>2 DEF Start
  <1>6. CASE Reconciled
    BY <1>6 DEF Reconciled
  <1>3. ASSUME NEW t \in Ticket, ReconcileIssued(t) PROVE TypeInv'
    <2>1. rec' \in Records /\ TroubleOK'
      <3>1. [rec EXCEPT ![t] = Voided(rec[t], "restarted")] \in Records
        BY SettleTypes DEF Records, Indefinite
      <3> QED
        BY <1>3, <3>1, SettleWrites, TroubleTypes DEF ReconcileIssued, Records
    <2> QED
      BY <1>3, <2>1 DEF ReconcileIssued, Records
  <1>4. ASSUME NEW t \in Ticket, ReconcileConfirmed(t) PROVE TypeInv'
    <2>1. rec' \in Records /\ TroubleOK'
      <3>1. [rec EXCEPT ![t] = Voided(rec[t], "outcome_unknown")] \in Records
        BY SettleTypes DEF Records, Indefinite
      <3> QED
        BY <1>4, <3>1, TroubleTypes DEF ReconcileConfirmed, Write, Records
    <2>2. CASE AskLane(t, "replay")
      <3>1. /\ wire' \subseteq Request /\ reply' = "none"
            /\ at' = "vending" /\ purpose' = "replay" /\ subject' = t
        BY <2>2, AskLaneTypes DEF Authority
      <3> QED
        BY <1>4, <2>1, <3>1 DEF ReconcileConfirmed, Authority, Records
    <2>3. CASE UNCHANGED <<at, purpose, subject, wire, reply>>
      BY <1>4, <2>1, <2>3 DEF ReconcileConfirmed, Records
    <2> QED
      BY <1>4, <2>2, <2>3 DEF ReconcileConfirmed
  <1>5. ASSUME NEW commanded \in BOOLEAN, ReplayAnswered(commanded) PROVE TypeInv'
    <2>1. rec' \in Records
      <3>1. /\ [rec EXCEPT ![subject] = Vended(rec[subject])] \in Records
            /\ [rec EXCEPT ![subject] = Voided(rec[subject], "outcome_unknown")] \in Records
        BY SettleTypes DEF Records, Indefinite
      <3> QED
        BY <1>5, <3>1 DEF ReplayAnswered, Write
    <2> QED
      BY <1>5, <2>1 DEF ReplayAnswered, Write, Hears, Records
  <1>7. CASE StartRaises
    BY <1>7, TroubleTypes DEF StartRaises
  <1> QED
    BY <1>1, <1>2, <1>3, <1>4, <1>5, <1>6, <1>7 DEF ProcessNext

LEMMA TypeStep == TypeInv /\ [Next]_vars => TypeInv'
  <1> SUFFICES ASSUME TypeInv, [Next]_vars PROVE TypeInv'
    OBVIOUS
  <1>1. CASE UNCHANGED vars
    BY <1>1 DEF vars, laneVars, vendVars, diskVars, screenVars, agentVars, history, trouble,
       TypeInv, TypeOK, LaneTypeOK, VendTypeOK, DiskTypeOK, ScreenTypeOK, AgentTypeOK,
       HistoryTypeOK, InHand, CursorBehind
  <1> QED
    BY <1>1, FollowTypes, PressTypes, CallTypes, VendTypes, LaneTypes, ProcessTypes DEF Next

\* Every variable of the ticket path always holds a value of its kind.
THEOREM TypesHold == Spec => []TypeOK
  <1>1. TypeInv => TypeOK
    BY DEF TypeInv
  <1> QED
    BY <1>1, TypeInit, TypeStep, PTL DEF Spec

-------------------------------------------------------------------------------
(* Honesty of the records.  HonestInv is inductive; what follows goes through *)
(* Next by what a step does to the store, the requests and the agent's place. *)

Quiet == {"idle", "considering", "checking", "reasserting"}

LEMMA HonestInit == Init => HonestInv
  <1> SUFFICES ASSUME Init PROVE HonestInv
    OBVIOUS
  <1>1. \A t \in Ticket : rec[t].state = "none" /\ ~Asked(t)
    BY DEF Init, NoRecord, Asked, Sent
  <1> QED
    BY <1>1 DEF Init, HonestInv, OneInHand, FreshUntilAsked, OpenWhileAsked, AnswerIsAboutIt,
                RecordsAreHonest

\* Disjointness of what the two kinds of reason claim.
LEMMA ReasonsApart == Definite \cap Indefinite = {}
  BY DEF Definite, Indefinite

\* A step that leaves records, requests and the agent's hands alone.
LEMMA HonestFrame ==
    ASSUME HonestInv, dropped \subseteq dropped', pending' \in {0, pending},
           UNCHANGED <<accepted, wire, reply, rec, next, at, purpose, subject>>
    PROVE  HonestInv'
  BY DEF HonestInv, OneInHand, FreshUntilAsked, OpenWhileAsked, AnswerIsAboutIt,
         RecordsAreHonest, Asked, Sent, Unsettled

\* The agent moves on with nothing in hand.
LEMMA HonestMove ==
    ASSUME HonestInv, at \in Quiet, at' \in Quiet, purpose' # "replay",
           dropped \subseteq dropped', pending' \in {0, pending},
           UNCHANGED <<accepted, wire, reply, rec, next>>
    PROVE  HonestInv'
  BY DEF HonestInv, OneInHand, FreshUntilAsked, OpenWhileAsked, AnswerIsAboutIt,
         RecordsAreHonest, Asked, Sent, Unsettled, Quiet

\* The ticket that is up is voided with a reason that says nobody was asked.
LEMMA HonestVoid ==
    ASSUME TypeInv, HonestInv, at \in Quiet, at' \in Quiet, purpose' # "replay",
           pending # 0, NEW reason \in Definite,
           rec' = [rec EXCEPT ![pending] = Voided(rec[pending], reason)], pending' = 0,
           dropped \subseteq dropped', UNCHANGED <<accepted, wire, reply, next>>
    PROVE  HonestInv'
  <1> DEFINE p == pending
  <1>1. p \in Ticket /\ rec \in Records
    BY BoundsAssumption
       DEF TypeInv, TypeOK, AgentTypeOK, DiskTypeOK, Ticket, Records
  <1>2. \A t \in Ticket : rec'[t] = IF t = p THEN Voided(rec[p], reason) ELSE rec[t]
    BY <1>1 DEF Records
  <1>3. \A t \in Ticket : Asked(t)' <=> Asked(t)
    BY DEF Asked, Sent
  <1>4. Voided(rec[p], reason).state = "voided" /\ Voided(rec[p], reason).reason = reason
    BY DEF Voided
  <1>5. ~Asked(p) /\ rec[p].state = "issued" /\ p < next
    BY <1>1, BoundsAssumption
       DEF HonestInv, FreshUntilAsked, TypeInv, TypeOK, DiskTypeOK, Ticket
  <1> HIDE DEF p
  <1>6. OneInHand'
    BY DEF OneInHand, Quiet
  <1>7. FreshUntilAsked'
    BY <1>1, <1>2, <1>3, <1>5, BoundsAssumption
       DEF HonestInv, FreshUntilAsked, Quiet, TypeInv, TypeOK, DiskTypeOK, Ticket
  <1>8. OpenWhileAsked'
    BY <1>1, <1>2, <1>3, <1>4, <1>5 DEF HonestInv, OpenWhileAsked, OneInHand, Quiet
  <1>9. AnswerIsAboutIt'
    BY DEF AnswerIsAboutIt, Quiet
  <1>10. RecordsAreHonest'
    BY <1>1, <1>2, <1>3, <1>4, <1>5 DEF HonestInv, RecordsAreHonest
  <1> QED
    BY <1>6, <1>7, <1>8, <1>9, <1>10 DEF HonestInv

\* A press or a person has the lane asked to vend a ticket nobody asked for yet.
LEMMA HonestAsk ==
    ASSUME TypeInv, HonestInv, NEW t \in Ticket, NEW by \in {"press", "person"},
           AskLane(t, by), ~Asked(t), rec[t].state = "issued",
           at \in Quiet \/ (at = "showing" /\ subject = t),
           pending' = 0, UNCHANGED <<accepted, next>>,
           rec' \in Records, dropped \subseteq dropped',
           \A u \in Ticket : u # t => rec'[u] = rec[u],
           rec'[t].state \in {"issued", "confirmed"}
    PROVE  HonestInv'
  <1> USE BoundsAssumption DEF Ticket
  <1>1. /\ wire' = wire \cup {[ticket |-> t, by |-> by]} /\ reply' = "none"
        /\ at' = "vending" /\ purpose' = by /\ subject' = t
    BY DEF AskLane
  <1>2. \A u \in Ticket : u # t => (Asked(u)' <=> Asked(u))
    BY <1>1 DEF Asked, Sent
  <1>3. \A r \in wire : r.ticket # t
    BY DEF Asked, Sent
  <1>4. t < next
    BY DEF HonestInv, FreshUntilAsked, TypeInv, TypeOK, DiskTypeOK
  <1>5. OneInHand'
    BY <1>1 DEF OneInHand
  <1>6. FreshUntilAsked'
    <2>1. \A u \in Ticket : u >= next => u # t
      BY <1>4 DEF TypeInv, TypeOK, DiskTypeOK
    <2> QED
      BY <1>1, <1>2, <2>1 DEF HonestInv, FreshUntilAsked
  <1>7. OpenWhileAsked'
    <2>1. Unsettled(subject)'
      BY <1>1 DEF Unsettled
    <2>2. \A u \in Ticket : u # t /\ Asked(u) /\ rec[u].state = "issued" => u \in dropped
      BY DEF HonestInv, OpenWhileAsked, OneInHand, Quiet
    <2> QED
      BY <1>1, <1>2, <2>1, <2>2 DEF HonestInv, OpenWhileAsked
  <1>8. AnswerIsAboutIt'
    <2>1. \A r \in wire' : r.ticket = t => r.by = by
      BY <1>1, <1>3
    <2> QED
      BY <1>1, <2>1 DEF AnswerIsAboutIt
  <1>9. RecordsAreHonest'
    BY <1>2 DEF HonestInv, RecordsAreHonest
  <1> QED
    BY <1>5, <1>6, <1>7, <1>8, <1>9 DEF HonestInv

\* A ticket is minted, on a store that may just have voided the one before it.
LEMMA HonestMint ==
    ASSUME TypeInv, HonestInv, at \in Quiet, NEW for \in {"poll", "press", "person"},
           NEW told \in BOOLEAN, NEW before \in Records, Issue(before, for, told),
           \/ before = rec
           \/ /\ pending # 0
              /\ before = [rec EXCEPT ![pending] = Voided(rec[pending], "lane_decided_again")],
           dropped \subseteq dropped',
           pending' = 0, UNCHANGED <<accepted, wire, reply>>
    PROVE  HonestInv'
  <1> USE BoundsAssumption DEF Ticket
  <1> DEFINE new == [state |-> "issued", reason |-> "none", told |-> told,
                     decision |-> decision]
  <1>1. /\ next \in Ticket /\ next' = next + 1 /\ rec' = [before EXCEPT ![next] = new]
        /\ at' = "showing" /\ purpose' = for /\ subject' = next
    BY DEF Issue
  <1>2. \A t \in Ticket : Asked(t)' <=> Asked(t)
    BY DEF Asked, Sent
  <1>3. \A t \in Ticket : t >= next => rec[t].state = "none" /\ ~Asked(t)
    BY DEF HonestInv, FreshUntilAsked
  <1>4. rec'[next] = new
    BY <1>1 DEF Records
  <1>5. \A t \in Ticket : t # next => rec'[t] = before[t]
    BY <1>1 DEF Records
  <1>6. ASSUME NEW t \in Ticket
        PROVE  \/ before[t] = rec[t]
               \/ /\ t = pending /\ ~Asked(t) /\ t < next
                  /\ before[t].state = "voided"
    <2>1. CASE before = rec
      BY <2>1
    <2>2. CASE /\ pending # 0
               /\ before = [rec EXCEPT ![pending] = Voided(rec[pending], "lane_decided_again")]
      <3>1. rec \in Records /\ pending \in Ticket
        BY <2>2 DEF TypeInv, TypeOK, DiskTypeOK, AgentTypeOK, Records
      <3>2. ~Asked(pending) /\ rec[pending].state = "issued"
        BY <2>2 DEF HonestInv, FreshUntilAsked
      <3>3. pending < next
        BY <1>1, <1>3, <3>1, <3>2
      <3> QED
        BY <2>2, <3>1, <3>2, <3>3 DEF Records, Voided
    <2> QED
      BY <2>1, <2>2
  <1> HIDE DEF new
  <1>7. OneInHand'
    BY <1>1 DEF OneInHand
  <1>8. new.state = "issued"
    BY DEF new
  <1>9. FreshUntilAsked'
    <2>1. \A t \in Ticket : t >= next' => t # next /\ t >= next
      BY <1>1
    <2>2. \A t \in Ticket : t >= next' => rec'[t].state = "none" /\ ~Asked(t)'
      BY <1>2, <1>3, <1>5, <1>6, <2>1, <1>1
    <2>3. rec'[subject'].state = "issued" /\ ~Asked(subject)'
      BY <1>1, <1>2, <1>3, <1>4, <1>8 DEF Asked, Sent
    <2> QED
      BY <2>2, <2>3 DEF FreshUntilAsked
  <1>10. OpenWhileAsked'
    <2>1. \A t \in Ticket : Asked(t)' => t # next /\ rec'[t] = rec[t]
      BY <1>1, <1>2, <1>3, <1>5, <1>6
    <2> QED
      BY <1>1, <1>2, <2>1 DEF HonestInv, OpenWhileAsked, OneInHand, Quiet
  <1>11. AnswerIsAboutIt'
    BY <1>1 DEF AnswerIsAboutIt
  <1>12. RecordsAreHonest'
    <2>1. CASE before = rec
      BY <1>2, <1>4, <1>5, <1>8, <2>1 DEF HonestInv, RecordsAreHonest
    <2>2. CASE before # rec
      BY <1>2, <1>4, <1>5, <1>6, <1>8, <2>2 DEF HonestInv, RecordsAreHonest
    <2> QED
      BY <2>1, <2>2
  <1> QED
    BY <1>7, <1>9, <1>10, <1>11, <1>12 DEF HonestInv

LEMMA HonestFollow ==
    ASSUME TypeInv, HonestInv, FollowNext, TypeInv'
    PROVE  HonestInv'
  <1> USE DEF Quiet, GoTo
  <1>1. purpose # "replay" \/ at = "vending"
    BY DEF HonestInv, OneInHand
  <1>2. ASSUME NEW reason \in Definite, NEW ok, VoidPending(reason, ok),
               at \in Quiet, at' \in Quiet, purpose' # "replay",
               UNCHANGED <<vendVars, next>>
        PROVE  HonestInv'
    <2>1. CASE rec' = rec
      BY <1>2, <2>1, HonestMove DEF VoidPending, Settle, Write, Drops, trouble, vendVars
    <2>2. CASE rec' # rec
      <3>1. pending # 0 /\ Write(pending, Voided(rec[pending], reason)) /\ pending' = 0
        BY <1>2, <2>2 DEF VoidPending, Settle
      <3> QED
        BY <1>2, <3>1, HonestVoid DEF Write, trouble, vendVars
    <2> QED
      BY <2>1, <2>2
  <1>3. CASE AdoptCursor
    BY <1>3, HonestMove DEF AdoptCursor, AfterPoll, trouble, vendVars, diskVars
  <1>4. CASE FollowLane
    BY <1>4, HonestMove DEF FollowLane, history, trouble, vendVars, diskVars
  <1>5. CASE LaneUnread
    BY <1>5, HonestMove DEF LaneUnread, history, trouble, vendVars, diskVars
  <1>6. ASSUME NEW ok, CursorReset(ok) PROVE HonestInv'
    <2>1. CASE VoidPending("lane_decided_again", ok)
      BY <1>1, <1>2, <1>6, <2>1 DEF CursorReset, AfterPoll, Definite
    <2>2. CASE VoidRaises /\ GoTo("idle")
      BY <1>6, <2>2, HonestMove DEF CursorReset, VoidRaises, Drops, vendVars
    <2> QED
      BY <1>6, <2>1, <2>2 DEF CursorReset
  <1>7. ASSUME NEW ok, Expire(ok) PROVE HonestInv'
    BY <1>1, <1>2, <1>7 DEF Expire, Definite
  <1>8. ASSUME NEW readable, SameDecision(readable) PROVE HonestInv'
    BY <1>8, HonestMove DEF SameDecision, history, trouble, vendVars, diskVars
  <1>9. ASSUME NEW readable, NEW ok, CheckPending(readable, ok) PROVE HonestInv'
    <2>1. ASSUME NEW reason \in Definite, VoidPending(reason, ok) PROVE HonestInv'
      BY <1>2, <1>9, <2>1 DEF CheckPending, AfterPoll
    <2>2. CASE UNCHANGED <<rec, pending, screenVars, trouble>>
      BY <1>9, <2>2, HonestMove DEF CheckPending, AfterPoll, trouble, vendVars
    <2> QED
      BY <1>9, <2>1, <2>2 DEF CheckPending, Definite
  <1>10. ASSUME NEW shown, NEW ok, Reassert(shown, ok) PROVE HonestInv'
    <2>1. pending # 0 /\ at' = "idle" /\ purpose' = "none" /\ UNCHANGED <<vendVars, next>>
      BY <1>10 DEF Reassert, TypeInv, InHand
    <2>2. CASE rec' = rec
      BY <1>10, <2>1, <2>2, HonestMove DEF Reassert, Settle, Write, Drops, trouble, vendVars
    <2>3. CASE rec' # rec
      <3>1. Write(pending, Voided(rec[pending], "display_unavailable")) /\ pending' = 0
        BY <1>10, <2>3 DEF Reassert, Settle
      <3>2. at \in Quiet
        BY <1>10 DEF Reassert
      <3> QED
        BY <2>1, <3>1, <3>2, HonestVoid DEF Write, trouble, vendVars, Definite
    <2> QED
      BY <2>2, <2>3
  <1>11. ASSUME NEW readable, NEW ok, NewDecision(readable, ok) PROVE HonestInv'
    <2> DEFINE voided == [rec EXCEPT ![pending] = Voided(rec[pending], "lane_decided_again")]
    <2>1. /\ rec \in Records /\ voided \in Records
          /\ pending' = 0 /\ at \in Quiet /\ UNCHANGED vendVars
      BY <1>11, SettleTypes DEF NewDecision, Records, Definite, TypeInv, TypeOK, DiskTypeOK
    <2>2. dropped \subseteq dropped'
      BY <1>11 DEF NewDecision, Drops, trouble
    <2>3. PICK store : /\ MintsOrNot(store, readable)
                       /\ store = rec \/ (pending # 0 /\ store = voided)
      BY <1>11 DEF NewDecision
    <2> HIDE DEF voided
    <2>4. CASE rec' = store /\ GoTo("idle") /\ UNCHANGED <<next, unheard>>
      <3>1. CASE store = rec
        BY <2>1, <2>2, <2>4, <3>1, HonestMove DEF vendVars
      <3>2. CASE pending # 0 /\ store = voided
        BY <2>1, <2>2, <2>4, <3>2, HonestVoid DEF voided, vendVars, Definite
      <3> QED
        BY <2>3, <3>1, <3>2
    <2>5. CASE Issue(store, "poll", ~OnThePhone)
      <3>1. (~OnThePhone) \in BOOLEAN /\ store \in Records
        BY <2>1, <2>3 DEF OnThePhone
      <3> QED
        BY <2>1, <2>2, <2>3, <2>5, <3>1, HonestMint DEF voided, vendVars
    <2> QED
      BY <2>3, <2>4, <2>5 DEF MintsOrNot
  <1>12. ASSUME NEW shown, Showing(shown) PROVE HonestInv'
    <2>1. /\ at = "showing" /\ pending = 0 /\ subject \in Ticket /\ rec \in Records
          /\ rec[subject].state = "issued" /\ ~Asked(subject) /\ purpose # "replay"
          /\ dropped \subseteq dropped' /\ UNCHANGED <<accepted, next>>
      BY <1>1, <1>12
         DEF Showing, Write, Drops, trouble, HonestInv, OneInHand, FreshUntilAsked, TypeInv, InHand, TypeOK,
             DiskTypeOK, Records
    <2>2. CASE /\ Write(subject, Voided(rec[subject], "display_unavailable"))
               /\ at' = "idle" /\ purpose' = "none" /\ subject' = 0
               /\ UNCHANGED <<pending, wire, reply>>
      <3>1. \A t \in Ticket : rec'[t] = IF t = subject
                                       THEN Voided(rec[subject], "display_unavailable")
                                       ELSE rec[t]
        BY <2>1, <2>2 DEF Write, Records
      <3>2. \A t \in Ticket : Asked(t)' <=> Asked(t)
        BY <2>1, <2>2 DEF Asked, Sent
      <3>3. Voided(rec[subject], "display_unavailable").state = "voided"
        BY DEF Voided
      <3>4. subject < next
        BY <2>1, BoundsAssumption
           DEF HonestInv, FreshUntilAsked, TypeInv, TypeOK, DiskTypeOK, Ticket
      <3>5. FreshUntilAsked'
        <4>1. \A t \in Ticket : t >= next => t # subject
          BY <2>1, <3>4, BoundsAssumption DEF TypeInv, TypeOK, DiskTypeOK, Ticket
        <4> QED
          BY <2>1, <2>2, <3>1, <3>2, <4>1 DEF HonestInv, FreshUntilAsked
      <3>6. OpenWhileAsked'
        BY <2>1, <2>2, <3>1, <3>2 DEF HonestInv, OpenWhileAsked
      <3>7. RecordsAreHonest'
        BY <2>1, <2>2, <3>1, <3>2, <3>3 DEF HonestInv, RecordsAreHonest
      <3> QED
        BY <2>2, <3>5, <3>6, <3>7, <2>1 DEF HonestInv, OneInHand, AnswerIsAboutIt
    <2>3. CASE UNCHANGED rec /\ pending' = pending /\ AskLane(subject, "person")
      BY <2>1, <2>3, HonestAsk
    <2>4. CASE /\ UNCHANGED <<rec, wire, reply>> /\ purpose' = "none"
               /\ pending' \in {pending, subject} /\ at' \in {"idle", "reasserting"}
      BY <2>1, <2>4
         DEF HonestInv, OneInHand, FreshUntilAsked, OpenWhileAsked, AnswerIsAboutIt,
             RecordsAreHonest, Asked, Sent
    <2> QED
      BY <1>12, <2>2, <2>3, <2>4 DEF Showing
  <1>13. CASE LaneReadRaises
    BY <1>13, HonestMove DEF LaneReadRaises, vendVars, diskVars
  <1>14. CASE VoidAtRaises
    BY <1>14, HonestMove DEF VoidAtRaises, VoidRaises, Drops, vendVars
  <1> QED
    BY <1>3, <1>4, <1>5, <1>6, <1>7, <1>8, <1>9, <1>10, <1>11, <1>12, <1>13, <1>14
       DEF FollowNext

LEMMA HonestPress ==
    ASSUME TypeInv, HonestInv, PressNext, TypeInv'
    PROVE  HonestInv'
  <1> USE DEF Quiet
  <1>1. ASSUME NEW d \in Door, PressUntold(d) PROVE HonestInv'
    BY <1>1, HonestFrame DEF PressUntold, history, trouble, vendVars, diskVars
  <1>2. ASSUME NEW d \in Door, NEW ok, PressConfirms(d, ok) PROVE HonestInv'
    <2>1. /\ at = "idle" /\ pending \in Ticket /\ rec \in Records /\ pending' = 0
          /\ rec[pending].state = "issued" /\ ~Asked(pending)
          /\ UNCHANGED <<accepted, next>> /\ purpose # "replay"
      BY <1>2, BoundsAssumption
         DEF PressConfirms, HonestInv, OneInHand, FreshUntilAsked, TypeInv, TypeOK,
             AgentTypeOK, DiskTypeOK, Ticket, Records
    <2>2. dropped \subseteq dropped'
      BY <1>2 DEF PressConfirms, Settle, Write, Drops, trouble
    <2>3. CASE AskLane(pending, "press")
      <3>1. rec' = [rec EXCEPT ![pending] = Confirmed(rec[pending])] \/ rec' = rec
        BY <1>2, <2>1, <2>3 DEF PressConfirms, Write, AskLane
      <3>2. rec' \in Records
        BY DEF TypeInv, TypeOK, DiskTypeOK, Records
      <3>3. /\ \A u \in Ticket : u # pending => rec'[u] = rec[u]
            /\ rec'[pending].state \in {"issued", "confirmed"}
        BY <2>1, <3>1 DEF Records, Confirmed, TicketRecord
      <3> QED
        BY <2>1, <2>2, <2>3, <3>2, <3>3, HonestAsk
    <2>4. CASE ~AskLane(pending, "press")
      <3>1. /\ UNCHANGED <<at, purpose, subject, wire, reply>>
            /\ \/ rec' = rec
               \/ rec' = [rec EXCEPT ![pending] = Voided(rec[pending], "no_act_route")]
               \/ rec' = [rec EXCEPT ![pending] = Confirmed(rec[pending])]
        BY <1>2, <2>4 DEF PressConfirms, Settle, Write
      <3>2. CASE rec' = rec
        BY <2>1, <2>2, <3>1, <3>2, HonestFrame
      <3>3. CASE rec' = [rec EXCEPT ![pending] = Voided(rec[pending], "no_act_route")]
        BY <2>1, <2>2, <3>1, <3>3, HonestVoid, BoundsAssumption DEF Definite, Ticket
      <3>4. CASE rec' = [rec EXCEPT ![pending] = Confirmed(rec[pending])]
        <4>1. /\ rec'[pending].state = "confirmed"
              /\ \A u \in Ticket : u # pending => rec'[u] = rec[u]
          BY <2>1, <3>4 DEF Records, Confirmed, TicketRecord
        <4>2. \A u \in Ticket : Asked(u)' <=> Asked(u)
          BY <2>1, <3>1 DEF Asked, Sent
        <4>3. \A u \in Ticket : u >= next => u # pending
          BY <2>1 DEF HonestInv, FreshUntilAsked
        <4> QED
          BY <2>1, <2>2, <3>1, <4>1, <4>2, <4>3
             DEF HonestInv, OneInHand, FreshUntilAsked, OpenWhileAsked, AnswerIsAboutIt,
                 RecordsAreHonest
      <3> QED
        BY <3>1, <3>2, <3>3, <3>4
    <2> QED
      BY <2>3, <2>4
  <1>3. ASSUME NEW d \in Door, NEW readable, PressForHelp(d, readable) PROVE HonestInv'
    BY <1>3, HonestFrame DEF PressForHelp, history, trouble, vendVars, diskVars
  <1>4. ASSUME NEW d \in Door, NEW readable, PressMints(d, readable) PROVE HonestInv'
    <2>1. rec \in Records
      BY DEF TypeInv, TypeOK, DiskTypeOK, Records
    <2> QED
      BY <1>4, <2>1, HonestMint DEF PressMints, trouble, vendVars
  <1>5. ASSUME NEW d \in Door, NEW readable, PressForCase(d, readable) PROVE HonestInv'
    BY <1>5, HonestFrame DEF PressForCase, history, trouble, vendVars, diskVars
  <1>6. ASSUME NEW d \in Door, HelpExpires(d) PROVE HonestInv'
    BY <1>6, HonestFrame DEF HelpExpires, history, trouble, vendVars, diskVars
  <1>7. ASSUME NEW d \in Door, PressRaises(d) PROVE HonestInv'
    BY <1>7, HonestFrame DEF PressRaises, vendVars, diskVars
  <1>8. ASSUME NEW d \in Door, ConfirmRaises(d) PROVE HonestInv'
    BY <1>8, HonestFrame DEF ConfirmRaises, VoidRaises, Drops, vendVars
  <1> QED
    BY <1>1, <1>2, <1>3, <1>4, <1>5, <1>6, <1>7, <1>8 DEF PressNext

LEMMA HonestCall ==
    ASSUME TypeInv, HonestInv, CallNext, TypeInv'
    PROVE  HonestInv'
  <1> USE DEF Quiet
  <1>1. rec \in Records /\ (purpose # "replay" \/ at = "vending")
    BY DEF HonestInv, OneInHand, TypeInv, TypeOK, DiskTypeOK, Records
  <1>2. CASE CallHuman
    BY <1>2, HonestFrame DEF CallHuman, history, trouble, vendVars, diskVars
  <1>3. CASE NobodyDecides
    BY <1>3, HonestFrame DEF NobodyDecides, history, trouble, vendVars, diskVars
  <1>4. CASE PersonOpensWithTicket
    <2>1. /\ at = "idle" /\ pending \in Ticket /\ pending' = 0
          /\ rec[pending].state = "issued" /\ ~Asked(pending)
          /\ UNCHANGED <<accepted, rec, next>> /\ dropped' = dropped
      BY <1>4, BoundsAssumption
         DEF PersonOpensWithTicket, history, trouble, HonestInv, FreshUntilAsked, TypeInv, TypeOK, AgentTypeOK,
             Ticket, diskVars
    <2>2. CASE AskLane(pending, "person")
      BY <1>1, <2>1, <2>2, HonestAsk
    <2>3. CASE UNCHANGED <<at, purpose, subject, wire, reply>>
      BY <1>1, <2>1, <2>3
         DEF HonestInv, OneInHand, FreshUntilAsked, OpenWhileAsked, AnswerIsAboutIt,
             RecordsAreHonest, Asked, Sent
    <2> QED
      BY <1>4, <2>2, <2>3 DEF PersonOpensWithTicket
  <1>5. ASSUME NEW readable, PersonOpensByMinting(readable) PROVE HonestInv'
    <2>1. CASE Issue(rec, "person", TRUE)
      BY <1>1, <1>5, <2>1, HonestMint DEF PersonOpensByMinting, trouble, vendVars
    <2>2. CASE UNCHANGED <<diskVars, at, purpose, subject, unheard>>
      BY <1>5, <2>2, HonestFrame DEF PersonOpensByMinting, trouble, vendVars, diskVars
    <2> QED
      BY <1>5, <2>1, <2>2 DEF PersonOpensByMinting
  <1>6. ASSUME NEW ok, PersonSaysNo(ok) PROVE HonestInv'
    <2>1. CASE rec' = rec
      BY <1>6, <2>1, HonestFrame
         DEF PersonSaysNo, VoidPending, Settle, Write, Drops, trouble, vendVars
    <2>2. CASE rec' # rec
      <3>1. pending # 0 /\ Write(pending, Voided(rec[pending], "do_not_open")) /\ pending' = 0
        BY <1>6, <2>2 DEF PersonSaysNo, VoidPending, Settle
      <3> QED
        BY <1>1, <1>6, <3>1, HonestVoid DEF PersonSaysNo, Write, trouble, vendVars, Definite
    <2> QED
      BY <2>1, <2>2
  <1>7. ASSUME NEW ok, ToldOnScreen(ok) PROVE HonestInv'
    <2>1. UNCHANGED <<accepted, wire, reply, next, at, purpose, subject, pending, dropped>>
      BY <1>7 DEF ToldOnScreen, Write, trouble, vendVars
    <2>2. \A t \in Ticket : rec'[t].state = rec[t].state /\ rec'[t].reason = rec[t].reason
      BY <1>1, <1>7 DEF ToldOnScreen, Write, Told, Records, TicketRecord
    <2>3. pending # 0 => pending \in Ticket
      BY BoundsAssumption DEF TypeInv, TypeOK, AgentTypeOK, Ticket
    <2>4. at \in {"showing", "vending"} => subject \in Ticket
      BY DEF TypeInv, InHand
    <2>5. \A t \in Ticket : Asked(t)' <=> Asked(t)
      BY <2>1 DEF Asked, Sent
    <2>6. at = "idle"
      BY <1>7 DEF ToldOnScreen
    <2>7. FreshUntilAsked'
      BY <2>1, <2>2, <2>3, <2>5, <2>6 DEF HonestInv, FreshUntilAsked
    <2>8. OpenWhileAsked'
      BY <2>1, <2>2, <2>5, <2>6 DEF HonestInv, OpenWhileAsked
    <2>9. RecordsAreHonest'
      BY <2>1, <2>2, <2>5 DEF HonestInv, RecordsAreHonest
    <2> QED
      BY <2>1, <2>6, <2>7, <2>8, <2>9 DEF HonestInv, OneInHand, AnswerIsAboutIt
  <1>8. ASSUME NEW ok, CallEnds(ok) PROVE HonestInv'
    BY <1>8, HonestFrame DEF CallEnds, history, trouble, vendVars, diskVars
  <1> QED
    BY <1>2, <1>3, <1>4, <1>5, <1>6, <1>7, <1>8 DEF CallNext

\* The wait is over and the record of the ticket in hand is settled.
LEMMA HonestSettle ==
    ASSUME TypeInv, HonestInv, at = "vending", NEW r,
           rec' = [rec EXCEPT ![subject] = r],
           \/ r.state = "vended" /\ accepted[subject] # "no"
           \/ /\ r.state = "voided"
              /\ r.reason \in Indefinite \/ (~Asked(subject) /\ purpose # "replay"),
           \/ at' = "idle" /\ purpose # "replay"
           \/ at' = "reconciling",
           purpose' = "none", dropped \subseteq dropped',
           UNCHANGED <<accepted, wire, next, pending>>
    PROVE  HonestInv'
  <1>1. subject \in Ticket /\ rec \in Records /\ pending = 0
    BY DEF HonestInv, OneInHand, TypeInv, InHand, TypeOK, DiskTypeOK, Records
  <1>2. rec'[subject] = r /\ \A t \in Ticket : t # subject => rec'[t] = rec[t]
    BY <1>1 DEF Records
  <1>3. \A t \in Ticket : Asked(t)' <=> Asked(t)
    BY DEF Asked, Sent
  <1>4. Unsettled(subject)
    BY DEF HonestInv, OpenWhileAsked
  <1>5. subject < next
    BY <1>1, <1>4, BoundsAssumption
       DEF HonestInv, FreshUntilAsked, TypeInv, TypeOK, DiskTypeOK, Ticket, Unsettled
  <1>6. FreshUntilAsked'
    <2>1. \A t \in Ticket : t >= next => t # subject
      BY <1>1, <1>5, BoundsAssumption DEF TypeInv, TypeOK, DiskTypeOK, Ticket
    <2> QED
      BY <1>1, <1>2, <1>3, <2>1 DEF HonestInv, FreshUntilAsked
  <1>7. OpenWhileAsked'
    BY <1>1, <1>2, <1>3 DEF HonestInv, OpenWhileAsked
  <1>8. RecordsAreHonest'
    BY <1>1, <1>2, <1>3, ReasonsApart DEF HonestInv, RecordsAreHonest
  <1> QED
    BY <1>1, <1>6, <1>7, <1>8 DEF HonestInv, OneInHand, AnswerIsAboutIt

\* The wait is over and the ticket in hand is let go of with its record open.
LEMMA HonestLeaves ==
    ASSUME TypeInv, HonestInv, at = "vending", purpose # "replay",
           at' = "idle", purpose' = "none", Drops(subject),
           UNCHANGED <<accepted, wire, rec, next, pending>>
    PROVE  HonestInv'
  <1>1. \A t \in Ticket : Asked(t)' <=> Asked(t)
    BY DEF Asked, Sent
  <1>2. OpenWhileAsked'
    BY <1>1 DEF HonestInv, OpenWhileAsked, Drops
  <1>3. pending = 0
    BY DEF HonestInv, OneInHand
  <1> QED
    BY <1>1, <1>2, <1>3
       DEF HonestInv, OneInHand, FreshUntilAsked, AnswerIsAboutIt, RecordsAreHonest

LEMMA HonestVend ==
    ASSUME TypeInv, HonestInv, VendNext
    PROVE  HonestInv'
  <1>1. CASE VendCommanded
    <2>1. accepted[subject] # "no" /\ Vended(rec[subject]).state = "vended"
      <3>1. rec[subject] \in TicketRecord
        BY <1>1 DEF VendCommanded, Hears, TypeInv, InHand, TypeOK, DiskTypeOK
      <3> QED
        BY <1>1, <3>1
           DEF VendCommanded, Hears, HonestInv, AnswerIsAboutIt, Vended, TicketRecord
    <2>2. CASE Write(subject, Vended(rec[subject]))
      BY <1>1, <2>1, <2>2, HonestSettle DEF VendCommanded, Hears, Write, trouble, GoTo
    <2>3. CASE UNCHANGED rec /\ Drops(subject)
      BY <1>1, <2>3, HonestLeaves DEF VendCommanded, Hears, GoTo
    <2> QED
      BY <1>1, <2>2, <2>3 DEF VendCommanded, Settle
  <1>2. ASSUME NEW reason \in Refusals, NEW ok, VendNotCommanded(reason, ok) PROVE HonestInv'
    <2>1. /\ Voided(rec[subject], reason).state = "voided"
          /\ Voided(rec[subject], reason).reason = reason
      BY DEF Voided
    <2>2. reason \in Indefinite \/ ~Asked(subject)
      BY <1>2 DEF VendNotCommanded, Hears, Refusals, Indefinite, HonestInv, AnswerIsAboutIt
    <2>3. CASE Write(subject, Voided(rec[subject], reason))
      BY <1>2, <2>1, <2>2, <2>3, HonestSettle
         DEF VendNotCommanded, Hears, Write, trouble, GoTo
    <2>4. CASE UNCHANGED rec /\ Drops(subject)
      BY <1>2, <2>4, HonestLeaves DEF VendNotCommanded, Hears, GoTo
    <2> QED
      BY <1>2, <2>3, <2>4 DEF VendNotCommanded, Settle
  <1>3. CASE VendRaises
    BY <1>3, HonestLeaves DEF VendRaises, Hears, GoTo, diskVars
  <1> QED
    BY <1>1, <1>2, <1>3 DEF VendNext

LEMMA HonestLane ==
    ASSUME TypeInv, HonestInv, LaneNext
    PROVE  HonestInv'
  <1>1. ASSUME NEW offer, NEW there, LaneDecides(offer, there) PROVE HonestInv'
    BY <1>1, HonestFrame DEF LaneDecides, history, trouble, vendVars, diskVars, agentVars
  <1>2. CASE StopsOffering \/ CarLeaves \/ LaneRestarts
    BY <1>2, HonestFrame
       DEF StopsOffering, CarLeaves, LaneRestarts, history, trouble, vendVars, diskVars, agentVars
  <1>3. ASSUME NEW r \in wire, LaneAccepts(r) PROVE HonestInv'
    <2>1. UNCHANGED <<rec, next, at, purpose, subject, pending, dropped>> /\ wire' = wire \ {r}
      BY <1>3 DEF LaneAccepts, diskVars, agentVars, history, trouble
    <2>2. r.ticket \in Ticket /\ Asked(r.ticket)
      BY DEF TypeInv, TypeOK, VendTypeOK, Request, Asked, Sent
    <2>3. \A t \in Ticket : t # r.ticket => accepted'[t] = accepted[t]
      BY <1>3, <2>2 DEF LaneAccepts, TypeInv, TypeOK, VendTypeOK
    <2>4. accepted'[r.ticket] # "no"
      BY <1>3, <2>2 DEF LaneAccepts, TypeInv, TypeOK, VendTypeOK
    <2>5. \A t \in Ticket : Asked(t)' => Asked(t)
      BY <2>1, <2>2, <2>3 DEF Asked, Sent
    <2>6. FreshUntilAsked'
      <3>1. pending # 0 => pending \in Ticket
        BY BoundsAssumption DEF TypeInv, TypeOK, AgentTypeOK, Ticket
      <3>2. at = "showing" => subject \in Ticket
        BY DEF TypeInv, InHand
      <3> QED
        BY <2>1, <2>5, <3>1, <3>2 DEF HonestInv, FreshUntilAsked
    <2>7. OpenWhileAsked'
      BY <2>1, <2>5 DEF HonestInv, OpenWhileAsked, Unsettled
    <2>8. AnswerIsAboutIt'
      <3>1. CASE at # "vending"
        BY <2>1, <3>1 DEF AnswerIsAboutIt
      <3>2. CASE at = "vending"
        <4>1. subject \in Ticket
          BY <3>2 DEF TypeInv, InHand
        <4>2. reply' = "commanded" => accepted'[subject] # "no"
          BY <1>3, <2>3, <2>4, <3>2, <4>1 DEF LaneAccepts, Waiting, HonestInv, AnswerIsAboutIt
        <4>3. purpose # "replay" /\ reply' \in {"refused", "act_refused"} => ~Asked(subject)'
          <5> SUFFICES ASSUME purpose # "replay", reply' \in {"refused", "act_refused"}
                       PROVE  ~Asked(subject)'
            OBVIOUS
          <5>1. ~Asked(subject)
            BY <1>3, <3>2 DEF LaneAccepts, HonestInv, AnswerIsAboutIt
          <5> QED
            BY <2>1, <2>5, <4>1, <5>1
        <4> QED
          BY <2>1, <3>2, <4>2, <4>3 DEF HonestInv, AnswerIsAboutIt
      <3> QED
        BY <3>1, <3>2
    <2>9. RecordsAreHonest'
      BY <2>1, <2>3, <2>4, <2>5 DEF HonestInv, RecordsAreHonest
    <2> QED
      BY <2>1, <2>6, <2>7, <2>8, <2>9 DEF HonestInv, OneInHand
  <1>4. ASSUME NEW r \in wire, NEW answer \in {"refused", "act_refused"},
               LaneRefuses(r, answer)
        PROVE  HonestInv'
    <2>1. /\ UNCHANGED <<accepted, rec, next, at, purpose, subject, pending, dropped>>
          /\ wire' = wire \ {r} /\ accepted[r.ticket] = "no"
          /\ reply' = IF Waiting(r) THEN answer ELSE reply
      BY <1>4 DEF LaneRefuses, diskVars, agentVars, history, trouble
    <2>2. wire \subseteq Request /\ r.ticket \in Ticket
      BY DEF TypeInv, TypeOK, VendTypeOK, Request
    <2>3. \A t \in Ticket : Asked(t)' => Asked(t)
      BY <2>1 DEF Asked, Sent
    <2>4. FreshUntilAsked'
      <3>1. pending # 0 => pending \in Ticket
        BY BoundsAssumption DEF TypeInv, TypeOK, AgentTypeOK, Ticket
      <3>2. at = "showing" => subject \in Ticket
        BY DEF TypeInv, InHand
      <3> QED
        BY <2>1, <2>3, <3>1, <3>2 DEF HonestInv, FreshUntilAsked
    <2>5. OpenWhileAsked'
      BY <2>1, <2>3 DEF HonestInv, OpenWhileAsked, Unsettled
    <2>6. AnswerIsAboutIt'
      <3>1. CASE Waiting(r)
        <4>1. /\ at = "vending" /\ subject = r.ticket /\ purpose = r.by
              /\ reply' \in {"refused", "act_refused"}
          BY <2>1, <3>1 DEF Waiting
        <4>2. purpose # "replay" => \A q \in wire : q.ticket = subject => q = r
          BY <2>2, <4>1 DEF HonestInv, AnswerIsAboutIt, Request
        <4>3. purpose # "replay" => ~Asked(subject)'
          BY <2>1, <4>1, <4>2 DEF Asked, Sent
        <4> QED
          BY <2>1, <4>1, <4>3 DEF HonestInv, AnswerIsAboutIt
      <3>2. CASE ~Waiting(r)
        <4>1. at = "vending" => subject \in Ticket
          BY DEF TypeInv, InHand
        <4> QED
          BY <2>1, <2>3, <3>2, <4>1 DEF HonestInv, AnswerIsAboutIt
      <3> QED
        BY <3>1, <3>2
    <2>7. RecordsAreHonest'
      BY <2>1, <2>3 DEF HonestInv, RecordsAreHonest
    <2> QED
      BY <2>1, <2>4, <2>5, <2>6, <2>7 DEF HonestInv, OneInHand
  <1> QED
    BY <1>1, <1>2, <1>3, <1>4 DEF LaneNext

\* A record left over by the process before is closed without a claim.
LEMMA HonestReconcile ==
    ASSUME TypeInv, HonestInv, at = "reconciling", NEW t \in Ticket, Unsettled(t),
           NEW reason \in Indefinite,
           rec' = [rec EXCEPT ![t] = Voided(rec[t], reason)],
           UNCHANGED <<accepted, wire, reply, next, at, purpose, subject, pending, dropped>>
    PROVE  HonestInv'
  <1>1. rec \in Records /\ pending = 0
    BY DEF HonestInv, OneInHand, TypeInv, TypeOK, DiskTypeOK, Records
  <1>2. /\ rec'[t].state = "voided" /\ rec'[t].reason = reason
        /\ \A u \in Ticket : u # t => rec'[u] = rec[u]
    BY <1>1 DEF Records, Voided
  <1>3. \A u \in Ticket : Asked(u)' <=> Asked(u)
    BY DEF Asked, Sent
  <1>4. \A u \in Ticket : u >= next => u # t
    BY DEF HonestInv, FreshUntilAsked, Unsettled
  <1>5. FreshUntilAsked'
    BY <1>1, <1>2, <1>3, <1>4 DEF HonestInv, FreshUntilAsked
  <1>6. OpenWhileAsked'
    BY <1>2, <1>3 DEF HonestInv, OpenWhileAsked
  <1>7. RecordsAreHonest'
    BY <1>2, <1>3, ReasonsApart DEF HonestInv, RecordsAreHonest
  <1> QED
    BY <1>5, <1>6, <1>7 DEF HonestInv, OneInHand, AnswerIsAboutIt

LEMMA HonestProcess ==
    ASSUME TypeInv, HonestInv, ProcessNext
    PROVE  HonestInv'
  <1>1. ASSUME NEW blanked, Dies(blanked) PROVE HonestInv'
    <2>1. /\ at' = "down" /\ purpose' = "none" /\ pending' = 0
          /\ UNCHANGED <<accepted, wire, rec, next>>
      BY <1>1 DEF Dies, GoTo, diskVars
    <2> QED
      BY <2>1 DEF HonestInv, OneInHand, FreshUntilAsked, OpenWhileAsked, AnswerIsAboutIt,
                  RecordsAreHonest, Asked, Sent
  <1>2. CASE Start
    BY <1>2 DEF Start, GoTo, history, trouble, vendVars, diskVars, HonestInv, OneInHand, FreshUntilAsked,
                OpenWhileAsked, AnswerIsAboutIt, RecordsAreHonest, Asked, Sent
  <1>3. ASSUME NEW t \in Ticket, ReconcileIssued(t) PROVE HonestInv'
    <2>1. CASE Write(t, Voided(rec[t], "restarted"))
      BY <1>3, <2>1, HonestReconcile
         DEF ReconcileIssued, Write, trouble, Unsettled, Indefinite, vendVars, agentVars
    <2>2. CASE UNCHANGED rec /\ Drops(t)
      BY <1>3, <2>2, HonestFrame DEF ReconcileIssued, Drops, vendVars, agentVars
    <2> QED
      BY <1>3, <2>1, <2>2 DEF ReconcileIssued, Settle
  <1>4. ASSUME NEW t \in Ticket, ReconcileConfirmed(t) PROVE HonestInv'
    <2>1. CASE /\ Write(t, Voided(rec[t], "outcome_unknown"))
               /\ UNCHANGED <<at, purpose, subject, wire, reply>>
      BY <1>4, <2>1, HonestReconcile
         DEF ReconcileConfirmed, Write, trouble, Unsettled, Indefinite
    <2>3. CASE Drops(t) /\ UNCHANGED <<rec, at, purpose, subject, wire, reply>>
      BY <1>4, <2>3, HonestFrame DEF ReconcileConfirmed, Drops
    <2>2. CASE AskLane(t, "replay") /\ UNCHANGED <<rec, trouble>>
      <3>1. /\ at = "reconciling" /\ rec[t].state = "confirmed"
            /\ UNCHANGED <<accepted, rec, next, pending, dropped>>
            /\ at' = "vending" /\ purpose' = "replay" /\ subject' = t /\ reply' = "none"
            /\ wire' = wire \cup {[ticket |-> t, by |-> "replay"]}
        BY <1>4, <2>2 DEF ReconcileConfirmed, AskLane, trouble
      <3>2. \A u \in Ticket : u # t => (Asked(u)' <=> Asked(u))
        BY <3>1 DEF Asked, Sent
      <3>3. \A u \in Ticket : u >= next => u # t
        BY <3>1 DEF HonestInv, FreshUntilAsked
      <3>4. pending = 0
        BY <3>1 DEF HonestInv, OneInHand
      <3>5. FreshUntilAsked'
        BY <3>1, <3>2, <3>3, <3>4 DEF HonestInv, FreshUntilAsked
      <3>6. OpenWhileAsked'
        BY <3>1, <3>2 DEF HonestInv, OpenWhileAsked, Unsettled
      <3>7. RecordsAreHonest'
        BY <3>1, <3>2 DEF HonestInv, RecordsAreHonest
      <3> QED
        BY <3>1, <3>4, <3>5, <3>6, <3>7 DEF HonestInv, OneInHand, AnswerIsAboutIt
    <2> QED
      BY <1>4, <2>1, <2>2, <2>3 DEF ReconcileConfirmed
  <1>5. ASSUME NEW commanded, ReplayAnswered(commanded) PROVE HonestInv'
    <2>1. CASE commanded
      <3>1. rec[subject] \in TicketRecord
        BY <1>5 DEF ReplayAnswered, Hears, TypeInv, InHand, TypeOK, DiskTypeOK
      <3>2. Vended(rec[subject]).state = "vended" /\ accepted[subject] # "no"
        BY <1>5, <2>1, <3>1
           DEF ReplayAnswered, Hears, HonestInv, AnswerIsAboutIt, Vended, TicketRecord
      <3> QED
        BY <1>5, <2>1, <3>2, HonestSettle DEF ReplayAnswered, Hears, Write, trouble, GoTo
    <2>2. CASE ~commanded
      <3>1. /\ Voided(rec[subject], "outcome_unknown").state = "voided"
            /\ Voided(rec[subject], "outcome_unknown").reason \in Indefinite
        BY DEF Voided, Indefinite
      <3> QED
        BY <1>5, <2>2, <3>1, HonestSettle DEF ReplayAnswered, Hears, Write, trouble, GoTo
    <2> QED
      BY <2>1, <2>2
  <1>6. CASE Reconciled
    <2>1. \A t \in Ticket : rec[t].state = "issued" => t \in dropped
      BY <1>6 DEF Reconciled, Unsettled
    <2> QED
      BY <1>6, <2>1
         DEF Reconciled, GoTo, history, trouble, vendVars, diskVars, HonestInv, OneInHand, FreshUntilAsked,
             OpenWhileAsked, AnswerIsAboutIt, RecordsAreHonest, Asked, Sent
  <1>7. CASE StartRaises
    <2>1. /\ at' = "down" /\ purpose' = "none" /\ pending' = 0
          /\ UNCHANGED <<accepted, wire, rec, next>>
      BY <1>7 DEF StartRaises, Hears, GoTo, diskVars, HonestInv, OneInHand
    <2> QED
      BY <2>1 DEF HonestInv, OneInHand, FreshUntilAsked, OpenWhileAsked, AnswerIsAboutIt,
                  RecordsAreHonest, Asked, Sent
  <1> QED
    BY <1>1, <1>2, <1>3, <1>4, <1>5, <1>6, <1>7 DEF ProcessNext

LEMMA HonestStep == TypeInv /\ HonestInv /\ [Next]_vars => HonestInv'
  <1> SUFFICES ASSUME TypeInv, HonestInv, [Next]_vars PROVE HonestInv'
    OBVIOUS
  <1>1. TypeInv'
    BY TypeStep
  <1>2. CASE UNCHANGED vars
    BY <1>2, HonestFrame DEF vars, history, trouble, vendVars, diskVars, agentVars
  <1> QED
    BY <1>1, <1>2, HonestFollow, HonestPress, HonestCall, HonestVend, HonestLane, HonestProcess
       DEF Next

\* The inductive invariant, and what it is for: a record settled with a reason
\* that says the barrier was not asked to open is right and stays right, and one
\* that says "vended" is about a vend the lane accepted -- for any number of
\* tickets, decisions, doors, kills and late answers.
THEOREM HonestyIsInductive == Spec => [](TypeInv /\ HonestInv)
  BY TypeInit, TypeStep, HonestInit, HonestStep, PTL DEF Spec

THEOREM RecordsStayHonest == Spec => []RecordsAreHonest
  <1>1. HonestInv => RecordsAreHonest
    BY DEF HonestInv
  <1> QED
    BY <1>1, HonestyIsInductive, PTL

-------------------------------------------------------------------------------
(* Tickets implements TicketLife. *)

LifeStep == [Life!Next]_(Life!lifeVars)

\* Nothing the abstraction sees has changed.
LEMMA LifeStutters ==
    ASSUME \A t \in Ticket : LifeOf(rec'[t]) = LifeOf(rec[t]), UNCHANGED accepted
    PROVE  LifeStep
  BY DEF LifeStep, Life!lifeVars, Opened

LEMMA LifeFrame == UNCHANGED <<rec, accepted>> => LifeStep
  BY LifeStutters

\* One record has changed, the way the abstraction lets it.
LEMMA LifeMoves ==
    ASSUME NEW t \in Ticket,
           \A u \in Ticket : u # t => rec'[u] = rec[u],
           UNCHANGED accepted,
           \/ LifeOf(rec[t]) = "none" /\ LifeOf(rec'[t]) = "issued"
           \/ LifeOf(rec[t]) = "issued" /\ LifeOf(rec'[t]) = "confirmed"
           \/ /\ LifeOf(rec[t]) \in {"issued", "confirmed"}
              /\ \/ LifeOf(rec'[t]) = "vended" /\ accepted[t] # "no"
                 \/ LifeOf(rec'[t]) = "closed" /\ accepted[t] = "no"
                 \/ LifeOf(rec'[t]) = "unclear"
    PROVE  LifeStep
  <1> DEFINE life == [u \in Ticket |-> LifeOf(rec[u])]
             lifeNext == [u \in Ticket |-> LifeOf(rec'[u])]
  <1>1. lifeNext = [life EXCEPT ![t] = LifeOf(rec'[t])]
    OBVIOUS
  <1>2. life[t] = LifeOf(rec[t])
    OBVIOUS
  <1>3. Opened' = Opened /\ (t \in Opened <=> accepted[t] # "no")
    BY DEF Opened
  <1> HIDE DEF life, lifeNext
  <1>4. Life!Next
    BY <1>1, <1>2, <1>3
       DEF life, lifeNext, Life!Next, Life!Issue, Life!Confirm, Life!Vend, Life!Close,
           Life!GiveUp, Life!Open
  <1> QED
    BY <1>4 DEF LifeStep

LEMMA LifeOfChanged ==
    /\ \A r \in TicketRecord : /\ LifeOf(Confirmed(r)) = "confirmed"
                              /\ LifeOf(Vended(r)) = "vended"
                              /\ LifeOf(Told(r)) = LifeOf(r)
    /\ \A r, reason : reason \in Definite => LifeOf(Voided(r, reason)) = "closed"
    /\ \A r, reason : reason \in Indefinite => LifeOf(Voided(r, reason)) = "unclear"
    /\ \A r : r.state # "voided" => LifeOf(r) = r.state
  BY ReasonsApart DEF LifeOf, Confirmed, Vended, Told, Voided, TicketRecord

\* One record is settled by a reason that claims the lane was not asked.
LEMMA LifeCloses ==
    ASSUME TypeInv, NEW t \in Ticket, Unsettled(t), accepted[t] = "no",
           NEW reason \in Definite, UNCHANGED accepted,
           rec' = [rec EXCEPT ![t] = Voided(rec[t], reason)] \/ rec' = rec
    PROVE  LifeStep
  <1> SUFFICES ASSUME rec' # rec PROVE LifeStep
    BY LifeFrame
  <1>1. rec'[t] = Voided(rec[t], reason) /\ \A u \in Ticket : u # t => rec'[u] = rec[u]
    BY DEF TypeInv, TypeOK, DiskTypeOK
  <1>2. LifeOf(rec'[t]) = "closed" /\ LifeOf(rec[t]) \in {"issued", "confirmed"}
    BY <1>1, LifeOfChanged DEF Unsettled
  <1> QED
    BY <1>1, <1>2, LifeMoves

\* One record is settled by a reason that claims nothing.
LEMMA LifeGivesUp ==
    ASSUME TypeInv, NEW t \in Ticket, Unsettled(t),
           NEW reason \in Indefinite, UNCHANGED accepted,
           rec' = [rec EXCEPT ![t] = Voided(rec[t], reason)] \/ rec' = rec
    PROVE  LifeStep
  <1> SUFFICES ASSUME rec' # rec PROVE LifeStep
    BY LifeFrame
  <1>1. rec'[t] = Voided(rec[t], reason) /\ \A u \in Ticket : u # t => rec'[u] = rec[u]
    BY DEF TypeInv, TypeOK, DiskTypeOK
  <1>2. LifeOf(rec'[t]) = "unclear" /\ LifeOf(rec[t]) \in {"issued", "confirmed"}
    BY <1>1, LifeOfChanged DEF Unsettled
  <1> QED
    BY <1>1, <1>2, LifeMoves

LEMMA LifeVends ==
    ASSUME TypeInv, NEW t \in Ticket, Unsettled(t), accepted[t] # "no",
           rec' = [rec EXCEPT ![t] = Vended(rec[t])] \/ rec' = rec, UNCHANGED accepted
    PROVE  LifeStep
  <1> SUFFICES ASSUME rec' # rec PROVE LifeStep
    BY LifeFrame
  <1>1. /\ rec'[t] = Vended(rec[t]) /\ rec[t] \in TicketRecord
        /\ \A u \in Ticket : u # t => rec'[u] = rec[u]
    BY DEF TypeInv, TypeOK, DiskTypeOK
  <1>2. LifeOf(rec'[t]) = "vended" /\ LifeOf(rec[t]) \in {"issued", "confirmed"}
    BY <1>1, LifeOfChanged DEF Unsettled
  <1> QED
    BY <1>1, <1>2, LifeMoves

\* The ticket that is up may be closed, whatever the reason.
LEMMA LifeOfPending ==
    ASSUME TypeInv, HonestInv, pending # 0
    PROVE  pending \in Ticket /\ Unsettled(pending) /\ accepted[pending] = "no"
  BY BoundsAssumption
     DEF HonestInv, FreshUntilAsked, TypeInv, TypeOK, AgentTypeOK, Ticket, Unsettled, Asked

LEMMA LifeVoidsPending ==
    ASSUME TypeInv, HonestInv, NEW reason \in Definite, NEW ok, VoidPending(reason, ok),
           UNCHANGED accepted
    PROVE  LifeStep
  <1>1. CASE pending = 0
    BY <1>1, LifeFrame DEF VoidPending
  <1>2. CASE pending # 0
    BY <1>2, LifeOfPending, LifeCloses, SettleWrites DEF VoidPending
  <1> QED
    BY <1>1, <1>2

\* _issue on the store as it was, or after the ticket before it was voided.
LEMMA LifeIssues ==
    ASSUME TypeInv, HonestInv, NEW for, NEW told, Issue(rec, for, told), UNCHANGED accepted
    PROVE  LifeStep
  <1>1. next \in Ticket /\ rec[next].state = "none"
    BY DEF Issue, HonestInv, FreshUntilAsked, TypeInv, TypeOK, DiskTypeOK
  <1>2. rec'[next].state = "issued" /\ \A u \in Ticket : u # next => rec'[u] = rec[u]
    BY <1>1 DEF Issue, TypeInv, TypeOK, DiskTypeOK
  <1>3. LifeOf(rec[next]) = "none" /\ LifeOf(rec'[next]) = "issued"
    BY <1>1, <1>2, LifeOfChanged
  <1> QED
    BY <1>1, <1>2, <1>3, LifeMoves

LEMMA LifeReplaces ==
    ASSUME TypeInv, HonestInv, pending # 0, NEW for, NEW told,
           Issue([rec EXCEPT ![pending] = Voided(rec[pending], "lane_decided_again")], for, told),
           UNCHANGED accepted
    PROVE  LifeStep
  <1> DEFINE life == [u \in Ticket |-> LifeOf(rec[u])]
             lifeNext == [u \in Ticket |-> LifeOf(rec'[u])]
  <1>1. /\ next \in Ticket /\ rec[next].state = "none"
        /\ pending \in Ticket /\ Unsettled(pending) /\ accepted[pending] = "no"
    BY LifeOfPending DEF Issue, HonestInv, FreshUntilAsked, TypeInv, TypeOK, DiskTypeOK
  <1>2. pending # next
    BY <1>1 DEF Unsettled
  <1>3. /\ rec'[next].state = "issued"
        /\ rec'[pending] = Voided(rec[pending], "lane_decided_again")
        /\ \A u \in Ticket : u \notin {pending, next} => rec'[u] = rec[u]
    BY <1>1, <1>2 DEF Issue, TypeInv, TypeOK, DiskTypeOK
  <1>4. /\ LifeOf(rec[next]) = "none" /\ LifeOf(rec'[next]) = "issued"
        /\ LifeOf(rec[pending]) \in {"issued", "confirmed"} /\ LifeOf(rec'[pending]) = "closed"
    BY <1>1, <1>3, LifeOfChanged DEF Unsettled, Definite
  <1>5. lifeNext = [life EXCEPT ![pending] = "closed", ![next] = "issued"]
    BY <1>1, <1>2, <1>3, <1>4
  <1>6. life[pending] \in {"issued", "confirmed"} /\ life[next] = "none"
    BY <1>1, <1>4
  <1>7. Opened' = Opened /\ pending \notin Opened
    BY <1>1 DEF Opened
  <1> HIDE DEF life, lifeNext
  <1>8. Life!Replace(pending, next)
    BY <1>2, <1>5, <1>6, <1>7 DEF life, lifeNext, Life!Replace, Life!Open
  <1> QED
    BY <1>1, <1>8 DEF LifeStep, Life!Next

LEMMA LifeInit == Init => Life!Init
  BY DEF Init, Life!Init, NoRecord, LifeOf, Opened

LEMMA LifeFollow ==
    ASSUME TypeInv, HonestInv, FollowNext
    PROVE  LifeStep
  <1> USE DEF vendVars, diskVars
  <1>1. CASE AdoptCursor \/ FollowLane \/ LaneUnread
    BY <1>1, LifeFrame DEF AdoptCursor, FollowLane, LaneUnread
  <1>2. ASSUME NEW ok, CursorReset(ok) \/ Expire(ok) PROVE LifeStep
    BY <1>2, LifeVoidsPending, LifeFrame DEF CursorReset, VoidRaises, Expire, Definite
  <1>3. ASSUME NEW readable, SameDecision(readable) PROVE LifeStep
    BY <1>3, LifeFrame DEF SameDecision
  <1>4. ASSUME NEW readable, NEW ok, CheckPending(readable, ok) PROVE LifeStep
    <2>1. UNCHANGED accepted
      BY <1>4 DEF CheckPending
    <2>2. ASSUME NEW reason \in Definite, VoidPending(reason, ok) PROVE LifeStep
      BY <2>1, <2>2, LifeVoidsPending
    <2>3. CASE UNCHANGED <<rec, pending, screenVars, trouble>>
      BY <2>1, <2>3, LifeFrame
    <2> QED
      BY <1>4, <2>2, <2>3 DEF CheckPending, Definite
  <1>5. ASSUME NEW shown, NEW ok, Reassert(shown, ok) PROVE LifeStep
    <2>1. UNCHANGED accepted
      BY <1>5 DEF Reassert
    <2>2. CASE UNCHANGED rec
      BY <2>1, <2>2, LifeFrame
    <2>3. CASE Settle(pending, Voided(rec[pending], "display_unavailable"))
      <3>1. pending # 0
        BY <1>5 DEF Reassert, TypeInv, InHand
      <3> QED
        BY <2>1, <2>3, <3>1, LifeOfPending, LifeCloses, SettleWrites DEF Definite
    <2> QED
      BY <1>5, <2>2, <2>3 DEF Reassert
  <1>6. ASSUME NEW readable, NEW ok, NewDecision(readable, ok) PROVE LifeStep
    <2> DEFINE voided == [rec EXCEPT ![pending] = Voided(rec[pending], "lane_decided_again")]
    <2>1. UNCHANGED accepted
      BY <1>6 DEF NewDecision
    <2>2. PICK store : /\ MintsOrNot(store, readable)
                       /\ store = rec \/ (pending # 0 /\ store = voided)
      BY <1>6 DEF NewDecision
    <2>3. CASE Issue(store, "poll", ~OnThePhone)
      BY <2>1, <2>2, <2>3, LifeIssues, LifeReplaces
    <2>4. CASE rec' = store
      BY <2>1, <2>2, <2>4, LifeFrame, LifeOfPending, LifeCloses DEF Definite
    <2> QED
      BY <2>2, <2>3, <2>4 DEF MintsOrNot
  <1>7. ASSUME NEW shown, Showing(shown) PROVE LifeStep
    <2>1. /\ subject \in Ticket /\ Unsettled(subject) /\ accepted[subject] = "no"
          /\ UNCHANGED accepted
      BY <1>7 DEF Showing, HonestInv, FreshUntilAsked, TypeInv, InHand, Unsettled, Asked
    <2>2. CASE Write(subject, Voided(rec[subject], "display_unavailable"))
      BY <2>1, <2>2, LifeCloses DEF Write, Definite
    <2>3. CASE UNCHANGED rec
      BY <2>1, <2>3, LifeFrame
    <2> QED
      BY <1>7, <2>2, <2>3 DEF Showing
  <1>8. CASE LaneReadRaises \/ VoidAtRaises
    BY <1>8, LifeFrame DEF LaneReadRaises, VoidAtRaises, VoidRaises
  <1> QED
    BY <1>1, <1>2, <1>3, <1>4, <1>5, <1>6, <1>7, <1>8 DEF FollowNext

LEMMA LifePress ==
    ASSUME TypeInv, HonestInv, PressNext
    PROVE  LifeStep
  <1> USE DEF vendVars, diskVars
  <1>1. ASSUME NEW d, PressUntold(d) PROVE LifeStep
    BY <1>1, LifeFrame DEF PressUntold
  <1>2. ASSUME NEW d, NEW ok, PressConfirms(d, ok) PROVE LifeStep
    <2>1. /\ pending \in Ticket /\ Unsettled(pending) /\ accepted[pending] = "no"
          /\ rec[pending].state = "issued" /\ UNCHANGED accepted
      BY <1>2, LifeOfPending DEF PressConfirms, HonestInv, FreshUntilAsked
    <2>2. CASE Settle(pending, Voided(rec[pending], "no_act_route"))
      BY <2>1, <2>2, LifeCloses, SettleWrites DEF Definite
    <2>4. CASE UNCHANGED rec
      BY <2>1, <2>4, LifeFrame
    <2>3. CASE rec' = [rec EXCEPT ![pending] = Confirmed(rec[pending])]
      <3>1. /\ rec'[pending] = Confirmed(rec[pending]) /\ rec[pending] \in TicketRecord
            /\ \A u \in Ticket : u # pending => rec'[u] = rec[u]
        BY <2>1, <2>3 DEF TypeInv, TypeOK, DiskTypeOK
      <3>2. LifeOf(rec[pending]) = "issued" /\ LifeOf(rec'[pending]) = "confirmed"
        BY <2>1, <3>1, LifeOfChanged
      <3> QED
        BY <2>1, <3>1, <3>2, LifeMoves
    <2> QED
      BY <1>2, <2>2, <2>3, <2>4 DEF PressConfirms, Write
  <1>3. ASSUME NEW d, NEW readable, PressForHelp(d, readable) \/ PressForCase(d, readable)
        PROVE  LifeStep
    BY <1>3, LifeFrame DEF PressForHelp, PressForCase
  <1>4. ASSUME NEW d, NEW readable, PressMints(d, readable) PROVE LifeStep
    BY <1>4, LifeIssues DEF PressMints
  <1>5. ASSUME NEW d, HelpExpires(d) \/ PressRaises(d) \/ ConfirmRaises(d) PROVE LifeStep
    BY <1>5, LifeFrame DEF HelpExpires, PressRaises, ConfirmRaises, VoidRaises
  <1> QED
    BY <1>1, <1>2, <1>3, <1>4, <1>5 DEF PressNext

LEMMA LifeCall ==
    ASSUME TypeInv, HonestInv, CallNext
    PROVE  LifeStep
  <1> USE DEF vendVars, diskVars
  <1>1. CASE CallHuman \/ NobodyDecides \/ PersonOpensWithTicket
    BY <1>1, LifeFrame DEF CallHuman, NobodyDecides, PersonOpensWithTicket
  <1>2. ASSUME NEW readable, PersonOpensByMinting(readable) PROVE LifeStep
    <2>1. CASE Issue(rec, "person", TRUE)
      BY <1>2, <2>1, LifeIssues DEF PersonOpensByMinting
    <2>2. CASE UNCHANGED <<diskVars, at, purpose, subject, unheard>>
      BY <1>2, <2>2, LifeFrame DEF PersonOpensByMinting
    <2> QED
      BY <1>2, <2>1, <2>2 DEF PersonOpensByMinting
  <1>3. ASSUME NEW ok, PersonSaysNo(ok) PROVE LifeStep
    BY <1>3, LifeVoidsPending DEF PersonSaysNo, Definite
  <1>4. ASSUME NEW ok, ToldOnScreen(ok) PROVE LifeStep
    <2>1. \A t \in Ticket : LifeOf(rec'[t]) = LifeOf(rec[t])
      BY <1>4, LifeOfChanged DEF ToldOnScreen, Write, TypeInv, TypeOK, DiskTypeOK
    <2> QED
      BY <1>4, <2>1, LifeStutters DEF ToldOnScreen
  <1>5. ASSUME NEW ok, CallEnds(ok) PROVE LifeStep
    BY <1>5, LifeFrame DEF CallEnds
  <1> QED
    BY <1>1, <1>2, <1>3, <1>4, <1>5 DEF CallNext

LEMMA LifeVend ==
    ASSUME TypeInv, HonestInv, VendNext
    PROVE  LifeStep
  <1>1. at = "vending" => subject \in Ticket /\ Unsettled(subject)
    BY DEF HonestInv, OpenWhileAsked, TypeInv, InHand
  <1>2. CASE VendCommanded
    <2>1. accepted[subject] # "no"
      BY <1>2 DEF VendCommanded, Hears, HonestInv, AnswerIsAboutIt
    <2> QED
      BY <1>1, <1>2, <2>1, LifeVends, SettleWrites DEF VendCommanded, Hears
  <1>3. ASSUME NEW reason \in Refusals, NEW ok, VendNotCommanded(reason, ok) PROVE LifeStep
    <2>1. \/ reason \in Indefinite
          \/ reason \in Definite /\ accepted[subject] = "no"
      BY <1>3 DEF VendNotCommanded, Hears, Refusals, Indefinite, Definite, HonestInv,
                  AnswerIsAboutIt, Asked
    <2>2. CASE reason \in Indefinite
      BY <1>1, <1>3, <2>2, LifeGivesUp, SettleWrites DEF VendNotCommanded, Hears
    <2>3. CASE reason \in Definite /\ accepted[subject] = "no"
      BY <1>1, <1>3, <2>3, LifeCloses, SettleWrites DEF VendNotCommanded, Hears
    <2> QED
      BY <2>1, <2>2, <2>3
  <1>4. CASE VendRaises
    BY <1>4, LifeFrame DEF VendRaises, diskVars
  <1> QED
    BY <1>2, <1>3, <1>4 DEF VendNext

\* The lane accepts a vend: the record it names is open, or is already vended
\* for it, or claims nothing about the barrier.
LEMMA LifeLane ==
    ASSUME TypeInv, HonestInv, LaneNext
    PROVE  LifeStep
  <1> USE DEF vendVars, diskVars
  <1>1. CASE StopsOffering \/ CarLeaves \/ LaneRestarts
    BY <1>1, LifeFrame DEF StopsOffering, CarLeaves, LaneRestarts
  <1>2. ASSUME NEW offer, NEW there, LaneDecides(offer, there) PROVE LifeStep
    BY <1>2, LifeFrame DEF LaneDecides
  <1>3. ASSUME NEW r \in wire, NEW answer, LaneRefuses(r, answer) PROVE LifeStep
    BY <1>3, LifeFrame DEF LaneRefuses
  <1>4. ASSUME NEW r \in wire, LaneAccepts(r) PROVE LifeStep
    <2> DEFINE t == r.ticket
               life == [u \in Ticket |-> LifeOf(rec[u])]
    <2>1. t \in Ticket /\ Asked(t) /\ UNCHANGED rec
      BY <1>4 DEF LaneAccepts, TypeInv, TypeOK, VendTypeOK, Request, Asked, Sent
    <2>2. accepted'[t] # "no" /\ \A u \in Ticket : u # t => accepted'[u] = accepted[u]
      BY <1>4, <2>1 DEF LaneAccepts, TypeInv, TypeOK, VendTypeOK
    <2>3. Opened' = Opened \cup {t}
      BY <2>1, <2>2 DEF Opened
    <2>4. CASE t \in Opened
      <3>1. Opened' = Opened
        BY <2>3, <2>4
      <3> QED
        BY <2>1, <3>1 DEF LifeStep, Life!lifeVars
    <2>5. CASE t \notin Opened
      <3>1. accepted[t] = "no"
        BY <2>1, <2>5 DEF Opened
      <3>2. rec[t].state # "vended"
        BY <2>1, <3>1 DEF HonestInv, RecordsAreHonest
      <3>3. LifeOf(rec[t]) \in {"issued", "confirmed", "unclear"}
        BY <2>1, <3>2, LifeOfChanged, ReasonsApart DEF HonestInv, OpenWhileAsked, LifeOf
      <3>4. life[t] \in {"issued", "confirmed", "unclear"} /\ UNCHANGED life
        BY <2>1, <3>3
      <3> HIDE DEF t
      <3>5. Life!LaneOpens(t)
        BY <2>3, <3>4 DEF Life!LaneOpens, Life!Open
      <3> QED
        BY <2>1, <3>5 DEF LifeStep, Life!Next
    <2> QED
      BY <2>4, <2>5
  <1> QED
    BY <1>1, <1>2, <1>3, <1>4 DEF LaneNext

LEMMA LifeProcess ==
    ASSUME TypeInv, HonestInv, ProcessNext
    PROVE  LifeStep
  <1> USE DEF vendVars, diskVars
  <1>1. ASSUME NEW blanked, Dies(blanked) PROVE LifeStep
    BY <1>1, LifeFrame DEF Dies
  <1>2. CASE Start \/ Reconciled
    BY <1>2, LifeFrame DEF Start, Reconciled
  <1>6. CASE StartRaises
    BY <1>6, LifeFrame DEF StartRaises
  <1>3. ASSUME NEW t \in Ticket, ReconcileIssued(t) PROVE LifeStep
    BY <1>3, LifeGivesUp, SettleWrites DEF ReconcileIssued, Unsettled, Indefinite
  <1>4. ASSUME NEW t \in Ticket, ReconcileConfirmed(t) PROVE LifeStep
    <2>1. CASE UNCHANGED rec
      BY <1>4, <2>1, LifeFrame DEF ReconcileConfirmed
    <2>2. CASE Write(t, Voided(rec[t], "outcome_unknown"))
      BY <1>4, <2>2, LifeGivesUp DEF ReconcileConfirmed, Write, Unsettled, Indefinite
    <2> QED
      BY <1>4, <2>1, <2>2 DEF ReconcileConfirmed
  <1>5. ASSUME NEW commanded, ReplayAnswered(commanded) PROVE LifeStep
    <2>1. subject \in Ticket /\ Unsettled(subject) /\ UNCHANGED accepted
      BY <1>5 DEF ReplayAnswered, Hears, HonestInv, OpenWhileAsked, TypeInv, InHand
    <2>2. CASE commanded
      <3>1. accepted[subject] # "no"
        BY <1>5, <2>2 DEF ReplayAnswered, Hears, HonestInv, AnswerIsAboutIt
      <3> QED
        BY <1>5, <2>1, <2>2, <3>1, LifeVends DEF ReplayAnswered, Write
    <2>3. CASE ~commanded
      BY <1>5, <2>1, <2>3, LifeGivesUp DEF ReplayAnswered, Write, Indefinite
    <2> QED
      BY <2>2, <2>3
  <1> QED
    BY <1>1, <1>2, <1>3, <1>4, <1>5, <1>6 DEF ProcessNext

\* The records keep the promise of TicketLife: settled once, "vended" only for a
\* ticket the lane accepted, "closed" only for one it never accepts.
THEOREM TicketsKeepTheirLife == Spec => KeepsTicketLife
  <1>1. TypeInv /\ HonestInv /\ [Next]_vars => LifeStep
    <2> SUFFICES ASSUME TypeInv, HonestInv, [Next]_vars PROVE LifeStep
      OBVIOUS
    <2>1. CASE UNCHANGED vars
      BY <2>1, LifeFrame DEF vars, vendVars, diskVars
    <2> QED
      BY <2>1, LifeFollow, LifePress, LifeCall, LifeVend, LifeLane, LifeProcess DEF Next
  <1> QED
    BY <1>1, LifeInit, HonestyIsInductive, PTL DEF Spec, KeepsTicketLife, Life!Spec, LifeStep

-------------------------------------------------------------------------------
(* What is in hand, and what the poll mints for. *)

\* An agent that is neither minting nor asking has no ticket in hand.
HandInv == at \notin {"showing", "vending"} => subject = 0 /\ purpose = "none"

LEMMA HandInit == Init => HandInv
  BY DEF Init, HandInv

LEMMA HandStep ==
    ASSUME TypeInv, HandInv, [Next]_vars
    PROVE  HandInv'
  <1> USE DEF HandInv, GoTo, AfterPoll
  <1>1. CASE UNCHANGED vars
    BY <1>1 DEF vars, agentVars
  <1>2. CASE LaneNext
    BY <1>2 DEF LaneNext, LaneDecides, StopsOffering, CarLeaves, LaneRestarts, LaneAccepts,
                LaneRefuses, agentVars
  <1>3. CASE FollowNext
    BY <1>3 DEF FollowNext, AdoptCursor, FollowLane, LaneUnread, CursorReset, Expire,
                SameDecision, NewDecision, MintsOrNot, CheckPending, Reassert, Showing,
                LaneReadRaises, VoidAtRaises, Issue, AskLane
  <1>4. CASE PressNext
    BY <1>4 DEF PressNext, PressUntold, PressConfirms, PressForHelp, PressMints, PressForCase,
                HelpExpires, PressRaises, ConfirmRaises, Issue, AskLane
  <1>5. CASE CallNext
    BY <1>5 DEF CallNext, CallHuman, NobodyDecides, PersonOpensWithTicket,
                PersonOpensByMinting, PersonSaysNo, ToldOnScreen, CallEnds, Issue, AskLane
  <1>6. CASE VendNext
    BY <1>6 DEF VendNext, VendCommanded, VendNotCommanded, VendRaises
  <1>7. CASE ProcessNext
    BY <1>7 DEF ProcessNext, Dies, Start, ReconcileIssued, ReconcileConfirmed, ReplayAnswered,
                Reconciled, StartRaises, agentVars, AskLane
  <1> QED
    BY <1>1, <1>2, <1>3, <1>4, <1>5, <1>6, <1>7 DEF Next

-----------------------------------------------------------------------------
\* The decision the poll is about was made after the cursor was taken up.
AfterAdoption ==
    /\ held # -1 => adopted <= decision /\ (cursor > held => adopted < decision)
    /\ at = "considering" => adopted < decision

LEMMA AdoptionInit == Init => AfterAdoption
  BY DEF Init, AfterAdoption

LEMMA AdoptionStep ==
    ASSUME TypeInv, AfterAdoption, [Next]_vars
    PROVE  AfterAdoption'
  <1> USE DEF AfterAdoption, TypeInv, TypeOK, LaneTypeOK, HistoryTypeOK, AgentTypeOK,
              GoTo, AfterPoll, laneVars, history, BoundsAssumption
  <1>1. CASE UNCHANGED vars
    BY <1>1 DEF vars, agentVars
  <1>2. CASE LaneNext
    BY <1>2 DEF LaneNext, LaneDecides, StopsOffering, CarLeaves, LaneRestarts, LaneAccepts,
                LaneRefuses, agentVars
  <1>3. CASE FollowNext
    <2>1. CASE AdoptCursor \/ \E ok \in BOOLEAN : CursorReset(ok)
      BY <2>1 DEF AdoptCursor, CursorReset
    <2>2. CASE FollowLane
      BY <2>2 DEF FollowLane
    <2>3. CASE LaneUnread \/ \E ok \in BOOLEAN : Expire(ok)
      BY <2>3 DEF LaneUnread, Expire
    <2>4. CASE \/ \E readable \in Reads : SameDecision(readable)
               \/ \E readable \in Reads, ok \in BOOLEAN : NewDecision(readable, ok)
               \/ \E readable, ok \in BOOLEAN : CheckPending(readable, ok)
      BY <2>4 DEF SameDecision, NewDecision, MintsOrNot, CheckPending, Issue
    <2>5. CASE \/ \E shown, ok \in BOOLEAN : Reassert(shown, ok)
               \/ \E shown \in BOOLEAN : Showing(shown)
      BY <2>5 DEF Reassert, Showing, AskLane
    <2>6. CASE LaneReadRaises \/ VoidAtRaises
      BY <2>6 DEF LaneReadRaises, VoidAtRaises
    <2> QED
      BY <1>3, <2>1, <2>2, <2>3, <2>4, <2>5, <2>6 DEF FollowNext
  <1>4. CASE PressNext
    BY <1>4 DEF PressNext, PressUntold, PressConfirms, PressForHelp, PressMints, PressForCase,
                HelpExpires, PressRaises, ConfirmRaises, Issue, AskLane
  <1>5. CASE CallNext
    BY <1>5 DEF CallNext, CallHuman, NobodyDecides, PersonOpensWithTicket,
                PersonOpensByMinting, PersonSaysNo, ToldOnScreen, CallEnds, Issue, AskLane
  <1>6. CASE VendNext
    BY <1>6 DEF VendNext, VendCommanded, VendNotCommanded, VendRaises
  <1>7. CASE ProcessNext
    BY <1>7 DEF ProcessNext, Dies, Start, ReconcileIssued, ReconcileConfirmed, ReplayAnswered,
                Reconciled, StartRaises, agentVars, AskLane
  <1> QED
    BY <1>1, <1>2, <1>3, <1>4, <1>5, <1>6, <1>7 DEF Next

PollMint == at' = "showing" /\ purpose' = "poll" /\ next' # next => rec'[next].decision > adopted

LEMMA PollMintStep ==
    ASSUME TypeInv, AfterAdoption, [Next]_vars
    PROVE  PollMint
  <1> SUFFICES ASSUME at' = "showing", purpose' = "poll", next' # next
               PROVE rec'[next].decision > adopted
    BY DEF PollMint
  <1>1. PICK readable, ok : NewDecision(readable, ok)
    <2> USE DEF GoTo, AfterPoll, diskVars
    <2>1. ~(UNCHANGED vars)
      BY DEF vars
    <2>2. ~LaneNext
      BY DEF LaneNext, LaneDecides, StopsOffering, CarLeaves, LaneRestarts, LaneAccepts, LaneRefuses
    <2>3. ~PressNext
      BY DEF PressNext, PressUntold, PressConfirms, PressForHelp, PressMints, PressForCase,
             HelpExpires, PressRaises, ConfirmRaises, Issue
    <2>4. ~CallNext
      BY DEF CallNext, CallHuman, NobodyDecides, PersonOpensWithTicket,
             PersonOpensByMinting, PersonSaysNo, ToldOnScreen, CallEnds, Issue
    <2>5. ~VendNext
      BY DEF VendNext, VendCommanded, VendNotCommanded, VendRaises
    <2>6. ~ProcessNext
      BY DEF ProcessNext, Dies, Start, ReconcileIssued, ReconcileConfirmed, ReplayAnswered,
             Reconciled, StartRaises
    <2>7. FollowNext
      BY <2>1, <2>2, <2>3, <2>4, <2>5, <2>6 DEF Next
    <2> QED
      BY <2>7 DEF FollowNext, AdoptCursor, FollowLane, LaneUnread, CursorReset, Expire,
                  SameDecision, CheckPending, Reassert, Showing, LaneReadRaises, VoidAtRaises
  <1>2. adopted < decision
    BY <1>1 DEF NewDecision, AfterAdoption
  <1>3. rec'[next].decision = decision
    <2>1. PICK store \in [Ticket -> TicketRecord] : MintsOrNot(store, readable)
      BY <1>1, SettleTypes DEF NewDecision, TypeInv, TypeOK, DiskTypeOK, Records, Definite
    <2>2. Issue(store, "poll", ~OnThePhone)
      BY <2>1 DEF MintsOrNot, GoTo
    <2> QED
      BY <2>1, <2>2 DEF Issue
  <1> QED
    BY <1>2, <1>3 DEF TypeInv, TypeOK, LaneTypeOK, HistoryTypeOK

\* The poll mints only for a decision made after it took up the lane's cursor: no ticket
\* for a car that had come before the agent started or the lane lost its place.
THEOREM PollMintsForNewCars == Spec => PollMintsForNewDecisions
  <1>1. TypeInv /\ AfterAdoption /\ [Next]_vars => [PollMint]_vars
    BY PollMintStep
  <1> QED
    BY <1>1, TypeInit, TypeStep, AdoptionInit, AdoptionStep, PTL
    DEF Spec, PollMintsForNewDecisions, PollMint

-------------------------------------------------------------------------------
(* The press and what the driver has been told. *)

\* A ticket minted over the driver's call has been neither confirmed nor asked for by
\* a press, and its record says so as long as it may yet be.
UnheardInv ==
    \A t \in unheard :
        /\ t < next /\ rec[t].state # "confirmed" /\ accepted[t] # "press"
        /\ \A r \in wire : r.ticket = t => r.by = "person"
        /\ t = pending \/ (at = "showing" /\ t = subject /\ purpose # "person") => ~rec[t].told

LEMMA UnheardInit == Init => UnheardInv
  BY DEF Init, UnheardInv

\* A window that runs out, and every way out by an exception.
Raises ==
    \/ LaneReadRaises \/ VoidAtRaises \/ VendRaises \/ StartRaises
    \/ \E d \in Door : HelpExpires(d) \/ PressRaises(d) \/ ConfirmRaises(d)

\* They write no record, mint nothing and send nothing.
LEMMA RaisesKeep ==
    ASSUME Raises
    PROVE  /\ UNCHANGED <<rec, next, accepted, wire, unheard>>
           /\ pending' \in {0, pending} /\ at' # "showing"
  BY DEF Raises, LaneReadRaises, VoidAtRaises, VendRaises, StartRaises, HelpExpires, PressRaises,
         ConfirmRaises, VoidRaises, GoTo, diskVars, vendVars, history

\* Nothing is minted, asked for or told.
LEMMA UnheardFrame ==
    ASSUME TypeInv, UnheardInv, unheard' = unheard, next' = next, accepted' = accepted,
           wire' \subseteq wire, at' # "showing",
           pending' \in {0, pending} \/ (at = "showing" /\ purpose # "person" /\ pending' = subject),
           \A t \in Ticket : /\ rec'[t].state = "confirmed" => rec[t].state = "confirmed"
                             /\ rec'[t].told = rec[t].told
    PROVE  UnheardInv'
  <1>1. \A t \in unheard : t \in Ticket /\ t # 0
    BY BoundsAssumption DEF TypeInv, TypeOK, HistoryTypeOK, Ticket
  <1> QED
    BY <1>1 DEF UnheardInv

\* What a record says of being told does not depend on how it is settled.
LEMMA SettledTold ==
    \A reason, r :
        /\ Voided(r, reason).told = r.told /\ Voided(r, reason).state = "voided"
  BY DEF Voided

\* A record that is voided is neither confirmed nor told by that.
LEMMA UnheardSettles ==
    ASSUME TypeInv, NEW t, NEW reason \in Definite \cup Indefinite,
           NEW s, s = [rec EXCEPT ![t] = Voided(rec[t], reason)]
    PROVE  /\ s \in Records
           /\ \A u \in Ticket : /\ s[u].state = "confirmed" => rec[u].state = "confirmed"
                                /\ s[u].told = rec[u].told
  <1>1. rec \in Records
    BY DEF TypeInv, TypeOK, DiskTypeOK, Records
  <1>2. s \in Records
    BY <1>1, SettleTypes
  <1>3. ASSUME NEW u \in Ticket
        PROVE  s[u].told = rec[u].told /\ (s[u].state = "confirmed" => rec[u].state = "confirmed")
    <2>1. CASE u = t
      <3>1. s[u] = Voided(rec[t], reason)
        BY <1>1, <2>1 DEF Records
      <3> QED
        BY <2>1, <3>1, SettledTold
    <2>2. CASE u # t
      <3>1. s[u] = rec[u]
        BY <1>1, <2>2 DEF Records
      <3> QED
        BY <3>1
    <2> QED
      BY <2>1, <2>2
  <1> QED
    BY <1>2, <1>3

LEMMA UnheardVoids ==
    ASSUME TypeInv, UnheardInv, unheard' = unheard, next' = next, accepted' = accepted,
           wire' \subseteq wire, at' # "showing",
           NEW reason, NEW ok, VoidPending(reason, ok)
    PROVE  UnheardInv'
  <1>1. pending' \in {0, pending}
    BY DEF VoidPending
  <1>2. \A t \in Ticket : /\ rec'[t].state = "confirmed" => rec[t].state = "confirmed"
                          /\ rec'[t].told = rec[t].told
    BY SettledTold DEF VoidPending, Settle, Write, TypeInv, TypeOK, DiskTypeOK
  <1> QED
    BY <1>1, <1>2, UnheardFrame

LEMMA UnheardMints ==
    ASSUME TypeInv, HonestInv, UnheardInv, NEW before \in Records, NEW for, NEW told \in BOOLEAN,
           Issue(before, for, told), accepted' = accepted, wire' = wire, pending' = 0,
           \A t \in Ticket : /\ before[t].state = "confirmed" => rec[t].state = "confirmed"
                             /\ before[t].told = rec[t].told,
           for # "person" => told = ~DriverTalking
    PROVE  UnheardInv'
  <1> USE BoundsAssumption DEF Ticket
  <1>1. /\ next \in Ticket /\ next' = next + 1 /\ at' = "showing" /\ purpose' = for
        /\ subject' = next /\ unheard' \subseteq unheard \cup {next}
        /\ ~DriverTalking => unheard' = unheard
    BY DEF Issue
  <1>2. /\ rec'[next].state = "issued" /\ rec'[next].told = told
        /\ \A t \in Ticket : t # next => rec'[t] = before[t]
    BY <1>1 DEF Issue, Records
  <1>3. accepted[next] = "no" /\ \A r \in wire : r.ticket # next
    BY <1>1 DEF HonestInv, FreshUntilAsked, Asked, Sent
  <1>4. unheard \subseteq Ticket
    BY DEF TypeInv, TypeOK, HistoryTypeOK
  <1>5. ASSUME NEW t \in unheard
        PROVE  /\ t < next' /\ rec'[t].state # "confirmed" /\ accepted'[t] # "press" /\ t # next
               /\ \A r \in wire' : r.ticket = t => r.by = "person"
    BY <1>1, <1>2, <1>4 DEF UnheardInv, TypeInv, TypeOK, DiskTypeOK
  <1>6. ASSUME next \in unheard'
        PROVE  /\ next < next' /\ rec'[next].state # "confirmed" /\ accepted'[next] # "press"
               /\ \A r \in wire' : r.ticket # next
               /\ for # "person" => ~rec'[next].told
    BY <1>1, <1>2, <1>3, <1>5, <1>6 DEF TypeInv, TypeOK, DiskTypeOK
  <1> QED
    BY <1>1, <1>4, <1>5, <1>6 DEF UnheardInv

LEMMA UnheardStep ==
    ASSUME TypeInv, HonestInv, UnheardInv, [Next]_vars
    PROVE  UnheardInv'
  <1> USE DEF GoTo, AfterPoll, vendVars, diskVars, history
  <1>1. CASE UNCHANGED vars
    BY <1>1 DEF vars, agentVars, UnheardInv
  <1>2. CASE LaneNext
    <2>1. ASSUME NEW r \in wire, LaneAccepts(r) PROVE UnheardInv'
      <3>1. \A t \in unheard : accepted'[t] # "press"
        BY <2>1 DEF LaneAccepts, UnheardInv, TypeInv, TypeOK, VendTypeOK, HistoryTypeOK
      <3> QED
        BY <2>1, <3>1 DEF LaneAccepts, UnheardInv, agentVars
    <2>2. ASSUME NEW r \in wire, NEW answer, LaneRefuses(r, answer) PROVE UnheardInv'
      BY <2>2 DEF LaneRefuses, UnheardInv, agentVars
    <2>3. CASE \/ \E offer, there \in BOOLEAN : LaneDecides(offer, there)
               \/ StopsOffering \/ CarLeaves \/ LaneRestarts
      BY <2>3 DEF LaneDecides, StopsOffering, CarLeaves, LaneRestarts, UnheardInv, agentVars
    <2> QED
      BY <1>2, <2>1, <2>2, <2>3 DEF LaneNext
  <1>3. CASE FollowNext
    <2>1. CASE AdoptCursor \/ FollowLane \/ LaneUnread \/ \E readable \in Reads : SameDecision(readable)
      BY <2>1, UnheardFrame DEF AdoptCursor, FollowLane, LaneUnread, SameDecision
    <2>2. ASSUME NEW ok, CursorReset(ok) PROVE UnheardInv'
      <3>1. CASE VoidPending("lane_decided_again", ok)
        BY <2>2, <3>1, UnheardVoids DEF CursorReset
      <3>2. CASE VoidRaises
        BY <2>2, <3>2, UnheardFrame DEF CursorReset, VoidRaises
      <3> QED
        BY <2>2, <3>1, <3>2 DEF CursorReset
    <2>3. ASSUME NEW ok, Expire(ok) PROVE UnheardInv'
      BY <2>3, UnheardVoids DEF Expire
    <2>4. ASSUME NEW readable, NEW ok, CheckPending(readable, ok) PROVE UnheardInv'
      BY <2>4, UnheardVoids, UnheardFrame DEF CheckPending
    <2>5. ASSUME NEW shown, NEW ok, Reassert(shown, ok) PROVE UnheardInv'
      <3>1. \A t \in Ticket : /\ rec'[t].state = "confirmed" => rec[t].state = "confirmed"
                              /\ rec'[t].told = rec[t].told
        <4>1. CASE UNCHANGED rec
          BY <4>1
        <4>2. CASE Settle(pending, Voided(rec[pending], "display_unavailable"))
          <5>1. CASE rec' = rec
            BY <5>1
          <5>2. CASE rec' = [rec EXCEPT ![pending] = Voided(rec[pending], "display_unavailable")]
            BY <5>2, UnheardSettles DEF Definite
          <5> QED
            BY <4>2, <5>1, <5>2, SettleWrites
        <4> QED
          BY <2>5, <4>1, <4>2 DEF Reassert
      <3> QED
        BY <2>5, <3>1, UnheardFrame DEF Reassert
    <2>6. ASSUME NEW shown, Showing(shown) PROVE UnheardInv'
      <3>1. CASE AskLane(subject, "person")
        <4>2. at = "showing" /\ at' = "vending"
          BY <2>6, <3>1 DEF Showing, AskLane
        <4>3. pending' = pending
          BY <2>6, <4>2 DEF Showing
        <4>1. pending' = 0
          BY <4>2, <4>3 DEF HonestInv, OneInHand
        <4> QED
          BY <2>6, <3>1 DEF Showing, AskLane, UnheardInv
      <3>2. CASE UNCHANGED <<wire, reply>>
        <4>1. \A t \in Ticket : /\ rec'[t].state = "confirmed" => rec[t].state = "confirmed"
                                /\ rec'[t].told = rec[t].told
          <5>1. CASE UNCHANGED rec
            BY <5>1
          <5>2. CASE Write(subject, Voided(rec[subject], "display_unavailable"))
            BY <5>2, UnheardSettles DEF Write, Definite
          <5> QED
            BY <2>6, <5>1, <5>2 DEF Showing
        <4> QED
          BY <2>6, <3>2, <4>1, UnheardFrame DEF Showing, AskLane
      <3> QED
        BY <2>6, <3>1, <3>2 DEF Showing
    <2>7. ASSUME NEW readable, NEW ok, NewDecision(readable, ok) PROVE UnheardInv'
      <3>1. PICK store \in Records :
               /\ \A t \in Ticket : /\ store[t].state = "confirmed" => rec[t].state = "confirmed"
                                    /\ store[t].told = rec[t].told
               /\ MintsOrNot(store, readable)
        <4>1. rec \in Records
          BY DEF TypeInv, TypeOK, DiskTypeOK, Records
        <4>2. CASE MintsOrNot(rec, readable)
          BY <4>1, <4>2
        <4>3. CASE MintsOrNot([rec EXCEPT ![pending] = Voided(@, "lane_decided_again")], readable)
          <5> DEFINE store == [rec EXCEPT ![pending] = Voided(rec[pending], "lane_decided_again")]
          <5>1. /\ store \in Records
                /\ \A t \in Ticket : /\ store[t].state = "confirmed" => rec[t].state = "confirmed"
                                     /\ store[t].told = rec[t].told
            BY UnheardSettles DEF Definite
          <5>2. MintsOrNot(store, readable)
            BY <4>3
          <5> HIDE DEF store
          <5> QED
            BY <5>1, <5>2
        <4> QED
          BY <2>7, <4>2, <4>3 DEF NewDecision
      <3>2. session' = session /\ pending' = 0 /\ accepted' = accepted /\ wire' = wire
        BY <2>7 DEF NewDecision
      <3>3. CASE Issue(store, "poll", ~OnThePhone)
        <4>1. OnThePhone = DriverTalking
          BY <3>2 DEF OnThePhone, DriverTalking
        <4>2. (~OnThePhone) \in BOOLEAN
          BY DEF OnThePhone
        <4> QED
          BY <3>1, <3>2, <3>3, <4>1, <4>2, UnheardMints
      <3>4. CASE rec' = store /\ at' = "idle" /\ UNCHANGED <<next, unheard>>
        BY <3>1, <3>2, <3>4, UnheardFrame
      <3> QED
        BY <3>1, <3>3, <3>4 DEF MintsOrNot
    <2>8. CASE LaneReadRaises \/ VoidAtRaises
      BY <2>8, RaisesKeep, UnheardFrame DEF Raises
    <2> QED
      BY <1>3, <2>1, <2>2, <2>3, <2>4, <2>5, <2>6, <2>7, <2>8 DEF FollowNext
  <1>4. CASE PressNext
    <2>1. ASSUME NEW d, NEW readable, PressUntold(d) \/ PressForHelp(d, readable) \/ PressForCase(d, readable)
          PROVE  UnheardInv'
      BY <2>1, UnheardFrame DEF PressUntold, PressForHelp, PressForCase
    <2>4. ASSUME NEW d \in Door, HelpExpires(d) \/ PressRaises(d) \/ ConfirmRaises(d) PROVE UnheardInv'
      BY <2>4, RaisesKeep, UnheardFrame DEF Raises
    <2>2. ASSUME NEW d, NEW ok, PressConfirms(d, ok) PROVE UnheardInv'
      <3>1. pending \notin unheard /\ pending' = 0 /\ UNCHANGED <<unheard, accepted, next>>
        BY <2>2 DEF PressConfirms, UnheardInv
      <3>2. \A t \in unheard : rec'[t] = rec[t]
        BY <2>2, <3>1, SettleWrites DEF PressConfirms, Write, TypeInv, TypeOK, DiskTypeOK, HistoryTypeOK
      <3>3. wire' \subseteq wire \cup {[ticket |-> pending, by |-> "press"]}
        BY <2>2 DEF PressConfirms, AskLane
      <3>4. at' # "showing"
        BY <2>2 DEF PressConfirms, AskLane
      <3>5. \A t \in unheard : t # 0
        BY BoundsAssumption DEF TypeInv, TypeOK, HistoryTypeOK, Ticket
      <3> QED
        BY <3>1, <3>2, <3>3, <3>4, <3>5 DEF UnheardInv
    <2>3. ASSUME NEW d, NEW readable, PressMints(d, readable) PROVE UnheardInv'
      <3>1. DriverTalking
        BY <2>3, DoorsAssumption DEF PressMints, DriverTalking, Answered
      <3>2. Issue(rec, "press", FALSE) /\ accepted' = accepted /\ wire' = wire /\ pending' = 0
        BY <2>3 DEF PressMints
      <3> QED
        BY <3>1, <3>2, UnheardMints DEF TypeInv, TypeOK, DiskTypeOK, Records
    <2> QED
      BY <1>4, <2>1, <2>2, <2>3, <2>4 DEF PressNext
  <1>5. CASE CallNext
    <2>1. CASE CallHuman \/ NobodyDecides \/ \E ok \in BOOLEAN : CallEnds(ok)
      BY <2>1, UnheardFrame DEF CallHuman, NobodyDecides, CallEnds
    <2>2. CASE PersonOpensWithTicket
      BY <2>2 DEF PersonOpensWithTicket, AskLane, UnheardInv, TypeInv, TypeOK, HistoryTypeOK, Ticket
    <2>3. ASSUME NEW readable, PersonOpensByMinting(readable) PROVE UnheardInv'
      <3>1. CASE Issue(rec, "person", TRUE)
        BY <2>3, <3>1, UnheardMints DEF PersonOpensByMinting, TypeInv, TypeOK, DiskTypeOK, Records
      <3>2. CASE UNCHANGED <<rec, next, at, purpose, subject, unheard>>
        BY <2>3, <3>2, UnheardFrame DEF PersonOpensByMinting
      <3> QED
        BY <2>3, <3>1, <3>2 DEF PersonOpensByMinting
    <2>4. ASSUME NEW ok, PersonSaysNo(ok) PROVE UnheardInv'
      BY <2>4, UnheardVoids DEF PersonSaysNo
    <2>5. ASSUME NEW ok, ToldOnScreen(ok) PROVE UnheardInv'
      <3>1. \A t \in unheard' : rec'[t] = rec[t] /\ t \in unheard
        BY <2>5 DEF ToldOnScreen, Write, TypeInv, TypeOK, DiskTypeOK, HistoryTypeOK
      <3> QED
        BY <2>5, <3>1 DEF ToldOnScreen, UnheardInv
    <2> QED
      BY <1>5, <2>1, <2>2, <2>3, <2>4, <2>5 DEF CallNext
  <1>6. CASE VendNext
    <2>1. \A r \in TicketRecord : Vended(r).told = r.told /\ Vended(r).state = "vended"
      BY DEF Vended, TicketRecord
    <2>2. CASE VendRaises
      BY <2>2, RaisesKeep, UnheardFrame DEF Raises
    <2>3. CASE VendCommanded \/ \E reason \in Refusals, ok \in BOOLEAN : VendNotCommanded(reason, ok)
      <3>1. \A t \in Ticket : /\ rec'[t].state = "confirmed" => rec[t].state = "confirmed"
                              /\ rec'[t].told = rec[t].told
        BY <2>3, <2>1, SettledTold
           DEF VendCommanded, VendNotCommanded, Settle, Write, TypeInv, TypeOK, DiskTypeOK
      <3> QED
        BY <2>3, <3>1, UnheardFrame DEF VendCommanded, VendNotCommanded
    <2> QED
      BY <1>6, <2>2, <2>3 DEF VendNext
  <1>7. CASE ProcessNext
    <2>1. \A r \in TicketRecord : Vended(r).told = r.told /\ Vended(r).state = "vended"
      BY DEF Vended, TicketRecord
    <2>2. CASE Start \/ Reconciled \/ \E blanked \in BOOLEAN : Dies(blanked)
      BY <2>2, UnheardFrame DEF Start, Reconciled, Dies
    <2>3. ASSUME NEW t \in Ticket, ReconcileIssued(t) PROVE UnheardInv'
      BY <2>3, SettledTold, UnheardFrame
         DEF ReconcileIssued, Settle, Write, agentVars, TypeInv, TypeOK, DiskTypeOK
    <2>4. ASSUME NEW t \in Ticket, ReconcileConfirmed(t) PROVE UnheardInv'
      <3>1. t \notin unheard /\ at' # "showing" /\ UNCHANGED <<unheard, accepted, next, pending>>
        BY <2>4 DEF ReconcileConfirmed, UnheardInv, AskLane
      <3>2. \A u \in unheard : rec'[u] = rec[u]
        BY <2>4, <3>1 DEF ReconcileConfirmed, Write, TypeInv, TypeOK, DiskTypeOK, HistoryTypeOK
      <3>3. wire' \subseteq wire \cup {[ticket |-> t, by |-> "replay"]}
        BY <2>4 DEF ReconcileConfirmed, AskLane
      <3> QED
        BY <3>1, <3>2, <3>3 DEF UnheardInv
    <2>5. ASSUME NEW commanded, ReplayAnswered(commanded) PROVE UnheardInv'
      <3>1. \A t \in Ticket : /\ rec'[t].state = "confirmed" => rec[t].state = "confirmed"
                              /\ rec'[t].told = rec[t].told
        BY <2>1, <2>5, SettledTold DEF ReplayAnswered, Write, TypeInv, TypeOK, DiskTypeOK
      <3> QED
        BY <2>5, <3>1, UnheardFrame DEF ReplayAnswered
    <2>6. CASE StartRaises
      BY <2>6, RaisesKeep, UnheardFrame DEF Raises
    <2> QED
      BY <1>7, <2>2, <2>3, <2>4, <2>5, <2>6 DEF ProcessNext
  <1> QED
    BY <1>1, <1>2, <1>3, <1>4, <1>5, <1>6, <1>7 DEF Next

\* A press vends a ticket minted over a driver's call only after ticket.on_screen was
\* heard to its end: neither a driver on the phone nor the next one confirms a code
\* nobody has told them of.
THEOREM PressesKnowTheCode == Spec => []PressKnowsTheCode
  <1>1. UnheardInv => PressKnowsTheCode
    BY DEF UnheardInv, PressKnowsTheCode
  <1> QED
    BY <1>1, HonestyIsInductive, UnheardInit, UnheardStep, PTL DEF Spec

-------------------------------------------------------------------------------
(* Help windows.  They open on the newest ticket, none is open while a ticket *)
(* is up, and a vend that is waited for is about the ticket of the window.     *)

\* What is up, or being drawn, is the newest ticket.
NewestInHand ==
    /\ pending # 0 => pending = next - 1
    /\ at = "showing" => subject = next - 1

\* Only a voided record has a reason.
ReasonsOfVoided == \A t \in Ticket : rec[t].state # "voided" => rec[t].reason = "none"

\* No window is open while a ticket is up or the process is starting, and while a vend
\* is waited for every open window is about the ticket it was asked for.
WindowInv ==
    /\ pending # 0 => \A d \in Door : help[d] = NoHelp
    /\ at \in {"down", "reconciling"} \/ purpose = "replay" => \A d \in Door : help[d] = NoHelp
    /\ \A d \in Door : help[d] # NoHelp =>
          /\ help[d].ticket \in Ticket
          /\ at = "vending" /\ purpose # "replay" => help[d].ticket = subject

LEMMA NewestInit == Init => NewestInHand
  BY DEF Init, NewestInHand

LEMMA NewestStep ==
    ASSUME TypeInv, HonestInv, NewestInHand, [Next]_vars
    PROVE  NewestInHand'
  <1> USE DEF NewestInHand, GoTo, AfterPoll, diskVars, VoidPending
  <1>0. next \in Nat /\ (at = "showing" => pending = 0)
    BY BoundsAssumption DEF TypeInv, TypeOK, DiskTypeOK, HonestInv, OneInHand
  <1>8. CASE Raises
    BY <1>8, RaisesKeep
  <1>1. CASE UNCHANGED vars
    BY <1>1 DEF vars, agentVars
  <1>2. CASE LaneNext
    BY <1>2 DEF LaneNext, LaneDecides, StopsOffering, CarLeaves, LaneRestarts, LaneAccepts,
                LaneRefuses, agentVars
  <1>3. CASE FollowNext
    <2>1. CASE AdoptCursor \/ FollowLane \/ LaneUnread \/ \E ok \in BOOLEAN : CursorReset(ok) \/ Expire(ok)
      BY <2>1 DEF AdoptCursor, FollowLane, LaneUnread, CursorReset, Expire, VoidRaises
    <2>2. CASE \E readable \in Reads : SameDecision(readable)
      BY <2>2 DEF SameDecision
    <2>3. CASE \E readable \in Reads, ok \in BOOLEAN : NewDecision(readable, ok)
      BY <1>0, <2>3 DEF NewDecision, MintsOrNot, Issue
    <2>4. CASE \E readable, ok \in BOOLEAN : CheckPending(readable, ok)
      BY <2>4 DEF CheckPending
    <2>5. CASE \E shown, ok \in BOOLEAN : Reassert(shown, ok)
      BY <2>5 DEF Reassert
    <2>6. CASE \E shown \in BOOLEAN : Showing(shown)
      BY <1>0, <2>6 DEF Showing, AskLane
    <2> QED
      BY <1>3, <1>8, <2>1, <2>2, <2>3, <2>4, <2>5, <2>6 DEF FollowNext, Raises
  <1>4. CASE PressNext
    BY <1>0, <1>4, <1>8 DEF Raises, PressNext, PressUntold, PressConfirms, PressForHelp, PressMints,
                PressForCase, Issue, AskLane
  <1>5. CASE CallNext
    BY <1>0, <1>5 DEF CallNext, CallHuman, NobodyDecides, PersonOpensWithTicket,
                PersonOpensByMinting, PersonSaysNo, ToldOnScreen, CallEnds, Issue, AskLane
  <1>6. CASE VendNext
    BY <1>6, <1>8 DEF Raises, VendNext, VendCommanded, VendNotCommanded
  <1>7. CASE ProcessNext
    BY <1>7, <1>8 DEF Raises, ProcessNext, Dies, Start, ReconcileIssued, ReconcileConfirmed, ReplayAnswered,
                Reconciled, agentVars, AskLane
  <1> QED
    BY <1>1, <1>2, <1>3, <1>4, <1>5, <1>6, <1>7 DEF Next

LEMMA ReasonsInit == Init => ReasonsOfVoided
  BY DEF Init, ReasonsOfVoided, NoRecord

LEMMA ReasonsStep ==
    ASSUME TypeInv, HonestInv, ReasonsOfVoided, [Next]_vars
    PROVE  ReasonsOfVoided'
  <1>1. ASSUME UNCHANGED rec PROVE ReasonsOfVoided'
    BY <1>1 DEF ReasonsOfVoided
  <1>2. ASSUME NEW t, NEW reason, Settle(t, Voided(rec[t], reason)) \/ Write(t, Voided(rec[t], reason))
        PROVE  ReasonsOfVoided'
    BY <1>2 DEF ReasonsOfVoided, Settle, Write, Voided, TypeInv, TypeOK, DiskTypeOK
  <1>3. ASSUME NEW t, NEW r, r \in {Told(rec[t]), Confirmed(rec[t]), Vended(rec[t])},
               rec' = [rec EXCEPT ![t] = r],
               t \in Ticket => rec[t].state # "voided"
        PROVE  ReasonsOfVoided'
    <2>1. \A x \in TicketRecord : /\ Told(x).reason = x.reason /\ Told(x).state = x.state
                                  /\ Confirmed(x).reason = x.reason /\ Vended(x).reason = x.reason
      BY DEF Told, Confirmed, Vended, TicketRecord
    <2>2. \A u \in Ticket : rec[u] \in TicketRecord
      BY DEF TypeInv, TypeOK, DiskTypeOK
    <2>3. \A u \in Ticket : rec'[u].reason = rec[u].reason /\ (rec'[u].state = rec[u].state \/ rec[u].state # "voided")
      BY <1>3, <2>1, <2>2 DEF TypeInv, TypeOK, DiskTypeOK
    <2> QED
      BY <2>3 DEF ReasonsOfVoided
  <1>4. ASSUME NEW before, NEW for, NEW told, Issue(before, for, told),
               before = rec \/ before = [rec EXCEPT ![pending] = Voided(rec[pending], "lane_decided_again")]
        PROVE  ReasonsOfVoided'
    <2>1. \A t \in Ticket : before[t].state # "voided" => before[t].reason = "none"
      BY <1>4 DEF ReasonsOfVoided, Voided, TypeInv, TypeOK, DiskTypeOK
    <2>2. DOMAIN before = Ticket
      BY <1>4 DEF TypeInv, TypeOK, DiskTypeOK
    <2> QED
      BY <1>4, <2>1, <2>2 DEF Issue, ReasonsOfVoided
  <1>5. CASE UNCHANGED vars \/ LaneNext
    BY <1>1, <1>5 DEF vars, LaneNext, LaneDecides, StopsOffering, CarLeaves, LaneRestarts,
                LaneAccepts, LaneRefuses, diskVars
  <1>13. CASE Raises
    BY <1>1, <1>13, RaisesKeep
  <1>6. CASE FollowNext
    <2>1. CASE AdoptCursor \/ FollowLane \/ LaneUnread \/ \E readable \in Reads : SameDecision(readable)
      BY <1>1, <2>1 DEF AdoptCursor, FollowLane, LaneUnread, SameDecision, diskVars
    <2>2. CASE \E ok \in BOOLEAN : CursorReset(ok) \/ Expire(ok)
      BY <1>1, <1>2, <2>2 DEF CursorReset, Expire, VoidPending, VoidRaises
    <2>3. ASSUME NEW readable, NEW ok, NewDecision(readable, ok) PROVE ReasonsOfVoided'
      <3>1. CASE MintsOrNot(rec, readable)
        BY <1>1, <1>4, <3>1 DEF MintsOrNot
      <3>2. CASE MintsOrNot([rec EXCEPT ![pending] = Voided(rec[pending], "lane_decided_again")], readable)
        <4>1. CASE rec' = [rec EXCEPT ![pending] = Voided(rec[pending], "lane_decided_again")]
          BY <4>1 DEF ReasonsOfVoided, Voided, TypeInv, TypeOK, DiskTypeOK
        <4> QED
          BY <1>4, <3>2, <4>1 DEF MintsOrNot
      <3> QED
        BY <2>3, <3>1, <3>2 DEF NewDecision
    <2>4. ASSUME NEW readable, NEW ok, CheckPending(readable, ok) PROVE ReasonsOfVoided'
      BY <1>1, <1>2, <2>4 DEF CheckPending, VoidPending
    <2>5. ASSUME NEW shown, NEW ok, Reassert(shown, ok) PROVE ReasonsOfVoided'
      BY <1>1, <1>2, <2>5 DEF Reassert
    <2>6. ASSUME NEW shown, Showing(shown) PROVE ReasonsOfVoided'
      BY <1>1, <1>2, <2>6 DEF Showing
    <2> QED
      BY <1>6, <1>13, <2>1, <2>2, <2>3, <2>4, <2>5, <2>6 DEF FollowNext, Raises
  <1>7. pending \in Ticket => rec[pending].state # "voided"
    BY DEF HonestInv, FreshUntilAsked, Ticket
  <1>8. CASE PressNext
    <2>1. ASSUME NEW d \in Door, NEW ok \in BOOLEAN, PressConfirms(d, ok) PROVE ReasonsOfVoided'
      <3>1. \/ UNCHANGED rec
            \/ Settle(pending, Voided(rec[pending], "no_act_route"))
            \/ rec' = [rec EXCEPT ![pending] = Confirmed(rec[pending])]
        BY <2>1 DEF PressConfirms, Write
      <3> QED
        BY <1>1, <1>2, <1>3, <1>7, <3>1
    <2>2. CASE \E d \in Door, readable \in Reads : PressMints(d, readable)
      BY <1>4, <2>2 DEF PressMints
    <2>3. CASE \E d \in Door : \/ PressUntold(d)
                              \/ \E readable \in Reads : PressForHelp(d, readable) \/ PressForCase(d, readable)
      BY <1>1, <2>3 DEF PressUntold, PressForHelp, PressForCase, diskVars
    <2> QED
      BY <1>8, <1>13, <2>1, <2>2, <2>3 DEF PressNext, Raises
  <1>9. CASE CallNext
    <2>1. CASE \E ok \in BOOLEAN : ToldOnScreen(ok)
      BY <1>1, <1>3, <1>7, <2>1 DEF ToldOnScreen, Write
    <2> QED
      BY <1>1, <1>2, <1>4, <1>9, <2>1 DEF CallNext, CallHuman, NobodyDecides, PersonOpensWithTicket,
                PersonOpensByMinting, PersonSaysNo, CallEnds, VoidPending, diskVars
  <1>10. at = "vending" => rec[subject].state # "voided"
    BY DEF HonestInv, OpenWhileAsked, Unsettled
  <1>11. CASE VendNext
    <2>1. CASE VendCommanded
      BY <1>1, <1>3, <1>10, <2>1, SettleWrites DEF VendCommanded, Hears
    <2>2. CASE \E reason \in Refusals, ok \in BOOLEAN : VendNotCommanded(reason, ok)
      BY <1>2, <2>2 DEF VendNotCommanded
    <2> QED
      BY <1>11, <1>13, <2>1, <2>2 DEF VendNext, Raises
  <1>12. CASE ProcessNext
    <2>1. ASSUME NEW t \in Ticket, ReconcileIssued(t) \/ ReconcileConfirmed(t) PROVE ReasonsOfVoided'
      BY <1>1, <1>2, <2>1 DEF ReconcileIssued, ReconcileConfirmed
    <2>2. ASSUME NEW commanded \in BOOLEAN, ReplayAnswered(commanded) PROVE ReasonsOfVoided'
      <3>1. \/ Write(subject, Voided(rec[subject], "outcome_unknown"))
            \/ rec' = [rec EXCEPT ![subject] = Vended(rec[subject])]
        BY <2>2 DEF ReplayAnswered, Write
      <3>2. rec[subject].state # "voided"
        BY <1>10, <2>2 DEF ReplayAnswered, Hears
      <3> QED
        BY <1>2, <1>3, <3>1, <3>2
    <2>3. CASE Start \/ Reconciled \/ \E blanked \in BOOLEAN : Dies(blanked)
      BY <1>1, <2>3 DEF Dies, Start, Reconciled, diskVars
    <2> QED
      BY <1>12, <1>13, <2>1, <2>2, <2>3 DEF ProcessNext, Raises
  <1> QED
    BY <1>5, <1>6, <1>8, <1>9, <1>11, <1>12 DEF Next

LEMMA WindowInit == Init => WindowInv
  BY DEF Init, WindowInv

LEMMA WindowStep ==
    ASSUME TypeInv, HonestInv, WindowInv, [Next]_vars
    PROVE  WindowInv'
  <1> USE DEF WindowInv, GoTo, AfterPoll, EndHelp, VoidPending
  <1>0. /\ help \in [Door -> HelpWindow] /\ pending \in 0 .. MaxTickets
        /\ (at \in {"down", "reconciling", "showing", "vending"} => pending = 0)
        /\ purpose = "replay" => at = "vending"
        /\ \A d \in Door : [x \in Door |-> NoHelp][d] = NoHelp
    BY DEF TypeInv, TypeOK, AgentTypeOK, HonestInv, OneInHand
  <1>1. CASE UNCHANGED vars
    BY <1>1 DEF vars, agentVars
  <1>2. CASE LaneNext
    BY <1>2 DEF LaneNext, LaneDecides, StopsOffering, CarLeaves, LaneRestarts, LaneAccepts,
                LaneRefuses, agentVars
  <1>8. CASE LaneReadRaises \/ VoidAtRaises \/ VendRaises \/ StartRaises
    BY <1>0, <1>8 DEF LaneReadRaises, VoidAtRaises, VendRaises, StartRaises, VoidRaises, Hears
  <1>3. CASE FollowNext
    <2>1. CASE AdoptCursor \/ FollowLane \/ LaneUnread \/ \E ok \in BOOLEAN : CursorReset(ok) \/ Expire(ok)
      BY <2>1 DEF AdoptCursor, FollowLane, LaneUnread, CursorReset, Expire, VoidRaises
    <2>2. CASE \E readable \in Reads : SameDecision(readable)
      BY <2>2 DEF SameDecision
    <2>3. CASE \E readable \in Reads, ok \in BOOLEAN : NewDecision(readable, ok)
      BY <1>0, <2>3 DEF NewDecision, MintsOrNot, Issue
    <2>4. CASE \E readable, ok \in BOOLEAN : CheckPending(readable, ok)
      BY <2>4 DEF CheckPending
    <2>5. CASE \E shown, ok \in BOOLEAN : Reassert(shown, ok)
      BY <2>5 DEF Reassert
    <2>6. ASSUME NEW shown \in BOOLEAN, Showing(shown) PROVE WindowInv'
      <3>3. at' \notin {"down", "reconciling"} /\ purpose' # "replay"
        BY <2>6 DEF Showing, AskLane
      <3>1. CASE EndHelp
        BY <1>0, <3>1
      <3>2. CASE UNCHANGED <<pending, help>> /\ at' # "vending"
        BY <3>2, <3>3
      <3> QED
        BY <2>6, <3>1, <3>2 DEF Showing
    <2> QED
      BY <1>3, <1>8, <2>1, <2>2, <2>3, <2>4, <2>5, <2>6 DEF FollowNext
  <1>4. CASE PressNext
    <2>2. ASSUME NEW d \in Door, HelpExpires(d) PROVE WindowInv'
      <3>1. \A e \in Door : help'[e] # NoHelp => help'[e] = help[e]
        BY <1>0, <2>2 DEF HelpExpires
      <3>2. at = "idle" /\ UNCHANGED <<at, purpose, pending>>
        BY <2>2 DEF HelpExpires
      <3> QED
        BY <1>0, <3>1, <3>2
    <2>3. ASSUME NEW d \in Door, ConfirmRaises(d) PROVE WindowInv'
      <3>1. /\ pending' = 0 /\ pending \in Ticket /\ at' = at /\ at = "idle" /\ purpose' # "replay"
            /\ \A e \in Door : help'[e] # NoHelp => e = d
            /\ help'[d].ticket = pending
        BY <1>0, <2>3, BoundsAssumption DEF ConfirmRaises, VoidRaises, HelpWindow, Ticket
      <3> QED
        BY <3>1
    <2>4. CASE \E d \in Door : PressRaises(d)
      BY <2>4 DEF PressRaises
    <2>1. ASSUME NEW d \in Door, NEW ok \in BOOLEAN, PressConfirms(d, ok) PROVE WindowInv'
      <3>1. /\ pending' = 0 /\ pending \in Ticket
            /\ \A e \in Door : help'[e] # NoHelp => e = d
            /\ help'[d].ticket = pending
        BY <1>0, <2>1, BoundsAssumption DEF PressConfirms, HelpWindow, Ticket
      <3>2. /\ at' = "vending" => subject' = pending
            /\ at' \notin {"down", "reconciling"} /\ purpose' # "replay"
        BY <1>0, <2>1 DEF PressConfirms, AskLane
      <3> QED
        BY <3>1, <3>2
    <2> QED
      BY <1>4, <2>1, <2>2, <2>3, <2>4 DEF PressNext, PressUntold, PressForHelp, PressMints,
                PressForCase, Issue, AskLane
  <1>5. CASE CallNext
    <2>1. CASE PersonOpensWithTicket
      BY <2>1 DEF PersonOpensWithTicket, AskLane
    <2> QED
      BY <1>0, <1>5, <2>1 DEF CallNext, CallHuman, NobodyDecides,
                PersonOpensByMinting, PersonSaysNo, ToldOnScreen, CallEnds, Issue
  <1>6. CASE VendNext
    <2>1. ASSUME NEW said, RememberHelp(said)
          PROVE \A d \in Door : help'[d] # NoHelp => help[d] # NoHelp /\ help'[d].ticket = help[d].ticket
      <3>1. CASE help' = help
        BY <3>1
      <3>2. CASE help' = [help EXCEPT ![session.door] = [ticket |-> help[session.door].ticket, said |-> said]] /\ help[session.door] # NoHelp
        BY <1>0, <3>2 DEF HelpWindow
      <3> QED
        BY <2>1, <3>1, <3>2 DEF RememberHelp
    <2>2. pending' = 0 /\ at' = "idle" /\ purpose' = "none"
      BY <1>0, <1>6 DEF VendNext, VendCommanded, VendNotCommanded, VendRaises, Hears
    <2>3. \A d \in Door : help'[d] # NoHelp => help[d] # NoHelp /\ help'[d].ticket = help[d].ticket
      BY <1>6, <2>1 DEF VendNext, VendCommanded, VendNotCommanded, VendRaises
    <2> QED
      BY <2>2, <2>3
  <1>7. CASE ProcessNext
    <2>1. CASE \E blanked \in BOOLEAN : Dies(blanked)
      BY <1>0, <2>1 DEF Dies
    <2> QED
      BY <1>7, <1>8, <2>1 DEF ProcessNext, Start, ReconcileIssued, ReconcileConfirmed, ReplayAnswered,
                Reconciled, agentVars, AskLane, Hears
  <1> QED
    BY <1>1, <1>2, <1>3, <1>4, <1>5, <1>6, <1>7 DEF Next

\* What the step lemma for help windows rests on.
LatestInv == TypeInv /\ HonestInv /\ NewestInHand /\ ReasonsOfVoided /\ WindowInv

\* What this process lets go of it does not take up again.
LEMMA DroppedGrows ==
    /\ UNCHANGED trouble => dropped \subseteq dropped'
    /\ \A t : Drops(t) => dropped \subseteq dropped' /\ t \in dropped'
    /\ \A t, x : Settle(t, x) => dropped \subseteq dropped'
    /\ \A t, x : Write(t, x) => dropped \subseteq dropped'
    /\ VoidRaises => dropped \subseteq dropped'
  BY DEF trouble, Drops, Settle, Write, VoidRaises

\* A step that opens no window and settles no later ticket.
LEMMA LatestFrame ==
    ASSUME HelpIsAboutTheLatest, dropped \subseteq dropped',
           \A d \in Door : help'[d] # NoHelp => help'[d] = help[d],
           \A t \in Ticket : accepted[t] # "no" => accepted'[t] # "no",
           \A d \in Door : help[d] # NoHelp => help[d].ticket \in Ticket,
           \A d \in Door, t \in Ticket :
              help'[d] # NoHelp /\ t > help[d].ticket =>
                 \/ rec'[t] = rec[t] /\ (at = "showing" /\ t = subject => at' = at /\ subject' = subject)
                 \/ rec'[t].reason = "display_unavailable"
                 \/ at' = "showing" /\ t = subject'
                 \/ t \in dropped'
    PROVE  HelpIsAboutTheLatest'
  BY DEF HelpIsAboutTheLatest

\* No window is open.
LEMMA LatestClosed ==
    ASSUME \A d \in Door : help'[d] = NoHelp
    PROVE  HelpIsAboutTheLatest'
  BY DEF HelpIsAboutTheLatest

\* A press whose ticket is the newest opens a window on it.
LEMMA LatestOpens ==
    ASSUME LatestInv, HelpIsAboutTheLatest, pending # 0, NEW d \in Door,
           help' = [help EXCEPT ![d] = [ticket |-> pending, said |-> "nothing"]],
           \A t \in Ticket : t # pending => rec'[t] = rec[t]
    PROVE  HelpIsAboutTheLatest'
  <1>1. /\ pending \in Ticket /\ next = pending + 1
        /\ help \in [Door -> HelpWindow] /\ \A e \in Door : help[e] = NoHelp
    BY BoundsAssumption
       DEF LatestInv, NewestInHand, WindowInv, TypeInv, TypeOK, AgentTypeOK, DiskTypeOK, Ticket
  <1>2. /\ \A e \in Door : help'[e] # NoHelp => e = d
        /\ help'[d] = [ticket |-> pending, said |-> "nothing"]
    BY <1>1
  <1>3. \A t \in Ticket : t > pending => rec'[t] = rec[t] /\ rec[t].state = "none"
    BY <1>1, BoundsAssumption DEF LatestInv, HonestInv, FreshUntilAsked, Ticket
  <1> QED
    BY <1>2, <1>3 DEF HelpIsAboutTheLatest

LEMMA LatestInit == Init => HelpIsAboutTheLatest
  BY DEF Init, HelpIsAboutTheLatest

LEMMA LatestFollow ==
    ASSUME LatestInv, HelpIsAboutTheLatest, FollowNext
    PROVE  HelpIsAboutTheLatest'
  <1> USE DEF GoTo, AfterPoll, EndHelp, VoidPending, LatestInv, vendVars, diskVars
  <1>0. /\ \A d \in Door : [x \in Door |-> NoHelp][d] = NoHelp
        /\ \A d \in Door : help[d] # NoHelp => help[d].ticket \in Ticket
        /\ pending # 0 => \A d \in Door : help[d] = NoHelp
        /\ rec \in Records /\ subject \in 0 .. MaxTickets
    BY DEF WindowInv, TypeInv, TypeOK, DiskTypeOK, AgentTypeOK, Records
  <1>1. CASE AdoptCursor \/ FollowLane \/ LaneUnread \/ \E readable \in Reads : SameDecision(readable)
    BY <1>0, <1>1, LatestFrame, DroppedGrows DEF AdoptCursor, FollowLane, LaneUnread, SameDecision, history
  <1>2. CASE \/ \E ok \in BOOLEAN : CursorReset(ok) \/ Expire(ok)
             \/ \E readable, ok \in BOOLEAN : CheckPending(readable, ok)
    <2>1. /\ help' = help /\ accepted' = accepted /\ dropped \subseteq dropped'
          /\ at # "showing" /\ (pending = 0 => rec' = rec)
      BY <1>2, DroppedGrows DEF CursorReset, Expire, CheckPending, VoidRaises
    <2> QED
      BY <1>0, <2>1, LatestFrame
  <1>3. CASE \E readable \in Reads, ok \in BOOLEAN : NewDecision(readable, ok)
    BY <1>0, <1>3, LatestClosed DEF NewDecision
  <1>4. CASE LaneReadRaises \/ VoidAtRaises
    <2>1. /\ help' = help /\ accepted' = accepted /\ dropped \subseteq dropped'
          /\ at # "showing" /\ rec' = rec
      BY <1>4, DroppedGrows DEF LaneReadRaises, VoidAtRaises, VoidRaises
    <2> QED
      BY <1>0, <2>1, LatestFrame
  <1>5. CASE \E shown, ok \in BOOLEAN : Reassert(shown, ok)
    <2>1. /\ help' = help /\ accepted' = accepted /\ dropped \subseteq dropped'
          /\ at # "showing" /\ (pending = 0 => \A t \in Ticket : rec'[t] = rec[t])
      <3>1. pending = 0 => pending \notin Ticket
        BY BoundsAssumption DEF Ticket
      <3>2. UNCHANGED rec \/ Settle(pending, Voided(rec[pending], "display_unavailable"))
        BY <1>5 DEF Reassert
      <3>3. pending = 0 => \A t \in Ticket : rec'[t] = rec[t]
        BY <1>0, <3>1, <3>2, SettleWrites DEF Records
      <3> QED
        BY <1>5, <3>3, DroppedGrows DEF Reassert
    <2> QED
      BY <1>0, <2>1, LatestFrame
  <1>6. ASSUME NEW shown \in BOOLEAN, Showing(shown) PROVE HelpIsAboutTheLatest'
    <2>1. CASE ~shown /\ purpose # "person"
      <3>1. UNCHANGED <<help, accepted>>
        BY <1>6, <2>1 DEF Showing
      <3>2. CASE Write(subject, Voided(rec[subject], "display_unavailable"))
        <4>1. \A t \in Ticket : (rec'[t] = rec[t] /\ t # subject) \/ rec'[t].reason = "display_unavailable"
          BY <1>0, <3>2 DEF Write, Records, Voided
        <4> QED
          BY <1>0, <3>1, <3>2, <4>1, LatestFrame, DroppedGrows
      <3>3. CASE UNCHANGED rec /\ Drops(subject)
        BY <1>0, <3>1, <3>3, LatestFrame, DroppedGrows
      <3> QED
        BY <1>6, <2>1, <3>2, <3>3 DEF Showing
    <2>2. CASE ~(~shown /\ purpose # "person")
      BY <1>0, <1>6, <2>2, LatestClosed DEF Showing
    <2> QED
      BY <2>1, <2>2
  <1> QED
    BY <1>1, <1>2, <1>3, <1>4, <1>5, <1>6 DEF FollowNext

LEMMA LatestStep ==
    ASSUME LatestInv, HelpIsAboutTheLatest, [Next]_vars
    PROVE  HelpIsAboutTheLatest'
  <1> USE DEF GoTo, EndHelp, VoidPending, LatestInv, vendVars, diskVars
  <1>0. /\ \A d \in Door : [x \in Door |-> NoHelp][d] = NoHelp
        /\ \A d \in Door : help[d] # NoHelp => help[d].ticket \in Ticket
        /\ pending # 0 => \A d \in Door : help[d] = NoHelp
        /\ at \in {"down", "reconciling"} \/ purpose = "replay" => \A d \in Door : help[d] = NoHelp
        /\ rec \in Records /\ subject \in 0 .. MaxTickets
        /\ help \in [Door -> HelpWindow] /\ accepted \in [Ticket -> {"no", "press", "person"}]
    BY DEF WindowInv, TypeInv, TypeOK, DiskTypeOK, AgentTypeOK, VendTypeOK, Records
  <1>1. CASE UNCHANGED vars
    BY <1>0, <1>1, LatestFrame, DroppedGrows DEF vars, agentVars, history
  <1>2. CASE LaneNext
    BY <1>0, <1>2, LatestFrame, DroppedGrows DEF LaneNext, LaneDecides, StopsOffering, CarLeaves,
                LaneRestarts, LaneAccepts, LaneRefuses, agentVars, history
  <1>3. CASE FollowNext
    BY <1>3, LatestFollow
  <1>4. CASE PressNext
    <2>1. ASSUME NEW d \in Door, NEW ok \in BOOLEAN, PressConfirms(d, ok) PROVE HelpIsAboutTheLatest'
      <3>1. \A t \in Ticket : t # pending => rec'[t] = rec[t]
        BY <1>0, <2>1, SettleWrites DEF PressConfirms, Write, Records
      <3> QED
        BY <2>1, <3>1, LatestOpens DEF PressConfirms
    <2>2. ASSUME NEW d \in Door, ConfirmRaises(d) PROVE HelpIsAboutTheLatest'
      BY <2>2, LatestOpens DEF ConfirmRaises, VoidRaises
    <2>3. ASSUME NEW d \in Door, NEW readable \in Reads, PressMints(d, readable) PROVE HelpIsAboutTheLatest'
      <3>1. \A t \in Ticket : t # next => rec'[t] = rec[t]
        BY <1>0, <2>3 DEF PressMints, Issue, Records
      <3> QED
        BY <1>0, <2>3, <3>1, LatestFrame, DroppedGrows DEF PressMints, Issue
    <2>4. ASSUME NEW d \in Door, HelpExpires(d) PROVE HelpIsAboutTheLatest'
      <3>1. \A e \in Door : help'[e] # NoHelp => help'[e] = help[e]
        BY <1>0, <2>4 DEF HelpExpires
      <3> QED
        BY <1>0, <2>4, <3>1, LatestFrame, DroppedGrows DEF HelpExpires, history
    <2>5. ASSUME NEW d \in Door, PressRaises(d) PROVE HelpIsAboutTheLatest'
      BY <1>0, <2>5, LatestFrame DEF PressRaises
    <2>6. ASSUME NEW d \in Door, NEW readable \in Reads,
                 PressUntold(d) \/ PressForHelp(d, readable) \/ PressForCase(d, readable)
          PROVE  HelpIsAboutTheLatest'
      BY <1>0, <2>6, LatestFrame, DroppedGrows DEF PressUntold, PressForHelp, PressForCase, history
    <2>7. Reads # {}
      BY DEF Reads
    <2> QED
      BY <1>4, <2>1, <2>2, <2>3, <2>4, <2>5, <2>6, <2>7 DEF PressNext
  <1>5. CASE CallNext
    <2>1. ASSUME NEW readable \in Reads, PersonOpensByMinting(readable) PROVE HelpIsAboutTheLatest'
      <3>1. UNCHANGED <<rec, at, subject>> \/ (at' = "showing" /\ subject' = next /\ \A t \in Ticket : t # next => rec'[t] = rec[t])
        BY <1>0, <2>1 DEF PersonOpensByMinting, Issue, Records
      <3> QED
        BY <1>0, <2>1, <3>1, LatestFrame, DroppedGrows DEF PersonOpensByMinting
    <2>2. CASE PersonOpensWithTicket
      BY <1>0, <2>2, LatestFrame, DroppedGrows DEF PersonOpensWithTicket, AskLane, history
    <2>3. CASE CallHuman \/ NobodyDecides \/ \E ok \in BOOLEAN : CallEnds(ok)
      BY <1>0, <2>3, LatestFrame, DroppedGrows DEF CallHuman, NobodyDecides, CallEnds, history
    <2>4. CASE \E ok \in BOOLEAN : PersonSaysNo(ok) \/ ToldOnScreen(ok)
      <3>1. /\ help' = help /\ accepted' = accepted /\ at # "showing"
            /\ dropped \subseteq dropped'
        BY <2>4, DroppedGrows DEF PersonSaysNo, ToldOnScreen
      <3>2. pending # 0 \/ \A t \in Ticket : rec'[t] = rec[t]
        <4>1. pending = 0 => pending \notin Ticket
          BY BoundsAssumption DEF Ticket
        <4> QED
          BY <1>0, <2>4, <4>1 DEF PersonSaysNo, ToldOnScreen, Write, Records
      <3> QED
        BY <1>0, <3>1, <3>2, LatestFrame
    <2> QED
      BY <1>5, <2>1, <2>2, <2>3, <2>4 DEF CallNext
  <1>6. CASE VendNext
    <2>1. ASSUME NEW said, RememberHelp(said)
          PROVE \A d \in Door : help'[d] # NoHelp =>
                   /\ help[d] # NoHelp /\ help'[d].ticket = help[d].ticket
                   /\ help'[d] = help[d] \/ help'[d].said = said
      <3>1. CASE help' = help
        BY <3>1
      <3>2. CASE help' = [help EXCEPT ![session.door] = [ticket |-> help[session.door].ticket, said |-> said]] /\ help[session.door] # NoHelp
        BY <1>0, <3>2 DEF HelpWindow
      <3> QED
        BY <2>1, <3>1, <3>2 DEF RememberHelp
    <2>2. /\ at = "vending" /\ purpose # "replay" /\ UNCHANGED accepted
          /\ \A t \in Ticket : t # subject => rec'[t] = rec[t]
          /\ dropped \subseteq dropped'
      BY <1>0, <1>6, SettleWrites, DroppedGrows
         DEF VendNext, VendCommanded, VendNotCommanded, VendRaises, Hears, Records
    <2>3. \A d \in Door : help'[d] # NoHelp =>
             /\ help[d] # NoHelp /\ help'[d].ticket = subject /\ help[d].ticket = subject
             /\ help'[d] = help[d] \/ help'[d].said # "commanded" \/ reply = "commanded"
      BY <1>6, <2>1, <2>2 DEF VendNext, VendCommanded, VendNotCommanded, VendRaises, WindowInv
    <2>4. reply = "commanded" => accepted[subject] # "no"
      BY <2>2 DEF HonestInv, AnswerIsAboutIt
    <2> QED
      BY <1>0, <2>2, <2>3, <2>4 DEF HelpIsAboutTheLatest, Ticket
  <1>7. CASE ProcessNext
    <2>1. CASE \E blanked \in BOOLEAN : Dies(blanked)
      BY <1>0, <2>1, LatestClosed DEF Dies
    <2>2. CASE ~\E blanked \in BOOLEAN : Dies(blanked)
      BY <1>0, <1>7, <2>2, LatestClosed
         DEF ProcessNext, Start, StartRaises, Reconciled, ReconcileIssued, ReconcileConfirmed,
             ReplayAnswered, Hears, agentVars
    <2> QED
      BY <2>1, <2>2
  <1> QED
    BY <1>1, <1>2, <1>3, <1>4, <1>5, <1>6, <1>7 DEF Next

\* A help window is about the lane's latest ticket, and it says the barrier was asked to
\* open only if the lane accepted that ticket's vend: the person is never misled.
THEOREM HelpTellsTheTruth == Spec => []HelpIsAboutTheLatest
  <1>1. Init => LatestInv /\ HelpIsAboutTheLatest
    BY TypeInit, HonestInit, NewestInit, ReasonsInit, WindowInit, LatestInit DEF LatestInv
  <1>2. LatestInv /\ HelpIsAboutTheLatest /\ [Next]_vars => (LatestInv /\ HelpIsAboutTheLatest)'
    BY TypeStep, HonestStep, NewestStep, ReasonsStep, WindowStep, LatestStep DEF LatestInv
  <1> QED
    BY <1>1, <1>2, PTL DEF Spec

-------------------------------------------------------------------------------
(* The tickets left open, and the code left up.  Both need the act token: an   *)
(* agent without one leaves a person's open with neither settled.             *)

LEMMA ForgottenInit == Init => NothingForgotten
  BY DEF Init, NothingForgotten

LEMMA ForgottenStep ==
    ASSUME HasAct, TypeInv, HonestInv, HandInv, NothingForgotten, [Next]_vars
    PROVE  NothingForgotten'
  <1> USE DEF NothingForgotten, GoTo, AfterPoll, diskVars
  <1>0. /\ rec \in Records /\ 0 \notin Ticket /\ next \in Nat
        /\ \A r, reason : ~(Voided(r, reason).state \in {"issued", "confirmed"})
        /\ \A r \in TicketRecord : Vended(r).state = "vended" /\ Told(r).state = r.state
        /\ at \in {"showing", "vending"} => pending = 0
        /\ purpose = "replay" => at = "vending"
        /\ at \notin {"showing", "vending"} => subject = 0 /\ purpose = "none"
    BY DEF TypeInv, TypeOK, DiskTypeOK, Records, Ticket, Voided, Vended, Told, TicketRecord, HonestInv, OneInHand,
           HandInv
  <1>1. ASSUME NEW t, NEW r, Settle(t, r) \/ Write(t, r), ~(r.state \in {"issued", "confirmed"})
        PROVE  /\ dropped \subseteq dropped'
               /\ \A u \in Ticket : Unsettled(u)' => u \in dropped' \/ (u # t /\ Unsettled(u))
    <2>1. CASE Write(t, r)
      BY <1>0, <1>1, <2>1, DroppedGrows DEF Write, Unsettled, Records
    <2>2. CASE UNCHANGED rec /\ Drops(t)
      BY <2>2, DroppedGrows DEF Unsettled
    <2> QED
      BY <1>1, <2>1, <2>2 DEF Settle
  <1>3. UNCHANGED rec => \A u \in Ticket : Unsettled(u)' => Unsettled(u)
    BY DEF Unsettled
  <1>4. ASSUME NEW before, NEW for, NEW told, Issue(before, for, told), for # "replay",
               DOMAIN before = Ticket,
               \A u \in Ticket : before[u].state \in {"issued", "confirmed"} => u \in dropped'
        PROVE  NothingForgotten'
    BY <1>4 DEF Issue, Unsettled
  <1>5. CASE UNCHANGED vars \/ LaneNext
    <2>1. dropped' = dropped
      BY <1>5 DEF vars, history, trouble, LaneNext, LaneDecides, StopsOffering, CarLeaves,
                  LaneRestarts, LaneAccepts, LaneRefuses
    <2> QED
      BY <1>3, <1>5, <2>1 DEF vars, LaneNext, LaneDecides, StopsOffering, CarLeaves, LaneRestarts,
                LaneAccepts, LaneRefuses, agentVars
  <1>6. CASE FollowNext
    <2>1. CASE AdoptCursor \/ FollowLane \/ LaneUnread \/ \E readable \in Reads : SameDecision(readable)
      <3>1. dropped' = dropped
        BY <2>1 DEF AdoptCursor, FollowLane, LaneUnread, SameDecision, history, trouble
      <3> QED
        BY <1>0, <1>3, <2>1, <3>1 DEF AdoptCursor, FollowLane, LaneUnread, SameDecision
    <2>2. ASSUME NEW reason, NEW ok, VoidPending(reason, ok), subject' = 0,
                 at \notin {"down", "reconciling"}, purpose # "replay", subject = 0
          PROVE  NothingForgotten'
      <3>1. CASE pending = 0
        BY <1>3, <2>2, <3>1, DroppedGrows DEF VoidPending
      <3>2. CASE pending # 0
        BY <1>0, <1>1, <2>2, <3>2 DEF VoidPending
      <3> QED
        BY <3>1, <3>2
    <2>3. ASSUME NEW readable \in Reads, NEW ok \in BOOLEAN, NewDecision(readable, ok) PROVE NothingForgotten'
      <3>1. /\ \A u \in Ticket : Unsettled(u) => u = pending \/ u \in dropped
            /\ dropped \subseteq dropped'
        BY <1>0, <2>3, DroppedGrows DEF NewDecision
      <3>2. PICK store :
               /\ DOMAIN store = Ticket
               /\ \A u \in Ticket : store[u].state \in {"issued", "confirmed"} => u \in dropped'
               /\ MintsOrNot(store, readable)
        <4>1. CASE MintsOrNot(rec, readable) /\ (pending = 0 \/ Drops(pending))
          BY <1>0, <3>1, <4>1, DroppedGrows DEF Unsettled, Records
        <4>2. CASE MintsOrNot([rec EXCEPT ![pending] = Voided(@, "lane_decided_again")], readable)
          <5> DEFINE store == [rec EXCEPT ![pending] = Voided(rec[pending], "lane_decided_again")]
          <5>1. DOMAIN store = Ticket
            BY <1>0 DEF Records
          <5>2. \A u \in Ticket : store[u].state \in {"issued", "confirmed"} => u \in dropped'
            BY <1>0, <3>1 DEF Unsettled, Records
          <5>3. MintsOrNot(store, readable)
            BY <4>2
          <5> HIDE DEF store
          <5> QED
            BY <5>1, <5>2, <5>3
        <4> QED
          BY <2>3, <4>1, <4>2 DEF NewDecision
      <3>3. CASE Issue(store, "poll", ~OnThePhone)
        BY <1>4, <3>2, <3>3
      <3>4. CASE rec' = store
        BY <3>2, <3>4 DEF Unsettled
      <3> QED
        BY <3>2, <3>3, <3>4 DEF MintsOrNot
    <2>4. CASE \E ok \in BOOLEAN : CursorReset(ok) \/ Expire(ok)
      <3>1. subject' = 0 /\ at \notin {"down", "reconciling"} /\ purpose # "replay" /\ subject = 0
        BY <1>0, <2>4 DEF CursorReset, Expire
      <3>2. (\E reason, ok : VoidPending(reason, ok)) \/ VoidRaises
        BY <2>4 DEF CursorReset, Expire
      <3>3. CASE VoidRaises
        BY <1>0, <1>3, <3>1, <3>3, DroppedGrows DEF VoidRaises
      <3> QED
        BY <2>2, <3>1, <3>2, <3>3
    <2>5. ASSUME NEW readable \in BOOLEAN, NEW ok \in BOOLEAN, CheckPending(readable, ok)
          PROVE  NothingForgotten'
      <3>1. subject' = 0 /\ at \notin {"down", "reconciling"} /\ purpose # "replay" /\ subject = 0
        BY <1>0, <2>5 DEF CheckPending
      <3>2. (\E reason : VoidPending(reason, ok)) \/ UNCHANGED <<rec, pending, screenVars, trouble>>
        BY <2>5 DEF CheckPending
      <3>3. CASE UNCHANGED <<rec, pending, screenVars, trouble>>
        BY <1>3, <3>1, <3>3, DroppedGrows
      <3> QED
        BY <2>2, <3>1, <3>2, <3>3
    <2>6. CASE \E shown, ok \in BOOLEAN : Reassert(shown, ok)
      BY <1>0, <1>1, <1>3, <2>6, DroppedGrows DEF Reassert
    <2>7. ASSUME NEW shown \in BOOLEAN, Showing(shown) PROVE NothingForgotten'
      <3>1. CASE ~shown /\ purpose # "person"
        <4>1. \/ Write(subject, Voided(rec[subject], "display_unavailable"))
              \/ UNCHANGED rec /\ Drops(subject)
          BY <2>7, <3>1 DEF Showing
        <4>2. /\ dropped \subseteq dropped'
              /\ \A u \in Ticket : Unsettled(u)' => u \in dropped' \/ (u # subject /\ Unsettled(u))
          BY <1>0, <1>1, <4>1 DEF Settle
        <4> QED
          BY <1>0, <2>7, <3>1, <4>2 DEF Showing
      <3>2. CASE ~(~shown /\ purpose # "person")
        <4>1. UNCHANGED <<rec, trouble>>
          BY <2>7, <3>2 DEF Showing
        <4> QED
          BY <1>0, <1>3, <2>7, <3>2, <4>1, DroppedGrows DEF Showing, AskLane
      <3> QED
        BY <3>1, <3>2
    <2>8. CASE LaneReadRaises \/ VoidAtRaises
      BY <1>0, <1>3, <2>8, DroppedGrows DEF LaneReadRaises, VoidAtRaises, VoidRaises
    <2> QED
      BY <1>6, <2>1, <2>3, <2>4, <2>5, <2>6, <2>7, <2>8 DEF FollowNext
  <1>7. CASE PressNext
    <2>1. ASSUME NEW d \in Door, NEW ok \in BOOLEAN, PressConfirms(d, ok) PROVE NothingForgotten'
      <3>1. /\ at' = "vending" /\ subject' = pending /\ purpose' = "press"
            /\ \A u \in Ticket : Unsettled(u) => u = pending \/ u \in dropped
        BY <1>0, <2>1 DEF PressConfirms, AskLane
      <3>2. /\ dropped' = dropped
            /\ \A u \in Ticket : Unsettled(u)' => u = pending \/ Unsettled(u)
        BY <1>0, <2>1 DEF PressConfirms, Write, trouble, Unsettled, Records
      <3> QED
        BY <3>1, <3>2
    <2>2. ASSUME NEW d \in Door, NEW readable \in Reads, PressMints(d, readable) PROVE NothingForgotten'
      <3>1. /\ pending = 0 /\ subject = 0 /\ at = "idle" /\ purpose = "none" /\ Issue(rec, "press", FALSE)
            /\ dropped' = dropped
        BY <1>0, <2>2 DEF PressMints, trouble
      <3>2. DOMAIN rec = Ticket /\ \A u \in Ticket : rec[u].state \in {"issued", "confirmed"} => u \in dropped'
        BY <1>0, <3>1 DEF Unsettled, Records
      <3> QED
        BY <1>4, <3>1, <3>2
    <2>3. CASE \E d \in Door : HelpExpires(d) \/ PressRaises(d) \/ ConfirmRaises(d)
      BY <1>0, <1>3, <2>3, DroppedGrows DEF HelpExpires, PressRaises, ConfirmRaises, VoidRaises, history
    <2>4. CASE \E d \in Door : \/ PressUntold(d)
                              \/ \E readable \in Reads : PressForHelp(d, readable) \/ PressForCase(d, readable)
      BY <1>0, <1>3, <2>4, DroppedGrows DEF PressUntold, PressForHelp, PressForCase, history
    <2> QED
      BY <1>7, <2>1, <2>2, <2>3, <2>4 DEF PressNext
  <1>8. CASE CallNext
    <2>1. ASSUME NEW readable \in Reads, PersonOpensByMinting(readable) PROVE NothingForgotten'
      <3>1. pending = 0 /\ subject = 0 /\ at = "idle" /\ purpose = "none" /\ dropped' = dropped
        BY <1>0, <2>1 DEF PersonOpensByMinting, trouble
      <3>2. DOMAIN rec = Ticket /\ \A u \in Ticket : rec[u].state \in {"issued", "confirmed"} => u \in dropped'
        BY <1>0, <3>1 DEF Unsettled, Records
      <3>3. CASE Issue(rec, "person", TRUE)
        BY <1>4, <3>2, <3>3
      <3>4. CASE UNCHANGED <<rec, at, purpose, subject, pending>>
        BY <1>3, <3>1, <3>4
      <3> QED
        BY <2>1, <3>3, <3>4 DEF PersonOpensByMinting
    <2>2. CASE PersonOpensWithTicket
      BY <1>0, <1>3, <2>2, DroppedGrows DEF PersonOpensWithTicket, AskLane, history
    <2>3. CASE CallHuman \/ NobodyDecides \/ \E ok \in BOOLEAN : CallEnds(ok)
      BY <1>0, <1>3, <2>3, DroppedGrows DEF CallHuman, NobodyDecides, CallEnds, history
    <2>4. ASSUME NEW ok \in BOOLEAN, PersonSaysNo(ok) PROVE NothingForgotten'
      <3>1. subject' = 0 /\ subject = 0 /\ at = "idle" /\ purpose = "none"
        BY <1>0, <2>4 DEF PersonSaysNo
      <3>2. CASE pending = 0
        BY <1>3, <2>4, <3>1, <3>2, DroppedGrows DEF PersonSaysNo, VoidPending
      <3>3. CASE pending # 0
        BY <1>0, <1>1, <2>4, <3>1, <3>3 DEF PersonSaysNo, VoidPending
      <3> QED
        BY <3>2, <3>3
    <2>5. ASSUME NEW ok \in BOOLEAN, ToldOnScreen(ok) PROVE NothingForgotten'
      <3>1. /\ UNCHANGED <<at, purpose, subject, pending>> /\ at = "idle" /\ purpose = "none"
            /\ dropped \subseteq dropped'
        BY <1>0, <2>5, DroppedGrows DEF ToldOnScreen
      <3>2. \A u \in Ticket : Unsettled(u)' => u = pending \/ Unsettled(u)
        BY <1>0, <1>3, <2>5 DEF ToldOnScreen, Write, Unsettled, Records
      <3> QED
        BY <3>1, <3>2
    <2> QED
      BY <1>8, <2>1, <2>2, <2>3, <2>4, <2>5 DEF CallNext
  <1>9. CASE VendNext
    <2>1. at = "vending" => rec[subject] \in TicketRecord
      BY DEF TypeInv, InHand, TypeOK, DiskTypeOK
    <2>2. CASE VendCommanded
      BY <1>0, <1>1, <2>1, <2>2 DEF VendCommanded, Hears
    <2>3. CASE \E reason \in Refusals, ok \in BOOLEAN : VendNotCommanded(reason, ok)
      BY <1>0, <1>1, <2>3 DEF VendNotCommanded, Hears
    <2>4. CASE VendRaises
      BY <1>0, <1>3, <2>4, DroppedGrows DEF VendRaises, Hears
    <2> QED
      BY <1>9, <2>2, <2>3, <2>4 DEF VendNext
  <1>10. CASE ProcessNext
    BY <1>0, <1>3, <1>10, DroppedGrows DEF ProcessNext, Dies, Start, StartRaises, ReconcileIssued,
                ReconcileConfirmed, ReplayAnswered, Reconciled, agentVars, AskLane, history
  <1> QED
    BY <1>5, <1>6, <1>7, <1>8, <1>9, <1>10 DEF Next

\* With an act token, a running agent's open records are the ticket that is up, the one
\* in hand and those an exception or a record that cannot be read made it let go of:
\* none is left behind by a call, a poll, a refusal or a person's open.
THEOREM NothingIsForgotten == HasAct => (Spec => []NothingForgotten)
  <1> SUFFICES ASSUME HasAct PROVE Spec => []NothingForgotten
    OBVIOUS
  <1>1. Init => TypeInv /\ HonestInv /\ HandInv /\ NothingForgotten
    BY TypeInit, HonestInit, HandInit, ForgottenInit
  <1>2. TypeInv /\ HonestInv /\ HandInv /\ NothingForgotten /\ [Next]_vars
        => (TypeInv /\ HonestInv /\ HandInv /\ NothingForgotten)'
    BY TypeStep, HonestStep, HandStep, ForgottenStep
  <1> QED
    BY <1>1, <1>2, PTL DEF Spec

\* A person's open has left a code up only in a call that is closing, with no other
\* ticket of a call in hand.
ShownInv ==
    session.shown # 0 =>
        /\ session.phase = "closing"
        /\ at \in {"showing", "vending"} => purpose \notin {"press", "person"}

\* A code is up, drawn by this process, with no write refused.
Lit == screen # 0 /\ display = "ok" /\ frame = "live"

\* ... and then it is the code of the ticket that is up, or else of a person's open, or of
\* a ticket let go of in an exception.
LiveInv ==
    Lit => /\ at \notin {"down", "reconciling"} /\ purpose # "replay"
           /\ pending # 0 => screen = pending
           /\ pending = 0 => \/ screen = session.shown
                             \/ at = "vending" /\ purpose = "person" /\ screen = subject
                             \/ screen \in dropped

LEMMA ShownInit == Init => ShownInv
  BY DEF Init, ShownInv, NoSession

LEMMA ShownStep ==
    ASSUME TypeInv, HandInv, ShownInv, [Next]_vars
    PROVE  ShownInv'
  <1> USE DEF ShownInv, GoTo, AfterPoll
  <1>0. /\ session \in Session /\ NoSession.shown = 0
        /\ \A t, shown : /\ Closing(t, shown).shown = shown /\ Closing(t, shown).phase = "closing"
                         /\ Telling(session.door, t).shown = 0
        /\ \A d, t : Telling(d, t).shown = 0
        /\ \A d, phase : Answered(d, phase).shown = 0
        /\ \A d, readable : TellCase(d, readable) => session'.shown = 0
        /\ at \notin {"showing", "vending"} => purpose = "none"
    BY DEF TypeInv, TypeOK, AgentTypeOK, NoSession, Closing, Telling, Answered, TellCase, HandInv
  <1>1. ASSUME NEW phase, session' = [session EXCEPT !.phase = phase]
        PROVE  session'.shown = session.shown /\ session'.phase = phase
    BY <1>0, <1>1 DEF Session
  <1>2. CASE UNCHANGED vars \/ LaneNext
    BY <1>2 DEF vars, LaneNext, LaneDecides, StopsOffering, CarLeaves, LaneRestarts,
                LaneAccepts, LaneRefuses, agentVars
  <1>8. CASE LaneReadRaises \/ VoidAtRaises \/ VendRaises \/ StartRaises
    BY <1>8 DEF LaneReadRaises, VoidAtRaises, VendRaises, StartRaises
  <1>3. CASE FollowNext
    <2>1. CASE AdoptCursor \/ FollowLane \/ LaneUnread \/ \E readable \in Reads : SameDecision(readable)
      BY <2>1 DEF AdoptCursor, FollowLane, LaneUnread, SameDecision
    <2>2. CASE \E ok \in BOOLEAN : CursorReset(ok) \/ Expire(ok)
      BY <2>2 DEF CursorReset, Expire
    <2>3. ASSUME NEW readable \in Reads, NEW ok \in BOOLEAN, NewDecision(readable, ok) PROVE ShownInv'
      BY <2>3 DEF NewDecision, MintsOrNot, Issue
    <2>4. CASE \E readable, ok \in BOOLEAN : CheckPending(readable, ok)
      BY <2>4 DEF CheckPending
    <2>5. CASE \E shown, ok \in BOOLEAN : Reassert(shown, ok)
      BY <2>5 DEF Reassert
    <2>6. ASSUME NEW shown \in BOOLEAN, Showing(shown) PROVE ShownInv'
      <3>1. CASE ~shown /\ purpose # "person"
        BY <2>6, <3>1 DEF Showing
      <3>2. CASE ~(~shown /\ purpose # "person") /\ purpose = "person"
        BY <1>0, <1>1, <2>6, <3>2 DEF Showing, AskLane
      <3>3. CASE ~(~shown /\ purpose # "person") /\ purpose # "person"
        BY <1>0, <2>6, <3>3 DEF Showing
      <3> QED
        BY <3>1, <3>2, <3>3
    <2> QED
      BY <1>3, <1>8, <2>1, <2>2, <2>3, <2>4, <2>5, <2>6 DEF FollowNext
  <1>4. CASE PressNext
    <2>1. CASE \E d \in Door : HelpExpires(d)
      BY <2>1 DEF HelpExpires
    <2>2. CASE \E d \in Door, readable \in Reads : PressForHelp(d, readable) \/ PressForCase(d, readable)
      BY <1>0, <2>2 DEF PressForHelp, PressForCase
    <2>3. CASE \E d \in Door : \/ PressUntold(d) \/ PressRaises(d) \/ ConfirmRaises(d)
                              \/ \E ok \in BOOLEAN : PressConfirms(d, ok)
      BY <1>0, <2>3 DEF PressUntold, PressConfirms, PressRaises, ConfirmRaises, Answered, Telling
    <2>4. CASE \E d \in Door, readable \in Reads : PressMints(d, readable)
      BY <1>0, <2>4 DEF PressMints
    <2> QED
      BY <1>4, <2>1, <2>2, <2>3, <2>4 DEF PressNext
  <1>5. CASE CallNext
    <2>1. CASE \E ok \in BOOLEAN : ToldOnScreen(ok) \/ CallEnds(ok)
      BY <1>0, <2>1 DEF ToldOnScreen, CallEnds, EndSession
    <2>2. CASE \E readable \in Reads : PersonOpensByMinting(readable)
      BY <1>0, <1>1, <2>2 DEF PersonOpensByMinting
    <2>3. CASE CallHuman \/ NobodyDecides \/ PersonOpensWithTicket \/ \E ok \in BOOLEAN : PersonSaysNo(ok)
      BY <1>0, <1>1, <2>3 DEF CallHuman, NobodyDecides, PersonOpensWithTicket, PersonSaysNo
    <2> QED
      BY <1>5, <2>1, <2>2, <2>3 DEF CallNext
  <1>6. CASE VendNext
    BY <1>0, <1>1, <1>6, <1>8 DEF VendNext, VendCommanded, VendNotCommanded, Hears
  <1>7. CASE ProcessNext
    BY <1>0, <1>7, <1>8 DEF ProcessNext, Dies, Start, ReconcileIssued, ReconcileConfirmed,
                ReplayAnswered, Reconciled, agentVars, AskLane
  <1> QED
    BY <1>2, <1>3, <1>4, <1>5, <1>6, <1>7 DEF Next

LEMMA LiveInit == Init => LiveInv
  BY DEF Init, LiveInv, Lit

LEMMA LiveStep ==
    ASSUME HasAct, TypeInv, HonestInv, HandInv, ShownInv, LiveInv, [Next]_vars
    PROVE  LiveInv'
  <1> USE DEF LiveInv, Lit, GoTo, AfterPoll, VoidPending, screenVars
  <1>0. /\ session \in Session /\ NoSession.shown = 0
        /\ \A t, shown : Closing(t, shown).shown = shown
        /\ at \notin {"showing", "vending"} => subject = 0 /\ purpose = "none"
        /\ at \in {"down", "reconciling", "showing", "vending"} => pending = 0
        /\ purpose = "replay" => at = "vending"
        /\ \A d, t : Telling(d, t).shown = 0
        /\ \A d, phase : Answered(d, phase).shown = 0
        /\ \A d, readable : TellCase(d, readable) => session'.shown = 0
    BY DEF TypeInv, TypeOK, AgentTypeOK, NoSession, Closing, Telling, Answered, TellCase, HandInv,
           HonestInv, OneInHand
  <1>1. ASSUME NEW phase, session' = [session EXCEPT !.phase = phase]
        PROVE  session'.shown = session.shown
    BY <1>0, <1>1 DEF Session
  <1>2. \A ok \in BOOLEAN : Blank(ok) => ~Lit'
    BY DEF Blank
  <1>3. CASE UNCHANGED vars \/ LaneNext
    BY <1>3, DroppedGrows DEF vars, history, LaneNext, LaneDecides, StopsOffering, CarLeaves, LaneRestarts,
                LaneAccepts, LaneRefuses, agentVars
  <1>4. CASE FollowNext
    <2>1. CASE AdoptCursor \/ FollowLane \/ LaneUnread \/ \E readable \in Reads : SameDecision(readable)
      BY <1>0, <2>1, DroppedGrows DEF AdoptCursor, FollowLane, LaneUnread, SameDecision, history
    <2>2. ASSUME NEW ok \in BOOLEAN, CursorReset(ok) \/ Expire(ok) PROVE LiveInv'
      <3>1. VoidPending("lane_decided_again", ok) \/ VoidPending("window_elapsed", ok) \/ VoidRaises
        BY <2>2 DEF CursorReset, Expire
      <3>2. /\ at = "idle" /\ purpose = "none" /\ purpose' = "none"
            /\ at' \in {"idle", "reasserting"} /\ session' = session
        BY <1>0, <2>2 DEF CursorReset, Expire
      <3>3. CASE VoidRaises
        <4>1. UNCHANGED screenVars \/ ~Lit'
          BY <1>0, <1>2, <2>2, <3>3 DEF CursorReset, Expire, VoidRaises
        <4> QED
          BY <3>2, <3>3, <4>1, DroppedGrows DEF VoidRaises
      <3>4. CASE ~VoidRaises
        BY <1>2, <3>1, <3>2, <3>4, DroppedGrows
      <3> QED
        BY <3>3, <3>4
    <2>7. CASE LaneReadRaises \/ VoidAtRaises
      BY <1>0, <2>7, DroppedGrows DEF LaneReadRaises, VoidAtRaises, VoidRaises
    <2>3. ASSUME NEW readable \in Reads, NEW ok \in BOOLEAN, NewDecision(readable, ok) PROVE LiveInv'
      BY <1>0, <1>2, <2>3, DroppedGrows DEF NewDecision, MintsOrNot, Issue
    <2>4. CASE \E readable, ok \in BOOLEAN : CheckPending(readable, ok)
      BY <1>0, <1>2, <2>4, DroppedGrows DEF CheckPending
    <2>5. CASE \E shown, ok \in BOOLEAN : Reassert(shown, ok)
      BY <1>0, <2>5, DroppedGrows DEF Reassert, Show
    <2>6. ASSUME NEW shown \in BOOLEAN, Showing(shown) PROVE LiveInv'
      <3>1. CASE ~shown
        BY <2>6, <3>1 DEF Showing, Show
      <3>2. CASE shown /\ purpose = "person"
        BY <1>0, <2>6, <3>2 DEF Showing, Show, AskLane
      <3>3. CASE shown /\ purpose # "person"
        BY <1>0, <2>6, <3>3 DEF Showing, Show
      <3> QED
        BY <3>1, <3>2, <3>3
    <2> QED
      BY <1>4, <2>1, <2>2, <2>3, <2>4, <2>5, <2>6, <2>7 DEF FollowNext
  <1>5. CASE PressNext
    <2>1. CASE \E d \in Door, ok \in BOOLEAN : PressConfirms(d, ok)
      BY <1>2, <2>1 DEF PressConfirms
    <2>2. session = NoSession => session.shown = 0
      BY <1>0
    <2>3. CASE \E d \in Door, readable \in Reads : PressMints(d, readable)
      BY <1>0, <2>2, <2>3, DroppedGrows DEF PressMints, Issue
    <2>4. CASE \E d \in Door, readable \in Reads : PressForHelp(d, readable) \/ PressForCase(d, readable)
      BY <1>0, <2>2, <2>4, DroppedGrows DEF PressForHelp, PressForCase, history
    <2>5. CASE \E d \in Door : PressUntold(d)
      BY <1>0, <2>2, <2>5, DroppedGrows DEF PressUntold, history
    <2>6. CASE \E d \in Door : PressRaises(d) \/ ConfirmRaises(d)
      BY <1>0, <2>2, <2>6, DroppedGrows DEF PressRaises, ConfirmRaises, VoidRaises
    <2>7. CASE \E d \in Door : HelpExpires(d)
      BY <1>0, <2>7, DroppedGrows DEF HelpExpires, history
    <2> QED
      BY <1>5, <2>1, <2>3, <2>4, <2>5, <2>6, <2>7 DEF PressNext
  <1>6. CASE CallNext
    <2>1. CASE \E ok \in BOOLEAN : ToldOnScreen(ok) \/ CallEnds(ok)
      BY <1>0, <1>2, <2>1, DroppedGrows DEF ToldOnScreen, CallEnds, EndSession, TakeDown, history
    <2>2. CASE \E readable \in Reads : PersonOpensByMinting(readable)
      BY <1>0, <2>2, DroppedGrows DEF PersonOpensByMinting, Issue, ShownInv
    <2>3. CASE PersonOpensWithTicket
      BY <1>0, <2>3, DroppedGrows DEF PersonOpensWithTicket, AskLane, history
    <2>4. CASE CallHuman \/ NobodyDecides
      BY <1>0, <1>1, <2>4, DroppedGrows DEF CallHuman, NobodyDecides, history
    <2>5. CASE \E ok \in BOOLEAN : PersonSaysNo(ok)
      BY <1>0, <1>1, <1>2, <2>5, DroppedGrows DEF PersonSaysNo
    <2> QED
      BY <1>6, <2>1, <2>2, <2>3, <2>4, <2>5 DEF CallNext
  <1>7. CASE VendNext
    <2>1. CASE VendCommanded
      BY <1>0, <2>1, DroppedGrows DEF VendCommanded, Hears, ShownInv
    <2>2. CASE \E reason \in Refusals, ok \in BOOLEAN : VendNotCommanded(reason, ok)
      BY <1>0, <1>1, <1>2, <2>2, DroppedGrows DEF VendNotCommanded, Hears, ShownInv, TakeDown
    <2>3. CASE VendRaises
      BY <1>0, <2>3, DroppedGrows DEF VendRaises, Hears
    <2> QED
      BY <1>7, <2>1, <2>2, <2>3 DEF VendNext
  <1>8. CASE ProcessNext
    <2>1. CASE \E blanked \in BOOLEAN : Dies(blanked)
      BY <2>1 DEF Dies
    <2>2. CASE Start \/ Reconciled
      BY <1>0, <2>2 DEF Start, Reconciled
    <2>3. CASE \E t \in Ticket : ReconcileIssued(t) \/ ReconcileConfirmed(t)
      BY <1>0, <2>3 DEF ReconcileIssued, ReconcileConfirmed, agentVars
    <2>4. CASE \E commanded \in BOOLEAN : ReplayAnswered(commanded)
      BY <1>0, <2>4 DEF ReplayAnswered, Hears
    <2>5. CASE StartRaises
      BY <2>5 DEF StartRaises, Hears
    <2> QED
      BY <1>8, <2>1, <2>2, <2>3, <2>4, <2>5 DEF ProcessNext
  <1> QED
    BY <1>3, <1>4, <1>5, <1>6, <1>7, <1>8 DEF Next

\* With an act token, a code on the screen of an idle agent is the pending ticket's, the
\* one of the person's open in the call that is up, or one that was let go of in an
\* exception with its record open, but for refused writes and kills.
THEOREM ScreenStaysLive == HasAct => (Spec => []ScreenIsLive)
  <1> SUFFICES ASSUME HasAct PROVE Spec => []ScreenIsLive
    OBVIOUS
  <1>1. Init => TypeInv /\ HonestInv /\ HandInv /\ ShownInv /\ LiveInv
    BY TypeInit, HonestInit, HandInit, ShownInit, LiveInit
  <1>2. TypeInv /\ HonestInv /\ HandInv /\ ShownInv /\ LiveInv /\ [Next]_vars
        => (TypeInv /\ HonestInv /\ HandInv /\ ShownInv /\ LiveInv)'
    BY TypeStep, HonestStep, HandStep, ShownStep, LiveStep
  <1>3. LiveInv => ScreenIsLive
    BY DEF LiveInv, Lit, ScreenIsLive
  <1> QED
    BY <1>1, <1>2, <1>3, PTL DEF Spec
===============================================================================
