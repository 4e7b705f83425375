-------------------------------- MODULE Reading --------------------------------
(***************************************************************************)
(* What the agent makes of a lane it reads (agent.py, cases.py, fee.py,    *)
(* board.py): the case a driver hears, whether a ticket is offered, and    *)
(* the money a screen shows.  A call asks twice, the state and then the    *)
(* health, and the lane goes on in between; its clock is not the agent's;  *)
(* it may not answer, be of another version, or have started again.        *)
(*                                                                         *)
(* A moment is a number of ticks of the agent's clock.  What the agent     *)
(* does with a case is Dialogue's and Tickets'.                            *)
(***************************************************************************)
EXTENDS Integers

CONSTANTS
    MaxAge,         \* [cases] decision_max_age_seconds
    Skews,          \* how far the lane's clock may be ahead of the agent's
    Moneys,         \* what a lane may publish of money
    Currency,       \* the currencies a lane may price in
    MinorUnits(_),  \* how many minor units each has: the rate engine's own count
    Listed,         \* MINOR_UNITS: those whose count this build lists
    MaxTime,        \* bound: the agent's clock
    MaxNews         \* bound: changes at the lane

\* The most digits any currency has; every count is one of a currency.
MaxDigits == 4

\* A fee and the length of a price line: what is no fee, no length or no currency
\* is -1 or "none", and so is a count of digits that is not there; -2 is one that
\* is no count.
Publications ==
    [status : {"priced", "covered", "another", "none"}, fee : Nat \cup {-1},
     currency : Currency \cup {"none"}, digits : -2 .. MaxDigits + 1,
     minutes : (Nat \ {0}) \cup {-1}]

\* A lane publishes its engine's count or none; a count that is not the engine's
\* is one this build can tell, of a currency it lists.
Believable(m) ==
    m.digits \in 0 .. MaxDigits /\ m.currency \notin Listed \cup {"none"}
        => m.digits = MinorUnits(m.currency)

ASSUME ReadingAssumption ==
    /\ MaxAge \in Nat /\ Skews \subseteq Int
    /\ Listed \subseteq Currency /\ "none" \notin Currency
    /\ \A c \in Currency : MinorUnits(c) \in 0 .. MaxDigits
    /\ Moneys \subseteq Publications /\ \A m \in Moneys : Believable(m)
    /\ MaxTime \in Nat /\ MaxNews \in Nat

VARIABLES
    now, skew,
    \* the lane
    decision, transit,  \* its last decision, and what became of the car it let in
    active,     \* its codes that are active
    closed,     \* its owner has closed it
    known,      \* its contract version is one this build reads
    news,
    \* the agent
    wired,      \* whether the intercom in question has a lane at all
    at,         \* where its read is
    laneState,      \* the first answer, while the second is asked for
    reading,
    code,       \* lane_unavailable
    screen, line,   \* the fee on the screen, and the price line
    \* history
    made,       \* when the decision that was read was made
    moved,      \* the lane has changed since its state was read
    drawnFrom   \* what the screen's money was read from

laneVars == <<decision, transit, active, closed, known, news>>
readVars == <<at, laneState, reading, code, made>>
screenVars == <<screen, line, drawnFrom>>
readingVars == <<now, skew, laneVars, wired, readVars, screenVars, moved>>

----------------------------------------------------------------------------
(* What a lane publishes.                                                   *)

Outcomes == {"allow", "deny", "fallback", "no_vehicle", "another"}
Reasons == {"engine_unreachable", "no_plate_read", "low_confidence", "unknown_vehicle",
            "stale_rules", "lane_closed", "another"}
\* What may become of a car that was let in.
Transits == {"pending", "confirmed", "held", "backed_out", "unconfirmable"}

\* A moment, or a string no moment can be read from.
Moment(t) == [readable |-> TRUE, at |-> t]
NoMoment == [readable |-> FALSE, at |-> 0]
Moments == [readable : BOOLEAN, at : Int]

Decisions == [outcome : Outcomes, reason : Reasons \cup {"none"},
              presence : {"true", "false", "unmeasured"}, stamp : Moments]
NoDecision == [outcome |-> "none", reason |-> "none", presence |-> "unmeasured",
               stamp |-> NoMoment]

\* The codes: one whose causes include an ordinary car arriving is never an alarm.
Codes == {"blocking", "harmless", "ordinary"}
NeverAlarm == {"ordinary"}

----------------------------------------------------------------------------
(* The case (cases.py).                                                     *)

\* AgentCase.
Cases == {"malfunction_active", "lane_closed", "identification_unavailable", "plate_not_read",
          "plate_unclear", "vehicle_not_recognised", "rules_unavailable", "entry_refused",
          "vehicle_not_detected", "entry_not_confirmed", "stale_decision",
          "unrecognised_reason", "lane_unavailable", "standalone", "nothing_to_do"}

\* LaneReading.
Readings == [lane : BOOLEAN, readable : BOOLEAN, of : Decisions \cup {NoDecision},
             transit : Transits \cup {"none"}, malfunctions : SUBSET Codes, closed : BOOLEAN]

Unread(lane) == [lane |-> lane, readable |-> FALSE, of |-> NoDecision, transit |-> "none",
                 malfunctions |-> {}, closed |-> FALSE]

FallbackCase(reason) ==
    CASE reason = "engine_unreachable" -> "identification_unavailable"
      [] reason = "no_plate_read" -> "plate_not_read"
      [] reason = "low_confidence" -> "plate_unclear"
      [] reason = "unknown_vehicle" -> "vehicle_not_recognised"
      [] reason = "stale_rules" -> "rules_unavailable"
      [] reason = "lane_closed" -> "lane_closed"
      [] OTHER -> "unrecognised_reason"

TicketCases == {"identification_unavailable", "plate_not_read", "plate_unclear",
                "vehicle_not_recognised"}
Unconfirmed == {"held", "unconfirmable"}

\* _age_seconds: across two clocks, and negative where the lane's is ahead.
Age(stamp, t) == t - stamp.at

\* Mutation of DecisionCase: the age of the refusals and of nothing else.
DecisionCaseOfAnyAge(r, t) ==
    IF r.of.outcome = "allow" /\ r.transit \in {"confirmed", "pending"} THEN "nothing_to_do"
    ELSE IF r.of.outcome # "none" /\ ~r.of.stamp.readable THEN "unrecognised_reason"
    ELSE IF r.of.outcome # "none" /\ Age(r.of.stamp, t) > MaxAge THEN "stale_decision"
    ELSE CASE r.of.outcome = "fallback" -> FallbackCase(r.of.reason)
           [] r.of.outcome = "deny" -> "entry_refused"
           [] r.of.outcome = "no_vehicle" -> "vehicle_not_detected"
           [] r.of.outcome = "allow" /\ r.transit \in Unconfirmed -> "entry_not_confirmed"
           [] OTHER -> "unrecognised_reason"

\* decision_case: the age before the outcome, the transit inside allow alone, and
\* what this build will not interpret is a person's.
DecisionCase(r, t) ==
    IF r.of.outcome # "none" /\ ~r.of.stamp.readable THEN "unrecognised_reason"
    ELSE IF r.of.outcome # "none" /\ Age(r.of.stamp, t) > MaxAge THEN "stale_decision"
    ELSE CASE r.of.outcome = "fallback" -> FallbackCase(r.of.reason)
           [] r.of.outcome = "deny" -> "entry_refused"
           [] r.of.outcome = "no_vehicle" -> "vehicle_not_detected"
           [] r.of.outcome = "allow" /\ r.transit \in Unconfirmed -> "entry_not_confirmed"
           [] r.of.outcome = "allow" /\ r.transit \in {"confirmed", "pending"} -> "nothing_to_do"
           [] OTHER -> "unrecognised_reason"

\* derive.
Derive(r, t) ==
    IF ~r.lane THEN "standalone"
    ELSE IF ~r.readable THEN "lane_unavailable"
    ELSE IF r.malfunctions # {} THEN "malfunction_active"
    ELSE IF r.closed THEN "lane_closed"
    ELSE DecisionCase(r, t)

\* Mutation of OffersTicket: whatever was not measured absent is present.
OffersTicketUnlessAbsent(r, t) ==
    /\ r.lane /\ r.readable /\ ~r.closed
    /\ DecisionCase(r, t) \in TicketCases
    /\ r.of.presence # "false"

\* offers_ticket: the decision decides, whatever the health; a closed lane does not.
OffersTicket(r, t) ==
    /\ r.lane /\ r.readable /\ ~r.closed
    /\ DecisionCase(r, t) \in TicketCases
    /\ r.of.presence = "true"

----------------------------------------------------------------------------
(* The money (fee.py, board.py).                                            *)

\* Mutation of DigitsFor: a currency neither publishes nor lists has two.
DigitsForOrTwo(m) ==
    IF m.digits \in 0 .. MaxDigits THEN m.digits
    ELSE IF m.currency \in Listed THEN MinorUnits(m.currency) ELSE 2

\* digits_for: the count that is published; the list answers for none, and where
\* the two differ there is no answer (-1).
DigitsFor(m) ==
    IF m.digits = -1
      THEN IF m.currency \in Listed THEN MinorUnits(m.currency) ELSE -1
    ELSE IF m.digits \notin 0 .. MaxDigits THEN -1
    ELSE IF m.currency \in Listed /\ MinorUnits(m.currency) # m.digits THEN -1
    ELSE m.digits

Ten(n) == CASE n = 1 -> 10 [] n = 2 -> 100 [] n = 3 -> 1000 [] n = 4 -> 10000 [] OTHER -> 1

NoFigure == [drawn |-> FALSE, whole |-> 0, part |-> 0, digits |-> 0]
Figures == [drawn : BOOLEAN, whole : Nat, part : Nat, digits : 0 .. MaxDigits]

\* figure_for: so many whole units, and so many minor ones written in full.
FigureFor(m) ==
    LET n == DigitsFor(m) IN
    IF n = -1 THEN NoFigure
    ELSE [drawn |-> TRUE, whole |-> m.fee \div Ten(n), part |-> m.fee % Ten(n), digits |-> n]

FeeScreens == [state : {"fee_due", "nothing_to_pay", "covered", "not_shown", "none"},
               figure : Figures]
NoFee == [state |-> "none", figure |-> NoFigure]

Says(what) == [state |-> what, figure |-> NoFigure]

\* screen_for, of the exit fee a lane publishes: none is no frame at all.
ScreenFor(m) ==
    IF m.status = "none" THEN NoFee
    ELSE IF m.status = "covered" THEN Says("covered")
    ELSE IF m.status # "priced" \/ m.fee = -1 \/ m.currency = "none"
      THEN Says("not_shown")
    ELSE IF m.fee = 0 THEN Says("nothing_to_pay")
    ELSE IF ~FigureFor(m).drawn THEN Says("not_shown")
    ELSE [state |-> "fee_due", figure |-> FigureFor(m)]

NoLine == [hours |-> 0, minutes |-> 0, figure |-> NoFigure]
Lines == [hours : Nat, minutes : Nat, figure : Figures]

\* length_label: whole hours, else minutes.
LengthLabel(minutes) ==
    IF minutes % 60 = 0 THEN [hours |-> minutes \div 60, minutes |-> 0]
    ELSE [hours |-> 0, minutes |-> minutes]

\* price_line: left out where any of it cannot be written.
PriceLine(m) ==
    IF m.minutes = -1 \/ m.fee = -1 \/ m.currency = "none" \/ ~FigureFor(m).drawn
      THEN NoLine
    ELSE [hours |-> LengthLabel(m.minutes).hours, minutes |-> LengthLabel(m.minutes).minutes,
          figure |-> FigureFor(m)]

----------------------------------------------------------------------------
(* The lane.                                                                *)

NoMoney == [status |-> "none", fee |-> -1, currency |-> "none", digits |-> -1, minutes |-> -1]

ReadingInit ==
    /\ now = 0 /\ skew \in Skews /\ wired \in BOOLEAN
    /\ decision = NoDecision /\ transit = "none" /\ active = {} /\ closed = FALSE
    /\ known = TRUE /\ news = 0
    /\ at = "idle" /\ laneState = Unread(TRUE) /\ reading = Unread(TRUE) /\ code = "unknown"
    /\ screen = NoFee /\ line = NoLine /\ drawnFrom = NoMoney
    /\ made = 0 /\ moved = FALSE

Changes ==
    /\ news < MaxNews /\ news' = news + 1 /\ moved' = (at # "idle")
    /\ UNCHANGED <<now, skew, wired, readVars, screenVars>>

\* It decides, by its own clock; a car it lets in is on its way.  It gives a
\* reason for falling back.
Decides(outcome, reason, presence, readable) ==
    /\ (outcome = "fallback") = (reason # "none")
    /\ decision' = [outcome |-> outcome, reason |-> reason, presence |-> presence,
                    stamp |-> IF readable THEN Moment(now + skew) ELSE NoMoment]
    /\ transit' = IF outcome = "allow" THEN "pending" ELSE "none"
    /\ UNCHANGED <<active, closed, known>> /\ Changes

\* The car it let in went through, or not, or nothing can tell.
Passes(how) ==
    /\ transit = "pending" /\ how # "pending" /\ transit' = how
    /\ UNCHANGED <<decision, active, closed, known>> /\ Changes

\* It starts again, perhaps as another version: it keeps no decision.
StartsAgain(version) ==
    /\ decision' = NoDecision /\ transit' = "none" /\ known' = version
    /\ UNCHANGED <<active, closed>> /\ Changes

CodeTurns(c) ==
    /\ active' = (active \ {c}) \cup ({c} \ active)
    /\ UNCHANGED <<decision, transit, closed, known>> /\ Changes

OwnerTurns ==
    /\ closed' = ~closed
    /\ UNCHANGED <<decision, transit, active, known>> /\ Changes

Tick ==
    /\ now < MaxTime /\ now' = now + 1
    /\ UNCHANGED <<skew, laneVars, wired, readVars, screenVars, moved>>

----------------------------------------------------------------------------
(* The agent.                                                               *)

\* _read_lane is over: what was read, and what the health surface says of it.
HasRead(r, health) ==
    /\ at' = "read" /\ reading' = r /\ code' = health
    /\ laneState' = Unread(TRUE)

\* A door with no lane has nothing to read.
ReadNoLane ==
    /\ at = "idle" /\ ~wired
    /\ HasRead(Unread(FALSE), code)
    /\ UNCHANGED <<now, skew, laneVars, wired, screenVars, made, moved>>

\* GET /v1/lane/state, and what it said.  The version is looked at later.
ReadState ==
    /\ at = "idle" /\ wired
    /\ at' = "asking"
    /\ laneState' = [lane |-> TRUE, readable |-> known, of |-> decision, transit |-> transit,
                 malfunctions |-> {}, closed |-> closed]
    /\ made' = IF decision.stamp.readable THEN decision.stamp.at - skew ELSE 0
    /\ moved' = FALSE
    /\ UNCHANGED <<now, skew, laneVars, wired, reading, code, screenVars>>

\* Either request fails: the lane cannot be asked.
LaneSilent ==
    /\ at \in {"idle", "asking"} /\ wired
    /\ HasRead(Unread(TRUE), "active")
    /\ UNCHANGED <<now, skew, laneVars, wired, screenVars, made, moved>>

\* never_alarm is the lane's word, read off the wire.
Alarms == active \ NeverAlarm

\* GET /v1/lane/health, and the answer of the two of them; codes that are no list
\* make it no answer.
ReadHealth(list) ==
    /\ at = "asking"
    /\ IF laneState.readable /\ known /\ list
         THEN HasRead([laneState EXCEPT !.malfunctions = Alarms], "ok")
         ELSE HasRead(Unread(TRUE), "active")
    /\ UNCHANGED <<now, skew, laneVars, wired, screenVars, made, moved>>

\* The case is told, a ticket issued or a person's open minted: that read is over.
Done ==
    /\ at = "read" /\ at' = "idle" /\ reading' = Unread(TRUE)
    /\ made' = 0 /\ moved' = FALSE
    /\ UNCHANGED <<now, skew, laneVars, wired, laneState, code, screenVars>>

\* _read_fee, on the lane's poll, by the same thread: a lane that does not answer
\* has said nothing, and what is up stays; of a version this build does not read,
\* nothing is drawn.
ReadFee(m) ==
    /\ at = "idle"
    /\ screen' = IF known THEN ScreenFor(m) ELSE NoFee
    /\ line' = IF known THEN PriceLine(m) ELSE NoLine
    /\ drawnFrom' = IF known THEN m ELSE NoMoney
    /\ UNCHANGED <<now, skew, laneVars, wired, readVars, moved>>

ReadingNext ==
    \/ \E o \in Outcomes, r \in Reasons \cup {"none"}, p \in {"true", "false", "unmeasured"},
          readable \in BOOLEAN : Decides(o, r, p, readable)
    \/ \E how \in Transits : Passes(how)
    \/ \E version \in BOOLEAN : StartsAgain(version)
    \/ \E c \in Codes : CodeTurns(c)
    \/ OwnerTurns
    \/ Tick
    \/ ReadNoLane \/ ReadState \/ LaneSilent \/ Done
    \/ \E m \in Moneys : ReadFee(m)
    \/ \E list \in BOOLEAN : ReadHealth(list)

ReadingSpec == ReadingInit /\ [][ReadingNext]_readingVars

----------------------------------------------------------------------------
ReadingTypeOK ==
    /\ now \in Nat /\ skew \in Skews /\ wired \in BOOLEAN
    /\ decision \in Decisions \cup {NoDecision} /\ transit \in Transits \cup {"none"}
    /\ active \subseteq Codes /\ closed \in BOOLEAN /\ known \in BOOLEAN /\ news \in Nat
    /\ at \in {"idle", "asking", "read"} /\ laneState \in Readings /\ reading \in Readings
    /\ code \in {"unknown", "ok", "active"}
    /\ screen \in FeeScreens /\ line \in Lines /\ drawnFrom \in Moneys \cup {NoMoney}
    /\ made \in Int /\ moved \in BOOLEAN

\* Nobody rings a person for a driver who is told there is nothing to do, so it is
\* said only where the lane itself let a car in, no longer ago than the bound and
\* what its clock is ahead by; and where nothing happened since, of a lane that is
\* open, with no alarm and no later decision.
NothingToDoIsRecent ==
    at = "read" /\ Derive(reading, now) = "nothing_to_do"
        => /\ reading.of.outcome = "allow" /\ now - made <= MaxAge + skew
           /\ ~moved => /\ decision = reading.of /\ transit \in {"pending", "confirmed"}
                        /\ ~closed /\ known /\ active \subseteq NeverAlarm

\* A ticket is offered only after a fallback made no longer ago than the bound and
\* what its clock is ahead by; and where nothing happened between the two requests
\* and since, of a lane that is open and measured a vehicle there, that could not
\* tell who this is, as cases.py:336-343 has it. It is not what the lane would
\* take: a vend-blocking malfunction is offered and the lane refuses it, and where
\* the lane changed meanwhile only the age is claimed.
OfferIsOfARecentFallback ==
    at = "read" /\ OffersTicket(reading, now)
        => /\ now - made <= MaxAge + skew
           /\ ~moved => /\ known /\ ~closed
                        /\ decision.outcome = "fallback" /\ decision.presence = "true"
                        /\ decision.reason \notin {"stale_rules", "lane_closed", "another"}

\* The two questions agree: who is offered a ticket hears a case it answers, or
\* that of a malfunction; and who hears one of those with a vehicle there is offered it.
OfferFollowsTheCase ==
    at = "read"
        => /\ OffersTicket(reading, now)
                => Derive(reading, now) \in TicketCases \cup {"malfunction_active"}
           /\ Derive(reading, now) \in TicketCases /\ reading.of.presence = "true"
                => OffersTicket(reading, now)

\* A figure on the screen is the sum the lane published, the point where the engine
\* of the lane has it, and the length beside it is its own.
FigureIs(f, m) ==
    f.drawn => /\ f.digits = MinorUnits(m.currency)
               /\ f.part < Ten(f.digits)
               /\ Ten(f.digits) * f.whole + f.part = m.fee

FigureIsTheFee ==
    /\ FigureIs(screen.figure, drawnFrom) /\ FigureIs(line.figure, drawnFrom)
    /\ screen.state = "fee_due" => screen.figure.drawn /\ drawnFrom.fee > 0
    /\ screen.state = "nothing_to_pay" => drawnFrom.status = "priced" /\ drawnFrom.fee = 0
    /\ line.figure.drawn => 60 * line.hours + line.minutes = drawnFrom.minutes
================================================================================
