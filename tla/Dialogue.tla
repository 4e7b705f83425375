------------------------------ MODULE Dialogue ------------------------------
(***************************************************************************)
(* One call at the intercom agent: the driver's leg, the person's leg, the *)
(* user agent (baresip) that holds both, and the control socket between    *)
(* that program and this one (agent.py, ua_baresip.py).                    *)
(*                                                                         *)
(* The agent is one loop: it takes what the user agent said, handles it    *)
(* event by event, then does what is due.  The user agent, the people and  *)
(* the socket move between any two of its steps, and inside a step every   *)
(* command may be carried out, refused or cut off.  What the lane decides  *)
(* about a ticket or a vend is Tickets.tla's; here its answers are the     *)
(* outcomes an answered call or a keyed open can have.                     *)
(***************************************************************************)
EXTENDS Naturals, Sequences, FiniteSets

CONSTANTS
    MaxCalls,       \* calls the user agent ever holds
    MaxQueue,       \* events waiting in the control socket
    MaxTrouble,     \* socket losses, restarts, exceptions and digits, together
    Reprompts,      \* menus read again before the agent gives up
    Doors,          \* who may ring as each call: "lane", "relay" (standalone),
                    \* "stranger"
    GoneReplies     \* what a command about a call that is gone is answered

ASSUME DialogueAssumption ==
    /\ MaxCalls \in Nat \ {0} /\ MaxQueue \in Nat
    /\ MaxTrouble \in Nat /\ Reprompts \in Nat
    /\ Doors \in [1..MaxCalls -> SUBSET {"lane", "relay", "stranger"}]
    /\ GoneReplies \subseteq {"ok", "refused"} /\ GoneReplies # {}

VARIABLES
    call,       \* the user agent's calls
    from,       \* who is at the other end of each
    events,     \* what it has said and the agent has not handled
    link,       \* the control socket
    breaks, keyed,  \* the bound's counters
    doing,      \* the loop, or the recovery of a reopened socket
    held,       \* calls the recovery has still to deal with
    ringers,    \* those of them that were ringing when it asked
    strays,     \* calls a recovery was told of and left, or that rang in a batch of
                \* events that was dropped
    state,      \* Session.state; IDLE where there is no session
    driver,     \* Session.driver_call, 0 where there is no session
    operator,   \* Session.operator_call, 0 for None
    toDriver, toPerson,     \* what is queued or playing on each leg
    legs,       \* Session.bridged
    keypad,     \* Session.ignoring_digits
    prompts,    \* Session.prompts_left
    deadline,   \* Session.deadline
    owed,       \* Session.person_outcome: whose open the person hears about
    pulses      \* relay pulses on their own threads, by the call they began in

ua == <<call, from, events, link, breaks>>
recovery == <<doing, held, ringers, strays>>
session == <<state, driver, operator, toDriver, toPerson, legs, keypad,
             prompts, deadline, owed>>
vars == <<ua, keyed, recovery, session, pulses>>

Call == 1..MaxCalls
NoCall == 0
Stage == {"IDLE", "SPEAKING_CASE", "CALLING_HUMAN", "BRIEFING", "WAITING_DIGIT",
          "HOLDING", "WAITING_RELAY", "CLOSING"}
Speech == {"silent", "queued", "playing"}
Key == {"open", "hold", "other", "unknown"}
Event == [kind : {"incoming", "established", "closed"}, call : Call]
         \cup [kind : {"digit"}, call : Call, key : Key]

Calls == [Call -> {"unused", "ringing", "dialling", "up", "gone"}]

UaTypeOK ==
    /\ call \in Calls
    /\ from \in [Call -> {"nobody", "lane", "relay", "stranger", "person"}]
    /\ events \in Seq(Event)
    /\ link \in {"open", "lost"} /\ breaks \in Nat /\ keyed \in Nat

RecoveryTypeOK ==
    /\ doing \in {"loop", "asking", "recovering"}
    /\ held \subseteq Call /\ ringers \subseteq Call /\ strays \subseteq Call

SessionTypeOK ==
    /\ state \in Stage
    /\ driver \in Call \cup {NoCall} /\ operator \in Call \cup {NoCall}
    /\ toDriver \in Speech /\ toPerson \in Speech
    /\ legs \in {"apart", "joined"} /\ keypad \in {"heard", "ignored"}
    /\ prompts \in Nat /\ deadline \in {"none", "set"}
    /\ owed \in Call \cup {NoCall}

TypeOK == UaTypeOK /\ RecoveryTypeOK /\ SessionTypeOK /\ pulses \subseteq Call

----------------------------------------------------------------------------
(* The user agent's calls, and what a command about one is answered.       *)

Up(c) == call[c] \in {"ringing", "dialling", "up"}
HeldCalls == {c \in Call : Up(c)}

\* The next call to exist: identities are the user agent's own and never reused.
Fresh(c) == call[c] = "unused" /\ \A d \in Call : d < c => call[d] # "unused"

MayBreak == breaks + keyed < MaxTrouble
Room == Len(events) < MaxQueue

\* One command about call c: carried out, refused because the user agent has no
\* such call, or cut off by the socket -- before or after it was carried out.
Replies(c) ==
    (IF Up(c) THEN {"ok"} ELSE GoneReplies)
        \cup (IF MayBreak THEN {"lost", "lost_done"} ELSE {})

\* A handler that goes on to the lane may end in its exception: an answer that is
\* not HTTP, or a record the disk would not take, which no handler here catches.
LaneRaises == IF MayBreak THEN {"raised"} ELSE {}

Carried(reply) == reply \in {"ok", "lost_done", "raised"}

Cut(reply) == reply \in {"lost", "lost_done"}

\* The socket after a command: a cut one is dropped, and nothing that was said
\* and not handled is handled any more.
LinkAfter(reply) ==
    /\ link' = IF Cut(reply) THEN "lost" ELSE link
    /\ breaks' = IF Cut(reply) \/ reply = "raised" THEN breaks + 1 ELSE breaks

Ended(c) == IF Up(c) THEN [call EXCEPT ![c] = "gone"] ELSE call

----------------------------------------------------------------------------
(* The session record.                                                     *)

NoSession ==
    /\ state' = "IDLE" /\ driver' = NoCall /\ operator' = NoCall
    /\ toDriver' = "silent" /\ toPerson' = "silent" /\ legs' = "apart"
    /\ keypad' = "heard" /\ prompts' = Reprompts /\ deadline' = "none"
    /\ owed' = NoCall

Init ==
    /\ call = [c \in Call |-> "unused"] /\ from = [c \in Call |-> "nobody"]
    /\ events = <<>> /\ link = "open" /\ breaks = 0 /\ keyed = 0
    /\ doing = "loop" /\ held = {} /\ ringers = {} /\ strays = {}
    /\ state = "IDLE" /\ driver = NoCall /\ operator = NoCall
    /\ toDriver = "silent" /\ toPerson = "silent" /\ legs = "apart"
    /\ keypad = "heard" /\ prompts = Reprompts /\ deadline = "none"
    /\ owed = NoCall /\ pulses = {}

----------------------------------------------------------------------------
(* The user agent, the callers and the people.                             *)

Said(e) == events' = IF link = "open" THEN Append(events, e) ELSE events

\* Somebody dials in.  The account the call arrives at says which door it is.
Ring(c, who) ==
    /\ Fresh(c) /\ Room
    /\ call' = [call EXCEPT ![c] = "ringing"]
    /\ from' = [from EXCEPT ![c] = who]
    /\ Said([kind |-> "incoming", call |-> c])
    /\ UNCHANGED <<link, breaks, keyed, recovery, session, pulses>>

\* The person's phone is picked up.
PickUp(c) ==
    /\ call[c] = "dialling" /\ Room
    /\ call' = [call EXCEPT ![c] = "up"]
    /\ Said([kind |-> "established", call |-> c])
    /\ UNCHANGED <<from, link, breaks, keyed, recovery, session, pulses>>

\* A caller gives up, the person declines, or either side puts the phone down.
Close(c) ==
    /\ Up(c) /\ Room
    /\ call' = [call EXCEPT ![c] = "gone"]
    /\ Said([kind |-> "closed", call |-> c])
    /\ UNCHANGED <<from, link, breaks, keyed, recovery, session, pulses>>

\* A digit.  From a driver's leg it is an intercom's keypad.
Press(c, key) ==
    /\ call[c] = "up" /\ Room /\ breaks + keyed < MaxTrouble
    /\ from[c] = "person" \/ key = "open"
    /\ keyed' = keyed + 1
    /\ Said([kind |-> "digit", call |-> c, key |-> key])
    /\ UNCHANGED <<call, from, link, breaks, recovery, session, pulses>>

\* The control socket is found closed at the head of a poll.
LoseLink ==
    /\ MayBreak /\ doing = "loop" /\ link = "open"
    /\ link' = "lost" /\ breaks' = breaks + 1 /\ events' = <<>>
    /\ UNCHANGED <<call, from, keyed, recovery, session, pulses>>

\* The user agent is restarted under the agent: no call survives it.
UaRestarts ==
    /\ MayBreak /\ doing = "loop"
    /\ call' = [c \in Call |-> IF Up(c) THEN "gone" ELSE call[c]]
    /\ link' = "lost" /\ breaks' = breaks + 1 /\ events' = <<>>
    /\ UNCHANGED <<from, keyed, recovery, session, pulses>>

----------------------------------------------------------------------------
(* Commands with no call of their own: dialling, the conference, hangupall. *)

Handling(kind) ==
    /\ doing = "loop" /\ link = "open"
    /\ events # <<>> /\ Head(events).kind = kind

TheCall == Head(events).call

OpenReplies == {"ok"} \cup (IF MayBreak THEN {"lost", "lost_done"} ELSE {})

\* After a command sent from the timed half of a pass: the events stay, unless
\* the socket went.
Sent(reply) ==
    /\ LinkAfter(reply)
    /\ events' = IF Cut(reply) THEN <<>> ELSE events

\* Calls whose arrival is among the first k events and that ring still.
RingingIn(k) ==
    {c \in Call : /\ call[c] = "ringing"
                  /\ \E i \in 1..k : events[i] = [kind |-> "incoming", call |-> c]}

\* After a command sent from an event's handler.  Nothing catches a refusal
\* there: it ends the poll, and the events drained with this one go unhandled.
Handled(reply) ==
    /\ LinkAfter(reply)
    /\ \/ Cut(reply) /\ events' = <<>> /\ UNCHANGED strays
       \/ reply = "ok" /\ events' = Tail(events) /\ UNCHANGED strays
       \/ /\ reply \in {"refused", "raised"}
          /\ \E k \in 1..Len(events) :
                /\ events' = SubSeq(events, k + 1, Len(events))
                /\ strays' = strays \cup (RingingIn(k) \ {TheCall})

\* A handler that sends nothing.
HandledQuietly ==
    /\ events' = Tail(events)
    /\ UNCHANGED <<call, from, link, breaks, keyed, recovery, pulses>>

----------------------------------------------------------------------------
(* Answering.                                                              *)

\* What an answered call does first: the case is spoken, or everything there is
\* to say is queued and the call closes (nothing to do; a code on the screen; a
\* press that vended).  A door with no lane has a case for a person, always.
Begins(c) ==
    /\ state' \in IF from[c] = "relay" THEN {"SPEAKING_CASE"}
                  ELSE {"SPEAKING_CASE", "CLOSING"}
    /\ driver' = c /\ toDriver' = "queued"
    /\ UNCHANGED <<operator, toPerson, legs, keypad, prompts, deadline, owed>>

\* The lane's answer raised: the session is there and has nothing to say.
BeginsSilent(c) ==
    /\ state' = "SPEAKING_CASE" /\ driver' = c
    /\ UNCHANGED <<operator, toDriver, toPerson, legs, keypad, prompts, deadline, owed>>

\* _incoming: the live case is checked before the identity.
Incoming(c, reply) ==
    IF state # "IDLE" \/ from[c] = "stranger"
    THEN /\ call' = IF Carried(reply) THEN Ended(c) ELSE call
         /\ UNCHANGED session
    ELSE /\ call' = IF Carried(reply) /\ call[c] = "ringing"
                    THEN [call EXCEPT ![c] = "up"] ELSE call
         /\ CASE reply = "ok" -> Begins(c)
              [] reply = "raised" -> BeginsSilent(c)
              [] OTHER -> UNCHANGED session

\* What answering may come to: with a lane to read, an exception as well.
Answers(c) ==
    Replies(c) \cup (IF Up(c) /\ state = "IDLE" /\ from[c] = "lane"
                     THEN LaneRaises ELSE {})

HandleIncoming ==
    /\ Handling("incoming")
    /\ \E reply \in Answers(TheCall) : Incoming(TheCall, reply) /\ Handled(reply)
    /\ UNCHANGED <<from, keyed, doing, held, ringers, pulses>>

----------------------------------------------------------------------------
(* The person.                                                             *)

\* _nothing_usable, and the driver's half of _human_unreachable.
ApologiseToDriver ==
    /\ toDriver' = "queued" /\ state' = "CLOSING" /\ deadline' = "none"

\* _call_human, with the driver's leg left saying `rest`.  A dial that fails is
\* caught: the driver is told nobody can be reached.
CallPerson(rest) ==
    \/ \E c \in Call, reply \in OpenReplies :
          /\ Fresh(c) /\ reply # "lost"
          /\ call' = [call EXCEPT ![c] = "dialling"]
          /\ from' = [from EXCEPT ![c] = "person"]
          /\ Sent(reply)
          /\ IF reply = "ok"
             THEN /\ operator' = c /\ state' = "CALLING_HUMAN" /\ deadline' = "set"
                  /\ toDriver' = rest
             ELSE ApologiseToDriver /\ UNCHANGED operator
    \/ \E reply \in {"refused"} \cup (OpenReplies \cap {"lost"}) :
          /\ Sent(reply) /\ ApologiseToDriver
          /\ UNCHANGED <<call, from, operator>>

\* The case has been said to the driver: ring the person.
Dial ==
    /\ doing = "loop" /\ link = "open"
    /\ state = "SPEAKING_CASE" /\ toDriver = "silent"
    /\ CallPerson("silent")
    /\ UNCHANGED <<keyed, recovery, driver, toPerson, legs, keypad, prompts,
                   owed, pulses>>

\* CALL_ESTABLISHED on the person's leg: the briefing, privately.  Of any other
\* call, or later, it says nothing.
HandleEstablished ==
    /\ Handling("established") /\ HandledQuietly
    /\ IF TheCall = operator /\ state = "CALLING_HUMAN"
       THEN /\ state' = "BRIEFING" /\ deadline' = "none" /\ toPerson' = "queued"
            /\ UNCHANGED <<driver, operator, toDriver, legs, keypad, prompts, owed>>
       ELSE UNCHANGED session

\* no_answer_seconds have passed.  The hangup is not caught: while it fails, the
\* state stays and the next pass tries again.
NoAnswer ==
    /\ doing = "loop" /\ link = "open" /\ state = "CALLING_HUMAN"
    /\ IF operator = NoCall
       THEN /\ ApologiseToDriver
            /\ UNCHANGED <<call, events, link, breaks, operator>>
       ELSE \E reply \in Replies(operator) :
              /\ call' = IF Carried(reply) THEN Ended(operator) ELSE call
              /\ Sent(reply)
              /\ IF reply = "ok" THEN ApologiseToDriver /\ operator' = NoCall
                 ELSE UNCHANGED <<state, operator, toDriver, deadline>>
    /\ UNCHANGED <<from, keyed, recovery, driver, toPerson, legs, keypad,
                   prompts, owed, pulses>>

\* The briefing, or the menu read again in its place, has been said: the two
\* legs are put together.
Bridge ==
    /\ doing = "loop" /\ link = "open"
    /\ state = "BRIEFING" /\ toPerson = "silent"
    /\ \E reply \in OpenReplies :
          /\ Sent(reply)
          /\ IF reply = "ok"
             THEN legs' = "joined" /\ state' = "WAITING_DIGIT" /\ deadline' = "set"
             ELSE UNCHANGED <<legs, state, deadline>>
    /\ UNCHANGED <<call, from, keyed, recovery, driver, operator, toDriver,
                   toPerson, keypad, prompts, owed, pulses>>

----------------------------------------------------------------------------
(* A digit.                                                                *)

\* _digit reads one: from the person's leg, when it is the person's turn, and
\* not over a menu being read again.
Reads(key) ==
    /\ Handling("digit") /\ TheCall = operator /\ Head(events).key = key
    /\ state \in {"BRIEFING", "WAITING_DIGIT", "HOLDING"}
    /\ keypad = "ignored" => toPerson = "silent"
    /\ events' = Tail(events)
    /\ UNCHANGED <<call, from, link, breaks, keyed, recovery, driver, operator, legs>>

HandleDigitDropped ==
    /\ Handling("digit")
    /\ \/ TheCall # operator
       \/ state \notin {"BRIEFING", "WAITING_DIGIT", "HOLDING"}
       \/ keypad = "ignored" /\ toPerson # "silent"
    /\ HandledQuietly /\ UNCHANGED session

WaitsAfterMenu == IF legs = "joined" THEN "WAITING_DIGIT" ELSE "BRIEFING"

\* A digit this site does not accept: the menu again, until there is no more.
HandleUnknown ==
    /\ Reads("unknown")
    /\ IF prompts = 0
       THEN /\ ApologiseToDriver /\ keypad' = "heard"
            /\ UNCHANGED <<toPerson, prompts>>
       ELSE /\ prompts' = prompts - 1 /\ toPerson' = "queued"
            /\ keypad' = "ignored" /\ state' = WaitsAfterMenu /\ deadline' = "set"
            /\ UNCHANGED toDriver
    /\ UNCHANGED <<owed, pulses>>

\* DO_NOT_OPEN and TRANSFER: the driver is told, and the call closes.
HandleOther ==
    /\ Reads("other")
    /\ keypad' = "heard" /\ toDriver' = "queued" /\ state' = "CLOSING"
    /\ UNCHANGED <<toPerson, prompts, deadline, owed, pulses>>

HandleHold ==
    /\ Reads("hold")
    /\ keypad' = "heard" /\ toDriver' = "queued" /\ state' = "HOLDING"
    /\ deadline' = "set" /\ prompts' = Reprompts
    /\ UNCHANGED <<toPerson, owed, pulses>>

\* An open: nothing here can act, or the lane commanded the vend; either way the
\* person has that still to hear.
HandleOpenSaid ==
    /\ Reads("open") /\ keypad' = "heard" /\ toDriver' = "queued"
    /\ toPerson' = "queued" /\ owed' = driver /\ state' = "CLOSING"
    /\ deadline' \in {deadline, "none"}
    /\ UNCHANGED <<prompts, pulses>>

\* Mutation of HandleOpenRefused: the case goes to a person, who is on the line.
HandleOpenRefusedToAnother ==
    /\ Reads("open") /\ from[driver] = "lane"
    /\ toDriver' = "queued" /\ state' = "SPEAKING_CASE" /\ deadline' = "none"
    /\ UNCHANGED <<toPerson, keypad, prompts, owed, pulses>>

\* An open the lane did not vend: told to the person on their own leg, and the
\* menu read again (_person_refused).
HandleOpenRefused ==
    /\ Reads("open") /\ from[driver] = "lane"
    /\ toDriver' = "queued" /\ toPerson' = "queued" /\ keypad' = "ignored"
    /\ state' = WaitsAfterMenu /\ deadline' = "none"
    /\ UNCHANGED <<prompts, owed, pulses>>

\* An open, or a refusal that takes a ticket down, whose lane or record raises:
\* what was keyed is gone with the batch, or the case closes with the person told
\* nothing (_authorised).
HandleKeyRaised ==
    /\ Handling("digit") /\ TheCall = operator /\ from[driver] = "lane"
    /\ Head(events).key \in {"open", "other"}
    /\ state \in {"BRIEFING", "WAITING_DIGIT", "HOLDING"}
    /\ keypad = "ignored" => toPerson = "silent"
    /\ \E reply \in LaneRaises : Handled(reply)
    /\ keypad' = "heard"
    /\ \/ UNCHANGED <<state, toDriver, deadline>>
       \/ /\ Head(events).key = "open"
          /\ state' = "CLOSING" /\ toDriver' = "queued" /\ deadline' = "none"
    /\ UNCHANGED <<call, from, keyed, doing, held, ringers, driver, operator,
                   toPerson, legs, prompts, owed, pulses>>

\* An open at a door with its own relay: the record is written, and the pulse
\* runs on a thread of its own.
HandleOpenPulsed ==
    /\ Reads("open") /\ from[driver] = "relay"
    /\ keypad' = "heard" /\ toDriver' = "queued"
    /\ state' = "WAITING_RELAY" /\ deadline' = "set"
    /\ pulses' = pulses \cup {driver}
    /\ UNCHANGED <<toPerson, prompts, owed>>

\* Mutation of PulseSettles: whoever waits for a relay is told of this one.
PulseSettlesForAnyCall(p) ==
    /\ doing = "loop" /\ link = "open" /\ p \in pulses
    /\ pulses' = pulses \ {p}
    /\ IF state = "WAITING_RELAY"
       THEN /\ toPerson' = "queued" /\ owed' = p
            /\ state' = "CLOSING" /\ deadline' = "none"
       ELSE UNCHANGED <<toPerson, owed, state, deadline>>
    /\ UNCHANGED <<ua, keyed, recovery, driver, operator, toDriver, legs, keypad,
                   prompts>>

\* _settle_pulse.  The person is told only if it is this call that waits for it.
PulseSettles(p) ==
    /\ doing = "loop" /\ link = "open" /\ p \in pulses
    /\ pulses' = pulses \ {p}
    /\ IF state = "WAITING_RELAY" /\ driver = p
       THEN /\ toPerson' = "queued" /\ owed' = p
            /\ state' = "CLOSING" /\ deadline' = "none"
       ELSE UNCHANGED <<toPerson, owed, state, deadline>>
    /\ UNCHANGED <<ua, keyed, recovery, driver, operator, toDriver, legs, keypad,
                   prompts>>

----------------------------------------------------------------------------
(* The clock.                                                              *)

Passing == doing = "loop" /\ link = "open"

\* The relay has not answered in nothing_usable_seconds.
RelayLate ==
    /\ Passing /\ state = "WAITING_RELAY"
    /\ toPerson' = "queued" /\ owed' = driver
    /\ state' = "CLOSING" /\ deadline' = "none"
    /\ UNCHANGED <<ua, keyed, recovery, driver, operator, toDriver, legs, keypad,
                   prompts, pulses>>

\* Mutation of StartWaiting: the clock is started for the briefing's menu only.
StartWaitingAfterBriefing ==
    /\ Passing /\ state = "BRIEFING" /\ deadline = "none" /\ toPerson = "silent"
    /\ deadline' = "set"
    /\ UNCHANGED <<ua, keyed, recovery, state, driver, operator, toDriver, toPerson,
                   legs, keypad, prompts, owed, pulses>>

\* After a refused open the person's time starts when the menu has been read.
StartWaiting ==
    /\ Passing /\ state = "WAITING_DIGIT" /\ deadline = "none" /\ toPerson = "silent"
    /\ deadline' = "set"
    /\ UNCHANGED <<ua, keyed, recovery, state, driver, operator, toDriver, toPerson,
                   legs, keypad, prompts, owed, pulses>>

NothingKeyed ==
    /\ Passing /\ state = "WAITING_DIGIT" /\ deadline = "set"
    /\ ApologiseToDriver
    /\ UNCHANGED <<ua, keyed, recovery, driver, operator, toPerson, legs, keypad,
                   prompts, owed, pulses>>

HoldReprompt ==
    /\ Passing /\ state = "HOLDING"
    /\ toDriver' = "queued"
    /\ UNCHANGED <<ua, keyed, recovery, state, driver, operator, toPerson, legs,
                   keypad, prompts, deadline, owed, pulses>>

\* _hangup_all and _end: every call the user agent holds, whoever is on it, and
\* the session with them -- though the socket may fail under it.
EndCase ==
    /\ \E reply \in OpenReplies :
          /\ Sent(reply)
          /\ call' = IF Carried(reply)
                     THEN [c \in Call |-> IF Up(c) THEN "gone" ELSE call[c]]
                     ELSE call
    /\ NoSession
    /\ UNCHANGED <<from, keyed, recovery, pulses>>

StillBeingTold == owed # NoCall /\ operator # NoCall /\ toPerson # "silent"

CloseCase ==
    /\ Passing /\ state = "CLOSING" /\ toDriver = "silent" /\ ~StillBeingTold
    /\ EndCase

----------------------------------------------------------------------------
(* _speak: what is queued on each leg.                                     *)

CanHear(c) == c # NoCall /\ call[c] = "up"

\* The last line queued for a leg has been handed to the user agent...
PlayDriver ==
    /\ Passing /\ toDriver = "queued" /\ CanHear(driver)
    /\ toDriver' = "playing"
    /\ UNCHANGED <<ua, keyed, recovery, state, driver, operator, toPerson, legs,
                   keypad, prompts, deadline, owed, pulses>>

PlayPerson ==
    /\ Passing /\ toPerson = "queued" /\ CanHear(operator)
    /\ toPerson' = "playing"
    /\ UNCHANGED <<ua, keyed, recovery, state, driver, operator, toDriver, legs,
                   keypad, prompts, deadline, owed, pulses>>

\* ... and is over.
SaidToDriver ==
    /\ toDriver = "playing" /\ toDriver' = "silent"
    /\ UNCHANGED <<ua, keyed, recovery, state, driver, operator, toPerson, legs,
                   keypad, prompts, deadline, owed, pulses>>

SaidToPerson ==
    /\ toPerson = "playing" /\ toPerson' = "silent"
    /\ UNCHANGED <<ua, keyed, recovery, state, driver, operator, toDriver, legs,
                   keypad, prompts, deadline, owed, pulses>>

\* Mutation of OverdueToDriver: the line is dropped and the case goes on.
OverdueToDriverDropped ==
    /\ Passing /\ toDriver = "queued"
    /\ toDriver' = "silent"
    /\ UNCHANGED <<ua, keyed, recovery, state, driver, operator, toPerson, legs,
                   keypad, prompts, deadline, owed, pulses>>

\* A line has been due for line_timeout_seconds: the leg's media never came up,
\* or every file was refused.  The case still goes to a person; anything else
\* that cannot be said ends it.
OverdueToDriver ==
    /\ Passing /\ toDriver = "queued"
    /\ CASE state = "SPEAKING_CASE" ->
              /\ CallPerson("silent")
              /\ UNCHANGED <<keyed, recovery, driver, toPerson, legs, keypad,
                             prompts, owed, pulses>>
         [] state = "CALLING_HUMAN" ->
              /\ toDriver' = "silent"
              /\ UNCHANGED <<ua, keyed, recovery, state, driver, operator, toPerson,
                             legs, keypad, prompts, deadline, owed, pulses>>
         [] OTHER -> EndCase

OverdueToPerson == Passing /\ toPerson = "queued" /\ EndCase

----------------------------------------------------------------------------
(* A leg that closes.                                                      *)

\* Mutation of HandleDriverClosed: the person is left on the line.
HandleDriverClosedAlone ==
    /\ Handling("closed") /\ TheCall = driver /\ HandledQuietly /\ NoSession

\* The driver hung up: the person's leg goes with the case.  Its hangup is not
\* caught.
HandleDriverClosed ==
    /\ Handling("closed") /\ TheCall = driver
    /\ IF operator = NoCall
       THEN /\ NoSession /\ events' = Tail(events)
            /\ UNCHANGED <<call, link, breaks, strays>>
       ELSE \E reply \in Replies(operator) :
              /\ call' = IF Carried(reply) THEN Ended(operator) ELSE call
              /\ Handled(reply)
              /\ IF reply = "ok" THEN NoSession ELSE UNCHANGED session
    /\ UNCHANGED <<from, keyed, doing, held, ringers, pulses>>

\* The person hung up, or never answered: nothing left for that leg can be said.
HandlePersonClosed ==
    /\ Handling("closed") /\ TheCall = operator /\ HandledQuietly
    /\ operator' = NoCall
    /\ toPerson' = IF toPerson = "silent" THEN "silent" ELSE "playing"
    /\ IF state \in {"BRIEFING", "WAITING_DIGIT"}
       THEN ApologiseToDriver
       ELSE UNCHANGED <<toDriver, state, deadline>>
    /\ UNCHANGED <<driver, legs, keypad, prompts, owed>>

HandleOtherClosed ==
    /\ Handling("closed") /\ TheCall \notin {driver, operator} /\ HandledQuietly
    /\ UNCHANGED session

----------------------------------------------------------------------------
(* The socket comes back, and a process restarts.                          *)

\* reconnect(): the socket is open again and what was said before is forgotten.
Reopen ==
    /\ doing = "loop" /\ link = "lost"
    /\ link' = "open" /\ doing' = "asking"
    /\ UNCHANGED <<call, from, events, breaks, keyed, held, ringers, strays,
                   session, pulses>>

\* listcalls.  Nothing held: there is nothing to do.  Otherwise the case there
\* was is over, and each call is dealt with.
Enumerate ==
    /\ doing = "asking"
    /\ \E reply \in OpenReplies :
          /\ Sent(reply)
          /\ IF reply = "ok" /\ HeldCalls # {}
             THEN /\ NoSession /\ doing' = "recovering"
                  /\ held' = HeldCalls /\ strays' = {}
                  /\ ringers' = {c \in HeldCalls : call[c] = "ringing"}
             ELSE /\ doing' = "loop"
                  /\ strays' = IF reply = "ok" THEN {} ELSE strays
                  /\ UNCHANGED <<held, ringers, session>>
    /\ UNCHANGED <<call, from, keyed, pulses>>

\* Mutation of RecoverCall: a call still ringing is nobody's.
RecoverCallIfAnswered(c) ==
    /\ doing = "recovering" /\ c \in held
    /\ \E reply \in IF c \in ringers THEN {"ok"} ELSE Replies(c) :
          /\ call' = IF c \notin ringers /\ Carried(reply) THEN Ended(c) ELSE call
          /\ Sent(reply)
          /\ IF reply = "ok" /\ held # {c}
             THEN held' = held \ {c} /\ UNCHANGED <<doing, strays>>
             ELSE /\ held' = {} /\ doing' = "loop"
                  /\ strays' = strays \cup (held \ {c})
    /\ ringers' = IF held' = {} THEN {} ELSE ringers
    /\ UNCHANGED <<from, keyed, session, pulses>>

\* One of them: still ringing, it is answered by the rule of any new call; else
\* it is released.  A command that fails leaves the ones not yet dealt with.
RecoverCall(c) ==
    /\ doing = "recovering" /\ c \in held
    /\ \E reply \in IF c \in ringers THEN Answers(c) ELSE Replies(c) :
          /\ IF c \in ringers
             THEN Incoming(c, reply)
             ELSE /\ call' = IF Carried(reply) THEN Ended(c) ELSE call
                  /\ UNCHANGED session
          /\ Sent(reply)
          /\ IF reply = "ok" /\ held # {c}
             THEN held' = held \ {c} /\ UNCHANGED <<doing, strays>>
             ELSE /\ held' = {} /\ doing' = "loop"
                  /\ strays' = strays \cup (held \ {c})
    /\ ringers' = IF held' = {} THEN {} ELSE ringers
    /\ UNCHANGED <<from, keyed, pulses>>

\* The agent's process dies and is started again: no session, and every call
\* the user agent is still holding is hung up -- those it can.
AgentRestarts ==
    /\ MayBreak /\ doing = "loop"
    /\ NoSession /\ pulses' = {} /\ strays' = {} /\ events' = <<>>
    /\ breaks' = breaks + 1
    /\ \E kept \in SUBSET HeldCalls :
          /\ link' = IF kept = {} THEN "open" ELSE "lost"
          /\ call' = [c \in Call |->
                        IF Up(c) /\ c \notin kept THEN "gone" ELSE call[c]]
    /\ UNCHANGED <<from, keyed, doing, held, ringers>>

----------------------------------------------------------------------------
World ==
    \/ \E c \in Call : \E who \in Doors[c] : Ring(c, who)
    \/ \E c \in Call : PickUp(c)
    \/ \E c \in Call : Close(c)
    \/ \E c \in Call, key \in Key : Press(c, key)
    \/ LoseLink
    \/ UaRestarts
    \/ AgentRestarts

Handle ==
    \/ HandleIncoming \/ HandleEstablished
    \/ HandleDriverClosed \/ HandlePersonClosed \/ HandleOtherClosed
    \/ HandleDigitDropped \/ HandleUnknown \/ HandleOther \/ HandleHold
    \/ HandleOpenSaid \/ HandleOpenRefused \/ HandleOpenPulsed \/ HandleKeyRaised

Recover == Reopen \/ Enumerate \/ \E c \in Call : RecoverCall(c)

Advance ==
    \/ PlayDriver \/ PlayPerson \/ SaidToDriver \/ SaidToPerson
    \/ OverdueToDriver \/ OverdueToPerson
    \/ Dial \/ NoAnswer \/ Bridge \/ StartWaiting \/ NothingKeyed \/ HoldReprompt
    \/ RelayLate \/ CloseCase
    \/ \E p \in Call : PulseSettles(p)

Next == World \/ Handle \/ Recover \/ Advance

Spec == Init /\ [][Next]_vars

\* The loop runs five times a second and every wait in it has an end: what was
\* said is handled, a lost socket is retried, a line is played or given up, and
\* a deadline passes.  Nothing is assumed of the callers, of the people or of
\* the order the loop and a relay's thread come in.
Fairness ==
    /\ WF_vars(Handle) /\ WF_vars(Recover)
    /\ WF_vars(PlayDriver \/ OverdueToDriver) /\ WF_vars(SaidToDriver)
    /\ WF_vars(PlayPerson \/ OverdueToPerson) /\ WF_vars(SaidToPerson)
    /\ WF_vars(Dial) /\ WF_vars(NoAnswer) /\ WF_vars(Bridge)
    /\ WF_vars(StartWaiting) /\ WF_vars(NothingKeyed) /\ WF_vars(HoldReprompt)
    /\ WF_vars(RelayLate) /\ WF_vars(CloseCase)

FairSpec == Spec /\ Fairness
----------------------------------------------------------------------------
(* Properties.                                                             *)

\* Every call that is up, or that the agent is dialling, belongs to the case in
\* progress, or is one a recovery is dealing with or was told of and left.  The
\* user agent's conference joins every call it has, so this is who a bridge can
\* put a driver in touch with (_incoming, _handle, _hangup_all, _reconnect).
LegsBelongToTheCase ==
    link = "open" /\ doing # "asking" =>
        \A c \in Call : call[c] \in {"up", "dialling"} =>
            c \in {driver, operator} \cup held \cup strays

\* The outcome a person is told is that of the open keyed in this call, never
\* that of a relay pulse an earlier call left running (_settle_pulse).
OutcomeIsThisCalls == owed \in {NoCall, driver}

\* What makes the two hold at every step (DialogueProofs).  What was said is
\* about calls there are, and a call said to be closed is gone.
NewsIsTrue(said, calls) ==
    \A i \in 1..Len(said) :
        /\ calls[said[i].call] # "unused"
        /\ said[i].kind = "closed" => calls[said[i].call] = "gone"

\* A recovery holds calls only while it runs, and runs on an open socket.
RecoveryIsOpen ==
    /\ doing # "recovering" => held = {}
    /\ doing # "loop" => link = "open"
    /\ \A c \in held : call[c] # "unused"

\* A session has a driver, and a person only once one was dialled.
CaseShape ==
    /\ state = "IDLE" <=> driver = NoCall
    /\ state \in {"IDLE", "SPEAKING_CASE"} => operator = NoCall
    /\ driver # NoCall => call[driver] # "unused"
    /\ operator # NoCall => call[operator] # "unused"

\* The inductive invariant of the call (_handle, _incoming, _end, _reconnect).
DialogueInv ==
    /\ NewsIsTrue(events, call) /\ RecoveryIsOpen /\ CaseShape
    /\ LegsBelongToTheCase /\ OutcomeIsThisCalls

\* The person being rung is gone and the agent will not be told.
\* The hangup of a call that is gone is refused, on every pass, and the refusal is
\* caught by nothing between it and the loop (_human_unreachable).
PersonLost ==
    /\ state = "CALLING_HUMAN" /\ operator # NoCall /\ call[operator] = "gone"
    /\ \A i \in 1..Len(events) : events[i].call # operator

\* With that one exception a case ends with its driver: in whatever state the leg
\* goes, through lost sockets, restarts, refusals and exceptions (_handle,
\* _line_overdue, _reconnect).
NoCaseOutlivesItsDriver ==
    (driver # NoCall /\ call[driver] = "gone") ~> (driver = NoCall \/ PersonLost)

\* A call that rang in a batch that was dropped, or was left by a recovery one of
\* whose commands was refused: nothing asks for it again until the socket goes.
RingsUnheard(c) == c \in strays /\ link = "open" /\ doing = "loop"

\* Nobody else is left ringing: every call that arrives, also at a lost socket, is
\* answered or released (_incoming, _reconnect, _release_leftover_calls).
NobodyLeftRinging ==
    \A c \in Call : call[c] = "ringing" ~> (call[c] # "ringing" \/ RingsUnheard(c))

\* Every case ends, or is one a person put on hold, or has lost its person
\* (_advance, _hangup_all).
CaseEnds ==
    state \notin {"IDLE", "HOLDING"} ~> (state \in {"IDLE", "HOLDING"} \/ PersonLost)

\* What the rest of the agent may take for granted about a case (CallPhases).
phase ==
    CASE state = "IDLE" -> "none"
      [] state = "SPEAKING_CASE" -> "case"
      [] state = "CALLING_HUMAN" -> "ringing"
      [] state = "CLOSING" -> "closing"
      [] OTHER -> "talking"

Phases == INSTANCE CallPhases WITH Caller <- Call, caller <- driver, person <- operator

KeepsCallPhases == Phases!Spec
=============================================================================
