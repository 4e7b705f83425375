---------------------------- MODULE DialogueProofs ----------------------------
(***************************************************************************)
(* Theorems about a call: Dialogue, for every value of its constants, and  *)
(* Reading, what it tells its driver: for every bound on the age, every    *)
(* offset of the two clocks, every fee and every currency.                 *)
(***************************************************************************)
EXTENDS Dialogue, Reading, TLAPS

----------------------------------------------------------------------------
(* The user agent's half of a step: what was said, the socket, the calls.   *)

\* The event at the head is one, and its call is one.
LEMMA HeadIsNews ==
    ASSUME events \in Seq(Event), events # <<>>
    PROVE  Head(events) \in Event /\ TheCall \in Call
  <1>1. Head(events) \in Event
    OBVIOUS
  <1> QED
    BY <1>1 DEF Event, TheCall

\* A command leaves the socket and the events well typed.
LEMMA SentTypes ==
    ASSUME UaTypeOK, NEW reply, Sent(reply)
    PROVE  events' \in Seq(Event) /\ link' \in {"open", "lost"} /\ breaks' \in Nat
  <1>1. <<>> \in Seq(Event)
    OBVIOUS
  <1> QED
    BY <1>1 DEF UaTypeOK, Sent, LinkAfter

LEMMA HandledTypes ==
    ASSUME UaTypeOK, NEW reply, Handled(reply), events # <<>>
    PROVE  events' \in Seq(Event) /\ link' \in {"open", "lost"} /\ breaks' \in Nat
  <1>1. <<>> \in Seq(Event) /\ Tail(events) \in Seq(Event)
    BY DEF UaTypeOK
  <1>2. \A k \in 1..Len(events) : SubSeq(events, k + 1, Len(events)) \in Seq(Event)
    BY DEF UaTypeOK
  <1>3. events' \in Seq(Event)
    BY <1>1, <1>2 DEF Handled
  <1> QED
    BY <1>3 DEF Handled, LinkAfter, UaTypeOK

\* It leaves the calls of a batch that is dropped, and takes back none.
LEMMA HandledStrays ==
    ASSUME NEW reply, Handled(reply)
    PROVE  /\ strays \subseteq strays'
           /\ strays \subseteq Call => strays' \subseteq Call
  BY DEF Handled, RingingIn

LEMMA SaidTypes ==
    ASSUME UaTypeOK, NEW e \in Event, Said(e)
    PROVE  events' \in Seq(Event)
  BY DEF UaTypeOK, Said

LEMMA EndedTypes ==
    ASSUME call \in Calls, NEW c \in Call
    PROVE  /\ Ended(c) \in Calls
           /\ [call EXCEPT ![c] = "gone"] \in Calls
           /\ [call EXCEPT ![c] = "up"] \in Calls
           /\ [call EXCEPT ![c] = "dialling"] \in Calls
           /\ [call EXCEPT ![c] = "ringing"] \in Calls
           /\ \A kept : [d \in Call |-> IF Up(d) /\ d \notin kept THEN "gone"
                                        ELSE call[d]] \in Calls
           /\ [d \in Call |-> IF Up(d) THEN "gone" ELSE call[d]] \in Calls
  BY DEF Calls, Ended

LEMMA NoSessionTypes == NoSession => SessionTypeOK'
  BY DialogueAssumption DEF NoSession, SessionTypeOK, Stage, Speech

----------------------------------------------------------------------------
(* Types.                                                                   *)

LEMMA InitTypes == Init => TypeOK
  <1>1. <<>> \in Seq(Event)
    OBVIOUS
  <1> QED
    BY <1>1, DialogueAssumption
       DEF Init, TypeOK, UaTypeOK, RecoveryTypeOK, SessionTypeOK, Calls, Stage, Speech

LEMMA StutterTypes == TypeOK /\ UNCHANGED vars => TypeOK'
  BY DEF TypeOK, UaTypeOK, RecoveryTypeOK, SessionTypeOK, vars, ua, recovery, session

\* A call that is answered begins a session.
LEMMA BeginsTypes ==
    ASSUME SessionTypeOK, NEW c \in Call, Begins(c)
    PROVE  SessionTypeOK'
  BY DEF Begins, SessionTypeOK, Stage, Speech

LEMMA IncomingTypes ==
    ASSUME SessionTypeOK, call \in Calls, NEW c \in Call, NEW reply, Incoming(c, reply)
    PROVE  SessionTypeOK' /\ call' \in Calls
  <1>1. CASE state # "IDLE" \/ from[c] = "stranger"
    <2>1. call' \in Calls
      BY <1>1, EndedTypes DEF Incoming
    <2>2. UNCHANGED session
      BY <1>1 DEF Incoming
    <2> QED
      BY <2>1, <2>2 DEF session, SessionTypeOK
  <1>2. CASE ~(state # "IDLE" \/ from[c] = "stranger")
    <2>1. call' \in Calls
      BY <1>2, EndedTypes DEF Incoming
    <2>2. SessionTypeOK'
      <3>1. CASE reply = "ok"
        BY <1>2, <3>1, BeginsTypes DEF Incoming
      <3>2. CASE reply = "raised"
        BY <1>2, <3>2 DEF Incoming, BeginsSilent, SessionTypeOK, Stage
      <3>3. CASE reply \notin {"ok", "raised"}
        BY <1>2, <3>3 DEF Incoming, session, SessionTypeOK
      <3> QED
        BY <3>1, <3>2, <3>3
    <2> QED
      BY <2>1, <2>2
  <1> QED
    BY <1>1, <1>2

LEMMA WorldTypes == TypeOK /\ World => TypeOK'
  <1> SUFFICES ASSUME TypeOK, World PROVE TypeOK'
    OBVIOUS
  <1> USE DEF TypeOK
  <1>1. ASSUME NEW c \in Call, NEW who \in Doors[c], Ring(c, who) PROVE TypeOK'
    <2>0. who \in {"lane", "relay", "stranger"}
      BY DialogueAssumption DEF Call
    <2>1. [kind |-> "incoming", call |-> c] \in Event
      BY DEF Event
    <2>2. events' \in Seq(Event) /\ call' \in Calls
      BY <1>1, <2>1, SaidTypes, EndedTypes DEF Ring, UaTypeOK
    <2> QED
      BY <1>1, <2>0, <2>2
         DEF Ring, UaTypeOK, RecoveryTypeOK, SessionTypeOK, recovery, session
  <1>2. ASSUME NEW c \in Call, PickUp(c) PROVE TypeOK'
    <2>1. [kind |-> "established", call |-> c] \in Event
      BY DEF Event
    <2>2. events' \in Seq(Event) /\ call' \in Calls
      BY <1>2, <2>1, SaidTypes, EndedTypes DEF PickUp, UaTypeOK
    <2> QED
      BY <1>2, <2>2
         DEF PickUp, UaTypeOK, RecoveryTypeOK, SessionTypeOK, recovery, session
  <1>3. ASSUME NEW c \in Call, Close(c) PROVE TypeOK'
    <2>1. [kind |-> "closed", call |-> c] \in Event
      BY DEF Event
    <2>2. events' \in Seq(Event) /\ call' \in Calls
      BY <1>3, <2>1, SaidTypes, EndedTypes DEF Close, UaTypeOK
    <2> QED
      BY <1>3, <2>2
         DEF Close, UaTypeOK, RecoveryTypeOK, SessionTypeOK, recovery, session
  <1>4. ASSUME NEW c \in Call, NEW key \in Key, Press(c, key) PROVE TypeOK'
    <2>1. [kind |-> "digit", call |-> c, key |-> key] \in Event
      BY DEF Event
    <2>2. events' \in Seq(Event)
      BY <1>4, <2>1, SaidTypes DEF Press
    <2> QED
      BY <1>4, <2>2
         DEF Press, UaTypeOK, RecoveryTypeOK, SessionTypeOK, recovery, session
  <1>5. CASE LoseLink
    BY <1>5 DEF LoseLink, UaTypeOK, RecoveryTypeOK, SessionTypeOK, recovery, session
  <1>6. CASE UaRestarts
    <2>1. call' \in Calls
      BY <1>6 DEF UaRestarts, UaTypeOK, Calls
    <2> QED
      BY <1>6, <2>1
         DEF UaRestarts, UaTypeOK, RecoveryTypeOK, SessionTypeOK, recovery, session
  <1>7. CASE AgentRestarts
    <2>1. call' \in Calls /\ link' \in {"open", "lost"}
      BY <1>7, EndedTypes DEF AgentRestarts, UaTypeOK, Calls
    <2>2. SessionTypeOK'
      BY <1>7, NoSessionTypes DEF AgentRestarts
    <2> QED
      BY <1>7, <2>1, <2>2 DEF AgentRestarts, UaTypeOK, RecoveryTypeOK
  <1> QED
    BY <1>1, <1>2, <1>3, <1>4, <1>5, <1>6, <1>7 DEF World

\* A handler that sends nothing leaves the user agent's half well typed.
LEMMA TailTypes ==
    ASSUME UaTypeOK, events # <<>>, events' = Tail(events),
           UNCHANGED <<call, from, link, breaks, keyed>>
    PROVE  UaTypeOK'
  <1>1. Tail(events) \in Seq(Event)
    BY DEF UaTypeOK
  <1> QED
    BY <1>1 DEF UaTypeOK

LEMMA QuietTypes ==
    ASSUME TypeOK, events # <<>>, HandledQuietly
    PROVE  UaTypeOK' /\ RecoveryTypeOK' /\ pulses' \subseteq Call
  BY TailTypes DEF HandledQuietly, TypeOK, RecoveryTypeOK, recovery

\* A session has a driver.
HasDriver == state # "IDLE" => driver # NoCall

LEMMA ReadsTypes ==
    ASSUME TypeOK, HasDriver, NEW key, Reads(key)
    PROVE  /\ UaTypeOK' /\ RecoveryTypeOK'
           /\ driver' \in Call /\ driver' = driver
           /\ operator' \in Call \cup {NoCall} /\ legs' \in {"apart", "joined"}
           /\ WaitsAfterMenu \in Stage
  <1>1. events # <<>> /\ UNCHANGED <<call, from, link, breaks, keyed, recovery,
                                     driver, operator, legs>>
    BY DEF Reads, Handling
  <1> QED
    BY <1>1, TailTypes DEF Reads, TypeOK, RecoveryTypeOK, recovery, SessionTypeOK,
       WaitsAfterMenu, Stage, HasDriver

LEMMA HandleTypes == TypeOK /\ HasDriver /\ Handle => TypeOK'
  <1> SUFFICES ASSUME TypeOK, HasDriver, Handle PROVE TypeOK'
    OBVIOUS
  <1> USE DEF TypeOK
  <1>1. CASE HandleIncoming
    <2>1. events # <<>> /\ TheCall \in Call
      BY <1>1, HeadIsNews DEF HandleIncoming, Handling, UaTypeOK
    <2>2. PICK reply \in Answers(TheCall) : Incoming(TheCall, reply) /\ Handled(reply)
      BY <1>1 DEF HandleIncoming
    <2>3. SessionTypeOK' /\ call' \in Calls
      BY <2>1, <2>2, IncomingTypes DEF UaTypeOK
    <2>4. events' \in Seq(Event) /\ link' \in {"open", "lost"} /\ breaks' \in Nat
      BY <2>1, <2>2, HandledTypes
    <2>5. strays' \subseteq Call
      BY <2>2, HandledStrays DEF RecoveryTypeOK
    <2> QED
      BY <1>1, <2>3, <2>4, <2>5 DEF HandleIncoming, UaTypeOK, RecoveryTypeOK
  <1>2. CASE HandleEstablished
    <2>1. UaTypeOK' /\ RecoveryTypeOK' /\ pulses' \subseteq Call
      BY <1>2, QuietTypes DEF HandleEstablished, Handling
    <2> QED
      BY <1>2, <2>1 DEF HandleEstablished, SessionTypeOK, session, Stage, Speech
  <1>3. CASE HandleDriverClosed
    <2>1. events # <<>>
      BY <1>3 DEF HandleDriverClosed, Handling
    <2>2. CASE operator = NoCall
      <3>1. NoSession /\ events' = Tail(events)
            /\ UNCHANGED <<call, from, link, breaks, keyed, recovery, pulses>>
        BY <1>3, <2>2 DEF HandleDriverClosed, recovery
      <3> QED
        BY <2>1, <3>1, TailTypes, NoSessionTypes DEF RecoveryTypeOK, recovery
    <2>3. CASE operator # NoCall
      <3>1. operator \in Call
        BY <2>3 DEF SessionTypeOK
      <3>2. PICK reply \in Replies(operator) :
                /\ call' = IF Carried(reply) THEN Ended(operator) ELSE call
                /\ Handled(reply)
                /\ IF reply = "ok" THEN NoSession ELSE UNCHANGED session
        BY <1>3, <2>3 DEF HandleDriverClosed
      <3>3. events' \in Seq(Event) /\ link' \in {"open", "lost"} /\ breaks' \in Nat
        BY <2>1, <3>2, HandledTypes
      <3>4. call' \in Calls
        BY <3>1, <3>2, EndedTypes DEF UaTypeOK
      <3>5. SessionTypeOK'
        BY <3>2, NoSessionTypes DEF session, SessionTypeOK
      <3>6. strays' \subseteq Call
        BY <3>2, HandledStrays DEF RecoveryTypeOK
      <3> QED
        BY <1>3, <3>3, <3>4, <3>5, <3>6
           DEF HandleDriverClosed, UaTypeOK, RecoveryTypeOK
    <2> QED
      BY <2>2, <2>3
  <1>4. CASE HandlePersonClosed
    <2>1. UaTypeOK' /\ RecoveryTypeOK' /\ pulses' \subseteq Call
      BY <1>4, QuietTypes DEF HandlePersonClosed, Handling
    <2> QED
      BY <1>4, <2>1
         DEF HandlePersonClosed, ApologiseToDriver, SessionTypeOK, Stage, Speech
  <1>5. CASE HandleOtherClosed \/ HandleDigitDropped
    <2>1. UaTypeOK' /\ RecoveryTypeOK' /\ pulses' \subseteq Call
      BY <1>5, QuietTypes DEF HandleOtherClosed, HandleDigitDropped, Handling
    <2> QED
      BY <1>5, <2>1 DEF HandleOtherClosed, HandleDigitDropped, SessionTypeOK, session
  <1>6. CASE HandleUnknown
    <2>1. /\ UaTypeOK' /\ RecoveryTypeOK' /\ driver' \in Call \cup {NoCall}
          /\ operator' \in Call \cup {NoCall} /\ legs' \in {"apart", "joined"}
          /\ WaitsAfterMenu \in Stage
      BY <1>6, ReadsTypes DEF HandleUnknown
    <2> QED
      BY <1>6, <2>1 DEF HandleUnknown, ApologiseToDriver, SessionTypeOK, Stage, Speech
  <1>7. CASE HandleOther \/ HandleHold \/ HandleOpenSaid \/ HandleOpenRefused
              \/ HandleOpenPulsed
    <2>1. PICK key \in {"other", "hold", "open"} : Reads(key)
      BY <1>7 DEF HandleOther, HandleHold, HandleOpenSaid, HandleOpenRefused,
                  HandleOpenPulsed
    <2>2. /\ UaTypeOK' /\ RecoveryTypeOK' /\ driver' \in Call /\ driver' = driver
          /\ operator' \in Call \cup {NoCall} /\ legs' \in {"apart", "joined"}
          /\ WaitsAfterMenu \in Stage
      BY <2>1, ReadsTypes
    <2>3. CASE HandleOther
      BY <2>2, <2>3 DEF HandleOther, SessionTypeOK, Stage, Speech
    <2>4. CASE HandleHold
      BY <2>2, <2>4, DialogueAssumption DEF HandleHold, SessionTypeOK, Stage, Speech
    <2>5. CASE HandleOpenSaid
      BY <2>2, <2>5 DEF HandleOpenSaid, SessionTypeOK, Stage, Speech
    <2>6. CASE HandleOpenRefused
      BY <2>2, <2>6 DEF HandleOpenRefused, SessionTypeOK, Stage, Speech
    <2>7. CASE HandleOpenPulsed
      BY <2>2, <2>7 DEF HandleOpenPulsed, SessionTypeOK, Stage, Speech
    <2> QED
      BY <1>7, <2>3, <2>4, <2>5, <2>6, <2>7
  <1>8. CASE HandleKeyRaised
    <2>1. events # <<>>
      BY <1>8 DEF HandleKeyRaised, Handling
    <2>2. PICK reply \in LaneRaises : Handled(reply)
      BY <1>8 DEF HandleKeyRaised
    <2>3. events' \in Seq(Event) /\ link' \in {"open", "lost"} /\ breaks' \in Nat
      BY <2>1, <2>2, HandledTypes
    <2>4. strays' \subseteq Call
      BY <2>2, HandledStrays DEF RecoveryTypeOK
    <2> QED
      BY <1>8, <2>3, <2>4 DEF HandleKeyRaised, UaTypeOK, RecoveryTypeOK, SessionTypeOK,
         Stage, Speech
  <1> QED
    BY <1>1, <1>2, <1>3, <1>4, <1>5, <1>6, <1>7, <1>8 DEF Handle

LEMMA RecoverTypes == TypeOK /\ Recover => TypeOK'
  <1> SUFFICES ASSUME TypeOK, Recover PROVE TypeOK'
    OBVIOUS
  <1> USE DEF TypeOK
  <1>1. CASE Reopen
    BY <1>1 DEF Reopen, UaTypeOK, RecoveryTypeOK, SessionTypeOK, session
  <1>2. CASE Enumerate
    <2>1. PICK reply \in OpenReplies :
            /\ Sent(reply)
            /\ IF reply = "ok" /\ HeldCalls # {}
               THEN /\ NoSession /\ doing' = "recovering"
                    /\ held' = HeldCalls /\ strays' = {}
                    /\ ringers' = {c \in HeldCalls : call[c] = "ringing"}
               ELSE /\ doing' = "loop"
                    /\ strays' = IF reply = "ok" THEN {} ELSE strays
                    /\ UNCHANGED <<held, ringers, session>>
      BY <1>2 DEF Enumerate
    <2>2. events' \in Seq(Event) /\ link' \in {"open", "lost"} /\ breaks' \in Nat
      BY <2>1, SentTypes
    <2>3. SessionTypeOK'
      BY <2>1, NoSessionTypes DEF SessionTypeOK, session
    <2>4. RecoveryTypeOK'
      BY <2>1 DEF RecoveryTypeOK, HeldCalls
    <2> QED
      BY <1>2, <2>2, <2>3, <2>4 DEF Enumerate, UaTypeOK
  <1>3. ASSUME NEW c \in Call, RecoverCall(c) PROVE TypeOK'
    <2>1. PICK reply \in IF c \in ringers THEN Answers(c) ELSE Replies(c) :
            /\ IF c \in ringers
               THEN Incoming(c, reply)
               ELSE /\ call' = IF Carried(reply) THEN Ended(c) ELSE call
                    /\ UNCHANGED session
            /\ Sent(reply)
            /\ IF reply = "ok" /\ held # {c}
               THEN held' = held \ {c} /\ UNCHANGED <<doing, strays>>
               ELSE /\ held' = {} /\ doing' = "loop"
                    /\ strays' = strays \cup (held \ {c})
      BY <1>3 DEF RecoverCall
    <2>2. events' \in Seq(Event) /\ link' \in {"open", "lost"} /\ breaks' \in Nat
      BY <2>1, SentTypes
    <2>3. SessionTypeOK' /\ call' \in Calls
      <3>1. CASE c \in ringers
        BY <2>1, <3>1, IncomingTypes DEF UaTypeOK
      <3>2. CASE c \notin ringers
        BY <2>1, <3>2, EndedTypes DEF UaTypeOK, SessionTypeOK, session
      <3> QED
        BY <3>1, <3>2
    <2>4. RecoveryTypeOK'
      BY <1>3, <2>1 DEF RecoveryTypeOK, RecoverCall
    <2> QED
      BY <1>3, <2>2, <2>3, <2>4 DEF RecoverCall, UaTypeOK
  <1> QED
    BY <1>1, <1>2, <1>3 DEF Recover

\* Ringing the person, whether it succeeds or not.
LEMMA CallPersonTypes ==
    ASSUME TypeOK, NEW rest \in Speech, CallPerson(rest),
           UNCHANGED <<keyed, recovery, driver, toPerson, legs, keypad, prompts,
                       owed, pulses>>
    PROVE  TypeOK'
  <1> USE DEF TypeOK
  <1>1. ASSUME NEW c \in Call, NEW reply \in OpenReplies,
               call' = [call EXCEPT ![c] = "dialling"],
               from' = [from EXCEPT ![c] = "person"],
               Sent(reply),
               IF reply = "ok"
               THEN /\ operator' = c /\ state' = "CALLING_HUMAN" /\ deadline' = "set"
                    /\ toDriver' = rest
               ELSE ApologiseToDriver /\ UNCHANGED operator
        PROVE  TypeOK'
    <2>1. call' \in Calls
      BY <1>1, EndedTypes DEF UaTypeOK
    <2>2. events' \in Seq(Event) /\ link' \in {"open", "lost"} /\ breaks' \in Nat
      BY <1>1, SentTypes
    <2>3. UaTypeOK'
      BY <1>1, <2>1, <2>2 DEF UaTypeOK
    <2>4. SessionTypeOK'
      BY <1>1 DEF SessionTypeOK, ApologiseToDriver, Stage, Speech
    <2> QED
      BY <2>3, <2>4 DEF RecoveryTypeOK, recovery
  <1>2. ASSUME NEW reply, Sent(reply), ApologiseToDriver, UNCHANGED <<call, from, operator>>
        PROVE  TypeOK'
    <2>1. events' \in Seq(Event) /\ link' \in {"open", "lost"} /\ breaks' \in Nat
      BY <1>2, SentTypes
    <2>2. UaTypeOK'
      BY <1>2, <2>1 DEF UaTypeOK
    <2>3. SessionTypeOK'
      BY <1>2 DEF SessionTypeOK, ApologiseToDriver, Stage, Speech
    <2> QED
      BY <2>2, <2>3 DEF RecoveryTypeOK, recovery
  <1> QED
    BY <1>1, <1>2 DEF CallPerson

LEMMA EndCaseTypes == TypeOK /\ EndCase => TypeOK'
  <1> SUFFICES ASSUME TypeOK, EndCase PROVE TypeOK'
    OBVIOUS
  <1> USE DEF TypeOK
  <1>1. PICK reply \in OpenReplies :
          /\ Sent(reply)
          /\ call' = IF Carried(reply)
                     THEN [c \in Call |-> IF Up(c) THEN "gone" ELSE call[c]]
                     ELSE call
    BY DEF EndCase
  <1>2. events' \in Seq(Event) /\ link' \in {"open", "lost"} /\ breaks' \in Nat
    BY <1>1, SentTypes
  <1>3. call' \in Calls
    BY <1>1, EndedTypes DEF UaTypeOK, Calls
  <1> QED
    BY <1>2, <1>3, NoSessionTypes DEF EndCase, UaTypeOK, RecoveryTypeOK, recovery

LEMMA AdvanceTypes == TypeOK /\ HasDriver /\ Advance => TypeOK'
  <1> SUFFICES ASSUME TypeOK, HasDriver, Advance PROVE TypeOK'
    OBVIOUS
  <1> USE DEF TypeOK
  <1>1. CASE PlayDriver \/ PlayPerson \/ SaidToDriver \/ SaidToPerson
             \/ StartWaiting \/ NothingKeyed \/ HoldReprompt \/ RelayLate
    BY <1>1 DEF PlayDriver, PlayPerson, SaidToDriver, SaidToPerson, StartWaiting,
         NothingKeyed, HoldReprompt, RelayLate, ApologiseToDriver, UaTypeOK,
         RecoveryTypeOK, SessionTypeOK, Stage, Speech, ua, recovery
  <1>2. CASE OverdueToDriver
    <2>1. CASE state = "SPEAKING_CASE"
      BY <1>2, <2>1, CallPersonTypes DEF OverdueToDriver, Speech
    <2>2. CASE state = "CALLING_HUMAN"
      BY <1>2, <2>2 DEF OverdueToDriver, UaTypeOK, RecoveryTypeOK, SessionTypeOK,
           Speech, ua, recovery
    <2>3. CASE state # "SPEAKING_CASE" /\ state # "CALLING_HUMAN"
      BY <1>2, <2>3, EndCaseTypes DEF OverdueToDriver
    <2> QED
      BY <2>1, <2>2, <2>3
  <1>3. CASE OverdueToPerson \/ CloseCase
    BY <1>3, EndCaseTypes DEF OverdueToPerson, CloseCase
  <1>4. CASE Dial
    BY <1>4, CallPersonTypes DEF Dial, Speech
  <1>5. CASE NoAnswer
    <2>1. CASE operator = NoCall
      BY <1>5, <2>1 DEF NoAnswer, ApologiseToDriver, UaTypeOK, RecoveryTypeOK,
           SessionTypeOK, Stage, Speech, recovery
    <2>2. CASE operator # NoCall
      <3>1. operator \in Call
        BY <2>2 DEF SessionTypeOK
      <3>2. PICK reply \in Replies(operator) :
              /\ call' = IF Carried(reply) THEN Ended(operator) ELSE call
              /\ Sent(reply)
              /\ IF reply = "ok" THEN ApologiseToDriver /\ operator' = NoCall
                 ELSE UNCHANGED <<state, operator, toDriver, deadline>>
        BY <1>5, <2>2 DEF NoAnswer
      <3>3. events' \in Seq(Event) /\ link' \in {"open", "lost"} /\ breaks' \in Nat
        BY <3>2, SentTypes
      <3>4. call' \in Calls
        BY <3>1, <3>2, EndedTypes DEF UaTypeOK
      <3>5. UaTypeOK'
        BY <1>5, <3>3, <3>4 DEF NoAnswer, UaTypeOK
      <3>6. SessionTypeOK'
        BY <1>5, <3>2 DEF NoAnswer, ApologiseToDriver, SessionTypeOK, Stage, Speech
      <3> QED
        BY <1>5, <3>5, <3>6 DEF NoAnswer, RecoveryTypeOK, recovery
    <2> QED
      BY <2>1, <2>2
  <1>6. CASE Bridge
    <2>1. PICK reply \in OpenReplies :
            /\ Sent(reply)
            /\ IF reply = "ok"
               THEN legs' = "joined" /\ state' = "WAITING_DIGIT" /\ deadline' = "set"
               ELSE UNCHANGED <<legs, state, deadline>>
      BY <1>6 DEF Bridge
    <2>2. events' \in Seq(Event) /\ link' \in {"open", "lost"} /\ breaks' \in Nat
      BY <2>1, SentTypes
    <2> QED
      BY <1>6, <2>1, <2>2
         DEF Bridge, UaTypeOK, RecoveryTypeOK, SessionTypeOK, Stage, recovery
  <1>7. ASSUME NEW p \in Call, PulseSettles(p) PROVE TypeOK'
    BY <1>7 DEF PulseSettles, UaTypeOK, RecoveryTypeOK, SessionTypeOK, Stage, Speech,
         ua, recovery
  <1> QED
    BY <1>1, <1>2, <1>3, <1>4, <1>5, <1>6, <1>7 DEF Advance

----------------------------------------------------------------------------
(* Calls only begin and end: one that exists goes on existing, and one that  *)
(* is gone is gone for good.                                                 *)

Grows ==
    \A c \in Call : /\ call[c] # "unused" => call'[c] # "unused"
                    /\ call[c] = "gone" => call'[c] = "gone"

LEMMA OneCallGrows ==
    ASSUME call \in Calls, NEW c \in Call
    PROVE  /\ call' = Ended(c) => Grows
           /\ call' = [call EXCEPT ![c] = "gone"] => Grows
           /\ call[c] = "ringing" /\ call' = [call EXCEPT ![c] = "up"] => Grows
           /\ call[c] = "dialling" /\ call' = [call EXCEPT ![c] = "up"] => Grows
           /\ call[c] = "unused" /\ call' = [call EXCEPT ![c] = "ringing"] => Grows
           /\ call[c] = "unused" /\ call' = [call EXCEPT ![c] = "dialling"] => Grows
  BY DEF Calls, Ended, Grows

LEMMA SameCallsGrow == call' = call => Grows
  BY DEF Grows

LEMMA AllEndedGrows ==
    ASSUME NEW kept, call' = [c \in Call |-> IF Up(c) /\ c \notin kept THEN "gone"
                                             ELSE call[c]]
    PROVE  Grows
  BY DEF Grows, Up

LEMMA IncomingGrows ==
    ASSUME call \in Calls, NEW c \in Call, NEW reply, Incoming(c, reply)
    PROVE  Grows
  BY OneCallGrows, SameCallsGrow DEF Incoming

LEMMA CallPersonGrows ==
    ASSUME call \in Calls, NEW rest, CallPerson(rest)
    PROVE  Grows
  BY OneCallGrows, SameCallsGrow DEF CallPerson, Fresh

LEMMA EndCaseGrows ==
    ASSUME EndCase
    PROVE  Grows
  BY SameCallsGrow DEF EndCase, Grows, Up

LEMMA CallsOnlyEnd == TypeOK /\ [Next]_vars => Grows
  <1> SUFFICES ASSUME TypeOK, [Next]_vars PROVE Grows
    OBVIOUS
  <1>0. call \in Calls /\ operator \in Call \cup {NoCall}
    BY DEF TypeOK, UaTypeOK, SessionTypeOK
  <1>1. CASE UNCHANGED vars
    BY <1>1, SameCallsGrow DEF vars, ua
  <1>2. CASE World
    <2>1. ASSUME NEW c \in Call, NEW who \in Doors[c], Ring(c, who) PROVE Grows
      BY <1>0, <2>1, OneCallGrows DEF Ring, Fresh
    <2>2. ASSUME NEW c \in Call, PickUp(c) \/ Close(c) PROVE Grows
      BY <1>0, <2>2, OneCallGrows DEF PickUp, Close
    <2>3. CASE UaRestarts
      BY <2>3 DEF UaRestarts, Grows, Up
    <2>4. CASE AgentRestarts
      BY <2>4, AllEndedGrows DEF AgentRestarts
    <2> QED
      BY <1>2, <2>1, <2>2, <2>3, <2>4, SameCallsGrow DEF World, Press, LoseLink
  <1>3. CASE Handle
    <2>1. CASE HandleIncoming
      <3>1. TheCall \in Call
        BY <2>1, HeadIsNews DEF HandleIncoming, Handling, TypeOK, UaTypeOK
      <3> QED
        BY <1>0, <2>1, <3>1, IncomingGrows DEF HandleIncoming
    <2>2. CASE HandleDriverClosed
      BY <1>0, <2>2, OneCallGrows, SameCallsGrow DEF HandleDriverClosed
    <2>3. CASE HandleKeyRaised
      BY <2>3, SameCallsGrow DEF HandleKeyRaised
    <2> QED
      BY <1>3, <2>1, <2>2, <2>3, SameCallsGrow
         DEF Handle, HandleEstablished, HandlePersonClosed, HandleOtherClosed,
             HandleDigitDropped, HandleUnknown, HandleOther, HandleHold, HandleOpenSaid,
             HandleOpenRefused, HandleOpenPulsed, Reads, HandledQuietly
  <1>4. CASE Recover
    <2>1. ASSUME NEW c \in Call, RecoverCall(c) PROVE Grows
      BY <1>0, <2>1, IncomingGrows, OneCallGrows, SameCallsGrow DEF RecoverCall
    <2> QED
      BY <1>4, <2>1, SameCallsGrow DEF Recover, Reopen, Enumerate
  <1>5. CASE Advance
    <2>1. CASE Dial
      BY <1>0, <2>1, CallPersonGrows DEF Dial
    <2>2. CASE OverdueToDriver
      BY <1>0, <2>2, CallPersonGrows, EndCaseGrows, SameCallsGrow
         DEF OverdueToDriver, ua
    <2>3. CASE OverdueToPerson \/ CloseCase
      BY <2>3, EndCaseGrows DEF OverdueToPerson, CloseCase
    <2>4. CASE NoAnswer
      BY <1>0, <2>4, OneCallGrows, SameCallsGrow DEF NoAnswer
    <2> QED
      BY <1>5, <2>1, <2>2, <2>3, <2>4, SameCallsGrow
         DEF Advance, PlayDriver, PlayPerson, SaidToDriver, SaidToPerson, Bridge,
             StartWaiting, NothingKeyed, HoldReprompt, RelayLate, PulseSettles, ua
  <1> QED
    BY <1>1, <1>2, <1>3, <1>4, <1>5 DEF Next

----------------------------------------------------------------------------
(* What was said stays true.                                                *)

\* As calls only end, news that is true now stays true, whole or in part.
LEMMA NewsKept ==
    ASSUME TypeOK, NewsIsTrue(events, call), Grows
    PROVE  /\ NewsIsTrue(events, call')
           /\ NewsIsTrue(<<>>, call')
           /\ events # <<>> => NewsIsTrue(Tail(events), call')
           /\ \A k \in 1..Len(events) :
                 NewsIsTrue(SubSeq(events, k + 1, Len(events)), call')
  <1> USE DEF NewsIsTrue
  <1>1. events \in Seq(Event)
    BY DEF TypeOK, UaTypeOK
  <1>2. \A i \in 1..Len(events) : events[i].call \in Call
    BY <1>1 DEF Event
  <1>3. NewsIsTrue(events, call')
    BY <1>2 DEF Grows
  <1>4. events # <<>> => NewsIsTrue(Tail(events), call')
    BY <1>1, <1>3
  <1>5. ASSUME NEW k \in 1..Len(events)
        PROVE  NewsIsTrue(SubSeq(events, k + 1, Len(events)), call')
    BY <1>1, <1>3
  <1>6. NewsIsTrue(<<>>, call')
    OBVIOUS
  <1> HIDE DEF NewsIsTrue
  <1> QED
    BY <1>3, <1>4, <1>5, <1>6

LEMMA NewsSaid ==
    ASSUME TypeOK, NewsIsTrue(events, call), Grows, NEW e \in Event, Said(e),
           call'[e.call] # "unused", e.kind = "closed" => call'[e.call] = "gone"
    PROVE  NewsIsTrue(events', call')
  <1>1. events \in Seq(Event) /\ NewsIsTrue(events, call')
    BY NewsKept DEF TypeOK, UaTypeOK
  <1>2. Append(events, e) \in Seq(Event)
        /\ \A i \in 1..Len(Append(events, e)) :
              (i \in 1..Len(events) /\ Append(events, e)[i] = events[i])
              \/ Append(events, e)[i] = e
    BY <1>1
  <1>3. NewsIsTrue(Append(events, e), call')
    BY <1>1, <1>2 DEF NewsIsTrue
  <1> QED
    BY <1>1, <1>3 DEF Said

LEMMA NewsSent ==
    ASSUME TypeOK, NewsIsTrue(events, call), Grows, NEW reply, Sent(reply)
    PROVE  NewsIsTrue(events', call')
  BY NewsKept DEF Sent

LEMMA NewsHandled ==
    ASSUME TypeOK, NewsIsTrue(events, call), Grows, events # <<>>,
           NEW reply, Handled(reply)
    PROVE  NewsIsTrue(events', call')
  BY NewsKept DEF Handled

LEMMA NewsStaysTrue == TypeOK /\ NewsIsTrue(events, call) /\ [Next]_vars => NewsIsTrue(events', call')
  <1> SUFFICES ASSUME TypeOK, NewsIsTrue(events, call), [Next]_vars
               PROVE  NewsIsTrue(events', call')
    OBVIOUS
  <1>0. Grows /\ call \in Calls
    BY CallsOnlyEnd DEF TypeOK, UaTypeOK
  <1>1. CASE UNCHANGED vars
    BY <1>0, <1>1, NewsKept DEF vars, ua
  <1>2. CASE World
    <2>1. ASSUME NEW c \in Call, NEW who \in Doors[c], Ring(c, who) PROVE NewsIsTrue(events', call')
      <3>1. [kind |-> "incoming", call |-> c] \in Event /\ call'[c] = "ringing"
        BY <1>0, <2>1 DEF Event, Ring, Calls
      <3> QED
        BY <1>0, <2>1, <3>1, NewsSaid DEF Ring
    <2>2. ASSUME NEW c \in Call, PickUp(c) PROVE NewsIsTrue(events', call')
      <3>1. [kind |-> "established", call |-> c] \in Event /\ call'[c] = "up"
        BY <1>0, <2>2 DEF Event, PickUp, Calls
      <3> QED
        BY <1>0, <2>2, <3>1, NewsSaid DEF PickUp
    <2>3. ASSUME NEW c \in Call, Close(c) PROVE NewsIsTrue(events', call')
      <3>1. [kind |-> "closed", call |-> c] \in Event /\ call'[c] = "gone"
        BY <1>0, <2>3 DEF Event, Close, Calls
      <3> QED
        BY <1>0, <2>3, <3>1, NewsSaid DEF Close
    <2>4. ASSUME NEW c \in Call, NEW key \in Key, Press(c, key) PROVE NewsIsTrue(events', call')
      <3>1. [kind |-> "digit", call |-> c, key |-> key] \in Event /\ call'[c] = "up"
        BY <2>4 DEF Event, Press
      <3> QED
        BY <1>0, <2>4, <3>1, NewsSaid DEF Press
    <2>5. CASE LoseLink \/ UaRestarts \/ AgentRestarts
      BY <1>0, <2>5, NewsKept DEF LoseLink, UaRestarts, AgentRestarts
    <2> QED
      BY <1>2, <2>1, <2>2, <2>3, <2>4, <2>5 DEF World
  <1>3. CASE Handle
    <2>1. events # <<>>
      BY <1>3 DEF Handle, HandleIncoming, HandleEstablished, HandleDriverClosed,
           HandlePersonClosed, HandleOtherClosed, HandleDigitDropped, HandleUnknown,
           HandleOther, HandleHold, HandleOpenSaid, HandleOpenRefused, HandleOpenPulsed,
           HandleKeyRaised, Reads, Handling
    <2>2. CASE HandleIncoming \/ HandleDriverClosed \/ HandleKeyRaised
      BY <1>0, <2>1, <2>2, NewsHandled, NewsKept
         DEF HandleIncoming, HandleDriverClosed, HandleKeyRaised
    <2> QED
      BY <1>0, <1>3, <2>1, <2>2, NewsKept
         DEF Handle, HandleEstablished, HandlePersonClosed, HandleOtherClosed,
             HandleDigitDropped, HandleUnknown, HandleOther, HandleHold, HandleOpenSaid,
             HandleOpenRefused, HandleOpenPulsed, Reads, HandledQuietly
  <1>4. CASE Recover
    BY <1>0, <1>4, NewsSent, NewsKept DEF Recover, Reopen, Enumerate, RecoverCall
  <1>5. CASE Advance
    <2>1. CASE Dial \/ OverdueToDriver
      BY <1>0, <2>1, NewsSent, NewsKept DEF Dial, OverdueToDriver, CallPerson, EndCase, ua
    <2>2. CASE OverdueToPerson \/ CloseCase \/ NoAnswer \/ Bridge
      BY <1>0, <2>2, NewsSent, NewsKept
         DEF OverdueToPerson, CloseCase, EndCase, NoAnswer, Bridge
    <2> QED
      BY <1>0, <1>5, <2>1, <2>2, NewsKept
         DEF Advance, PlayDriver, PlayPerson, SaidToDriver, SaidToPerson,
             StartWaiting, NothingKeyed, HoldReprompt, RelayLate, PulseSettles, ua
  <1> QED
    BY <1>1, <1>2, <1>3, <1>4, <1>5 DEF Next

----------------------------------------------------------------------------
(* A recovery runs on an open socket, over calls that exist.                 *)

\* A handler or a timed step is no part of a recovery: it is the loop's, and a
\* recovery is not begun or taken further by it.
LEMMA LoopKeepsRecovery ==
    ASSUME RecoveryIsOpen, Grows, held \subseteq Call, doing = "loop",
           UNCHANGED <<doing, held>>
    PROVE  RecoveryIsOpen'
  BY DEF RecoveryIsOpen, Grows

LEMMA RecoveryStaysOpen == TypeOK /\ RecoveryIsOpen /\ [Next]_vars => RecoveryIsOpen'
  <1> SUFFICES ASSUME TypeOK, RecoveryIsOpen, [Next]_vars PROVE RecoveryIsOpen'
    OBVIOUS
  <1>0. Grows /\ held \subseteq Call
    BY CallsOnlyEnd DEF TypeOK, RecoveryTypeOK
  <1>1. CASE UNCHANGED vars \/ SaidToDriver \/ SaidToPerson
    BY <1>1 DEF vars, ua, recovery, SaidToDriver, SaidToPerson, RecoveryIsOpen
  <1>2. CASE World
    BY <1>0, <1>2 DEF World, Ring, PickUp, Close, Press, LoseLink, UaRestarts,
         AgentRestarts, RecoveryIsOpen, recovery, Grows
  <1>3. CASE Handle
    <2>1. doing = "loop" /\ UNCHANGED <<doing, held>>
      BY <1>3 DEF Handle, HandleKeyRaised, recovery, HandleIncoming, HandleEstablished, HandleDriverClosed,
           HandlePersonClosed, HandleOtherClosed, HandleDigitDropped, HandleUnknown,
           HandleOther, HandleHold, HandleOpenSaid, HandleOpenRefused, HandleOpenPulsed,
           Reads, Handling, HandledQuietly
    <2> QED
      BY <1>0, <2>1, LoopKeepsRecovery
  <1>4. CASE Recover
    <2>1. CASE Reopen
      BY <1>0, <2>1 DEF Reopen, RecoveryIsOpen, Grows
    <2>2. CASE Enumerate
      BY <1>0, <2>2 DEF Enumerate, RecoveryIsOpen, Grows, Sent, LinkAfter, Cut,
           HeldCalls, Up
    <2>3. ASSUME NEW c \in Call, RecoverCall(c) PROVE RecoveryIsOpen'
      BY <1>0, <2>3 DEF RecoverCall, RecoveryIsOpen, Grows, Sent, LinkAfter, Cut
    <2> QED
      BY <1>4, <2>1, <2>2, <2>3 DEF Recover
  <1>5. CASE Advance
    <2>1. CASE ~(SaidToDriver \/ SaidToPerson)
      <3>1. doing = "loop" /\ UNCHANGED <<doing, held>>
        BY <1>5, <2>1 DEF Advance, recovery, PlayDriver, PlayPerson, OverdueToDriver,
             OverdueToPerson, Dial, NoAnswer, Bridge, StartWaiting, NothingKeyed,
             HoldReprompt, RelayLate, CloseCase, PulseSettles, EndCase, Passing
      <3> QED
        BY <1>0, <3>1, LoopKeepsRecovery
    <2> QED
      BY <1>1, <2>1
  <1> QED
    BY <1>1, <1>2, <1>3, <1>4, <1>5 DEF Next

----------------------------------------------------------------------------
(* The shape of a case.  Begun with its driver and nobody else, given a      *)
(* person by the one dial there is, and over with both.                      *)

\* A step that keeps both legs' calls, and the case where it is or further on.
LEMMA ShapeKept ==
    ASSUME CaseShape, Grows, TypeOK, driver' = driver,
           operator' \in {operator, NoCall},
           \/ state' = state
           \/ state # "IDLE" /\ state' \notin {"IDLE", "SPEAKING_CASE"}
    PROVE  CaseShape'
  BY DEF CaseShape, Grows, TypeOK, SessionTypeOK

LEMMA NoSessionShape == NoSession => CaseShape'
  BY DEF NoSession, CaseShape

LEMMA IncomingShape ==
    ASSUME CaseShape, Grows, TypeOK, NEW c \in Call, call[c] # "unused",
           NEW reply, Incoming(c, reply)
    PROVE  CaseShape'
  <1>1. (Begins(c) \/ BeginsSilent(c)) /\ state = "IDLE" => CaseShape'
    <2>1. c # NoCall
      BY DialogueAssumption DEF Call, NoCall
    <2> QED
      BY <2>1 DEF Begins, BeginsSilent, CaseShape, Grows
  <1>2. UNCHANGED session => CaseShape'
    BY ShapeKept DEF session
  <1> QED
    BY <1>1, <1>2 DEF Incoming

LEMMA CallPersonShape ==
    ASSUME CaseShape, Grows, TypeOK, state = "SPEAKING_CASE", driver' = driver,
           NEW rest, CallPerson(rest)
    PROVE  CaseShape'
  <1>1. ASSUME NEW c \in Call, call' = [call EXCEPT ![c] = "dialling"],
               operator' = c, state' = "CALLING_HUMAN"
        PROVE  CaseShape'
    <2>1. call'[c] # "unused" /\ c # NoCall
      BY <1>1, DialogueAssumption DEF TypeOK, UaTypeOK, Calls, Call, NoCall
    <2> QED
      BY <1>1, <2>1 DEF CaseShape, Grows, TypeOK, SessionTypeOK
  <1>2. ApologiseToDriver /\ UNCHANGED operator => CaseShape'
    BY ShapeKept DEF ApologiseToDriver
  <1> QED
    BY <1>1, <1>2 DEF CallPerson

LEMMA CaseKeepsShape ==
    TypeOK /\ RecoveryIsOpen /\ NewsIsTrue(events, call) /\ CaseShape /\ [Next]_vars => CaseShape'
  <1> SUFFICES ASSUME TypeOK, RecoveryIsOpen, NewsIsTrue(events, call), CaseShape, [Next]_vars
               PROVE  CaseShape'
    OBVIOUS
  <1>0. Grows
    BY CallsOnlyEnd
  <1>1. UNCHANGED session => CaseShape'
    BY <1>0, ShapeKept DEF session
  <1>2. CASE World
    BY <1>1, <1>2, NoSessionShape
       DEF World, Ring, PickUp, Close, Press, LoseLink, UaRestarts, AgentRestarts
  <1>3. CASE Handle
    <2>1. CASE HandleIncoming
      <3>1. TheCall \in Call /\ call[TheCall] # "unused"
        <4>1. events \in Seq(Event) /\ events # <<>>
          BY <2>1 DEF HandleIncoming, Handling, TypeOK, UaTypeOK
        <4>2. 1 \in 1..Len(events) /\ TheCall = events[1].call
          BY <4>1 DEF TheCall
        <4> QED
          BY <4>1, <4>2, HeadIsNews DEF NewsIsTrue
      <3> QED
        BY <1>0, <2>1, <3>1, IncomingShape DEF HandleIncoming
    <2>2. CASE HandleEstablished \/ HandlePersonClosed
      BY <1>0, <1>1, <2>2, ShapeKept
         DEF HandleEstablished, HandlePersonClosed, ApologiseToDriver
    <2>3. CASE HandleOtherClosed \/ HandleDigitDropped \/ HandleDriverClosed
      BY <1>1, <2>3, NoSessionShape
         DEF HandleOtherClosed, HandleDigitDropped, HandleDriverClosed
    <2>4. CASE HandleUnknown \/ HandleOther \/ HandleHold \/ HandleOpenSaid
                 \/ HandleOpenRefused \/ HandleOpenPulsed
      <3>1. state # "IDLE" /\ UNCHANGED <<driver, operator>>
            /\ state' \notin {"IDLE", "SPEAKING_CASE"}
        BY <2>4 DEF HandleUnknown, HandleOther, HandleHold, HandleOpenSaid,
             HandleOpenRefused, HandleOpenPulsed, Reads, ApologiseToDriver,
             WaitsAfterMenu
      <3> QED
        BY <1>0, <3>1, ShapeKept
    <2>5. CASE HandleKeyRaised
      <3>1. UNCHANGED <<driver, operator>>
            /\ (state' = state \/ (state # "IDLE" /\ state' = "CLOSING"))
        BY <2>5 DEF HandleKeyRaised
      <3> QED
        BY <1>0, <3>1, ShapeKept
    <2> QED
      BY <1>3, <2>1, <2>2, <2>3, <2>4, <2>5 DEF Handle
  <1>4. CASE Recover
    <2>1. CASE Reopen \/ Enumerate
      BY <1>1, <2>1, NoSessionShape DEF Reopen, Enumerate
    <2>2. ASSUME NEW c \in Call, RecoverCall(c) PROVE CaseShape'
      <3>1. call[c] # "unused"
        BY <2>2 DEF RecoverCall, RecoveryIsOpen
      <3> QED
        BY <1>0, <1>1, <2>2, <3>1, IncomingShape DEF RecoverCall
    <2> QED
      BY <1>4, <2>1, <2>2 DEF Recover
  <1>5. CASE Advance
    <2>1. CASE Dial
      BY <1>0, <2>1, CallPersonShape DEF Dial
    <2>2. CASE OverdueToDriver
      BY <1>0, <2>2, CallPersonShape, NoSessionShape, ShapeKept
         DEF OverdueToDriver, EndCase
    <2>3. CASE OverdueToPerson \/ CloseCase
      BY <2>3, NoSessionShape DEF OverdueToPerson, CloseCase, EndCase
    <2>4. CASE PlayDriver \/ PlayPerson \/ SaidToDriver \/ SaidToPerson
                 \/ StartWaiting \/ HoldReprompt
      BY <1>0, <2>4, ShapeKept DEF PlayDriver, PlayPerson, SaidToDriver, SaidToPerson,
           StartWaiting, HoldReprompt
    <2>5. CASE NoAnswer
      BY <1>0, <2>5, ShapeKept DEF NoAnswer, ApologiseToDriver
    <2>6. CASE Bridge \/ NothingKeyed \/ RelayLate
      BY <1>0, <2>6, ShapeKept DEF Bridge, NothingKeyed, RelayLate, ApologiseToDriver
    <2>7. ASSUME NEW p \in Call, PulseSettles(p) PROVE CaseShape'
      BY <1>0, <2>7, ShapeKept DEF PulseSettles
    <2> QED
      BY <1>5, <2>1, <2>2, <2>3, <2>4, <2>5, <2>6, <2>7 DEF Advance
  <1> QED
    BY <1>1, <1>2, <1>3, <1>4, <1>5 DEF Next, vars

----------------------------------------------------------------------------
(* Who is on the line.                                                       *)

OnTheLine(c) == call[c] \in {"up", "dialling"}

\* No call comes on the line.
NobodyJoins == \A c \in Call : OnTheLine(c)' => OnTheLine(c)

LEMMA NobodyJoinsBy ==
    ASSUME call \in Calls, NEW c \in Call
    PROVE  /\ call' = call => NobodyJoins
           /\ call' = Ended(c) => NobodyJoins /\ ~OnTheLine(c)'
           /\ call' = [call EXCEPT ![c] = "gone"] => NobodyJoins
           /\ call' = [call EXCEPT ![c] = "ringing"] => NobodyJoins
           /\ call[c] = "dialling" /\ call' = [call EXCEPT ![c] = "up"] => NobodyJoins
  BY DEF Calls, Ended, Up, NobodyJoins, OnTheLine

\* A step on an open socket by which nobody joins, and whoever leaves the case is
\* off the line.
LEMMA LegsKept ==
    ASSUME LegsBelongToTheCase, NobodyJoins, held' = held, strays \subseteq strays',
           link' = "open" => link = "open", doing' = doing,
           \A c \in Call : c \in {driver, operator} /\ OnTheLine(c)'
                              => c \in {driver', operator'}
    PROVE  LegsBelongToTheCase'
  BY DEF LegsBelongToTheCase, NobodyJoins, OnTheLine

LEMMA LegsOnAClosedSocket == link' = "lost" => LegsBelongToTheCase'
  BY DEF LegsBelongToTheCase

LEMMA LegsAllGone ==
    ASSUME call' = [c \in Call |-> IF Up(c) THEN "gone" ELSE call[c]]
    PROVE  LegsBelongToTheCase'
  BY DEF LegsBelongToTheCase, Up

\* The first command of an answer: the call it answers is the case's.
LEMMA LegsAnswered ==
    ASSUME TypeOK, CaseShape, LegsBelongToTheCase, doing = "loop", link = "open",
           UNCHANGED <<doing, held>>, strays \subseteq strays', NEW c \in Call,
           NEW reply, Incoming(c, reply), LinkAfter(reply)
    PROVE  LegsBelongToTheCase'
  <1>0. call \in Calls
    BY DEF TypeOK, UaTypeOK
  <1>1. CASE Cut(reply)
    BY <1>1, LegsOnAClosedSocket DEF LinkAfter
  <1>2. CASE /\ ~Cut(reply) /\ state = "IDLE" /\ from[c] # "stranger"
             /\ (Begins(c) \/ BeginsSilent(c))
    <2>1. driver = NoCall /\ operator = NoCall /\ driver' = c /\ operator' = operator
      BY <1>2 DEF CaseShape, Begins, BeginsSilent
    <2>2. call' = call \/ call' = [call EXCEPT ![c] = "up"]
      BY <1>2 DEF Incoming
    <2>3. NoCall \notin Call
      BY DialogueAssumption DEF Call, NoCall
    <2> QED
      BY <1>0, <2>1, <2>2, <2>3 DEF LegsBelongToTheCase, Calls
  <1>3. CASE ~Cut(reply) /\ UNCHANGED session /\ (call' = call \/ call' = Ended(c))
    <2>1. NobodyJoins
      BY <1>0, <1>3, NobodyJoinsBy
    <2> QED
      BY <1>3, <2>1, LegsKept DEF session, LinkAfter
  <1>4. ~Cut(reply) => \/ /\ state = "IDLE" /\ from[c] # "stranger"
                          /\ (Begins(c) \/ BeginsSilent(c))
                       \/ UNCHANGED session /\ (call' = call \/ call' = Ended(c))
    BY DEF Incoming, Cut, Carried
  <1> QED
    BY <1>1, <1>2, <1>3, <1>4

\* Ringing the person: the call that is dialled is the case's, or the socket went.
LEMMA LegsDialled ==
    ASSUME TypeOK, CaseShape, LegsBelongToTheCase, state = "SPEAKING_CASE",
           doing = "loop", link = "open", UNCHANGED <<recovery, driver>>,
           NEW rest, CallPerson(rest)
    PROVE  LegsBelongToTheCase'
  <1>0. call \in Calls /\ operator = NoCall
    BY DEF TypeOK, UaTypeOK, CaseShape
  <1>1. ASSUME NEW c \in Call, NEW reply \in OpenReplies, reply # "lost",
               call' = [call EXCEPT ![c] = "dialling"], Sent(reply),
               reply = "ok" => operator' = c
        PROVE  LegsBelongToTheCase'
    <2>1. CASE reply = "ok"
      <3>1. NoCall \notin Call
        BY DialogueAssumption DEF Call, NoCall
      <3> QED
        BY <1>0, <1>1, <2>1, <3>1 DEF LegsBelongToTheCase, Calls, recovery
    <2>2. CASE reply # "ok"
      BY <1>1, <2>2, LegsOnAClosedSocket DEF OpenReplies, Sent, LinkAfter, Cut
    <2> QED
      BY <2>1, <2>2
  <1>2. ASSUME NEW reply, Sent(reply), UNCHANGED <<call, operator>>
        PROVE  LegsBelongToTheCase'
    <2>1. NobodyJoins
      BY <1>2 DEF NobodyJoins, OnTheLine
    <2>2. link' = "open" => link = "open"
      BY <1>2 DEF Sent, LinkAfter
    <2> QED
      BY <1>2, <2>1, <2>2, LegsKept DEF recovery
  <1> QED
    BY <1>1, <1>2 DEF CallPerson

LEMMA LegsEnded ==
    ASSUME LegsBelongToTheCase, EndCase
    PROVE  LegsBelongToTheCase'
  <1>1. PICK reply \in OpenReplies :
          /\ Sent(reply)
          /\ call' = IF Carried(reply)
                     THEN [c \in Call |-> IF Up(c) THEN "gone" ELSE call[c]]
                     ELSE call
    BY DEF EndCase
  <1>2. CASE Carried(reply)
    BY <1>1, <1>2, LegsAllGone
  <1>3. CASE ~Carried(reply)
    BY <1>1, <1>3, LegsOnAClosedSocket DEF OpenReplies, Carried, Sent, LinkAfter, Cut
  <1> QED
    BY <1>2, <1>3

\* A hangup of the person's leg, answered `reply': off the line if it says so.
LEMMA LegsHungUp ==
    ASSUME call \in Calls, operator \in Call, NEW reply,
           call' = IF Carried(reply) THEN Ended(operator) ELSE call
    PROVE  /\ NobodyJoins
           /\ reply = "ok" => \A c \in Call : c = operator => ~OnTheLine(c)'
  <1>1. PICK person \in Call : person = operator
    OBVIOUS
  <1>2. call' = IF Carried(reply) THEN Ended(person) ELSE call
    BY <1>1
  <1> QED
    BY <1>1, <1>2, NobodyJoinsBy DEF Carried

\* The case that ends with a driver whose leg is gone leaves nobody on the line.
LEMMA LegsOfAnEndedDriver ==
    ASSUME TypeOK, NewsIsTrue(events, call), RecoveryIsOpen, CaseShape,
           LegsBelongToTheCase, HandleDriverClosed
    PROVE  LegsBelongToTheCase'
  <1>0. call \in Calls /\ events \in Seq(Event) /\ events # <<>>
    BY DEF TypeOK, UaTypeOK, HandleDriverClosed, Handling
  <1>1. call[driver] = "gone" /\ driver \in Call
    <2>1. 1 \in 1..Len(events) /\ TheCall = events[1].call /\ events[1].kind = "closed"
      BY <1>0 DEF TheCall, HandleDriverClosed, Handling
    <2> QED
      BY <1>0, <2>1, HeadIsNews DEF NewsIsTrue, HandleDriverClosed
  <1>2. UNCHANGED <<held, doing>> /\ strays \subseteq strays'
    BY HandledStrays DEF HandleDriverClosed
  <1>3. CASE operator = NoCall
    <2>1. call' = call /\ link' = link
      BY <1>3 DEF HandleDriverClosed
    <2> QED
      BY <1>1, <1>2, <1>3, <2>1, LegsKept, DialogueAssumption
         DEF NobodyJoins, OnTheLine, Call, NoCall
  <1>4. CASE operator # NoCall
    <2>1. operator \in Call
      BY <1>4 DEF TypeOK, SessionTypeOK
    <2>2. PICK reply \in Replies(operator) :
            /\ call' = IF Carried(reply) THEN Ended(operator) ELSE call
            /\ Handled(reply)
            /\ IF reply = "ok" THEN NoSession ELSE UNCHANGED session
      BY <1>4 DEF HandleDriverClosed
    <2>3. NobodyJoins /\ (reply = "ok" => \A c \in Call : c = operator => ~OnTheLine(c)')
      BY <1>0, <2>1, <2>2, LegsHungUp
    <2>4. link' = "open" => link = "open"
      BY <2>2 DEF Handled, LinkAfter
    <2>5. \A c \in Call : c = driver => ~OnTheLine(c)'
      BY <1>1, <2>3 DEF NobodyJoins, OnTheLine
    <2>6. CASE reply = "ok"
      BY <1>2, <2>3, <2>4, <2>5, <2>6, LegsKept
    <2>7. CASE reply # "ok"
      BY <1>2, <2>2, <2>3, <2>4, <2>7, LegsKept DEF session
    <2> QED
      BY <2>6, <2>7
  <1> QED
    BY <1>3, <1>4

LEMMA LegsOfTheUnanswered ==
    ASSUME TypeOK, LegsBelongToTheCase, NoAnswer
    PROVE  LegsBelongToTheCase'
  <1>0. call \in Calls
    BY DEF TypeOK, UaTypeOK
  <1>1. UNCHANGED <<held, strays, doing, driver>>
    BY DEF NoAnswer, recovery
  <1>2. CASE operator = NoCall
    <2>1. call' = call /\ link' = link /\ operator' = operator
      BY <1>2 DEF NoAnswer
    <2> QED
      BY <1>0, <1>1, <2>1, LegsKept DEF NobodyJoins, OnTheLine
  <1>3. CASE operator # NoCall
    <2>1. operator \in Call
      BY <1>3 DEF TypeOK, SessionTypeOK
    <2>2. PICK reply \in Replies(operator) :
            /\ call' = IF Carried(reply) THEN Ended(operator) ELSE call
            /\ Sent(reply)
            /\ IF reply = "ok" THEN ApologiseToDriver /\ operator' = NoCall
               ELSE UNCHANGED <<state, operator, toDriver, deadline>>
      BY <1>3 DEF NoAnswer
    <2>3. NobodyJoins /\ (reply = "ok" => \A c \in Call : c = operator => ~OnTheLine(c)')
      BY <1>0, <2>1, <2>2, LegsHungUp
    <2>4. link' = "open" => link = "open"
      BY <2>2 DEF Sent, LinkAfter
    <2> QED
      BY <1>1, <2>2, <2>3, <2>4, LegsKept
  <1> QED
    BY <1>2, <1>3

\* A recovery takes every call on the line in hand, and lets go of one only when
\* it is answered, ended or counted as left.
LEMMA LegsRecovered ==
    ASSUME TypeOK, CaseShape, RecoveryIsOpen, LegsBelongToTheCase, NEW c \in Call,
           RecoverCall(c)
    PROVE  LegsBelongToTheCase'
  <1>0. /\ call \in Calls /\ doing = "recovering" /\ link = "open" /\ c \in held
        /\ NoCall \notin Call
    BY DialogueAssumption
       DEF TypeOK, UaTypeOK, RecoverCall, RecoveryIsOpen, Call, NoCall
  <1>1. PICK reply \in IF c \in ringers THEN Answers(c) ELSE Replies(c) :
          /\ IF c \in ringers
             THEN Incoming(c, reply)
             ELSE /\ call' = IF Carried(reply) THEN Ended(c) ELSE call
                  /\ UNCHANGED session
          /\ Sent(reply)
          /\ IF reply = "ok" /\ held # {c}
             THEN held' = held \ {c} /\ UNCHANGED <<doing, strays>>
             ELSE /\ held' = {} /\ doing' = "loop"
                  /\ strays' = strays \cup (held \ {c})
    BY DEF RecoverCall
  <1>2. CASE Cut(reply)
    BY <1>1, <1>2, LegsOnAClosedSocket DEF Sent, LinkAfter
  <1>3. CASE ~Cut(reply)
    <2>1. /\ reply \in {"ok", "refused", "raised"}
          /\ reply = "refused" => ~Up(c)
          /\ reply = "raised" => c \in ringers /\ state = "IDLE" /\ from[c] = "lane"
      BY <1>3, DialogueAssumption DEF Replies, Answers, LaneRaises, Cut
    <2>2. held \subseteq {c} \cup held' \cup strays' /\ strays \subseteq strays'
      BY <1>1
    <2>3. CASE reply = "refused"
      <3>1. call' = call /\ UNCHANGED session
        BY <1>1, <2>3 DEF Incoming, Carried
      <3> QED
        BY <1>0, <2>1, <2>2, <2>3, <3>1 DEF LegsBelongToTheCase, Up, session
    <2>4. CASE reply = "ok" /\ UNCHANGED session /\ call' = Ended(c)
      <3>1. NobodyJoins /\ ~OnTheLine(c)'
        BY <1>0, <2>4, NobodyJoinsBy
      <3> QED
        BY <1>0, <2>2, <2>4, <3>1
           DEF LegsBelongToTheCase, NobodyJoins, OnTheLine, session
    <2>5. CASE /\ state = "IDLE" /\ driver' = c /\ operator' = operator
               /\ call' = call \/ call' = [call EXCEPT ![c] = "up"]
      <3>1. driver = NoCall /\ operator = NoCall
        BY <2>5 DEF CaseShape
      <3> QED
        BY <1>0, <2>2, <2>5, <3>1 DEF LegsBelongToTheCase, Calls
    <2>6. reply = "ok" => \/ UNCHANGED session /\ call' = Ended(c)
                          \/ /\ state = "IDLE" /\ driver' = c /\ operator' = operator
                             /\ call' = call \/ call' = [call EXCEPT ![c] = "up"]
      BY <1>1 DEF Incoming, Carried, Begins
    <2>7. reply = "raised" => /\ state = "IDLE" /\ driver' = c /\ operator' = operator
                              /\ call' = call \/ call' = [call EXCEPT ![c] = "up"]
      BY <1>1, <2>1 DEF Incoming, BeginsSilent
    <2> QED
      BY <2>1, <2>3, <2>4, <2>5, <2>6, <2>7
  <1> QED
    BY <1>2, <1>3

LEMMA LegsEnumerated ==
    ASSUME LegsBelongToTheCase, Enumerate
    PROVE  LegsBelongToTheCase'
  <1>1. PICK reply \in OpenReplies :
          /\ Sent(reply)
          /\ IF reply = "ok" /\ HeldCalls # {}
             THEN /\ NoSession /\ doing' = "recovering"
                  /\ held' = HeldCalls /\ strays' = {}
                  /\ ringers' = {c \in HeldCalls : call[c] = "ringing"}
             ELSE /\ doing' = "loop"
                  /\ strays' = IF reply = "ok" THEN {} ELSE strays
                  /\ UNCHANGED <<held, ringers, session>>
    BY DEF Enumerate
  <1>2. call' = call
    BY DEF Enumerate
  <1>3. CASE reply = "ok"
    BY <1>1, <1>2, <1>3 DEF LegsBelongToTheCase, HeldCalls, Up
  <1>4. CASE reply # "ok"
    BY <1>1, <1>4, LegsOnAClosedSocket DEF OpenReplies, Sent, LinkAfter, Cut
  <1> QED
    BY <1>3, <1>4

LEMMA LegsStay == TypeOK /\ DialogueInv /\ [Next]_vars => LegsBelongToTheCase'
  <1> SUFFICES ASSUME TypeOK, DialogueInv, [Next]_vars PROVE LegsBelongToTheCase'
    OBVIOUS
  <1>0. /\ call \in Calls /\ LegsBelongToTheCase /\ CaseShape /\ RecoveryIsOpen
        /\ NewsIsTrue(events, call)
    BY DEF TypeOK, UaTypeOK, DialogueInv
  <1>a. call' = call => NobodyJoins
    BY DEF NobodyJoins, OnTheLine
  <1>1. CASE UNCHANGED vars
    BY <1>0, <1>1, <1>a, LegsKept DEF vars, ua, recovery, session
  <1>2. CASE World
    <2>1. ASSUME NEW c \in Call,
                 (\E who \in Doors[c] : Ring(c, who)) \/ PickUp(c) \/ Close(c)
          PROVE  LegsBelongToTheCase'
      <3>1. NobodyJoins
        BY <1>0, <2>1, NobodyJoinsBy DEF Ring, PickUp, Close
      <3> QED
        BY <1>0, <2>1, <3>1, LegsKept DEF Ring, PickUp, Close, recovery, session
    <2>2. ASSUME NEW c \in Call, NEW key \in Key, Press(c, key) PROVE LegsBelongToTheCase'
      BY <1>0, <1>a, <2>2, LegsKept DEF Press, recovery, session
    <2>3. CASE LoseLink \/ UaRestarts
      BY <2>3, LegsOnAClosedSocket DEF LoseLink, UaRestarts
    <2>4. CASE AgentRestarts
      <3>1. PICK kept \in SUBSET HeldCalls :
              /\ link' = IF kept = {} THEN "open" ELSE "lost"
              /\ call' = [c \in Call |->
                            IF Up(c) /\ c \notin kept THEN "gone" ELSE call[c]]
        BY <2>4 DEF AgentRestarts
      <3>2. CASE kept = {}
        BY <3>1, <3>2, LegsAllGone
      <3> QED
        BY <3>1, <3>2, LegsOnAClosedSocket
    <2> QED
      BY <1>2, <2>1, <2>2, <2>3, <2>4 DEF World
  <1>3. CASE Handle
    <2>1. CASE HandleIncoming
      <3>1. TheCall \in Call
        BY <2>1, HeadIsNews DEF HandleIncoming, Handling, TypeOK, UaTypeOK
      <3>2. PICK reply \in Answers(TheCall) : Incoming(TheCall, reply) /\ Handled(reply)
        BY <2>1 DEF HandleIncoming
      <3>3. /\ doing = "loop" /\ link = "open" /\ UNCHANGED <<doing, held>>
            /\ strays \subseteq strays' /\ LinkAfter(reply)
        BY <2>1, <3>2, HandledStrays DEF HandleIncoming, Handling, Handled
      <3> QED
        BY <1>0, <3>1, <3>2, <3>3, LegsAnswered
    <2>2. CASE HandleDriverClosed
      BY <1>0, <2>2, LegsOfAnEndedDriver
    <2>3. CASE HandlePersonClosed
      <3>1. events \in Seq(Event) /\ events # <<>>
        BY <2>3 DEF TypeOK, UaTypeOK, HandlePersonClosed, Handling
      <3>2. 1 \in 1..Len(events) /\ TheCall = events[1].call /\ events[1].kind = "closed"
        BY <2>3, <3>1 DEF TheCall, HandlePersonClosed, Handling
      <3>3. call[operator] = "gone"
        BY <1>0, <2>3, <3>2 DEF NewsIsTrue, HandlePersonClosed
      <3>4. /\ UNCHANGED <<call, link, recovery, driver>> /\ operator' = NoCall
        BY <2>3 DEF HandlePersonClosed, HandledQuietly
      <3> QED
        BY <1>0, <1>a, <3>3, <3>4, LegsKept DEF OnTheLine, recovery
    <2>4. CASE HandleEstablished \/ HandleOtherClosed \/ HandleDigitDropped
      <3>1. UNCHANGED <<call, link, recovery, driver, operator>>
        BY <2>4 DEF HandleEstablished, HandleOtherClosed, HandleDigitDropped,
             HandledQuietly, session
      <3> QED
        BY <1>0, <1>a, <3>1, LegsKept DEF recovery
    <2>5. CASE HandleUnknown \/ HandleOther \/ HandleHold \/ HandleOpenSaid
                 \/ HandleOpenRefused \/ HandleOpenPulsed
      <3>1. UNCHANGED <<call, link, recovery, driver, operator>>
        BY <2>5 DEF HandleUnknown, HandleOther, HandleHold, HandleOpenSaid,
             HandleOpenRefused, HandleOpenPulsed, Reads
      <3> QED
        BY <1>0, <1>a, <3>1, LegsKept DEF recovery
    <2>6. CASE HandleKeyRaised
      <3>1. PICK reply \in LaneRaises : Handled(reply)
        BY <2>6 DEF HandleKeyRaised
      <3>2. /\ UNCHANGED <<call, doing, held, driver, operator>>
            /\ strays \subseteq strays'
            /\ link' = "open" => link = "open"
        BY <2>6, <3>1, HandledStrays DEF HandleKeyRaised, Handled, LinkAfter
      <3> QED
        BY <1>0, <1>a, <3>2, LegsKept
    <2> QED
      BY <1>3, <2>1, <2>2, <2>3, <2>4, <2>5, <2>6 DEF Handle
  <1>4. CASE Recover
    <2>1. CASE Reopen
      BY <2>1 DEF Reopen, LegsBelongToTheCase
    <2>2. CASE Enumerate
      BY <1>0, <2>2, LegsEnumerated
    <2>3. ASSUME NEW c \in Call, RecoverCall(c) PROVE LegsBelongToTheCase'
      BY <1>0, <2>3, LegsRecovered
    <2> QED
      BY <1>4, <2>1, <2>2, <2>3 DEF Recover
  <1>5. CASE Advance
    <2>1. CASE Dial
      BY <1>0, <2>1, LegsDialled DEF Dial
    <2>2. CASE OverdueToDriver
      <3>1. CASE state = "SPEAKING_CASE"
        BY <1>0, <2>2, <3>1, LegsDialled DEF OverdueToDriver, Passing
      <3>2. CASE state = "CALLING_HUMAN"
        <4>1. UNCHANGED <<call, link, recovery, driver, operator>>
          BY <2>2, <3>2 DEF OverdueToDriver, ua
        <4> QED
          BY <1>0, <1>a, <4>1, LegsKept DEF recovery
      <3>3. CASE state # "SPEAKING_CASE" /\ state # "CALLING_HUMAN"
        BY <1>0, <2>2, <3>3, LegsEnded DEF OverdueToDriver
      <3> QED
        BY <3>1, <3>2, <3>3
    <2>3. CASE OverdueToPerson \/ CloseCase
      BY <1>0, <2>3, LegsEnded DEF OverdueToPerson, CloseCase
    <2>4. CASE NoAnswer
      BY <1>0, <2>4, LegsOfTheUnanswered
    <2>5. CASE Bridge
      <3>1. /\ UNCHANGED <<call, recovery, driver, operator>>
            /\ link' = "open" => link = "open"
        BY <2>5 DEF Bridge, Sent, LinkAfter
      <3> QED
        BY <1>0, <1>a, <3>1, LegsKept DEF recovery
    <2>6. CASE PlayDriver \/ PlayPerson \/ SaidToDriver \/ SaidToPerson
                 \/ StartWaiting \/ NothingKeyed \/ HoldReprompt \/ RelayLate
      <3>1. UNCHANGED <<call, link, recovery, driver, operator>>
        BY <2>6 DEF PlayDriver, PlayPerson, SaidToDriver, SaidToPerson, StartWaiting,
             NothingKeyed, HoldReprompt, RelayLate, ua
      <3> QED
        BY <1>0, <1>a, <3>1, LegsKept DEF recovery
    <2>7. ASSUME NEW p \in Call, PulseSettles(p) PROVE LegsBelongToTheCase'
      <3>1. UNCHANGED <<call, link, recovery, driver, operator>>
        BY <2>7 DEF PulseSettles, ua
      <3> QED
        BY <1>0, <1>a, <3>1, LegsKept DEF recovery
    <2> QED
      BY <1>5, <2>1, <2>2, <2>3, <2>4, <2>5, <2>6, <2>7 DEF Advance
  <1> QED
    BY <1>1, <1>2, <1>3, <1>4, <1>5 DEF Next

----------------------------------------------------------------------------
(* Whose outcome the person hears.                                           *)

LEMMA OutcomeStays ==
    TypeOK /\ CaseShape /\ OutcomeIsThisCalls /\ [Next]_vars => OutcomeIsThisCalls'
  <1> SUFFICES ASSUME TypeOK, CaseShape, OutcomeIsThisCalls, [Next]_vars
               PROVE  OutcomeIsThisCalls'
    OBVIOUS
  <1> USE DEF OutcomeIsThisCalls
  <1>1. UNCHANGED session => OutcomeIsThisCalls'
    BY DEF session
  <1>2. NoSession => OutcomeIsThisCalls'
    BY DEF NoSession
  <1>3. ASSUME NEW c, NEW reply, Incoming(c, reply) PROVE OutcomeIsThisCalls'
    <2>1. state = "IDLE" => owed = NoCall
      BY DEF CaseShape
    <2> QED
      BY <1>1, <1>3, <2>1 DEF Incoming, Begins, BeginsSilent
  <1>4. ASSUME UNCHANGED driver, owed' \in {owed, driver} PROVE OutcomeIsThisCalls'
    BY <1>4
  <1>5. CASE UNCHANGED vars
    BY <1>1, <1>5 DEF vars
  <1>6. CASE World
    BY <1>1, <1>2, <1>6
       DEF World, Ring, PickUp, Close, Press, LoseLink, UaRestarts, AgentRestarts
  <1>7. CASE Handle
    <2>1. CASE HandleIncoming
      BY <1>3, <2>1 DEF HandleIncoming
    <2>2. CASE HandleEstablished \/ HandlePersonClosed \/ HandleKeyRaised
      BY <1>1, <1>4, <2>2 DEF HandleEstablished, HandlePersonClosed, HandleKeyRaised
    <2>3. CASE HandleOtherClosed \/ HandleDigitDropped \/ HandleDriverClosed
      BY <1>1, <1>2, <2>3 DEF HandleOtherClosed, HandleDigitDropped, HandleDriverClosed
    <2>4. CASE HandleUnknown \/ HandleOther \/ HandleHold \/ HandleOpenSaid
                 \/ HandleOpenRefused \/ HandleOpenPulsed
      <3>1. UNCHANGED driver /\ owed' \in {owed, driver}
        BY <2>4 DEF HandleUnknown, HandleOther, HandleHold, HandleOpenSaid,
             HandleOpenRefused, HandleOpenPulsed, Reads
      <3> QED
        BY <1>4, <3>1
    <2> QED
      BY <1>7, <2>1, <2>2, <2>3, <2>4 DEF Handle
  <1>8. CASE Recover
    BY <1>1, <1>2, <1>3, <1>8 DEF Recover, Reopen, Enumerate, RecoverCall
  <1>9. CASE Advance
    <2>1. CASE Dial \/ OverdueToDriver \/ OverdueToPerson \/ CloseCase
      BY <1>2, <1>4, <2>1 DEF Dial, OverdueToDriver, OverdueToPerson, CloseCase, EndCase
    <2>2. CASE PlayDriver \/ PlayPerson \/ SaidToDriver \/ SaidToPerson \/ NoAnswer
                 \/ Bridge \/ StartWaiting \/ NothingKeyed \/ HoldReprompt \/ RelayLate
      BY <1>4, <2>2 DEF PlayDriver, PlayPerson, SaidToDriver, SaidToPerson, NoAnswer,
           Bridge, StartWaiting, NothingKeyed, HoldReprompt, RelayLate
    <2>3. ASSUME NEW p \in Call, PulseSettles(p) PROVE OutcomeIsThisCalls'
      BY <1>4, <2>3 DEF PulseSettles
    <2> QED
      BY <1>9, <2>1, <2>2, <2>3 DEF Advance
  <1> QED
    BY <1>5, <1>6, <1>7, <1>8, <1>9 DEF Next

----------------------------------------------------------------------------
(* The inductive invariant, and the two properties it was made for.          *)

LEMMA InitShape == Init => DialogueInv
  BY DEF Init, DialogueInv, NewsIsTrue, RecoveryIsOpen, CaseShape, LegsBelongToTheCase,
     OutcomeIsThisCalls

\* Whatever the user agent, the socket and the people do, what was said of the
\* calls is true, a recovery has an open socket, and a case has the legs it should.
THEOREM CallsAreAccountedFor == Spec => [](TypeOK /\ DialogueInv)
  <1>1. Init => TypeOK /\ DialogueInv
    BY InitTypes, InitShape
  <1>2. TypeOK /\ DialogueInv /\ [Next]_vars => (TypeOK /\ DialogueInv)'
    <2> SUFFICES ASSUME TypeOK, DialogueInv, [Next]_vars PROVE (TypeOK /\ DialogueInv)'
      OBVIOUS
    <2>1. HasDriver
      BY DEF DialogueInv, CaseShape, HasDriver
    <2>2. TypeOK'
      BY <2>1, StutterTypes, WorldTypes, HandleTypes, RecoverTypes, AdvanceTypes DEF Next
    <2>3. NewsIsTrue(events', call') /\ RecoveryIsOpen' /\ CaseShape' /\ OutcomeIsThisCalls'
      BY NewsStaysTrue, RecoveryStaysOpen, CaseKeepsShape, OutcomeStays DEF DialogueInv
    <2> QED
      BY <2>2, <2>3, LegsStay DEF DialogueInv
  <1> QED
    BY <1>1, <1>2, PTL DEF Spec

\* Type correctness: every variable of the call keeps its type, for any number of
\* calls, bounds and doors, whatever the user agent answers.
THEOREM CallTypesHold == Spec => []TypeOK
  BY CallsAreAccountedFor, PTL

\* Nobody is ever on the line but the case's own driver and person, a call a
\* recovery is dealing with, or one it was told of and left: this is who a bridge
\* puts a driver in touch with, at any number of calls, doors and breaks.
THEOREM LegsAlwaysBelong == Spec => []LegsBelongToTheCase
  BY CallsAreAccountedFor, PTL DEF DialogueInv

\* The outcome a person is told is always of the open keyed in their own call.
THEOREM OutcomeAlwaysOwn == Spec => []OutcomeIsThisCalls
  BY CallsAreAccountedFor, PTL DEF DialogueInv

----------------------------------------------------------------------------
(* The case's phases.  Every step answers a call, moves its case one phase    *)
(* on, or leaves the phase and both legs alone.                              *)

PhaseStep == [Phases!Next]_Phases!vars

LEMMA PhaseOfState ==
    ASSUME state \in Stage
    PROVE  /\ phase \in {"none", "case", "ringing", "talking", "closing"}
           /\ state = "IDLE" <=> phase = "none"
           /\ state = "SPEAKING_CASE" <=> phase = "case"
           /\ state = "CALLING_HUMAN" <=> phase = "ringing"
           /\ state = "CLOSING" <=> phase = "closing"
  BY DEF phase, Stage

LEMMA PhaseOfNextState ==
    ASSUME state' \in Stage
    PROVE  /\ phase' \in {"none", "case", "ringing", "talking", "closing"}
           /\ state' = "IDLE" <=> phase' = "none"
           /\ state' = "SPEAKING_CASE" <=> phase' = "case"
           /\ state' = "CALLING_HUMAN" <=> phase' = "ringing"
           /\ state' = "CLOSING" <=> phase' = "closing"
  BY DEF phase, Stage

LEMMA PhaseStays ==
    ASSUME phase' = phase, UNCHANGED <<driver, operator>>
    PROVE  PhaseStep
  BY DEF PhaseStep, Phases!vars

LEMMA PhaseKept ==
    ASSUME UNCHANGED <<state, driver, operator>>
    PROVE  PhaseStep
  <1>1. phase' = phase
    BY DEF phase
  <1> QED
    BY <1>1, PhaseStays

\* A person has decided, or has more to say.
LEMMA PhaseDecided ==
    ASSUME state \in Stage, state' \in Stage, UNCHANGED <<driver, operator>>,
           phase = "talking", phase' \in {"talking", "closing"}
    PROVE  PhaseStep
  BY DEF PhaseStep, Phases!vars, Phases!Next, Phases!Decide

LEMMA PhaseEnded ==
    ASSUME TypeOK, CaseShape, NoSession
    PROVE  PhaseStep
  <1>1. state \in Stage /\ state' \in Stage
    BY NoSessionTypes DEF TypeOK, SessionTypeOK
  <1>2. phase' = "none" /\ driver' = NoCall /\ operator' = NoCall
    BY <1>1, PhaseOfNextState DEF NoSession
  <1>3. CASE state = "IDLE"
    <2>1. phase = "none" /\ driver = NoCall /\ operator = NoCall
      BY <1>1, <1>3, PhaseOfState DEF CaseShape
    <2> QED
      BY <1>2, <2>1, PhaseStays
  <1>4. CASE state # "IDLE"
    <2>1. phase # "none"
      BY <1>1, <1>4, PhaseOfState
    <2> QED
      BY <1>2, <2>1 DEF PhaseStep, Phases!Next, Phases!End, Phases!NoCall, NoCall
  <1> QED
    BY <1>3, <1>4

LEMMA PhaseIncoming ==
    ASSUME TypeOK, CaseShape, NEW c \in Call, NEW reply, Incoming(c, reply)
    PROVE  PhaseStep
  <1>1. CASE UNCHANGED session
    BY <1>1, PhaseKept DEF session
  <1>2. CASE state = "IDLE" /\ (Begins(c) \/ BeginsSilent(c))
    <2>1. state \in Stage /\ state' \in {"SPEAKING_CASE", "CLOSING"}
      BY <1>2 DEF TypeOK, SessionTypeOK, Begins, BeginsSilent
    <2>2. phase = "none" /\ phase' \in {"case", "closing"}
      BY <1>2, <2>1, PhaseOfState, PhaseOfNextState DEF Stage
    <2>3. driver' = c /\ operator' = NoCall
      BY <1>2 DEF Begins, BeginsSilent, CaseShape
    <2> QED
      BY <2>2, <2>3 DEF PhaseStep, Phases!Next, Phases!Answer, Phases!NoCall, NoCall
  <1> QED
    BY <1>1, <1>2 DEF Incoming

\* Nobody can be reached: from the dial or from the ringing.
LEMMA PhaseUnreachable ==
    ASSUME state \in {"SPEAKING_CASE", "CALLING_HUMAN"}, ApologiseToDriver,
           operator' = NoCall, driver' = driver
    PROVE  PhaseStep
  <1>1. phase \in {"case", "ringing"} /\ phase' = "closing"
    BY DEF phase, ApologiseToDriver
  <1> QED
    BY <1>1 DEF PhaseStep, Phases!Next, Phases!Unreachable, Phases!NoCall, NoCall

LEMMA PhaseRung ==
    ASSUME TypeOK, CaseShape, state = "SPEAKING_CASE", driver' = driver,
           NEW rest, CallPerson(rest)
    PROVE  PhaseStep
  <1>1. ASSUME NEW c \in Call, Fresh(c), operator' = c, state' = "CALLING_HUMAN"
        PROVE  PhaseStep
    <2>1. phase = "case" /\ phase' = "ringing"
      BY <1>1 DEF phase
    <2>2. c # driver
      BY <1>1, DialogueAssumption DEF CaseShape, Fresh, Call, NoCall
    <2> QED
      BY <1>1, <2>1, <2>2 DEF PhaseStep, Phases!Next, Phases!Ring
  <1>2. operator = NoCall
    BY DEF CaseShape
  <1> QED
    BY <1>1, <1>2, PhaseUnreachable DEF CallPerson

LEMMA PhasesFollow == TypeOK /\ TypeOK' /\ DialogueInv /\ [Next]_vars => PhaseStep
  <1> SUFFICES ASSUME TypeOK, TypeOK', DialogueInv, [Next]_vars PROVE PhaseStep
    OBVIOUS
  <1>0. /\ CaseShape /\ state \in Stage /\ state' \in Stage
        /\ operator \in Call \cup {NoCall} /\ NoCall \notin Call
    BY DialogueAssumption DEF DialogueInv, TypeOK, SessionTypeOK, Call, NoCall
  <1>1. UNCHANGED session => PhaseStep
    BY PhaseKept DEF session
  <1>2. CASE UNCHANGED vars
    BY <1>1, <1>2 DEF vars
  <1>3. CASE World
    BY <1>0, <1>1, <1>3, PhaseEnded
       DEF World, Ring, PickUp, Close, Press, LoseLink, UaRestarts, AgentRestarts
  <1>4. CASE Handle
    <2>1. CASE HandleIncoming
      <3>1. TheCall \in Call
        BY <2>1, HeadIsNews DEF HandleIncoming, Handling, TypeOK, UaTypeOK
      <3> QED
        BY <1>0, <2>1, <3>1, PhaseIncoming DEF HandleIncoming
    <2>2. CASE HandleEstablished
      <3>1. CASE state = "CALLING_HUMAN" /\ state' = "BRIEFING" /\ UNCHANGED <<driver, operator>>
        <4>1. phase = "ringing" /\ phase' = "talking"
          BY <3>1 DEF phase
        <4> QED
          BY <3>1, <4>1 DEF PhaseStep, Phases!Next, Phases!PickUp
      <3> QED
        BY <1>1, <2>2, <3>1 DEF HandleEstablished
    <2>3. CASE HandleDriverClosed
      BY <1>0, <1>1, <2>3, PhaseEnded DEF HandleDriverClosed
    <2>4. CASE HandlePersonClosed
      <3>1. operator # NoCall /\ operator' = NoCall /\ driver' = driver
        <4>1. TheCall \in Call
          BY <2>4, HeadIsNews DEF HandlePersonClosed, Handling, TypeOK, UaTypeOK
        <4> QED
          BY <1>0, <2>4, <4>1 DEF HandlePersonClosed
      <3>2. phase # "none"
        BY <1>0, <3>1, PhaseOfState DEF CaseShape
      <3>3. phase' = phase \/ (phase = "talking" /\ phase' = "closing")
        BY <2>4 DEF HandlePersonClosed, ApologiseToDriver, phase
      <3> QED
        BY <3>1, <3>2, <3>3
           DEF PhaseStep, Phases!Next, Phases!PersonLeaves, Phases!NoCall, NoCall
    <2>5. CASE HandleOtherClosed \/ HandleDigitDropped
      BY <1>1, <2>5 DEF HandleOtherClosed, HandleDigitDropped
    <2>6. CASE HandleUnknown \/ HandleOther \/ HandleHold \/ HandleOpenSaid
                 \/ HandleOpenRefused \/ HandleOpenPulsed
      <3>1. /\ state \in {"BRIEFING", "WAITING_DIGIT", "HOLDING"}
            /\ UNCHANGED <<driver, operator>>
            /\ state' \in {"BRIEFING", "WAITING_DIGIT", "HOLDING", "WAITING_RELAY", "CLOSING"}
        BY <2>6 DEF HandleUnknown, HandleOther, HandleHold, HandleOpenSaid,
             HandleOpenRefused, HandleOpenPulsed, Reads, ApologiseToDriver, WaitsAfterMenu
      <3>2. phase = "talking" /\ phase' \in {"talking", "closing"}
        BY <3>1 DEF phase
      <3> QED
        BY <1>0, <3>1, <3>2, PhaseDecided
    <2>7. CASE HandleKeyRaised
      <3>1. /\ state \in {"BRIEFING", "WAITING_DIGIT", "HOLDING"}
            /\ UNCHANGED <<driver, operator>> /\ state' \in {state, "CLOSING"}
        BY <2>7 DEF HandleKeyRaised
      <3>2. phase = "talking" /\ phase' \in {"talking", "closing"}
        BY <3>1 DEF phase
      <3> QED
        BY <1>0, <3>1, <3>2, PhaseDecided
    <2> QED
      BY <1>4, <2>1, <2>2, <2>3, <2>4, <2>5, <2>6, <2>7 DEF Handle
  <1>5. CASE Recover
    <2>1. CASE Reopen \/ Enumerate
      BY <1>0, <1>1, <2>1, PhaseEnded DEF Reopen, Enumerate
    <2>2. ASSUME NEW c \in Call, RecoverCall(c) PROVE PhaseStep
      BY <1>0, <1>1, <2>2, PhaseIncoming DEF RecoverCall
    <2> QED
      BY <1>5, <2>1, <2>2 DEF Recover
  <1>6. CASE Advance
    <2>1. CASE Dial
      BY <1>0, <2>1, PhaseRung DEF Dial
    <2>2. CASE OverdueToDriver \/ OverdueToPerson \/ CloseCase
      BY <1>0, <2>2, PhaseRung, PhaseEnded, PhaseKept
         DEF OverdueToDriver, OverdueToPerson, CloseCase, EndCase
    <2>3. CASE NoAnswer
      BY <1>0, <2>3, PhaseUnreachable, PhaseKept DEF NoAnswer
    <2>4. CASE PlayDriver \/ PlayPerson \/ SaidToDriver \/ SaidToPerson
                 \/ StartWaiting \/ HoldReprompt
      BY <2>4, PhaseKept DEF PlayDriver, PlayPerson, SaidToDriver, SaidToPerson,
           StartWaiting, HoldReprompt
    <2>5. CASE Bridge \/ NothingKeyed \/ RelayLate
      <3>1. /\ state \in {"BRIEFING", "WAITING_DIGIT", "WAITING_RELAY"}
            /\ UNCHANGED <<driver, operator>>
            /\ state' \in {"BRIEFING", "WAITING_DIGIT", "CLOSING"}
        BY <2>5 DEF Bridge, NothingKeyed, RelayLate, ApologiseToDriver
      <3>2. phase = "talking" /\ phase' \in {"talking", "closing"}
        BY <3>1 DEF phase
      <3> QED
        BY <1>0, <3>1, <3>2, PhaseDecided
    <2>6. ASSUME NEW p \in Call, PulseSettles(p) PROVE PhaseStep
      <3>1. CASE state = "WAITING_RELAY" /\ state' = "CLOSING" /\ UNCHANGED <<driver, operator>>
        <4>1. phase = "talking" /\ phase' = "closing"
          BY <3>1 DEF phase
        <4> QED
          BY <1>0, <3>1, <4>1, PhaseDecided
      <3> QED
        BY <2>6, <3>1, PhaseKept DEF PulseSettles
    <2> QED
      BY <1>6, <2>1, <2>2, <2>3, <2>4, <2>5, <2>6 DEF Advance
  <1> QED
    BY <1>2, <1>3, <1>4, <1>5, <1>6 DEF Next

\* The call implements CallPhases: one caller's from the answer to the end, at
\* most one person and only after the case, and closing is for good -- through
\* lost sockets, restarts, refusals and recoveries.
THEOREM CallsKeepTheirPhases == Spec => KeepsCallPhases
  <1>1. Init => Phases!Init
    BY DEF Init, Phases!Init, Phases!NoCall, NoCall, phase
  <1>2. TypeOK /\ TypeOK' /\ DialogueInv /\ [Next]_vars => PhaseStep
    BY PhasesFollow
  <1> QED
    BY <1>1, <1>2, CallsAreAccountedFor, PTL
       DEF Spec, KeepsCallPhases, Phases!Spec, PhaseStep

----------------------------------------------------------------------------
(* The case of a call: what is made of the lane that is read.               *)

\* What the agent holds of a read is what it is of: its age is that of the lane's
\* clock, and where the lane has not changed since it is the lane as it is.
HeldOf(r) ==
    /\ r.of.stamp.readable => made = r.of.stamp.at - skew
    /\ ~moved => /\ r.of = decision /\ r.transit = transit
                 /\ r.closed = closed /\ r.readable = known

IsOfTheLane ==
    /\ at = "asking" => HeldOf(laneState)
    /\ at = "read" /\ reading.readable
         => HeldOf(reading) /\ (~moved => reading.malfunctions = active \ NeverAlarm)

----------------------------------------------------------------------------
(* The pure questions. *)

\* Nobody is rung only for an allow that is no older than the bound.
LEMMA NothingToDoIsFresh ==
    ASSUME NEW r \in Readings, NEW t \in Nat, Derive(r, t) = "nothing_to_do"
    PROVE  /\ r.readable /\ r.malfunctions = {} /\ ~r.closed
           /\ r.of.outcome = "allow" /\ r.transit \in {"pending", "confirmed"}
           /\ r.of.stamp.readable /\ ~(Age(r.of.stamp, t) > MaxAge)
  <1>1. FallbackCase(r.of.reason) # "nothing_to_do"
    BY DEF FallbackCase
  <1> QED
    BY <1>1 DEF Derive, DecisionCase, Unconfirmed

\* A ticket is offered only for a fallback of one of four reasons.
LEMMA OfferIsOfAFallback ==
    ASSUME NEW r \in Readings, NEW t \in Nat, OffersTicket(r, t)
    PROVE  /\ r.readable /\ ~r.closed /\ r.of.presence = "true"
           /\ r.of.outcome = "fallback"
           /\ r.of.reason \notin {"stale_rules", "lane_closed", "another"}
           /\ r.of.stamp.readable /\ ~(Age(r.of.stamp, t) > MaxAge)
  <1>1. r.of.outcome = "fallback" => r.of.stamp.readable /\ ~(Age(r.of.stamp, t) > MaxAge)
    BY DEF OffersTicket, DecisionCase, TicketCases
  <1>2. r.of.outcome = "fallback"
    BY DEF OffersTicket, DecisionCase, TicketCases
  <1>3. FallbackCase(r.of.reason) \in TicketCases
    BY <1>1, <1>2 DEF OffersTicket, DecisionCase
  <1>4. r.of.reason \notin {"stale_rules", "lane_closed", "another"}
    BY <1>3 DEF FallbackCase, TicketCases
  <1> QED
    BY <1>1, <1>2, <1>4 DEF OffersTicket

\* The offer and the case agree, whatever was read.
LEMMA QuestionsAgree ==
    ASSUME NEW r \in Readings, NEW t \in Nat
    PROVE  /\ OffersTicket(r, t) => Derive(r, t) \in TicketCases \cup {"malfunction_active"}
           /\ Derive(r, t) \in TicketCases /\ r.of.presence = "true" => OffersTicket(r, t)
  BY DEF OffersTicket, Derive, TicketCases

\* Where a count of digits is answered it is the engine's.
LEMMA DigitsAreTheEngines ==
    ASSUME NEW m \in Moneys, m.currency # "none", DigitsFor(m) # -1
    PROVE  DigitsFor(m) = MinorUnits(m.currency) /\ DigitsFor(m) \in 0 .. MaxDigits
  <1>1. m \in Publications /\ Believable(m)
    BY ReadingAssumption
  <1>2. m.currency \in Currency /\ MinorUnits(m.currency) \in 0 .. MaxDigits
    BY <1>1, ReadingAssumption DEF Publications
  <1>3. m.digits \in -2 .. MaxDigits + 1
    BY <1>1 DEF Publications
  <1> QED
    BY <1>1, <1>2, <1>3 DEF DigitsFor, Believable, MaxDigits

\* Division by a power of ten, and its rest.
LEMMA DividedByTens ==
    ASSUME NEW f \in Nat, NEW d \in {1, 10, 100, 1000, 10000}
    PROVE  /\ f \div d \in Nat /\ f % d \in Nat /\ f % d < d
           /\ d * (f \div d) + (f % d) = f
  <1>1. f \div 1 \in Nat /\ f % 1 \in Nat /\ f % 1 < 1 /\ 1 * (f \div 1) + (f % 1) = f
    OBVIOUS
  <1>2. f \div 10 \in Nat /\ f % 10 \in Nat /\ f % 10 < 10 /\ 10 * (f \div 10) + (f % 10) = f
    OBVIOUS
  <1>3. /\ f \div 100 \in Nat /\ f % 100 \in Nat /\ f % 100 < 100
        /\ 100 * (f \div 100) + (f % 100) = f
    OBVIOUS
  <1>4. /\ f \div 1000 \in Nat /\ f % 1000 \in Nat /\ f % 1000 < 1000
        /\ 1000 * (f \div 1000) + (f % 1000) = f
    OBVIOUS
  <1>5. /\ f \div 10000 \in Nat /\ f % 10000 \in Nat /\ f % 10000 < 10000
        /\ 10000 * (f \div 10000) + (f % 10000) = f
    OBVIOUS
  <1> QED
    BY <1>1, <1>2, <1>3, <1>4, <1>5

\* A figure is the sum, written out: nothing is lost or gained by the division.
LEMMA FigureIsTheSum ==
    ASSUME NEW m \in Moneys, m.fee # -1, m.currency # "none"
    PROVE  FigureIs(FigureFor(m), m) /\ FigureFor(m) \in Figures
  <1>1. m.fee \in Nat
    BY ReadingAssumption DEF Publications
  <1>2. CASE DigitsFor(m) = -1
    BY <1>2 DEF FigureFor, FigureIs, NoFigure, Figures, MaxDigits
  <1>3. CASE DigitsFor(m) # -1
    <2> DEFINE n == DigitsFor(m)
    <2>1. n = MinorUnits(m.currency) /\ n \in 0 .. MaxDigits
      BY <1>3, DigitsAreTheEngines
    <2>2. Ten(n) \in {1, 10, 100, 1000, 10000}
      BY <2>1 DEF Ten, MaxDigits
    <2> HIDE DEF n
    <2>3. /\ m.fee \div Ten(n) \in Nat /\ m.fee % Ten(n) \in Nat /\ m.fee % Ten(n) < Ten(n)
          /\ Ten(n) * (m.fee \div Ten(n)) + (m.fee % Ten(n)) = m.fee
      BY <1>1, <2>2, DividedByTens
    <2>4. FigureFor(m) = [drawn |-> TRUE, whole |-> m.fee \div Ten(n), part |-> m.fee % Ten(n),
                          digits |-> n]
      BY <1>3 DEF FigureFor, n
    <2>5. FigureFor(m) \in Figures
      BY <2>1, <2>3, <2>4 DEF Figures
    <2>6. /\ FigureFor(m).digits = n /\ FigureFor(m).part = m.fee % Ten(n)
          /\ FigureFor(m).whole = m.fee \div Ten(n)
      BY <2>4
    <2>7. FigureIs(FigureFor(m), m)
      BY <2>1, <2>3, <2>6, Zenon DEF FigureIs
    <2> QED
      BY <2>5, <2>7
  <1> QED
    BY <1>2, <1>3

\* The screen of a fee, and the price line of one.
LEMMA ScreenIsTheFee ==
    ASSUME NEW m \in Moneys
    PROVE  /\ ScreenFor(m) \in FeeScreens /\ FigureIs(ScreenFor(m).figure, m)
           /\ ScreenFor(m).state = "fee_due" => ScreenFor(m).figure.drawn /\ m.fee > 0
           /\ ScreenFor(m).state = "nothing_to_pay" => m.status = "priced" /\ m.fee = 0
  <1>1. m.fee \in Nat \cup {-1}
    BY ReadingAssumption DEF Publications
  <1>2. NoFigure \in Figures /\ ~NoFigure.drawn
    BY DEF NoFigure, Figures, MaxDigits
  <1>3. CASE ScreenFor(m).state = "fee_due"
    <2>1. ScreenFor(m) = [state |-> "fee_due", figure |-> FigureFor(m)]
      BY <1>3 DEF ScreenFor, NoFee, Says
    <2>2. FigureFor(m).drawn /\ m.fee \notin {-1, 0} /\ m.currency # "none"
      BY <1>3 DEF ScreenFor, NoFee, Says
    <2> QED
      BY <1>1, <2>1, <2>2, FigureIsTheSum DEF FeeScreens
  <1>4. CASE ScreenFor(m).state # "fee_due"
    <2>1. ScreenFor(m) \in {NoFee, Says("covered"), Says("not_shown"), Says("nothing_to_pay")}
      BY <1>4 DEF ScreenFor
    <2>2. ScreenFor(m).figure = NoFigure /\ ScreenFor(m) \in FeeScreens
      BY <2>1, <1>2 DEF NoFee, Says, FeeScreens
    <2>3. ScreenFor(m).state = "nothing_to_pay" => m.status = "priced" /\ m.fee = 0
      BY DEF ScreenFor, NoFee, Says
    <2> QED
      BY <1>2, <1>4, <2>2, <2>3 DEF FigureIs
  <1> QED
    BY <1>3, <1>4

LEMMA LineIsTheLane ==
    ASSUME NEW m \in Moneys
    PROVE  /\ PriceLine(m) \in Lines /\ FigureIs(PriceLine(m).figure, m)
           /\ PriceLine(m).figure.drawn
                => 60 * PriceLine(m).hours + PriceLine(m).minutes = m.minutes
  <1>1. m.minutes \in (Nat \ {0}) \cup {-1}
    BY ReadingAssumption DEF Publications
  <1>2. CASE PriceLine(m) = NoLine
    BY <1>2 DEF NoLine, NoFigure, Lines, Figures, FigureIs, MaxDigits
  <1>3. CASE PriceLine(m) # NoLine
    <2>1. /\ PriceLine(m) = [hours |-> LengthLabel(m.minutes).hours,
                             minutes |-> LengthLabel(m.minutes).minutes,
                             figure |-> FigureFor(m)]
          /\ m.minutes # -1 /\ m.fee # -1 /\ m.currency # "none"
      BY <1>3 DEF PriceLine
    <2>2. LengthLabel(m.minutes) \in [hours : Nat, minutes : Nat]
      BY <1>1, <2>1 DEF LengthLabel
    <2>3. 60 * LengthLabel(m.minutes).hours + LengthLabel(m.minutes).minutes = m.minutes
      BY <1>1, <2>1 DEF LengthLabel
    <2> QED
      BY <2>1, <2>2, <2>3, FigureIsTheSum DEF Lines
  <1> QED
    BY <1>2, <1>3

----------------------------------------------------------------------------
(* The invariant. *)

LEMMA TypesOfTheLane ==
    /\ NoDecision.outcome = "none" /\ ~NoDecision.stamp.readable
    /\ \A lane \in BOOLEAN : Unread(lane) \in Readings /\ ~Unread(lane).readable
    /\ NoFee \in FeeScreens /\ NoLine \in Lines
  BY DEF NoDecision, NoMoment, Unread, Readings, NoFee, FeeScreens, NoLine, Lines, NoFigure,
         Figures, MaxDigits

\* Every variable has its type: the lane's own and what the agent made of it.
THEOREM ReadingTypeCorrect == ReadingSpec => []ReadingTypeOK
  <1>0. Unread(TRUE) \in Readings /\ Unread(FALSE) \in Readings
    BY TypesOfTheLane
  <1>1. ReadingInit => ReadingTypeOK
    <2> SUFFICES ASSUME ReadingInit PROVE ReadingTypeOK
      OBVIOUS
    <2>1. wired \in BOOLEAN /\ closed \in BOOLEAN /\ known \in BOOLEAN /\ moved \in BOOLEAN
      BY Zenon DEF ReadingInit
    <2>2. screen \in FeeScreens /\ line \in Lines /\ laneState \in Readings /\ reading \in Readings
      BY <1>0, TypesOfTheLane DEF ReadingInit
    <2>3. now \in Nat /\ news \in Nat /\ made \in Int
      BY DEF ReadingInit
    <2>4. decision \in Decisions \cup {NoDecision} /\ transit \in Transits \cup {"none"}
      BY DEF ReadingInit
    <2>5. skew \in Skews /\ active \subseteq Codes /\ drawnFrom \in Moneys \cup {NoMoney}
      BY DEF ReadingInit
    <2>6. at \in {"idle", "asking", "read"} /\ code \in {"unknown", "ok", "active"}
      BY DEF ReadingInit
    <2> QED
      BY <2>1, <2>2, <2>3, <2>4, <2>5, <2>6 DEF ReadingTypeOK
  <1>2. ReadingTypeOK /\ [ReadingNext]_readingVars => ReadingTypeOK'
    <2> SUFFICES ASSUME ReadingTypeOK, [ReadingNext]_readingVars PROVE ReadingTypeOK'
      OBVIOUS
    <2> USE ReadingAssumption DEF ReadingTypeOK
    <2>1. ASSUME NEW o \in Outcomes, NEW r \in Reasons \cup {"none"},
                 NEW p \in {"true", "false", "unmeasured"}, NEW readable \in BOOLEAN,
                 Decides(o, r, p, readable)
          PROVE  ReadingTypeOK'
      <3>1. (IF readable THEN Moment(now + skew) ELSE NoMoment) \in Moments
        BY DEF Moment, NoMoment, Moments
      <3>2. decision' \in Decisions
        BY <2>1, <3>1 DEF Decides, Decisions
      <3> QED
        BY <2>1, <3>2 DEF Decides, Changes, Transits, readVars, screenVars
    <2>2. ASSUME NEW how \in Transits, Passes(how) PROVE ReadingTypeOK'
      BY <2>2 DEF Passes, Changes, readVars, screenVars
    <2>3. ASSUME NEW version \in BOOLEAN, StartsAgain(version) PROVE ReadingTypeOK'
      BY <2>3 DEF StartsAgain, Changes, readVars, screenVars
    <2>4. ASSUME NEW c \in Codes, CodeTurns(c) PROVE ReadingTypeOK'
      BY <2>4 DEF CodeTurns, Changes, readVars, screenVars
    <2>5. CASE OwnerTurns
      BY <2>5 DEF OwnerTurns, Changes, readVars, screenVars
    <2>6. CASE Tick
      BY <2>6 DEF Tick, laneVars, readVars, screenVars
    <2>7. CASE ReadNoLane
      BY <2>7, TypesOfTheLane DEF ReadNoLane, HasRead, laneVars, screenVars
    <2>8. CASE ReadState
      <3>1. laneState' \in Readings
        BY <2>8 DEF ReadState, Readings, Codes
      <3>2. made' \in Int
        BY <2>8 DEF ReadState, Decisions, Moments, NoDecision, NoMoment
      <3> QED
        BY <2>8, <3>1, <3>2 DEF ReadState, laneVars, screenVars
    <2>9. CASE LaneSilent
      BY <2>9, TypesOfTheLane DEF LaneSilent, HasRead, laneVars, screenVars
    <2>10. ASSUME NEW list \in BOOLEAN, ReadHealth(list) PROVE ReadingTypeOK'
      <3>1. [laneState EXCEPT !.malfunctions = Alarms] \in Readings
        BY DEF Readings, Alarms
      <3> QED
        BY <2>10, <3>1, TypesOfTheLane DEF ReadHealth, HasRead, laneVars, screenVars
    <2>11. CASE Done
      <3>1. moved' \in BOOLEAN
        BY <2>11, Zenon DEF Done
      <3>4. made' \in Int
        BY <2>11 DEF Done
      <3>5. reading' \in Readings
        BY <2>11, <1>0, Zenon DEF Done
      <3>2. at' \in {"idle", "asking", "read"}
        BY <2>11 DEF Done
      <3>3. /\ UNCHANGED <<now, skew, wired, laneState, code>>
            /\ UNCHANGED <<decision, transit, active, closed, known, news>>
            /\ UNCHANGED <<screen, line, drawnFrom>>
        BY <2>11 DEF Done, laneVars, screenVars
      <3> QED
        BY <3>1, <3>2, <3>3, <3>4, <3>5
    <2>12. ASSUME NEW m \in Moneys, ReadFee(m) PROVE ReadingTypeOK'
      BY <2>12, ScreenIsTheFee, LineIsTheLane, TypesOfTheLane DEF ReadFee, laneVars, readVars
    <2>13. CASE UNCHANGED readingVars
      BY <2>13 DEF readingVars, laneVars, readVars, screenVars
    <2> QED
      BY <2>1, <2>2, <2>3, <2>4, <2>5, <2>6, <2>7, <2>8, <2>9, <2>10, <2>11, <2>12, <2>13
      DEF ReadingNext
  <1> QED
    BY <1>1, <1>2, PTL DEF ReadingSpec

\* What was read is what was there to read.
THEOREM ReadIsOfTheLane == ReadingSpec => []IsOfTheLane
  <1>1. ReadingInit => IsOfTheLane
    BY DEF ReadingInit, IsOfTheLane
  <1>2. ReadingTypeOK /\ IsOfTheLane /\ [ReadingNext]_readingVars => IsOfTheLane'
    <2> SUFFICES ASSUME ReadingTypeOK, IsOfTheLane, [ReadingNext]_readingVars PROVE IsOfTheLane'
      OBVIOUS
    <2> USE DEF IsOfTheLane, HeldOf
    <2>1. CASE Changes
      <3>1. at' = at /\ laneState' = laneState /\ reading' = reading /\ made' = made /\ skew' = skew
        BY <2>1 DEF Changes, readVars
      <3>2. at # "idle" => moved'
        BY <2>1 DEF Changes
      <3> QED
        BY <3>1, <3>2
    <2>2. CASE Tick
      BY <2>2 DEF Tick, laneVars, readVars
    <2>3. CASE ReadNoLane
      BY <2>3 DEF ReadNoLane, HasRead, Unread
    <2>4. CASE ReadState
      <3>1. at' = "asking" /\ ~moved' /\ skew' = skew
        BY <2>4 DEF ReadState
      <3>2. /\ laneState'.of = decision /\ laneState'.transit = transit
            /\ laneState'.closed = closed /\ laneState'.readable = known
        BY <2>4 DEF ReadState
      <3>3. decision' = decision /\ transit' = transit /\ closed' = closed /\ known' = known
        BY <2>4 DEF ReadState, laneVars
      <3>4. decision.stamp.readable => made' = decision.stamp.at - skew
        BY <2>4 DEF ReadState
      <3> QED
        BY <3>1, <3>2, <3>3, <3>4
    <2>5. CASE LaneSilent
      BY <2>5 DEF LaneSilent, HasRead, Unread
    <2>6. ASSUME NEW list \in BOOLEAN, ReadHealth(list) PROVE IsOfTheLane'
      <3>1. /\ at = "asking" /\ at' = "read" /\ made' = made /\ moved' = moved /\ skew' = skew
            /\ decision' = decision /\ transit' = transit /\ closed' = closed /\ known' = known
            /\ active' = active
        BY <2>6 DEF ReadHealth, HasRead, laneVars
      <3>2. CASE reading' = [laneState EXCEPT !.malfunctions = Alarms]
        <4>1. /\ reading'.of = laneState.of /\ reading'.transit = laneState.transit
              /\ reading'.closed = laneState.closed /\ reading'.readable = laneState.readable
              /\ reading'.malfunctions = Alarms
          BY <3>2 DEF ReadingTypeOK, Readings
        <4> QED
          BY <3>1, <4>1 DEF Alarms
      <3>3. CASE reading' = Unread(TRUE)
        BY <3>1, <3>3 DEF Unread
      <3> QED
        BY <2>6, <3>2, <3>3 DEF ReadHealth, HasRead
    <2>7. CASE Done
      BY <2>7 DEF Done
    <2>8. ASSUME NEW m \in Moneys, ReadFee(m) PROVE IsOfTheLane'
      BY <2>8 DEF ReadFee, laneVars, readVars
    <2>9. CASE UNCHANGED readingVars
      BY <2>9 DEF readingVars, laneVars, readVars
    <2> QED
      BY <2>1, <2>2, <2>3, <2>4, <2>5, <2>6, <2>7, <2>8, <2>9
      DEF ReadingNext, Decides, Passes, StartsAgain, CodeTurns, OwnerTurns
  <1> QED
    BY <1>1, <1>2, ReadingTypeCorrect, PTL DEF ReadingSpec

\* Nothing to do is said only of an allow of the lane's own that is recent, and of
\* a lane that was open and well when it was asked.
THEOREM NothingToDo == ReadingSpec => []NothingToDoIsRecent
  <1>1. ReadingTypeOK /\ IsOfTheLane => NothingToDoIsRecent
    <2> SUFFICES ASSUME ReadingTypeOK, IsOfTheLane, at = "read",
                        Derive(reading, now) = "nothing_to_do"
                 PROVE  /\ reading.of.outcome = "allow" /\ now - made <= MaxAge + skew
                        /\ ~moved => /\ decision = reading.of /\ transit \in {"pending", "confirmed"}
                                     /\ ~closed /\ known /\ active \subseteq NeverAlarm
      BY DEF NothingToDoIsRecent
    <2>1. /\ reading.readable /\ reading.malfunctions = {} /\ ~reading.closed
          /\ reading.of.outcome = "allow" /\ reading.transit \in {"pending", "confirmed"}
          /\ reading.of.stamp.readable /\ ~(Age(reading.of.stamp, now) > MaxAge)
      BY NothingToDoIsFresh DEF ReadingTypeOK
    <2>2. HeldOf(reading) /\ (~moved => reading.malfunctions = active \ NeverAlarm)
      BY <2>1 DEF IsOfTheLane
    <2>3. reading.of.stamp.at \in Int /\ now \in Int /\ skew \in Int /\ MaxAge \in Int
      BY ReadingAssumption DEF ReadingTypeOK, Readings, Decisions, Moments, NoDecision, NoMoment
    <2>4. now - made <= MaxAge + skew
      BY <2>1, <2>2, <2>3 DEF HeldOf, Age
    <2> QED
      BY <2>1, <2>2, <2>4 DEF HeldOf
  <1> QED
    BY <1>1, ReadingTypeCorrect, ReadIsOfTheLane, PTL

\* A ticket is offered only after a recent fallback, of a lane that was open and
\* had a vehicle there when it was asked.
THEOREM OffersAreRecent == ReadingSpec => []OfferIsOfARecentFallback
  <1>1. ReadingTypeOK /\ IsOfTheLane => OfferIsOfARecentFallback
    <2> SUFFICES ASSUME ReadingTypeOK, IsOfTheLane, at = "read", OffersTicket(reading, now)
                 PROVE  /\ now - made <= MaxAge + skew
                        /\ ~moved => /\ known /\ ~closed
                                     /\ decision.outcome = "fallback" /\ decision.presence = "true"
                                     /\ decision.reason \notin {"stale_rules", "lane_closed", "another"}
      BY DEF OfferIsOfARecentFallback
    <2>1. /\ reading.readable /\ ~reading.closed /\ reading.of.presence = "true"
          /\ reading.of.outcome = "fallback"
          /\ reading.of.reason \notin {"stale_rules", "lane_closed", "another"}
          /\ reading.of.stamp.readable /\ ~(Age(reading.of.stamp, now) > MaxAge)
      BY OfferIsOfAFallback DEF ReadingTypeOK
    <2>2. HeldOf(reading)
      BY <2>1 DEF IsOfTheLane
    <2>3. reading.of.stamp.at \in Int /\ now \in Int /\ skew \in Int /\ MaxAge \in Int
      BY ReadingAssumption DEF ReadingTypeOK, Readings, Decisions, Moments, NoDecision, NoMoment
    <2>4. now - made <= MaxAge + skew
      BY <2>1, <2>2, <2>3 DEF HeldOf, Age
    <2> QED
      BY <2>1, <2>2, <2>4 DEF HeldOf
  <1> QED
    BY <1>1, ReadingTypeCorrect, ReadIsOfTheLane, PTL

\* What a driver hears and what a driver is offered agree.
THEOREM OfferAgrees == ReadingSpec => []OfferFollowsTheCase
  <1>1. ReadingTypeOK => OfferFollowsTheCase
    BY QuestionsAgree DEF ReadingTypeOK, OfferFollowsTheCase
  <1> QED
    BY <1>1, ReadingTypeCorrect, PTL

\* The money on the screen is the money the lane published, for every sum and
\* every currency.
THEOREM MoneyIsRight == ReadingSpec => []FigureIsTheFee
  <1>1. ReadingInit => FigureIsTheFee
    BY DEF ReadingInit, FigureIsTheFee, FigureIs, NoFee, NoLine, NoFigure
  <1>2. FigureIsTheFee /\ [ReadingNext]_readingVars => FigureIsTheFee'
    <2> SUFFICES ASSUME FigureIsTheFee, [ReadingNext]_readingVars PROVE FigureIsTheFee'
      OBVIOUS
    <2>1. ASSUME NEW m \in Moneys, ReadFee(m) PROVE FigureIsTheFee'
      <3>1. CASE known
        <4>1. screen' = ScreenFor(m) /\ line' = PriceLine(m) /\ drawnFrom' = m
          BY <2>1, <3>1 DEF ReadFee
        <4>2. /\ FigureIs(ScreenFor(m).figure, m)
              /\ ScreenFor(m).state = "fee_due" => ScreenFor(m).figure.drawn /\ m.fee > 0
              /\ ScreenFor(m).state = "nothing_to_pay" => m.status = "priced" /\ m.fee = 0
          BY ScreenIsTheFee
        <4>3. /\ FigureIs(PriceLine(m).figure, m)
              /\ PriceLine(m).figure.drawn
                   => 60 * PriceLine(m).hours + PriceLine(m).minutes = m.minutes
          BY LineIsTheLane
        <4> QED
          BY <4>1, <4>2, <4>3 DEF FigureIsTheFee, FigureIs
      <3>2. CASE ~known
        BY <2>1, <3>2 DEF ReadFee, FigureIsTheFee, FigureIs, NoFee, NoLine, NoFigure
      <3> QED
        BY <3>1, <3>2
    <2>2. CASE UNCHANGED screenVars
      BY <2>2 DEF screenVars, FigureIsTheFee, FigureIs
    <2> QED
      BY <2>1, <2>2
      DEF ReadingNext, readingVars, Decides, Passes, StartsAgain, CodeTurns, OwnerTurns, Changes,
          Tick, ReadNoLane, ReadState, LaneSilent, Done, ReadHealth
  <1> QED
    BY <1>1, <1>2, PTL DEF ReadingSpec
=============================================================================
