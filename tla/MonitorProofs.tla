---------------------------- MODULE MonitorProofs ----------------------------
(***************************************************************************)
(* Theorems about Monitor, for any number of sinks and codes, any retries  *)
(* and any length of run.  Three invariants, each on the one before: what  *)
(* the thread's agenda and its records are made of; what has been said of  *)
(* a fault the process knows of; and what the disk knows of a message that *)
(* a sink has taken.                                                       *)
(***************************************************************************)
EXTENDS Monitor, FiniteSetTheorems, SequenceTheorems, TLAPS

-------------------------------------------------------------------------------
(* The agenda.                                                             *)

\* The calls there may be while n messages have been made: only the observation of a
\* code of the target's, published so, is one that may wake nobody.
Good(n) ==
    {c \in CallType : /\ c.op \in {"retry", "resume record", "sinks"} => c.msg \in 1 .. n
                      /\ c.op = "observe" => c.key \in Keys
                      /\ c.never = FALSE
                            \/ (c.op = "observe" /\ c.key.about = "code" /\ TRUE \in NeverAlarm)}

Types ==
    /\ TypeOK
    /\ agenda \in Seq(Good(Len(msgs)))
    /\ quiet \in [Codes -> NeverAlarm \cup {FALSE}]

LEMMA KeyFacts ==
    /\ \A c \in Codes : CodeKey(c) \in Keys /\ CodeKey(c).about = "code" /\ CodeKey(c).of = c
    /\ \A s \in Sinks : SinkKey(s) \in Keys /\ SinkKey(s).about = "sink" /\ SinkKey(s).of = s
    /\ {Reach, Refuse, Contract, StoreKey} \subseteq Keys
    /\ \A k \in {Reach, Refuse, Contract, StoreKey, StartKey} : k.about \notin {"code", "sink"}
    /\ \A k \in Keys : k.about = "code" => k.of \in Codes
    /\ StartKey \notin Keys
  <1>1. /\ \A c \in Codes : CodeKey(c) \in Keys /\ CodeKey(c).about = "code" /\ CodeKey(c).of = c
        /\ \A s \in Sinks : SinkKey(s) \in Keys /\ SinkKey(s).about = "sink" /\ SinkKey(s).of = s
    BY DEF Keys, CodeKey, SinkKey
  <1>2. \A k \in {Reach, Refuse, Contract, StoreKey, StartKey} : k.about \notin {"code", "sink"}
    BY DEF Reach, Refuse, Contract, StoreKey, StartKey
  <1>3. \A k \in Keys : \/ \E c \in Codes : k = CodeKey(c)
                        \/ \E s \in Sinks : k = SinkKey(s)
                        \/ k \in {Reach, Refuse, Contract, StoreKey}
    BY DEF Keys
  <1>4. \A k \in Keys : k.about = "code" => k.of \in Codes
    <2> SUFFICES ASSUME NEW k \in Keys, k.about = "code" PROVE k.of \in Codes
      OBVIOUS
    <2>1. ~ \E s \in Sinks : k = SinkKey(s)
      BY <1>1
    <2> QED
      BY <1>1, <1>2, <1>3, <2>1
  <1>5. \A k \in Keys : k.about \in {"code", "sink", "reach", "refuse", "contract", "store"}
    <2>1. \A k \in {Reach, Refuse, Contract, StoreKey} : k.about \in {"reach", "refuse", "contract", "store"}
      BY DEF Reach, Refuse, Contract, StoreKey
    <2> QED
      BY <1>1, <1>3, <2>1
  <1>6. StartKey.about = "start"
    BY DEF StartKey
  <1>7. {Reach, Refuse, Contract, StoreKey} \subseteq Keys
    BY DEF Keys
  <1> QED
    BY <1>1, <1>2, <1>4, <1>5, <1>6, <1>7

LEMMA GoodCalls ==
    ASSUME NEW n \in Nat
    PROVE  /\ \A op \in {"target", "reported", "store", "retried", "resume", "announce", "purge", "started"} :
                  Do(op, 0) \in Good(n)
           /\ \A op \in {"retry", "resume record", "sinks"}, m \in 1 .. n : Do(op, m) \in Good(n)
           /\ \A k \in Keys, h \in Health : Observe(k, h) \in Good(n)
           /\ \A c \in Codes, h \in Health, a \in NeverAlarm \cup {FALSE} :
                  ObserveCode(c, h, a) \in Good(n)
  <1>1. \A op \in {"target", "reported", "store", "retried", "resume", "announce", "purge", "started"} :
            Do(op, 0) \in Good(n)
    BY DEF Do, Call, Good, CallType, Health
  <1>2. \A op \in {"retry", "resume record", "sinks"}, m \in 1 .. n : Do(op, m) \in Good(n)
    <2>1. \A m \in 1 .. n : m \in Nat
      OBVIOUS
    <2> QED
      BY <2>1 DEF Do, Call, Good, CallType, Health
  <1>3. \A k \in Keys, h \in Health : Observe(k, h) \in Good(n)
    BY DEF Observe, Call, Good, CallType
  <1>4. \A c \in Codes, h \in Health, a \in NeverAlarm \cup {FALSE} : ObserveCode(c, h, a) \in Good(n)
    BY KeyFacts, MonitorAssumption DEF ObserveCode, Call, Good, CallType
  <1> QED
    BY <1>1, <1>2, <1>3, <1>4

\* A function on 1 .. n is a sequence.
LEMMA Listed ==
    ASSUME NEW S, NEW n \in Nat, NEW f \in [1 .. n -> S]
    PROVE  f \in Seq(S)
  BY SeqDef

LEMMA Grows ==
    ASSUME NEW m \in Nat, NEW n \in Nat, m <= n
    PROVE  Good(m) \subseteq Good(n)
  <1>1. 1 .. m \subseteq 1 .. n
    OBVIOUS
  <1> QED
    BY <1>1, Zenon DEF Good

\* The innermost call is replaced by those it makes.
LEMMA GoesOn ==
    ASSUME NEW n \in Nat, agenda \in Seq(Good(n)), agenda # <<>>, NEW calls \in Seq(Good(n)), Goes(calls)
    PROVE  agenda' \in Seq(Good(n))
  <1>1. Tail(agenda) \in Seq(Good(n))
    BY HeadTailProperties
  <1> QED
    BY <1>1, ConcatProperties DEF Goes

\* What is at hand of the agenda, and the record it is of.
LEMMA AtHand ==
    ASSUME Types, agenda # <<>>
    PROVE  /\ Head(agenda) \in Good(Len(msgs)) /\ Len(msgs) \in Nat
           /\ Head(agenda).op \in {"retry", "resume record", "sinks"} => Head(agenda).msg \in Message
  <1>1. Head(agenda) \in Good(Len(msgs))
    BY HeadTailProperties DEF Types
  <1>2. Len(msgs) \in Nat
    BY LenProperties DEF Types, TypeOK
  <1> QED
    BY <1>1, <1>2 DEF Good, Message

-------------------------------------------------------------------------------
(* A record.                                                               *)

LEMMA FreshType == Fresh \in [Sinks -> DeliveryType]
  BY DEF Fresh, DeliveryType, DeliveryStates

LEMMA AfterType ==
    ASSUME NEW d \in DeliveryType, NEW does \in Conditions
    PROVE  /\ After(d, does) \in DeliveryType
           /\ does = "takes" => After(d, does).state = "delivered"
  <1>1. /\ d.tries + 1 \in Nat
        /\ {"delivered", "retrying", "failed"} \subseteq DeliveryStates
    BY DEF DeliveryType, DeliveryStates
  <1> QED
    BY <1>1 DEF After, TransientlyFailed, DeliveryType, Conditions

LEMMA NewMessageType ==
    ASSUME NEW k \in Keys \cup {StartKey}, NEW says \in Health
    PROVE  /\ NewMessage(k, says) \in MessageType
           /\ NewMessage(k, says).key = k /\ NewMessage(k, says).says = says
           /\ NewMessage(k, says).now = Fresh /\ NewMessage(k, says).disk = Fresh
  BY FreshType DEF NewMessage, MessageType

\* What a write does to the messages: one record's deliveries, on the disk too or excused.
LEMMA KeepEffect ==
    ASSUME NEW list \in Seq(MessageType), NEW m \in 1 .. Len(list), NEW d \in [Sinks -> DeliveryType],
           Keep(list, m, d), changes \in Nat
    PROVE  /\ msgs' \in Seq(MessageType) /\ Len(msgs') = Len(list)
           /\ \A i \in 1 .. Len(list) : /\ msgs'[i].key = list[i].key /\ msgs'[i].says = list[i].says
                                        /\ i # m => msgs'[i] = list[i]
           /\ msgs'[m].now = d
           /\ m \notin excused' => msgs'[m].disk = d /\ msgs'[m].kept = TRUE
           /\ msgs'[m].disk \in {d, list[m].disk}
           /\ excused' \in {excused, excused \cup {m}}
           /\ store' \in {"writes", "refuses"} /\ refused' \in BOOLEAN /\ changes' \in Nat
  <1>1. PICK does \in {"writes", "refuses"} :
            /\ Turns(store, does) /\ store' = does /\ refused' = (does = "refuses")
            /\ msgs' = [list EXCEPT ![m].now = d, ![m].disk = IF does = "writes" THEN d ELSE @,
                                    ![m].kept = @ \/ does = "writes"]
            /\ excused' = IF does = "writes" THEN excused ELSE excused \cup {m}
    BY DEF Keep
  <1> DEFINE r == [list[m] EXCEPT !.now = d, !.disk = IF does = "writes" THEN d ELSE @,
                                  !.kept = @ \/ does = "writes"]
  <1>2. list[m] \in MessageType
    BY ElementOfSeq
  <1>3. /\ r \in MessageType /\ r.key = list[m].key /\ r.says = list[m].says /\ r.now = d
        /\ does = "writes" => r.disk = d /\ r.kept = TRUE
        /\ r.disk \in {d, list[m].disk}
    BY <1>2 DEF MessageType
  <1>4. msgs' = [list EXCEPT ![m] = r]
    BY <1>1
  <1> HIDE DEF r
  <1>5. /\ msgs' \in Seq(MessageType) /\ Len(msgs') = Len(list)
        /\ \A i \in 1 .. Len(list) : msgs'[i] = IF i = m THEN r ELSE list[i]
    BY <1>3, <1>4, ExceptSeq
  <1>6. changes' \in Nat
    BY <1>1 DEF Turns
  <1> QED
    BY <1>1, <1>3, <1>5, <1>6

LEMMA KeepForgets ==
    ASSUME NEW list, NEW m, NEW d, Keep(list, m, d)
    PROVE  forgotten' \subseteq forgotten /\ UNCHANGED dropped
  BY DEF Keep

-------------------------------------------------------------------------------
(* Types.                                                                  *)

LEMMA TypesInit == Init => Types
  <1> SUFFICES ASSUME Init PROVE Types
    OBVIOUS
  <1>1. /\ msgs = <<>> /\ Len(msgs) = 0 /\ agenda = <<>> /\ open = <<>> /\ cameBack = <<>>
        /\ <<>> \in Seq(MessageType) /\ <<>> \in Seq(Good(0)) /\ <<>> \in Seq(Message)
        /\ <<>> \in Seq(Sinks) /\ <<>> \in Seq(CallType)
    BY EmptySeq DEF Init
  <1>2. TypeOK
    BY <1>1, FreshType DEF Init, TypeOK, HandType, Health, Idle, Busy, Conditions
  <1> QED
    BY <1>1, <1>2 DEF Types, Init

\* What refers to messages by their number refers to no fewer when more are made.
LEMMA NumbersHold ==
    ASSUME Types, Len(msgs') \in Nat, Len(msgs) <= Len(msgs')
    PROVE  /\ agenda \in Seq(Good(Len(msgs'))) /\ Message \subseteq Message'
           /\ open \in Seq(Message') /\ due \subseteq Message' \X Sinks
           /\ heard \in [Sinks -> SUBSET Message'] /\ excused \subseteq Message'
           /\ forgotten \subseteq Message' /\ dropped \subseteq Message'
  <1>1. Len(msgs) \in Nat
    BY LenProperties DEF Types, TypeOK
  <1>2. Good(Len(msgs)) \subseteq Good(Len(msgs')) /\ Message \subseteq Message'
    BY <1>1, Grows DEF Message
  <1>3. agenda \in Seq(Good(Len(msgs'))) /\ open \in Seq(Message')
    BY <1>2, SeqMonotonic DEF Types, TypeOK
  <1> QED
    BY <1>2, <1>3 DEF Types, TypeOK

\* An action that leaves the messages alone.
LEMMA Untouched ==
    ASSUME Types, UNCHANGED msgs,
           agenda' \in Seq(Good(Len(msgs))), open' \in Seq(Message), due' \subseteq Message \X Sinks,
           cameBack' \in Seq(Sinks), states' \in [Keys -> Health], quiet' \in [Codes -> NeverAlarm \cup {FALSE}],
           up' \in BOOLEAN, reporting' \in BOOLEAN, refused' \in BOOLEAN,
           hand' \in HandType,
           hand'.mode # "idle" => hand'.msg \in Message /\ hand'.next <= NumSinks + 1,
           sink' \in [Sinks -> Conditions], store' \in {"writes", "refuses"}, target' \in Payload,
           before' \in Nat, heard' \in [Sinks -> SUBSET Message], excused' \subseteq Message,
           forgotten' \subseteq Message, dropped' \subseteq Message,
           changes' \in Nat, reminders' \in Nat
    PROVE  Types'
  <1>1. Message' = Message /\ Len(msgs') = Len(msgs)
    BY DEF Message
  <1>2. agenda' \in Seq(CallType)
    <2>1. Good(Len(msgs)) \subseteq CallType
      BY DEF Good
    <2> QED
      BY <2>1, SeqMonotonic
  <1>3. quiet' \in [Codes -> BOOLEAN]
    BY MonitorAssumption
  <1> QED
    BY <1>1, <1>2, <1>3 DEF Types, TypeOK, Busy

\* An action that writes a record, a new one or one there was.
LEMMA Written ==
    ASSUME Types, NEW list \in Seq(MessageType), Len(msgs) <= Len(list), NEW m \in 1 .. Len(list),
           NEW d \in [Sinks -> DeliveryType], Keep(list, m, d),
           agenda' \in Seq(Good(Len(list))), open' \in Seq(1 .. Len(list)),
           states' \in [Keys -> Health], quiet' \in [Codes -> NeverAlarm \cup {FALSE}],
           hand' \in HandType,
           hand'.mode # "idle" => hand'.msg \in 1 .. Len(list) /\ hand'.next <= NumSinks + 1,
           reminders' \in Nat, UNCHANGED <<up, reporting, due, cameBack, sink, target, before, heard>>
    PROVE  Types'
  <1>1. changes \in Nat /\ Len(msgs) \in Nat /\ Len(list) \in Nat
    BY LenProperties DEF Types, TypeOK
  <1>2. /\ msgs' \in Seq(MessageType) /\ Len(msgs') = Len(list)
        /\ excused' \in {excused, excused \cup {m}}
        /\ forgotten' \subseteq forgotten /\ UNCHANGED dropped
        /\ store' \in {"writes", "refuses"} /\ refused' \in BOOLEAN /\ changes' \in Nat
    BY <1>1, KeepEffect, KeepForgets
  <1>3. /\ Message \subseteq Message' /\ Message' = 1 .. Len(list) /\ due \subseteq Message' \X Sinks
        /\ heard \in [Sinks -> SUBSET Message'] /\ excused \subseteq Message'
        /\ forgotten \subseteq Message' /\ dropped \subseteq Message'
    BY <1>1, <1>2, NumbersHold DEF Message
  <1>4. agenda' \in Seq(CallType)
    <2>1. Good(Len(list)) \subseteq CallType
      BY DEF Good
    <2> QED
      BY <2>1, SeqMonotonic
  <1>5. quiet' \in [Codes -> BOOLEAN]
    BY MonitorAssumption
  <1> QED
    BY <1>1, <1>2, <1>3, <1>4, <1>5 DEF Types, TypeOK, Busy

\* The calls that an observation of a target's answer comes to.
LEMMA AnswersGood ==
    ASSUME Types, NEW found \in Payload
    PROVE  Answers(found) \in Seq(Good(Len(msgs)))
  <1> DEFINE G == Good(Len(msgs))
  <1>1. /\ Len(msgs) \in Nat /\ NumCodes \in Nat /\ quiet \in [Codes -> NeverAlarm \cup {FALSE}]
        /\ {"ok", "active", "unknown"} \subseteq Health
    BY LenProperties, MonitorAssumption DEF Types, TypeOK, Health
  <1>2. \A k \in {Reach, Refuse, Contract}, h \in {"ok", "active", "unknown"} : Observe(k, h) \in G
    BY <1>1, GoodCalls, KeyFacts
  <1>3. Retire \in Seq(G)
    <2>1. \A c \in Codes : ObserveCode(c, "unknown", quiet[c]) \in G
      BY <1>1, GoodCalls
    <2>2. Retire \in [1 .. NumCodes -> G]
      BY <2>1 DEF Retire, Codes
    <2> QED
      BY <1>1, <2>2, Listed
  <1>4. found.ending = "answered" => Published(found) \in Seq(G)
    <2> SUFFICES ASSUME found.ending = "answered" PROVE Published(found) \in Seq(G)
      OBVIOUS
    <2>1. found.code \in [Codes -> Health] /\ found.never \in [Codes -> NeverAlarm]
      BY DEF Payload
    <2>2. \A c \in Codes : ObserveCode(c, found.code[c], found.never[c]) \in G
      BY <1>1, <2>1, GoodCalls
    <2>3. Published(found) \in [1 .. NumCodes -> G]
      BY <2>2 DEF Published, Codes
    <2> QED
      BY <1>1, <2>3, Listed
  <1>5. found.ending \in {"answered", "refused", "unreachable", "unreadable", "unversioned"}
    BY MonitorAssumption DEF Payload
  <1> SUFFICES Answers(found) \in Seq(G)
    OBVIOUS
  <1> HIDE DEF G
  <1>6. \A a, b, c \in G : <<a, b>> \in Seq(G) /\ <<a, b, c>> \in Seq(G)
    OBVIOUS
  <1>7. CASE found.ending = "refused"
    BY <1>2, <1>3, <1>6, <1>7, ConcatProperties DEF Answers
  <1>8. CASE found.ending = "unreachable"
    BY <1>2, <1>3, <1>6, <1>8, ConcatProperties DEF Answers
  <1>9. CASE found.ending = "unreadable"
    BY <1>2, <1>3, <1>6, <1>9, ConcatProperties DEF Answers
  <1>10. CASE found.ending = "unversioned"
    BY <1>2, <1>6, <1>10 DEF Answers
  <1>11. CASE found.ending = "answered"
    BY <1>2, <1>4, <1>6, <1>11, ConcatProperties DEF Answers
  <1> QED
    BY <1>5, <1>7, <1>8, <1>9, <1>10, <1>11

\* What is observed of what.
LEMMA Observation ==
    ASSUME Types, AtObservation
    PROVE  /\ Key \in Keys /\ State \in Health /\ agenda # <<>> /\ ~Busy /\ up
           /\ Key.about = "code" => Key.of \in Codes
           /\ Head(agenda).never \in NeverAlarm \cup {FALSE}
           /\ Key.about # "code" => Head(agenda).never = FALSE
  <1>1. /\ Head(agenda) \in Good(Len(msgs)) /\ agenda # <<>> /\ up /\ ~Busy
        /\ Head(agenda).op \in {"observe", "store"}
    BY AtHand DEF AtObservation, At
  <1>2. Head(agenda) \in CallType /\ (Head(agenda).op = "observe" => Head(agenda).key \in Keys)
        /\ Head(agenda).never \in {FALSE, TRUE}
        /\ (Head(agenda).never = FALSE
              \/ (Head(agenda).op = "observe" /\ Head(agenda).key.about = "code" /\ TRUE \in NeverAlarm))
    BY <1>1 DEF Good, CallType
  <1>3. Key \in Keys /\ (Key.about # "code" => Head(agenda).never = FALSE)
    BY <1>1, <1>2, KeyFacts DEF Key
  <1>4. State \in Health
    BY <1>1, <1>2 DEF State, Health, CallType
  <1> QED
    BY <1>1, <1>2, <1>3, <1>4, KeyFacts

LEMMA ObservedTypes ==
    ASSUME Types, AtObservation, Observed
    PROVE  states' \in [Keys -> Health] /\ quiet' \in [Codes -> NeverAlarm \cup {FALSE}]
  <1>1. /\ Key \in Keys /\ State \in Health /\ (Key.about = "code" => Key.of \in Codes)
        /\ Head(agenda).never \in NeverAlarm \cup {FALSE}
        /\ states \in [Keys -> Health] /\ quiet \in [Codes -> NeverAlarm \cup {FALSE}]
    BY Observation DEF Types, TypeOK
  <1> QED
    BY <1>1 DEF Observed

\* One sink's delivery of a record changes, and nothing else of any record.
LEMMA DeliveryChanges ==
    ASSUME Types, NEW m \in Message, NEW s \in Sinks, NEW d \in DeliveryType,
           msgs' = [msgs EXCEPT ![m].now[s] = d]
    PROVE  /\ msgs' \in Seq(MessageType) /\ Len(msgs') = Len(msgs) /\ Message' = Message
           /\ \A i \in Message : /\ msgs'[i].key = msgs[i].key /\ msgs'[i].says = msgs[i].says
                                 /\ msgs'[i].kept = msgs[i].kept /\ msgs'[i].disk = msgs[i].disk
                                 /\ i # m => msgs'[i] = msgs[i]
           /\ msgs'[m].now[s] = d
           /\ \A r \in Sinks : r # s => msgs'[m].now[r] = msgs[m].now[r]
  <1>1. msgs \in Seq(MessageType) /\ msgs[m] \in MessageType /\ m \in 1 .. Len(msgs)
    BY ElementOfSeq DEF Types, TypeOK, Message
  <1> DEFINE r == [msgs[m] EXCEPT !.now = [msgs[m].now EXCEPT ![s] = d]]
  <1>2. /\ r \in MessageType /\ r.key = msgs[m].key /\ r.says = msgs[m].says
        /\ r.kept = msgs[m].kept /\ r.disk = msgs[m].disk /\ r.now = [msgs[m].now EXCEPT ![s] = d]
        /\ r.now[s] = d /\ \A q \in Sinks : q # s => r.now[q] = msgs[m].now[q]
    BY <1>1 DEF MessageType
  <1>3. msgs' = [msgs EXCEPT ![m] = r]
    OBVIOUS
  <1> HIDE DEF r
  <1>4. /\ msgs' \in Seq(MessageType) /\ Len(msgs') = Len(msgs)
        /\ \A i \in 1 .. Len(msgs) : msgs'[i] = IF i = m THEN r ELSE msgs[i]
    BY <1>1, <1>2, <1>3, ExceptSeq
  <1> QED
    BY <1>1, <1>2, <1>4 DEF Message

LEMMA RecordType ==
    ASSUME Types, NEW m \in Message
    PROVE  /\ msgs[m] \in MessageType /\ m \in 1 .. Len(msgs)
           /\ msgs[m].now \in [Sinks -> DeliveryType] /\ msgs[m].disk \in [Sinks -> DeliveryType]
  <1>1. msgs[m] \in MessageType /\ m \in 1 .. Len(msgs)
    BY ElementOfSeq DEF Types, TypeOK, Message
  <1> QED
    BY <1>1 DEF MessageType

LEMMA AttemptEffect ==
    ASSUME Types, NEW m \in Message, NEW s \in Sinks, NEW does \in Conditions, Attempt(m, s, does)
    PROVE  /\ After(msgs[m].now[s], does) \in DeliveryType
           /\ msgs' = [msgs EXCEPT ![m].now[s] = After(msgs[m].now[s], does)]
  <1>1. msgs[m].now[s] \in DeliveryType
    BY RecordType
  <1> QED
    BY <1>1, AfterType DEF Attempt

\* The record at hand, being tried.
LEMMA InHand ==
    ASSUME Types, Busy
    PROVE  hand.msg \in Message /\ hand.next \in Nat /\ msgs[hand.msg] \in MessageType
  BY ElementOfSeq DEF Types, TypeOK, HandType, Message

LEMMA AttemptTypes ==
    ASSUME Types, TryFirst \/ TryAgain
    PROVE  Types'
  <1>1. /\ hand.msg \in Message /\ hand.next \in Sinks /\ hand.next \in Nat /\ Busy /\ due' \subseteq due
        /\ hand \in HandType
        /\ \E does \in Conditions : /\ Attempt(hand.msg, hand.next, does)
                                    /\ cameBack' \in {cameBack, Append(cameBack, hand.next)}
    BY InHand DEF TryFirst, TryAgain, Retrying, Busy, Types, TypeOK
  <1>2. PICK does \in Conditions : /\ Attempt(hand.msg, hand.next, does)
                                   /\ cameBack' \in {cameBack, Append(cameBack, hand.next)}
    BY <1>1
  <1>3. msgs' \in Seq(MessageType) /\ Len(msgs') = Len(msgs) /\ Message' = Message
    BY <1>1, <1>2, AttemptEffect, DeliveryChanges
  <1>4. cameBack' \in Seq(Sinks)
    <2>1. cameBack \in Seq(Sinks)
      BY DEF Types, TypeOK
    <2>2. Append(cameBack, hand.next) \in Seq(Sinks)
      BY <1>1, <2>1, AppendProperties
    <2> QED
      BY <1>2, <2>1, <2>2
  <1>5. /\ sink' \in [Sinks -> Conditions] /\ heard' \in [Sinks -> SUBSET Message] /\ changes' \in Nat
    BY <1>1, <1>2 DEF Attempt, Turns, Types, TypeOK
  <1>6. /\ hand' \in HandType
        /\ hand'.msg = hand.msg /\ hand'.next <= NumSinks + 1
    BY <1>1, <1>2, MonitorAssumption DEF Attempt, HandType, Sinks
  <1>7. UNCHANGED <<up, states, quiet, reporting, refused, open, agenda, store, target, before,
                    excused, forgotten, dropped, reminders>>
    BY <1>2 DEF Attempt, aside
  <1> QED
    BY <1>1, <1>3, <1>4, <1>5, <1>6, <1>7 DEF Types, TypeOK, Busy

\* A message made, whatever it is about.
LEMMA Sent ==
    ASSUME Types, NEW k \in Keys \cup {StartKey}, NEW says \in Health, Send(k, says), agenda # <<>>,
           NEW calls \in Seq(Good(Len(msgs) + 1)), Goes(calls),
           states' \in [Keys -> Health], quiet' \in [Codes -> NeverAlarm \cup {FALSE}], reminders' \in Nat,
           UNCHANGED <<up, reporting, open, due, cameBack, sink, target, history>>
    PROVE  Types'
  <1> DEFINE list == Append(msgs, NewMessage(k, says))
             n == Len(msgs) + 1
  <1>0. Len(msgs) \in Nat /\ msgs \in Seq(MessageType) /\ NumSinks \in Nat
    BY LenProperties, MonitorAssumption DEF Types, TypeOK
  <1>1. NewMessage(k, says) \in MessageType
    BY NewMessageType
  <1>2. /\ list \in Seq(MessageType) /\ Len(list) = n /\ n \in 1 .. Len(list) /\ n \in Nat
    BY <1>0, <1>1, AppendProperties
  <1>3. agenda' \in Seq(Good(n))
    <2>1. agenda \in Seq(Good(n))
      BY <1>0, Grows, SeqMonotonic DEF Types
    <2> QED
      BY <1>2, <2>1, GoesOn
  <1>4. open' \in Seq(1 .. n)
    <2>1. Message \subseteq 1 .. n /\ open \in Seq(Message)
      BY <1>0 DEF Message, Types, TypeOK
    <2> QED
      BY <2>1, SeqMonotonic
  <1>5. Keep(list, n, Fresh) /\ hand' = Try("send", n, Fresh)
    BY DEF Send
  <1>6. Len(msgs) <= n
    BY <1>0
  <1> HIDE DEF list, n
  <1>7. /\ hand' \in HandType
        /\ hand'.msg \in 1 .. Len(list) /\ hand'.next <= NumSinks + 1
    BY <1>0, <1>2, <1>5, FreshType DEF HandType, Try
  <1>8. UNCHANGED <<up, reporting, due, cameBack, sink, target, before, heard>>
    BY DEF history
  <1> QED
    BY <1>2, <1>3, <1>4, <1>5, <1>6, <1>7, <1>8, FreshType, Written

LEMMA SendTypes ==
    ASSUME Types, ObserveNews \/ Announce
    PROVE  Types'
  <1> DEFINE n == Len(msgs) + 1
  <1>1. n \in Nat /\ n \in 1 .. n
    BY LenProperties DEF Types, TypeOK
  <1>2. <<Do("sinks", n), Do("store", 0)>> \in Seq(Good(n)) /\ <<Do("store", 0)>> \in Seq(Good(n))
    <2>1. Do("sinks", n) \in Good(n) /\ Do("store", 0) \in Good(n)
      BY <1>1, GoodCalls
    <2>2. \A a, b \in Good(n) : <<a, b>> \in Seq(Good(n)) /\ <<b>> \in Seq(Good(n))
      OBVIOUS
    <2> QED
      BY <2>1, <2>2
  <1>3. CASE ObserveNews
    <2>1. AtObservation /\ Observed /\ Send(Key, State) /\ Goes(<<Do("sinks", n), Do("store", 0)>>)
          /\ UNCHANGED <<up, reporting, open, due, cameBack, sink, target, history>>
      BY <1>3 DEF ObserveNews
    <2>2. Key \in Keys \cup {StartKey} /\ State \in Health /\ agenda # <<>>
      BY <2>1, Observation
    <2>3. states' \in [Keys -> Health] /\ quiet' \in [Codes -> NeverAlarm \cup {FALSE}]
      BY <2>1, ObservedTypes
    <2>4. reminders' \in Nat
      BY <1>3 DEF ObserveNews, Types, TypeOK
    <2> HIDE DEF n
    <2> QED
      BY <1>2, <2>1, <2>2, <2>3, <2>4, Sent DEF n
  <1>4. CASE Announce
    <2>1. /\ agenda # <<>> /\ Send(StartKey, "unknown") /\ Goes(<<Do("store", 0)>>)
          /\ UNCHANGED <<up, states, quiet, reporting, open, due, cameBack, sink, target, history, reminders>>
      BY <1>4 DEF Announce, At
    <2>2. "unknown" \in Health /\ states' \in [Keys -> Health] /\ reminders' \in Nat
          /\ quiet' \in [Codes -> NeverAlarm \cup {FALSE}]
      BY <2>1 DEF Health, Types, TypeOK
    <2> HIDE DEF n
    <2> QED
      BY <1>2, <2>1, <2>2, Sent DEF n
  <1> QED
    BY <1>3, <1>4

\* What is left of the open records, with this one in or out.
LEMMA OpenTypes ==
    ASSUME Types, NEW m \in Message, WithOpen(m)
    PROVE  open' \in Seq(Message)
  <1>1. open \in Seq(Message) /\ Len(open) \in Nat
    BY LenProperties DEF Types, TypeOK
  <1>2. Append(open, m) \in Seq(Message)
    BY <1>1, AppendProperties
  <1>3. InOpen(m) => Without(m) \in Seq(Message)
    <2> SUFFICES ASSUME InOpen(m) PROVE Without(m) \in Seq(Message)
      OBVIOUS
    <2> DEFINE i == CHOOSE j \in Indices(open) : open[j] = m
    <2>1. i \in 1 .. Len(open)
      BY DEF InOpen, Indices
    <2>2. \A j \in 1 .. Len(open) : open[j] \in Message
      BY <1>1, ElementOfSeq
    <2>3. SubSeq(open, 1, i - 1) \in Seq(Message)
      <3>1. \A j \in 1 .. i - 1 : open[j] \in Message
        BY <1>1, <2>1, <2>2
      <3> HIDE DEF i
      <3> QED
        BY <1>1, <2>1, <3>1, SubSeqProperties
    <2>4. SubSeq(open, i + 1, Len(open)) \in Seq(Message)
      <3>1. \A j \in i + 1 .. Len(open) : open[j] \in Message
        BY <1>1, <2>1, <2>2
      <3> HIDE DEF i
      <3> QED
        BY <1>1, <2>1, <3>1, SubSeqProperties
    <2> QED
      BY <2>3, <2>4, ConcatProperties DEF Without
  <1> QED
    BY <1>1, <1>2, <1>3 DEF WithOpen

LEMMA Rewritten ==
    ASSUME Types, NEW m \in Message, NEW d \in [Sinks -> DeliveryType], Keep(msgs, m, d),
           agenda' \in Seq(Good(Len(msgs))), open' \in Seq(Message),
           hand' = Idle \/ (hand' = hand /\ ~Busy),
           UNCHANGED <<up, states, quiet, reporting, due, cameBack, sink, target, before, heard, reminders>>
    PROVE  Types'
  <1> DEFINE list == msgs
  <1>0. list \in Seq(MessageType) /\ Len(list) \in Nat
    BY LenProperties DEF Types, TypeOK
  <1>1. states' \in [Keys -> Health] /\ quiet' \in [Codes -> NeverAlarm \cup {FALSE}] /\ reminders' \in Nat
    BY DEF Types, TypeOK
  <1>4. Len(msgs) <= Len(list)
    BY <1>0
  <1>2. /\ m \in 1 .. Len(list) /\ Keep(list, m, d) /\ agenda' \in Seq(Good(Len(list)))
        /\ open' \in Seq(1 .. Len(list))
    BY DEF Message
  <1>3. hand' \in HandType /\ hand'.mode = "idle"
    BY FreshType DEF Idle, Busy, HandType, Types, TypeOK
  <1> HIDE DEF list
  <1> QED
    BY <1>0, <1>1, <1>2, <1>3, <1>4, Written

LEMMA KeepTypes ==
    ASSUME Types, KeepTried \/ KeepRetried
    PROVE  Types'
  <1> DEFINE m == hand.msg
             d == msgs[hand.msg].now
  <1>1. /\ Busy /\ Keep(msgs, m, d) /\ WithOpen(m) /\ hand' = Idle
        /\ UNCHANGED <<up, states, quiet, reporting, due, cameBack, agenda, sink, target, before, heard,
                       reminders>>
    BY DEF KeepTried, KeepRetried, Busy, history
  <1>2. m \in Message /\ d \in [Sinks -> DeliveryType]
    BY <1>1, InHand, RecordType
  <1> HIDE DEF m, d
  <1>3. open' \in Seq(Message)
    BY <1>1, <1>2, OpenTypes
  <1>4. agenda' \in Seq(Good(Len(msgs)))
    BY <1>1 DEF Types
  <1> QED
    BY <1>1, <1>2, <1>3, <1>4, Rewritten

LEMMA ResumedType ==
    ASSUME Types, NEW m \in Message
    PROVE  Resumed(m) \in [Sinks -> DeliveryType]
  <1>1. msgs[m].disk \in [Sinks -> DeliveryType]
    BY RecordType
  <1> QED
    BY <1>1 DEF Resumed, DeliveryType, DeliveryStates

LEMMA ResumedIsTried ==
    ASSUME Types, NEW m \in Message
    PROVE  \A s \in Sinks : Resumed(m)[s].state # "pending"
  <1>1. msgs[m].disk \in [Sinks -> DeliveryType]
    BY RecordType
  <1> QED
    BY <1>1 DEF Resumed, DeliveryType

LEMMA ResumeTypes ==
    ASSUME Types, Resume \/ ResumeRecord
    PROVE  Types'
  <1>0. Len(msgs) \in Nat /\ msgs \in Seq(MessageType)
    BY LenProperties DEF Types, TypeOK
  <1>1. CASE Resume
    <2>1. PICK order \in [1 .. Cardinality(Left) -> Left] :
              Goes([i \in 1 .. Cardinality(Left) |-> Do("resume record", order[i])])
      BY <1>1 DEF Resume
    <2>2. Left \subseteq 1 .. Len(msgs) /\ Cardinality(Left) \in Nat
      <3>1. Left \in SUBSET (1 .. Len(msgs)) /\ 1 \in Int /\ Len(msgs) \in Int
        BY <1>0 DEF Left, Message
      <3>2. IsFiniteSet(1 .. Len(msgs))
        BY <3>1, FS_Interval
      <3>3. IsFiniteSet(Left)
        BY <3>1, <3>2, FS_Subset
      <3> QED
        BY <3>1, <3>3, FS_CardinalityType
    <2>3. [i \in 1 .. Cardinality(Left) |-> Do("resume record", order[i])] \in Seq(Good(Len(msgs)))
      <3>1. \A i \in 1 .. Cardinality(Left) : Do("resume record", order[i]) \in Good(Len(msgs))
        BY <1>0, <2>2, GoodCalls
      <3> QED
        BY <2>2, <3>1, Listed
    <2>4. agenda' \in Seq(Good(Len(msgs)))
      BY <1>0, <1>1, <2>1, <2>3, GoesOn DEF Resume, At, Types
    <2> QED
      BY <1>1, <2>4, Untouched DEF Resume, Types, TypeOK, Busy, world, history, aside, bounds
  <1>2. CASE ResumeRecord
    <2> DEFINE m == Head(agenda).msg
    <2>1. /\ m \in Message /\ agenda # <<>> /\ ~Busy /\ Goes(<<>>) /\ Keep(msgs, m, Resumed(m))
          /\ open' \in {open, Append(open, m)}
      BY <1>2, AtHand DEF ResumeRecord, At
    <2>2. open' \in Seq(Message)
      <3>1. open \in Seq(Message)
        BY DEF Types, TypeOK
      <3> HIDE DEF m
      <3>2. Append(open, m) \in Seq(Message)
        BY <2>1, <3>1, AppendProperties
      <3> QED
        BY <2>1, <3>1, <3>2
    <2>3. agenda' \in Seq(Good(Len(msgs)))
      BY <1>0, <2>1, EmptySeq, GoesOn DEF Types
    <2>4. Resumed(m) \in [Sinks -> DeliveryType] /\ m \in 1 .. Len(msgs)
      BY <2>1, ResumedType DEF Message
    <2>5. /\ UNCHANGED <<up, states, quiet, reporting, due, cameBack, sink, target, before, heard, reminders>>
          /\ hand' = hand
      BY <1>2 DEF ResumeRecord, history
    <2> DEFINE d == Resumed(m)
    <2>6. d \in [Sinks -> DeliveryType] /\ Keep(msgs, m, d)
      BY <2>1, <2>4
    <2> HIDE DEF m, d
    <2> QED
      BY <2>1, <2>2, <2>3, <2>5, <2>6, Rewritten
  <1> QED
    BY <1>1, <1>2

\* What a store that is opened again finds.
LEMMA EffectOfStart ==
    ASSUME Types, Start
    PROVE  /\ msgs' \in Seq(MessageType) /\ Len(msgs') = Len(msgs) /\ Message' = Message
           /\ \A i \in Message : /\ msgs'[i].key = msgs[i].key /\ msgs'[i].says = msgs[i].says
                                 /\ msgs'[i].now = msgs[i].now /\ msgs'[i].disk = msgs[i].disk
                                 /\ msgs[i].kept = TRUE => msgs'[i].kept = TRUE
  <1>0. Len(msgs) \in Nat /\ msgs \in Seq(MessageType)
    BY LenProperties DEF Types, TypeOK
  <1>1. msgs' = [m \in Message |-> [msgs[m] EXCEPT !.kept = @ \/ m \in forgotten]]
    BY DEF Start
  <1>2. \A m \in Message : msgs[m] \in MessageType
    BY RecordType
  <1> DEFINE r(m) == [msgs[m] EXCEPT !.kept = @ \/ m \in forgotten]
  <1>3. \A m \in Message : /\ r(m) \in MessageType
                           /\ r(m).key = msgs[m].key /\ r(m).says = msgs[m].says
                           /\ r(m).now = msgs[m].now /\ r(m).disk = msgs[m].disk
                           /\ msgs[m].kept = TRUE => r(m).kept = TRUE
    BY <1>2 DEF MessageType
  <1>4. /\ msgs' \in [1 .. Len(msgs) -> MessageType]
        /\ \A m \in Message : msgs'[m] = r(m)
    BY <1>1, <1>3 DEF Message
  <1> HIDE DEF r
  <1>5. msgs' \in Seq(MessageType) /\ Len(msgs') = Len(msgs)
    <2>1. msgs' \in Seq(MessageType)
      BY <1>0, <1>4, Listed
    <2>2. DOMAIN msgs' = 1 .. Len(msgs') /\ Len(msgs') \in Nat /\ DOMAIN msgs' = 1 .. Len(msgs)
      BY <1>4, <2>1, LenProperties
    <2> QED
      BY <1>0, <2>1, <2>2
  <1> QED
    BY <1>3, <1>4, <1>5 DEF Message

\* The calls that leave the records alone.
LEMMA LoopTypes ==
    ASSUME Types, Poll \/ Start \/ PollTarget
    PROVE  Types'
  <1> DEFINE G == Good(Len(msgs))
  <1>0. Len(msgs) \in Nat /\ agenda \in Seq(G)
    BY LenProperties DEF Types, TypeOK
  <1>1. \A op \in {"target", "store", "retried", "resume", "announce", "purge", "started"} : Do(op, 0) \in G
    BY <1>0, GoodCalls
  <1>2. \A a, b \in G : <<a, b>> \in Seq(G)
    <2> HIDE DEF G
    <2> QED
      OBVIOUS
  <1>3. CASE Poll
    <2>1. Len(open) \in Nat /\ \A i \in Indices(open) : open[i] \in Message
      BY LenProperties, ElementOfSeq DEF Indices, Types, TypeOK
    <2>2. Retries \in Seq(G)
      <3>1. \A i \in Indices(open) : Do("retry", open[i]) \in G
        BY <1>0, <2>1, GoodCalls DEF Message
      <3>2. Retries \in [1 .. Len(open) -> G]
        BY <3>1 DEF Retries, Indices
      <3> QED
        BY <2>1, <3>2, Listed
    <2> DEFINE first == IF open = <<>> THEN <<>> ELSE Append(Retries, Do("retried", 0))
               last == <<Do("target", 0), Do("purge", 0)>>
    <2>3. last \in Seq(G)
      BY <1>1, <1>2
    <2>4. Append(Retries, Do("retried", 0)) \in Seq(G)
      BY <1>1, <2>2, AppendProperties
    <2>5. first \in Seq(G)
      BY <2>4, EmptySeq
    <2>6. agenda' = first \o last
      BY <1>3 DEF Poll
    <2> HIDE DEF G, first, last
    <2>7. agenda' \in Seq(G)
      BY <2>3, <2>5, <2>6, ConcatProperties
    <2> QED
      BY <1>3, <2>7, Untouched DEF G, Poll, Types, TypeOK, Busy, world, history, aside, bounds
  <1>4. CASE Start
    <2>1. agenda' \in Seq(G)
      <3>1. agenda' = <<Do("store", 0), Do("target", 0), Do("purge", 0), Do("resume", 0), Do("announce", 0),
                        Do("started", 0)>>
        BY <1>4 DEF Start
      <3> HIDE DEF G
      <3>2. \A a, b, c, d, e, f \in G : <<a, b, c, d, e, f>> \in Seq(G)
        OBVIOUS
      <3> QED
        BY <1>1, <3>1, <3>2
    <2>2. agenda' \in Seq(CallType)
      <3>1. G \subseteq CallType
        BY DEF Good
      <3> QED
        BY <2>1, <3>1, SeqMonotonic
    <2>3. msgs' \in Seq(MessageType) /\ Len(msgs') = Len(msgs) /\ Message' = Message
      BY <1>4, EffectOfStart
    <2> QED
      BY <1>0, <1>4, <2>1, <2>2, <2>3 DEF Start, Types, TypeOK, Busy, world, bounds
  <1>5. CASE PollTarget
    <2>1. PICK found \in Payload : Turns(target, found) /\ target' = found /\ Goes(Answers(found))
      BY <1>5 DEF PollTarget
    <2>2. agenda' \in Seq(G)
      BY <1>0, <1>5, <2>1, AnswersGood, GoesOn DEF PollTarget, At
    <2>3. changes' \in Nat
      BY <2>1 DEF Turns, Types, TypeOK
    <2> QED
      BY <1>5, <2>1, <2>2, <2>3, Untouched DEF PollTarget, Types, TypeOK, Busy, history, aside
  <1> QED
    BY <1>3, <1>4, <1>5

LEMMA CallTypes ==
    ASSUME Types, ObserveNothing \/ ReportSinks \/ Reported \/ Started \/ RecordSinks \/ RetryRecord \/ Retried
    PROVE  Types'
  <1> DEFINE G == Good(Len(msgs))
  <1>0. /\ Len(msgs) \in Nat /\ agenda \in Seq(G) /\ NumSinks \in Nat /\ <<>> \in Seq(G) /\ ~Busy
        /\ agenda # <<>>
    BY LenProperties, EmptySeq, MonitorAssumption
       DEF Types, TypeOK, ObserveNothing, AtObservation, ReportSinks, Reported, Started, RecordSinks,
           RetryRecord, Retried, At
  <1>1. \A op \in {"reported", "store"} : <<Do(op, 0)>> \in Seq(G)
    <2>1. \A op \in {"reported", "store"} : Do(op, 0) \in G
      BY <1>0, GoodCalls
    <2> HIDE DEF G
    <2> QED
      BY <2>1
  <1>2. \A m \in Message, s \in Sinks : SinkState(m, s) \in Health
    BY DEF SinkState, Health
  <1>3. Goes(<<>>) => agenda' \in Seq(G)
    BY <1>0, GoesOn
  <1>4. CASE ObserveNothing
    <2>1. states' \in [Keys -> Health] /\ quiet' \in [Codes -> NeverAlarm \cup {FALSE}]
      BY <1>4, ObservedTypes DEF ObserveNothing
    <2> QED
      BY <1>3, <1>4, <2>1, Untouched DEF ObserveNothing, Types, TypeOK, Busy, world, history, aside, bounds
  <1>5. CASE ReportSinks
    <2> DEFINE m == Head(agenda).msg
               calls == [s \in Sinks |-> Observe(SinkKey(s), SinkState(m, s))]
    <2>1. m \in Message /\ Goes(calls \o <<Do("reported", 0)>>)
      BY <1>0, <1>5, AtHand DEF ReportSinks, At
    <2>2. \A s \in Sinks : Observe(SinkKey(s), SinkState(m, s)) \in G
      BY <1>0, <1>2, <2>1, GoodCalls, KeyFacts
    <2>3. calls \in [1 .. NumSinks -> G]
      BY <2>2 DEF Sinks
    <2> HIDE DEF calls, G, m
    <2>4. calls \o <<Do("reported", 0)>> \in Seq(G)
      BY <1>0, <1>1, <2>3, Listed, ConcatProperties
    <2>5. agenda' \in Seq(G)
      BY <1>0, <2>1, <2>4, GoesOn DEF G
    <2> QED
      BY <1>5, <2>5, Untouched DEF G, ReportSinks, Types, TypeOK, Busy, world, history, aside, bounds
  <1>6. CASE Reported \/ Started
    BY <1>3, <1>6, Untouched DEF Reported, Started, Types, TypeOK, Busy, world, history, aside, bounds
  <1>7. CASE RecordSinks
    <2>1. states' \in [Keys -> Health]
      <3>1. Head(agenda).msg \in Message
        BY <1>0, <1>7, AtHand DEF RecordSinks, At
      <3> QED
        BY <1>7, <3>1 DEF RecordSinks, SinkState, Health, Types, TypeOK
    <2> QED
      BY <1>3, <1>7, <2>1, Untouched DEF RecordSinks, Types, TypeOK, Busy, world, history, aside, bounds
  <1>8. CASE RetryRecord
    <2>1. Head(agenda).msg \in Message
      BY <1>0, <1>8, AtHand DEF RetryRecord, At
    <2>2. /\ hand' \in HandType
          /\ hand'.mode # "idle" => hand'.msg \in Message /\ hand'.next <= NumSinks + 1
      <3>1. msgs[Head(agenda).msg].now \in [Sinks -> DeliveryType]
        BY <2>1, RecordType
      <3> QED
        BY <1>0, <1>8, <2>1, <3>1 DEF RetryRecord, Try, HandType, Types, TypeOK, Busy, Message
    <2> QED
      BY <1>3, <1>8, <2>2, Untouched DEF RetryRecord, Types, TypeOK, world, history, aside, bounds
  <1>9. CASE Retried
    <2> DEFINE calls == [i \in Indices(cameBack) |-> Observe(SinkKey(cameBack[i]), "ok")]
    <2>1. Len(cameBack) \in Nat /\ \A i \in Indices(cameBack) : cameBack[i] \in Sinks
      BY LenProperties, ElementOfSeq DEF Indices, Types, TypeOK
    <2>2. \A i \in Indices(cameBack) : Observe(SinkKey(cameBack[i]), "ok") \in G
      BY <1>0, <2>1, GoodCalls, KeyFacts DEF Health
    <2>3. calls \in [1 .. Len(cameBack) -> G]
      BY <2>2 DEF Indices
    <2>4. Goes(calls \o <<Do("store", 0)>>)
      BY <1>9 DEF Retried
    <2> HIDE DEF calls, G
    <2>5. calls \o <<Do("store", 0)>> \in Seq(G)
      BY <1>1, <2>1, <2>3, Listed, ConcatProperties
    <2>6. agenda' \in Seq(G)
      BY <1>0, <2>4, <2>5, GoesOn DEF G
    <2>7. <<>> \in Seq(Sinks)
      BY EmptySeq
    <2> QED
      BY <1>9, <2>6, <2>7, Untouched DEF G, Retried, Types, TypeOK, Busy, world, history, aside, bounds
  <1> QED
    BY <1>4, <1>5, <1>6, <1>7, <1>8, <1>9

LEMMA RetryTypes ==
    ASSUME Types, PassOver \/ GiveUp \/ \E m \in Message, s \in Sinks : FallsDue(m, s)
    PROVE  Types'
  <1>1. ASSUME NEW m \in Message, NEW s \in Sinks, FallsDue(m, s) PROVE Types'
    <2>1. due' \subseteq Message \X Sinks
      BY <1>1 DEF FallsDue, Types, TypeOK
    <2> QED
      BY <1>1, <2>1, Untouched DEF FallsDue, Types, TypeOK, Busy, world, history, aside, bounds
  <1>2. ASSUME PassOver \/ GiveUp
        PROVE  /\ hand.msg \in Message /\ hand.next \in Sinks
               /\ hand' \in HandType
               /\ hand'.msg = hand.msg /\ hand'.next <= NumSinks + 1
    <2>1. /\ hand.msg \in Message /\ hand.next \in Sinks /\ hand \in HandType
          /\ hand' = [hand EXCEPT !.next = @ + 1] /\ NumSinks \in Nat
      BY <1>2, InHand, MonitorAssumption DEF PassOver, GiveUp, Retrying, Busy, Types, TypeOK
    <2> QED
      BY <2>1 DEF HandType, Sinks
  <1>3. CASE PassOver
    BY <1>2, <1>3, Untouched DEF PassOver, Types, TypeOK, world, history, aside, bounds
  <1>4. CASE GiveUp
    <2> DEFINE d == [msgs[hand.msg].now[hand.next] EXCEPT !.state = "superseded"]
    <2>1. d \in DeliveryType
      <3>1. msgs[hand.msg].now[hand.next] \in DeliveryType
        BY <1>2, <1>4, RecordType
      <3> QED
        BY <3>1 DEF DeliveryType, DeliveryStates
    <2>2. msgs' = [msgs EXCEPT ![hand.msg].now[hand.next] = d]
      BY <1>4 DEF GiveUp
    <2> HIDE DEF d
    <2>3. msgs' \in Seq(MessageType) /\ Len(msgs') = Len(msgs) /\ Message' = Message
      BY <1>2, <1>4, <2>1, <2>2, DeliveryChanges
    <2>4. /\ UNCHANGED <<up, states, quiet, reporting, refused, open, cameBack, agenda, sink, store, target,
                        before, heard, excused, forgotten, dropped, changes, reminders>>
          /\ due' \subseteq due
      BY <1>4 DEF GiveUp, world, history, aside, bounds
    <2> QED
      BY <1>2, <1>4, <2>3, <2>4 DEF Types, TypeOK, Busy
  <1> QED
    BY <1>1, <1>3, <1>4

\* The age rule, and a kill: a record keeps what it is about.
LEMMA EffectOfPurge ==
    ASSUME Types, Purge
    PROVE  /\ msgs' \in Seq(MessageType) /\ Len(msgs') = Len(msgs) /\ Message' = Message
           /\ \A i \in Message : /\ msgs'[i].key = msgs[i].key /\ msgs'[i].says = msgs[i].says
                                 /\ msgs'[i].now = msgs[i].now
           /\ excused' \subseteq Message /\ excused \subseteq excused'
           /\ \A i \in Message : i \notin excused' => msgs'[i] = msgs[i]
           /\ changes' \in Nat
  <1>0. Len(msgs) \in Nat /\ msgs \in Seq(MessageType) /\ excused \subseteq Message /\ changes \in Nat
    BY LenProperties DEF Types, TypeOK
  <1>1. CASE UNCHANGED <<msgs, excused, changes>>
    BY <1>0, <1>1 DEF Message
  <1>2. ASSUME NEW h \in Message,
               msgs' = [m \in Message |-> IF m <= h /\ msgs[m].kept
                                          THEN [msgs[m] EXCEPT !.kept = FALSE, !.disk = Fresh]
                                          ELSE msgs[m]],
               excused' = excused \cup 1 .. h, changes' = changes + 1
        PROVE  /\ msgs' \in Seq(MessageType) /\ Len(msgs') = Len(msgs) /\ Message' = Message
               /\ \A i \in Message : /\ msgs'[i].key = msgs[i].key /\ msgs'[i].says = msgs[i].says
                                     /\ msgs'[i].now = msgs[i].now
               /\ excused' \subseteq Message /\ excused \subseteq excused'
               /\ \A i \in Message : i \notin excused' => msgs'[i] = msgs[i]
               /\ changes' \in Nat
    <2>1. \A m \in Message : msgs[m] \in MessageType
      BY RecordType
    <2>2. \A m \in Message : /\ [msgs[m] EXCEPT !.kept = FALSE, !.disk = Fresh] \in MessageType
                             /\ [msgs[m] EXCEPT !.kept = FALSE, !.disk = Fresh].key = msgs[m].key
                             /\ [msgs[m] EXCEPT !.kept = FALSE, !.disk = Fresh].says = msgs[m].says
                             /\ [msgs[m] EXCEPT !.kept = FALSE, !.disk = Fresh].now = msgs[m].now
      BY <2>1, FreshType DEF MessageType
    <2>3. msgs' \in [1 .. Len(msgs) -> MessageType]
      BY <1>2, <2>1, <2>2 DEF Message
    <2>4. msgs' \in Seq(MessageType) /\ Len(msgs') = Len(msgs)
      <3>1. msgs' \in Seq(MessageType)
        BY <1>0, <2>3, Listed
      <3>2. DOMAIN msgs' = 1 .. Len(msgs') /\ Len(msgs') \in Nat /\ DOMAIN msgs' = 1 .. Len(msgs)
        BY <2>3, <3>1, LenProperties
      <3> QED
        BY <1>0, <3>1, <3>2
    <2> DEFINE past == 1 .. h
    <2>5. past \subseteq Message /\ \A i \in Message : i \notin past => ~(i <= h)
      BY <1>0 DEF Message
    <2>6. excused' = excused \cup past /\ changes' = changes + 1
      BY <1>2
    <2> HIDE DEF past
    <2>7. /\ excused' \subseteq Message /\ excused \subseteq excused'
          /\ \A i \in Message : i \notin excused' => ~(i <= h)
      BY <1>0, <2>5, <2>6
    <2>8. Message' = Message
      BY <2>4 DEF Message
    <2>9. \A i \in Message : /\ msgs'[i].key = msgs[i].key /\ msgs'[i].says = msgs[i].says
                            /\ msgs'[i].now = msgs[i].now
      BY <1>2, <2>2
    <2>10. \A i \in Message : i \notin excused' => msgs'[i] = msgs[i]
      BY <1>2, <2>7
    <2>11. changes' \in Nat
      BY <1>0, <2>6
    <2> QED
      BY <2>4, <2>7, <2>8, <2>9, <2>10, <2>11
  <1> QED
    BY <1>1, <1>2 DEF Purge

\* The end of the process: a record keeps what it is about, and what the disk has of it.
LEMMA EndEffect ==
    ASSUME NEW list \in Seq(MessageType), NEW more \in SUBSET (1 .. Len(list)), ProcessEnds(list, more)
    PROVE  /\ msgs' \in Seq(MessageType) /\ Len(msgs') = Len(list)
           /\ \A i \in 1 .. Len(list) : msgs'[i].key = list[i].key /\ msgs'[i].says = list[i].says
           /\ excused' \subseteq 1 .. Len(list) /\ more \subseteq excused'
           /\ \A i \in 1 .. Len(list) :
                 i \notin excused' => msgs'[i] = list[i] /\ list[i].now = list[i].disk
  <1> DEFINE r(m) == [list[m] EXCEPT !.now = list[m].disk]
  <1>0. Len(list) \in Nat /\ DOMAIN list = 1 .. Len(list)
    BY LenProperties
  <1>1. \A m \in 1 .. Len(list) : list[m] \in MessageType
    BY ElementOfSeq
  <1>2. \A m \in 1 .. Len(list) : /\ r(m) \in MessageType
                                  /\ r(m).key = list[m].key /\ r(m).says = list[m].says
                                  /\ list[m].now = list[m].disk => r(m) = list[m]
    BY <1>1 DEF MessageType
  <1>3. /\ msgs' = [m \in 1 .. Len(list) |-> r(m)]
        /\ excused' = more \cup {m \in 1 .. Len(list) : list[m].now # list[m].disk}
    BY <1>0 DEF ProcessEnds
  <1> HIDE DEF r
  <1>4. msgs' \in [1 .. Len(list) -> MessageType]
    BY <1>2, <1>3
  <1>5. msgs' \in Seq(MessageType)
    BY <1>0, <1>4, Listed
  <1>6. Len(msgs') = Len(list)
    <2>1. DOMAIN msgs' = 1 .. Len(msgs') /\ Len(msgs') \in Nat /\ DOMAIN msgs' = 1 .. Len(list)
      BY <1>4, <1>5, LenProperties
    <2>2. 1 .. Len(msgs') = 1 .. Len(list)
      BY <2>1
    <2>3. \A a, b \in Nat : 1 .. a = 1 .. b => a = b
      OBVIOUS
    <2> QED
      BY <1>0, <2>1, <2>2, <2>3
  <1> QED
    BY <1>2, <1>3, <1>5, <1>6

LEMMA EffectOfDeath ==
    ASSUME Types, Dies
    PROVE  /\ msgs' \in Seq(MessageType) /\ Len(msgs') = Len(msgs) /\ Message' = Message
           /\ excused' \subseteq Message /\ excused \subseteq excused'
           /\ \A i \in Message : i \notin excused' => msgs'[i] = msgs[i] /\ msgs[i].now = msgs[i].disk
           /\ changes' \in Nat
  <1> DEFINE list == msgs
             more == excused
  <1>1. list \in Seq(MessageType) /\ more \in SUBSET (1 .. Len(list)) /\ ProcessEnds(list, more)
    BY DEF Types, TypeOK, Message, Dies
  <1>2. changes' \in Nat
    BY DEF Types, TypeOK, Dies
  <1> HIDE DEF list, more
  <1>3. /\ msgs' \in Seq(MessageType) /\ Len(msgs') = Len(list)
        /\ excused' \subseteq 1 .. Len(list) /\ more \subseteq excused'
        /\ \A i \in 1 .. Len(list) :
              i \notin excused' => msgs'[i] = list[i] /\ list[i].now = list[i].disk
    BY <1>1, EndEffect
  <1> QED
    BY <1>2, <1>3 DEF list, more, Message

\* What is left of a process that has ended.
Gone ==
    /\ up' = FALSE
    /\ states' = [k \in Keys |-> "unknown"] /\ quiet' = [c \in Codes |-> FALSE]
    /\ refused' = FALSE /\ open' = <<>> /\ due' = {}

\* An exception that nothing catches, and what it leaves.
LEMMA LeavesEffect ==
    ASSUME Types, NEW list \in Seq(MessageType), NEW more \in SUBSET (1 .. Len(list)), Leaves(list, more)
    PROVE  /\ msgs' \in Seq(MessageType) /\ Len(msgs') = Len(list)
           /\ \A i \in 1 .. Len(list) : msgs'[i].key = list[i].key /\ msgs'[i].says = list[i].says
           /\ excused' \subseteq 1 .. Len(list) /\ more \subseteq excused'
           /\ \A i \in 1 .. Len(list) : i \notin excused' => msgs'[i] = list[i]
           /\ up /\ hand' = Idle /\ agenda' = <<>> /\ cameBack' = <<>> /\ reporting' = FALSE
           /\ UNCHANGED <<sink, target, before, heard, reminders>> /\ changes' \in Nat
           /\ \/ Gone
              \/ /\ up' = TRUE /\ msgs' = list /\ UNCHANGED <<refused, open, due>>
                 /\ IF AtObservation THEN Observed ELSE UNCHANGED <<states, quiet>>
  <1>1. /\ up = TRUE /\ UNCHANGED <<sink, target, before, heard, reminders>> /\ changes' \in Nat
    BY DEF Leaves, Types, TypeOK, history
  <1>2. CASE Starting
    <2>1. ProcessEnds(list, more)
      BY <1>2 DEF Leaves
    <2>2. /\ hand' = Idle /\ agenda' = <<>> /\ cameBack' = <<>> /\ reporting' = FALSE /\ Gone
      BY <2>1 DEF ProcessEnds, Gone
    <2> QED
      BY <1>1, <2>1, <2>2, EndEffect
  <1>3. CASE ~Starting
    BY <1>1, <1>3 DEF Leaves
  <1> QED
    BY <1>2, <1>3

\* One record the store could not unlink.
LEMMA ForgetEffect ==
    ASSUME NEW list \in Seq(MessageType), NEW h \in 1 .. Len(list)
    PROVE  /\ Forgets(list, h) \in Seq(MessageType) /\ Len(Forgets(list, h)) = Len(list)
           /\ \A i \in 1 .. Len(list) :
                 /\ Forgets(list, h)[i].key = list[i].key /\ Forgets(list, h)[i].says = list[i].says
                 /\ Forgets(list, h)[i].now = list[i].now /\ Forgets(list, h)[i].disk = list[i].disk
                 /\ i # h => Forgets(list, h)[i] = list[i]
  <1> DEFINE r == [list[h] EXCEPT !.kept = FALSE]
  <1>1. list[h] \in MessageType
    BY ElementOfSeq
  <1>2. /\ r \in MessageType /\ r.key = list[h].key /\ r.says = list[h].says
        /\ r.now = list[h].now /\ r.disk = list[h].disk
    BY <1>1 DEF MessageType
  <1>3. Forgets(list, h) = [list EXCEPT ![h] = r]
    BY DEF Forgets
  <1> HIDE DEF r
  <1>4. /\ Forgets(list, h) \in Seq(MessageType) /\ Len(Forgets(list, h)) = Len(list)
        /\ \A i \in 1 .. Len(list) : Forgets(list, h)[i] = IF i = h THEN r ELSE list[i]
    BY <1>2, <1>3, ExceptSeq
  <1> QED
    BY <1>2, <1>4

\* A record written, and another that could not be unlinked.
Wrote(left, more, list, m, d, unsure) ==
    /\ Leaves(left, more) /\ Len(left) = Len(list) /\ unsure \subseteq more
    /\ forgotten' \subseteq 1 .. Len(left)
    /\ \A i \in 1 .. Len(list) :
          /\ left[i].key = list[i].key /\ left[i].says = list[i].says
          /\ left[i].now = list[i].now
          /\ i \notin more /\ i # m => left[i] = list[i]
    /\ left[m].disk = d
    /\ m \notin more => left[m].kept = TRUE

LEMMA WriteEffect ==
    ASSUME Types, NEW list \in Seq(MessageType), NEW m \in 1 .. Len(list), NEW d \in [Sinks -> DeliveryType],
           NEW unsure \in SUBSET (1 .. Len(list)), Message \subseteq 1 .. Len(list),
           WriteRaises(list, m, d, unsure)
    PROVE  /\ store' = "writes"
           /\ \E left \in Seq(MessageType) : \E more \in SUBSET (1 .. Len(left)) :
                 Wrote(left, more, list, m, d, unsure)
  <1> DEFINE r == [list[m] EXCEPT !.disk = d, !.kept = TRUE]
             written == [list EXCEPT ![m].disk = d, ![m].kept = TRUE]
  <1>1. list[m] \in MessageType /\ DOMAIN list = 1 .. Len(list)
    BY ElementOfSeq, LenProperties
  <1>2. /\ r \in MessageType /\ r.key = list[m].key /\ r.says = list[m].says /\ r.now = list[m].now
        /\ r.disk = d /\ r.kept = TRUE
    BY <1>1 DEF MessageType
  <1>3. written = [list EXCEPT ![m] = r]
    OBVIOUS
  <1>4. PICK h \in Oldest(written, m) :
            Leaves(Forgets(written, h), unsure \cup {h}) /\ forgotten' = (forgotten \ {m}) \cup {h}
    BY DEF WriteRaises
  <1>5. store' = "writes" /\ forgotten \subseteq 1 .. Len(list)
    BY DEF WriteRaises, Types, TypeOK
  <1>6. h \in DOMAIN written \ {m}
    BY <1>4 DEF Oldest
  <1> HIDE DEF r, written
  <1>7. /\ written \in Seq(MessageType) /\ Len(written) = Len(list)
        /\ \A i \in 1 .. Len(list) : written[i] = IF i = m THEN r ELSE list[i]
    BY <1>2, <1>3, ExceptSeq
  <1>8. h \in 1 .. Len(written) /\ h # m
    BY <1>6, <1>7, LenProperties
  <1> DEFINE left == Forgets(written, h)
             more == unsure \cup {h}
  <1>9. /\ left \in Seq(MessageType) /\ Len(left) = Len(written)
        /\ \A i \in 1 .. Len(written) :
              /\ left[i].key = written[i].key /\ left[i].says = written[i].says
              /\ left[i].now = written[i].now /\ left[i].disk = written[i].disk
              /\ i # h => left[i] = written[i]
    BY <1>7, <1>8, ForgetEffect
  <1>10. more \in SUBSET (1 .. Len(left)) /\ Leaves(left, more) /\ unsure \subseteq more /\ h \in more
    BY <1>4, <1>7, <1>8, <1>9
  <1>11. forgotten' \subseteq 1 .. Len(left)
    BY <1>4, <1>5, <1>7, <1>8, <1>9
  <1> HIDE DEF left, more
  <1>12. /\ \A i \in 1 .. Len(list) :
               /\ left[i].key = list[i].key /\ left[i].says = list[i].says /\ left[i].now = list[i].now
               /\ i \notin more /\ i # m => left[i] = list[i]
         /\ left[m].disk = d /\ left[m].kept = TRUE
    BY <1>2, <1>7, <1>8, <1>9, <1>10
  <1> QED
    BY <1>5, <1>7, <1>9, <1>10, <1>11, <1>12 DEF Wrote

\* Nothing is being done to this record.
AtRest(n) == ~Busy \/ n # hand.msg

\* What becomes of a record there was, of what it says and of what the disk knows.
Spared(i, list, more) ==
    /\ list[i].key = msgs[i].key /\ list[i].says = msgs[i].says
    /\ \/ list[i].now = msgs[i].now
       \/ ~Busy /\ list[i].now = Resumed(i)
       \/ hand.mode = "retry" /\ i = hand.msg /\ list[i].now = hand.was
    /\ i \notin more =>
          \/ list[i] = msgs[i] /\ AtRest(i)
          \/ /\ list[i].kept = TRUE /\ list[i].now = list[i].disk
             /\ list[i].now = msgs[i].now \/ (~Busy /\ list[i].now = Resumed(i))

\* No message more; or one that nobody tries.
AsMany(list) == Len(list) = Len(msgs) /\ ~AtObservation /\ (hand.mode = "send" => hand.msg \in dropped')
OneMade(list, more) ==
    LET n == Len(msgs) + 1 IN
    /\ ~Busy /\ Len(list) = n /\ n \in dropped'
    /\ list[n].now = Fresh /\ list[n].disk = Fresh /\ (n \notin more => list[n].kept = TRUE)
    /\ IF AtObservation THEN list[n].key = Key /\ list[n].says = State
       ELSE list[n].key = StartKey /\ list[n].says = "unknown"

LeftBehind(list, more) ==
    /\ Leaves(list, more) /\ excused \subseteq more /\ Len(msgs) <= Len(list)
    /\ forgotten' \subseteq 1 .. Len(list) /\ dropped' \subseteq 1 .. Len(list) /\ dropped \subseteq dropped'
    /\ store' \in {"writes", "refuses"}
    /\ \A i \in Message : Spared(i, list, more)
    /\ AsMany(list) \/ OneMade(list, more)

LEMMA Behind ==
    ASSUME Types, NEW left \in Seq(MessageType), NEW more \in SUBSET (1 .. Len(left)),
           Leaves(left, more), excused \subseteq more, Len(left) = Len(msgs), AsMany(left),
           forgotten' \subseteq 1 .. Len(left), dropped' \subseteq 1 .. Len(msgs), dropped \subseteq dropped',
           store' = "writes", \A i \in Message : Spared(i, left, more)
    PROVE  LeftBehind(left, more)
  <1>1. Len(msgs) \in Nat
    BY LenProperties DEF Types, TypeOK
  <1>2. Len(msgs) <= Len(left) /\ dropped' \subseteq 1 .. Len(left)
    BY <1>1
  <1> QED
    BY <1>2 DEF LeftBehind

\* What an exception leaves of the records, of those there were.
LEMMA RaisesRewrite ==
    ASSUME Types, PollRaises \/ PurgeRaises \/ TriedRaises \/ RetriedRaises \/ ResumeRaises
    PROVE  \E list \in Seq(MessageType) : \E more \in SUBSET (1 .. Len(list)) : LeftBehind(list, more)
  <1>0. /\ msgs \in Seq(MessageType) /\ Len(msgs) \in Nat /\ Message = 1 .. Len(msgs)
        /\ excused \in SUBSET (1 .. Len(msgs)) /\ forgotten \subseteq 1 .. Len(msgs)
        /\ dropped \subseteq 1 .. Len(msgs) /\ store \in {"writes", "refuses"}
        /\ DOMAIN msgs = 1 .. Len(msgs)
    BY LenProperties DEF Types, TypeOK, Message
  <1>1. CASE PollRaises
    <2>1. /\ Leaves(msgs, excused) /\ UNCHANGED <<store, forgotten, dropped>> /\ ~Busy /\ ~AtObservation
          /\ hand.mode # "send"
      BY <1>1 DEF PollRaises, At, AtObservation, aside, Busy
    <2>2. \A i \in Message : Spared(i, msgs, excused)
      BY <2>1 DEF Spared, AtRest
    <2>3. AsMany(msgs)
      BY <2>1 DEF AsMany
    <2>4. LeftBehind(msgs, excused)
      BY <1>0, <2>1, <2>2, <2>3 DEF LeftBehind
    <2> QED
      BY <1>0, <2>4
  <1>2. CASE PurgeRaises
    <2>1. PICK h \in Oldest(msgs, 0) :
              Leaves(Forgets(msgs, h), excused \cup {h}) /\ forgotten' = forgotten \cup {h}
      BY <1>2 DEF PurgeRaises
    <2>2. /\ UNCHANGED <<store, dropped>> /\ ~Busy /\ ~AtObservation /\ hand.mode # "send"
      BY <1>2 DEF PurgeRaises, At, AtObservation, Busy
    <2>3. h \in 1 .. Len(msgs)
      BY <1>0, <2>1 DEF Oldest
    <2> DEFINE list == Forgets(msgs, h)
               more == excused \cup {h}
    <2>4. /\ list \in Seq(MessageType) /\ Len(list) = Len(msgs)
          /\ \A i \in 1 .. Len(msgs) : /\ list[i].key = msgs[i].key /\ list[i].says = msgs[i].says
                                       /\ list[i].now = msgs[i].now
                                       /\ i # h => list[i] = msgs[i]
      BY <1>0, <2>3, ForgetEffect
    <2>5. /\ Leaves(list, more) /\ more \in SUBSET (1 .. Len(list)) /\ excused \subseteq more /\ h \in more
          /\ forgotten' \subseteq 1 .. Len(list)
      BY <1>0, <2>1, <2>3, <2>4
    <2> HIDE DEF list, more
    <2>6. \A i \in Message : Spared(i, list, more)
      BY <1>0, <2>2, <2>4, <2>5 DEF Spared, AtRest
    <2>7. AsMany(list)
      BY <2>2, <2>4 DEF AsMany
    <2>8. LeftBehind(list, more)
      BY <1>0, <2>2, <2>4, <2>5, <2>6, <2>7 DEF LeftBehind
    <2> QED
      BY <2>4, <2>5, <2>8
  <1>3. CASE TriedRaises
    <2> DEFINE m == hand.msg
               d == msgs[m].now
    <2>1. /\ WriteRaises(msgs, m, d, excused) /\ dropped' = dropped \cup {m} /\ Busy /\ hand.mode = "send"
      BY <1>3 DEF TriedRaises, Busy
    <2>2. m \in 1 .. Len(msgs) /\ d \in [Sinks -> DeliveryType]
      BY <1>0, <2>1, InHand, RecordType
    <2>3. ~AtObservation
      BY <2>1 DEF AtObservation, At
    <2> HIDE DEF d
    <2>4. /\ store' = "writes"
          /\ \E left \in Seq(MessageType) : \E more \in SUBSET (1 .. Len(left)) : Wrote(left, more, msgs, m, d, excused)
      BY <1>0, <2>1, <2>2, WriteEffect
    <2>5. PICK left \in Seq(MessageType) : \E more \in SUBSET (1 .. Len(left)) : Wrote(left, more, msgs, m, d, excused)
      BY <2>4
    <2>6. PICK more \in SUBSET (1 .. Len(left)) : Wrote(left, more, msgs, m, d, excused)
      BY <2>5
    <2>7. \A i \in Message : Spared(i, left, more)
      BY <1>0, <2>6 DEF Wrote, Spared, AtRest, d
    <2>8. AsMany(left)
      BY <2>1, <2>3, <2>6 DEF Wrote, AsMany
    <2>9. /\ Leaves(left, more) /\ Len(left) = Len(msgs) /\ excused \subseteq more
          /\ forgotten' \subseteq 1 .. Len(left)
      BY <2>6 DEF Wrote
    <2>10. dropped' \subseteq 1 .. Len(msgs) /\ dropped \subseteq dropped'
      BY <1>0, <2>1, <2>2
    <2>11. LeftBehind(left, more)
      BY <2>4, <2>7, <2>8, <2>9, <2>10, Behind
    <2> QED
      BY <2>11
  <1>4. CASE RetriedRaises
    <2> DEFINE m == hand.msg
               d == msgs[m].now
               r == [msgs[m] EXCEPT !.now = hand.was]
               list == [msgs EXCEPT ![m].now = hand.was]
               unsure == excused \cup {m}
    <2>1. /\ WriteRaises(list, m, d, unsure) /\ UNCHANGED dropped /\ Busy /\ hand.mode = "retry"
      BY <1>4 DEF RetriedRaises, Busy
    <2>2. m \in 1 .. Len(msgs) /\ d \in [Sinks -> DeliveryType] /\ msgs[m] \in MessageType
      BY <1>0, <2>1, InHand, RecordType
    <2>3. ~AtObservation
      BY <2>1 DEF AtObservation, At
    <2>4. hand.was \in [Sinks -> DeliveryType]
      BY DEF Types, TypeOK, HandType
    <2>5. r \in MessageType /\ r.key = msgs[m].key /\ r.says = msgs[m].says /\ r.now = hand.was
      BY <2>2, <2>4 DEF MessageType
    <2>6. list = [msgs EXCEPT ![m] = r]
      OBVIOUS
    <2> HIDE DEF d, list, r
    <2>7. /\ list \in Seq(MessageType) /\ Len(list) = Len(msgs)
          /\ \A i \in 1 .. Len(msgs) : list[i] = IF i = m THEN r ELSE msgs[i]
      BY <1>0, <2>2, <2>5, <2>6, ExceptSeq
    <2>8. unsure \in SUBSET (1 .. Len(list)) /\ excused \subseteq unsure /\ m \in unsure
      BY <1>0, <2>2, <2>7
    <2> HIDE DEF unsure
    <2>9. /\ store' = "writes"
          /\ \E left \in Seq(MessageType) : \E more \in SUBSET (1 .. Len(left)) : Wrote(left, more, list, m, d, unsure)
      BY <1>0, <2>1, <2>2, <2>7, <2>8, WriteEffect
    <2>10. PICK left \in Seq(MessageType) : \E more \in SUBSET (1 .. Len(left)) : Wrote(left, more, list, m, d, unsure)
      BY <2>9
    <2>11. PICK more \in SUBSET (1 .. Len(left)) : Wrote(left, more, list, m, d, unsure)
      BY <2>10
    <2>12. \A i \in Message : Spared(i, left, more)
      BY <1>0, <2>1, <2>5, <2>7, <2>8, <2>11 DEF Wrote, Spared, AtRest
    <2>13. AsMany(left)
      BY <2>1, <2>3, <2>7, <2>11 DEF Wrote, AsMany
    <2>14. /\ Leaves(left, more) /\ Len(left) = Len(msgs) /\ excused \subseteq more
           /\ forgotten' \subseteq 1 .. Len(left)
      BY <2>7, <2>8, <2>11 DEF Wrote
    <2>15. dropped' \subseteq 1 .. Len(msgs) /\ dropped \subseteq dropped'
      BY <1>0, <2>1
    <2>16. LeftBehind(left, more)
      BY <2>9, <2>12, <2>13, <2>14, <2>15, Behind
    <2> QED
      BY <2>16
  <1>5. CASE ResumeRaises
    <2> DEFINE m == Head(agenda).msg
               d == Resumed(m)
               r == [msgs[m] EXCEPT !.now = d]
               list == [msgs EXCEPT ![m].now = d]
    <2>1. /\ WriteRaises(list, m, d, excused) /\ UNCHANGED dropped /\ ~Busy /\ ~AtObservation
          /\ agenda # <<>> /\ Head(agenda).op = "resume record" /\ hand.mode # "send"
      BY <1>5 DEF ResumeRaises, At, AtObservation, Busy
    <2>2. m \in 1 .. Len(msgs) /\ msgs[m] \in MessageType
      BY <1>0, <2>1, AtHand, RecordType
    <2>3. d \in [Sinks -> DeliveryType]
      BY <1>0, <2>2, ResumedType
    <2> HIDE DEF d
    <2>4. r \in MessageType /\ r.key = msgs[m].key /\ r.says = msgs[m].says /\ r.now = d
      BY <2>2, <2>3 DEF MessageType
    <2>5. list = [msgs EXCEPT ![m] = r]
      OBVIOUS
    <2> HIDE DEF list, r, m
    <2>6. /\ list \in Seq(MessageType) /\ Len(list) = Len(msgs)
          /\ \A i \in 1 .. Len(msgs) : list[i] = IF i = m THEN r ELSE msgs[i]
      BY <1>0, <2>2, <2>4, <2>5, ExceptSeq
    <2>7. /\ store' = "writes"
          /\ \E left \in Seq(MessageType) : \E more \in SUBSET (1 .. Len(left)) : Wrote(left, more, list, m, d, excused)
      BY <1>0, <2>1, <2>2, <2>3, <2>6, WriteEffect
    <2>8. PICK left \in Seq(MessageType) : \E more \in SUBSET (1 .. Len(left)) : Wrote(left, more, list, m, d, excused)
      BY <2>7
    <2>9. PICK more \in SUBSET (1 .. Len(left)) : Wrote(left, more, list, m, d, excused)
      BY <2>8
    <2>10. \A i \in Message : Spared(i, left, more)
      <3> SUFFICES ASSUME NEW i \in Message PROVE Spared(i, left, more)
        OBVIOUS
      <3>1. CASE i = m
        BY <1>0, <2>1, <2>2, <2>4, <2>6, <2>9, <3>1 DEF Wrote, Spared, d
      <3>2. CASE i # m
        BY <1>0, <2>1, <2>6, <2>9, <3>2 DEF Wrote, Spared, AtRest
      <3> QED
        BY <3>1, <3>2
    <2>11. AsMany(left)
      BY <2>1, <2>6, <2>9 DEF Wrote, AsMany
    <2>12. /\ Leaves(left, more) /\ Len(left) = Len(msgs) /\ excused \subseteq more
           /\ forgotten' \subseteq 1 .. Len(left)
      BY <2>6, <2>9 DEF Wrote
    <2>13. dropped' \subseteq 1 .. Len(msgs) /\ dropped \subseteq dropped'
      BY <1>0, <2>1
    <2>14. LeftBehind(left, more)
      BY <2>7, <2>10, <2>11, <2>12, <2>13, Behind
    <2> QED
      BY <2>14
  <1> QED
    BY <1>1, <1>2, <1>3, <1>4, <1>5

\* ... and of one that it keeps from being tried.
LEMMA RaisesMake ==
    ASSUME Types, SendRaises
    PROVE  \E list \in Seq(MessageType) : \E more \in SUBSET (1 .. Len(list)) : LeftBehind(list, more)
  <1> DEFINE new == IF AtObservation THEN NewMessage(Key, State) ELSE NewMessage(StartKey, "unknown")
             n == Len(msgs) + 1
             list == Append(msgs, new)
  <1>0. /\ msgs \in Seq(MessageType) /\ Len(msgs) \in Nat /\ Message = 1 .. Len(msgs)
        /\ excused \in SUBSET (1 .. Len(msgs)) /\ dropped \subseteq 1 .. Len(msgs)
    BY LenProperties DEF Types, TypeOK, Message
  <1>1. WriteRaises(list, n, Fresh, excused) /\ dropped' = dropped \cup {n} /\ ~Busy
    BY DEF SendRaises, AtObservation, At
  <1>2. /\ new \in MessageType /\ new.now = Fresh /\ new.disk = Fresh
        /\ IF AtObservation THEN new.key = Key /\ new.says = State
           ELSE new.key = StartKey /\ new.says = "unknown"
    <2>1. CASE AtObservation
      BY <2>1, Observation, NewMessageType
    <2>2. CASE ~AtObservation
      BY <2>2, NewMessageType DEF Health
    <2> QED
      BY <2>1, <2>2
  <1> HIDE DEF new
  <1>3. /\ list \in Seq(MessageType) /\ Len(list) = n /\ n \in 1 .. Len(list) /\ n \in Nat
        /\ \A i \in 1 .. Len(msgs) : list[i] = msgs[i] /\ i # n /\ i \in 1 .. n
        /\ list[n] = new
    BY <1>0, <1>2, AppendProperties
  <1> HIDE DEF list
  <1>4. excused \in SUBSET (1 .. Len(list)) /\ Message \subseteq 1 .. Len(list) /\ dropped' \subseteq 1 .. Len(list)
    BY <1>0, <1>1, <1>3
  <1> HIDE DEF n
  <1>5. /\ store' = "writes"
        /\ \E left \in Seq(MessageType) : \E more \in SUBSET (1 .. Len(left)) : Wrote(left, more, list, n, Fresh, excused)
    BY <1>1, <1>3, <1>4, FreshType, WriteEffect
  <1>6. PICK left \in Seq(MessageType) : \E more \in SUBSET (1 .. Len(left)) : Wrote(left, more, list, n, Fresh, excused)
    BY <1>5
  <1>7. PICK more \in SUBSET (1 .. Len(left)) : Wrote(left, more, list, n, Fresh, excused)
    BY <1>6
  <1>8. \A i \in Message : Spared(i, left, more)
    BY <1>0, <1>1, <1>3, <1>7 DEF Wrote, Spared, AtRest
  <1>9. OneMade(left, more)
    <2>1. /\ left[n].key = new.key /\ left[n].says = new.says /\ left[n].now = Fresh /\ left[n].disk = Fresh
          /\ n \notin more => left[n].kept = TRUE
      BY <1>2, <1>3, <1>7 DEF Wrote
    <2>2. n \in dropped' /\ Len(left) = n
      BY <1>1, <1>3, <1>7 DEF Wrote
    <2> QED
      BY <1>1, <1>2, <2>1, <2>2 DEF OneMade, n
  <1>10. Len(msgs) <= Len(left)
    BY <1>0, <1>3, <1>7 DEF Wrote, n
  <1>11. LeftBehind(left, more)
    BY <1>1, <1>4, <1>5, <1>7, <1>8, <1>9, <1>10 DEF Wrote, LeftBehind
  <1> QED
    BY <1>11

LEMMA RaisesLeave ==
    ASSUME Types, Raises
    PROVE  \E list \in Seq(MessageType) : \E more \in SUBSET (1 .. Len(list)) : LeftBehind(list, more)
  BY RaisesRewrite, RaisesMake DEF Raises

LEMMA PurgeTypes ==
    ASSUME Types, Purge
    PROVE  Types'
  <1>0. Len(msgs) \in Nat /\ agenda \in Seq(Good(Len(msgs)))
    BY LenProperties DEF Types, TypeOK
  <1>1. agenda' \in Seq(Good(Len(msgs)))
    BY <1>0, EmptySeq, GoesOn DEF Purge, At
  <1>2. agenda' \in Seq(CallType)
    <2>1. Good(Len(msgs)) \subseteq CallType
      BY DEF Good
    <2> QED
      BY <1>1, <2>1, SeqMonotonic
  <1> QED
    BY <1>1, <1>2, EffectOfPurge DEF Purge, Types, TypeOK, Busy, world, history, aside

LEMMA Nothing ==
    /\ <<>> \in Seq(Good(Len(msgs'))) /\ <<>> \in Seq(CallType) /\ <<>> \in Seq(Message')
    /\ <<>> \in Seq(Sinks) /\ Idle \in HandType /\ Idle.mode = "idle"
  BY EmptySeq, FreshType DEF Idle, HandType

LEMMA DeathTypes ==
    ASSUME Types, Dies
    PROVE  Types'
  <1>1. /\ msgs' \in Seq(MessageType) /\ Len(msgs') = Len(msgs) /\ Message' = Message
        /\ excused' \subseteq Message /\ changes' \in Nat
    BY EffectOfDeath
  <1>2. /\ up' = FALSE /\ states' = [k \in Keys |-> "unknown"] /\ quiet' = [c \in Codes |-> FALSE]
        /\ reporting' = FALSE /\ refused' = FALSE /\ open' = <<>> /\ due' = {} /\ cameBack' = <<>>
        /\ hand' = Idle /\ agenda' = <<>>
        /\ UNCHANGED <<sink, store, target, before, heard, forgotten, dropped, reminders>>
    BY DEF Dies, ProcessEnds, world, history, aside
  <1> QED
    BY <1>1, <1>2, Nothing DEF Types, TypeOK, Busy, Health

LEMMA RaisesTypes ==
    ASSUME Types, Raises
    PROVE  Types'
  <1>1. PICK list \in Seq(MessageType) : \E more \in SUBSET (1 .. Len(list)) : LeftBehind(list, more)
    BY RaisesLeave
  <1>2. PICK more \in SUBSET (1 .. Len(list)) : LeftBehind(list, more)
    BY <1>1
  <1>3. /\ Leaves(list, more) /\ Len(msgs) <= Len(list) /\ store' \in {"writes", "refuses"}
        /\ forgotten' \subseteq 1 .. Len(list) /\ dropped' \subseteq 1 .. Len(list)
    BY <1>2 DEF LeftBehind
  <1>4. /\ msgs' \in Seq(MessageType) /\ Len(msgs') = Len(list) /\ Len(list) \in Nat
        /\ excused' \subseteq 1 .. Len(list) /\ Message' = 1 .. Len(list)
        /\ hand' = Idle /\ agenda' = <<>> /\ cameBack' = <<>> /\ reporting' = FALSE
        /\ UNCHANGED <<sink, target, before, heard, reminders>> /\ changes' \in Nat
    BY <1>3, LeavesEffect, LenProperties DEF Message
  <1>5. /\ open \in Seq(Message') /\ due \subseteq Message' \X Sinks
        /\ heard \in [Sinks -> SUBSET Message']
    BY <1>3, <1>4, NumbersHold
  <1>6. /\ up' \in BOOLEAN /\ states' \in [Keys -> Health] /\ quiet' \in [Codes -> NeverAlarm \cup {FALSE}]
        /\ refused' \in BOOLEAN /\ open' \in Seq(Message') /\ due' \subseteq Message' \X Sinks
    <2>1. CASE Gone
      BY <2>1, Nothing DEF Gone, Health
    <2>2. CASE /\ up' = TRUE /\ UNCHANGED <<refused, open, due>>
               /\ IF AtObservation THEN Observed ELSE UNCHANGED <<states, quiet>>
      <3>1. states' \in [Keys -> Health] /\ quiet' \in [Codes -> NeverAlarm \cup {FALSE}]
        BY <2>2, ObservedTypes DEF Types, TypeOK
      <3> QED
        BY <1>5, <2>2, <3>1 DEF Types, TypeOK
    <2> QED
      BY <1>3, <2>1, <2>2, LeavesEffect
  <1>7. quiet' \in [Codes -> BOOLEAN]
    BY <1>6, MonitorAssumption
  <1>8. sink' \in [Sinks -> Conditions] /\ target' \in Payload /\ before' \in Nat /\ reminders' \in Nat
        /\ heard' = heard
    BY <1>4 DEF Types, TypeOK
  <1> QED
    BY <1>3, <1>4, <1>5, <1>6, <1>7, <1>8, Nothing DEF Types, TypeOK, Busy

LEMMA TypesStep == Types /\ [Next]_vars => Types'
  <1> SUFFICES ASSUME Types, [Next]_vars PROVE Types'
    OBVIOUS
  <1>1. CASE UNCHANGED vars
    BY <1>1 DEF vars, process, world, history, aside, bounds, Types, TypeOK, Busy, Message
  <1> QED
    BY <1>1, LoopTypes, CallTypes, RetryTypes, SendTypes, KeepTypes, ResumeTypes, AttemptTypes, PurgeTypes,
       DeathTypes, RaisesTypes
       DEF Next, Step

-------------------------------------------------------------------------------
(* What has been said.                                                     *)

\* The states that are told: all but a sink's own, which may change in silence, and a
\* code's where the target may say of it that it wakes nobody.
Telling(k) == k.about # "sink" /\ (k.about = "code" => NeverAlarm = {FALSE})

Told ==
    /\ before <= Len(msgs)
    /\ ~up => \A k \in Keys : states[k] = "unknown"
    /\ up => \A k \in Keys : Telling(k) => (states[k] = "active" <=> SaidLast(k, "active"))

\* Records that keep their number and what they are about: nothing more is said.
Same == Len(msgs') = Len(msgs) /\ \A i \in Message : msgs'[i].key = msgs[i].key /\ msgs'[i].says = msgs[i].says

LEMMA SameSaid ==
    ASSUME Same, UNCHANGED before
    PROVE  \A k \in Keys : SaidLast(k, "active")' <=> SaidLast(k, "active")
  <1>1. Message' = Message
    BY DEF Same, Message
  <1> QED
    BY <1>1 DEF Same, SaidLast

LEMMA QuietStep ==
    ASSUME Told, Same, UNCHANGED <<up, states, before>>
    PROVE  Told'
  <1>1. before' <= Len(msgs')
    BY DEF Told, Same
  <1> QED
    BY <1>1, SameSaid DEF Told

LEMMA RewriteIsSame ==
    ASSUME Types, NEW m \in Message, NEW d \in [Sinks -> DeliveryType], Keep(msgs, m, d)
    PROVE  Same
  <1> DEFINE list == msgs
  <1>1. list \in Seq(MessageType) /\ changes \in Nat /\ m \in 1 .. Len(list) /\ Keep(list, m, d)
    BY DEF Types, TypeOK, Message
  <1> HIDE DEF list
  <1>2. Len(msgs') = Len(list)
        /\ \A i \in 1 .. Len(list) : msgs'[i].key = list[i].key /\ msgs'[i].says = list[i].says
    BY <1>1, KeepEffect
  <1> QED
    BY <1>2 DEF list, Same, Message

\* The steps after which no more has been said and nothing else is known.
LEMMA StepsAreQuiet ==
    ASSUME Types,
           \/ Poll \/ PollTarget \/ TryFirst \/ TryAgain \/ KeepTried \/ KeepRetried
           \/ ReportSinks \/ Reported \/ Started \/ RetryRecord \/ PassOver \/ GiveUp \/ Retried
           \/ Resume \/ ResumeRecord \/ Purge \/ UNCHANGED vars
           \/ \E m \in Message, s \in Sinks : FallsDue(m, s)
    PROVE  Same /\ UNCHANGED <<up, states, before>>
  <1>1. CASE UNCHANGED msgs /\ UNCHANGED <<up, states, before>>
    BY <1>1 DEF Same
  <1>2. CASE TryFirst \/ TryAgain
    <2>1. hand.msg \in Message /\ hand.next \in Sinks
      BY <1>2, InHand DEF TryFirst, TryAgain, Retrying, Busy
    <2>2. PICK does \in Conditions : Attempt(hand.msg, hand.next, does)
      BY <1>2 DEF TryFirst, TryAgain
    <2>3. Same
      BY <2>1, <2>2, AttemptEffect, DeliveryChanges DEF Same
    <2> QED
      BY <2>2, <2>3 DEF Attempt
  <1>3. CASE KeepTried \/ KeepRetried
    <2>1. Busy /\ Keep(msgs, hand.msg, msgs[hand.msg].now) /\ UNCHANGED <<up, states, before>>
      BY <1>3 DEF KeepTried, KeepRetried, Busy, history
    <2> QED
      BY <2>1, InHand, RecordType, RewriteIsSame
  <1>4. CASE GiveUp
    <2> DEFINE d == [msgs[hand.msg].now[hand.next] EXCEPT !.state = "superseded"]
    <2>1. /\ hand.msg \in Message /\ hand.next \in Sinks /\ UNCHANGED <<up, states, before>>
          /\ msgs' = [msgs EXCEPT ![hand.msg].now[hand.next] = d]
      BY <1>4, InHand DEF GiveUp, Retrying, Busy, history
    <2>2. d \in DeliveryType
      <3>1. msgs[hand.msg].now[hand.next] \in DeliveryType
        BY <2>1, RecordType
      <3> QED
        BY <3>1 DEF DeliveryType, DeliveryStates
    <2> HIDE DEF d
    <2> QED
      BY <2>1, <2>2, DeliveryChanges DEF Same
  <1>5. CASE ResumeRecord
    <2> DEFINE m == Head(agenda).msg
               d == Resumed(m)
    <2>1. m \in Message /\ Keep(msgs, m, d) /\ UNCHANGED <<up, states, before>>
      BY <1>5, AtHand DEF ResumeRecord, At, history
    <2>2. d \in [Sinks -> DeliveryType]
      BY <2>1, ResumedType
    <2> HIDE DEF m, d
    <2> QED
      BY <2>1, <2>2, RewriteIsSame
  <1>6. CASE Purge
    BY <1>6, EffectOfPurge DEF Same, Purge, history
  <1>7. ASSUME \/ Poll \/ PollTarget \/ ReportSinks \/ Reported \/ Started \/ RetryRecord \/ PassOver
               \/ Retried \/ Resume \/ UNCHANGED vars \/ \E m \in Message, s \in Sinks : FallsDue(m, s)
        PROVE  UNCHANGED msgs /\ UNCHANGED <<up, states, before>>
    BY <1>7 DEF Poll, PollTarget, ReportSinks, Reported, Started, RetryRecord, PassOver, Retried, Resume, vars,
       process, history, FallsDue
  <1> QED
    BY <1>1, <1>2, <1>3, <1>4, <1>5, <1>6, <1>7

\* One message more, the last about what it is about.
LEMMA SendEffect ==
    ASSUME Types, NEW k \in Keys \cup {StartKey}, NEW says \in Health, Send(k, says)
    PROVE  LET n == Len(msgs) + 1 IN
           /\ n \in Nat /\ Len(msgs') = n /\ Message' = 1 .. n /\ Message = 1 .. Len(msgs)
           /\ \A i \in Message : msgs'[i] = msgs[i]
           /\ msgs'[n].key = k /\ msgs'[n].says = says /\ msgs'[n].now = Fresh /\ msgs'[n].disk = Fresh
           /\ n \notin excused' => msgs'[n].kept = TRUE
           /\ excused' \in {excused, excused \cup {n}}
           /\ hand' = Try("send", n, Fresh)
  <1> DEFINE list == Append(msgs, NewMessage(k, says))
             n == Len(msgs) + 1
  <1>0. Len(msgs) \in Nat /\ msgs \in Seq(MessageType) /\ changes \in Nat
    BY LenProperties DEF Types, TypeOK
  <1>1. /\ NewMessage(k, says) \in MessageType
        /\ NewMessage(k, says).key = k /\ NewMessage(k, says).says = says
        /\ NewMessage(k, says).now = Fresh /\ NewMessage(k, says).disk = Fresh
    BY NewMessageType
  <1>2. /\ list \in Seq(MessageType) /\ Len(list) = n /\ n \in 1 .. Len(list) /\ n \in Nat
        /\ \A i \in 1 .. Len(msgs) : list[i] = msgs[i]
        /\ list[n] = NewMessage(k, says)
    BY <1>0, <1>1, AppendProperties
  <1>3. Keep(list, n, Fresh) /\ hand' = Try("send", n, Fresh)
    BY DEF Send
  <1> HIDE DEF list
  <1>4. /\ Len(msgs') = Len(list)
        /\ \A i \in 1 .. Len(list) : /\ msgs'[i].key = list[i].key /\ msgs'[i].says = list[i].says
                                     /\ i # n => msgs'[i] = list[i]
        /\ msgs'[n].now = Fresh
        /\ n \notin excused' => msgs'[n].kept = TRUE
        /\ msgs'[n].disk \in {Fresh, list[n].disk}
        /\ excused' \in {excused, excused \cup {n}}
    BY <1>0, <1>2, <1>3, FreshType, KeepEffect
  <1>5. \A i \in Message : msgs'[i] = msgs[i]
    <2>1. \A i \in 1 .. Len(msgs) : i \in 1 .. n /\ i # n
      BY <1>0
    <2> QED
      BY <1>2, <1>4, <2>1 DEF Message
  <1>6. msgs'[n].key = k /\ msgs'[n].says = says /\ msgs'[n].disk = Fresh
    BY <1>1, <1>2, <1>4
  <1> QED
    BY <1>2, <1>3, <1>4, <1>5, <1>6 DEF Message

OneMore(k, says) ==
    LET n == Len(msgs) + 1 IN
    /\ Len(msgs') = n
    /\ \A i \in Message : msgs'[i].key = msgs[i].key /\ msgs'[i].says = msgs[i].says
    /\ msgs'[n].key = k /\ msgs'[n].says = says

\* ... which leaves what was said of everything else.
LEMMA SaidAfter ==
    ASSUME Types, NEW k \in Keys \cup {StartKey}, NEW says \in Health, OneMore(k, says),
           UNCHANGED before, before <= Len(msgs)
    PROVE  /\ k \in Keys => (SaidLast(k, "active")' <=> says = "active")
           /\ \A j \in Keys : j # k => (SaidLast(j, "active")' <=> SaidLast(j, "active"))
           /\ before' <= Len(msgs')
  <1> DEFINE n == Len(msgs) + 1
  <1>2. Len(msgs) \in Nat /\ before \in Nat
    BY LenProperties DEF Types, TypeOK
  <1>1. /\ n \in Nat /\ Len(msgs') = n /\ Message' = 1 .. n /\ Message = 1 .. Len(msgs)
        /\ \A i \in Message : msgs'[i].key = msgs[i].key /\ msgs'[i].says = msgs[i].says
        /\ msgs'[n].key = k /\ msgs'[n].says = says
    BY <1>2 DEF OneMore, Message
  <1>3. before' <= Len(msgs') /\ n > before' /\ n \in Message'
    BY <1>1, <1>2
  <1>4. k \in Keys => (SaidLast(k, "active")' <=> says = "active")
    <2>1. ASSUME says = "active" PROVE SaidLast(k, "active")'
      <3>1. \A i \in Message' : ~(i > n)
        BY <1>1, <1>2
      <3> QED
        BY <1>1, <1>3, <2>1, <3>1 DEF SaidLast
    <2>2. ASSUME SaidLast(k, "active")' PROVE says = "active"
      <3>1. PICK m \in Message' : /\ msgs'[m].says = "active"
                                  /\ \A i \in Message' : i > m => msgs'[i].key # k
        BY <2>2 DEF SaidLast
      <3>2. m = n
        BY <1>1, <1>2, <1>3, <3>1
      <3> QED
        BY <1>1, <3>1, <3>2
    <2> QED
      BY <2>1, <2>2
  <1>5. ASSUME NEW j \in Keys, j # k PROVE SaidLast(j, "active")' <=> SaidLast(j, "active")
    <2>1. \A m \in Message : m \in Message' /\ msgs'[m].key = msgs[m].key /\ msgs'[m].says = msgs[m].says
      BY <1>1, <1>2
    <2>2. \A m \in Message' : m \in Message \/ m = n
      BY <1>1, <1>2
    <2>3. ASSUME SaidLast(j, "active")' PROVE SaidLast(j, "active")
      <3>1. PICK m \in Message' : /\ m > before' /\ msgs'[m].key = j /\ msgs'[m].says = "active"
                                  /\ \A i \in Message' : i > m => msgs'[i].key # j
        BY <2>3 DEF SaidLast
      <3>2. m \in Message
        BY <1>1, <1>5, <2>2, <3>1
      <3> QED
        BY <2>1, <3>1, <3>2 DEF SaidLast
    <2>4. ASSUME SaidLast(j, "active") PROVE SaidLast(j, "active")'
      <3>1. PICK m \in Message : /\ m > before /\ msgs[m].key = j /\ msgs[m].says = "active"
                                 /\ \A i \in Message : i > m => msgs[i].key # j
        BY <2>4 DEF SaidLast
      <3>2. \A i \in Message' : i > m => msgs'[i].key # j
        BY <1>1, <1>5, <2>1, <2>2, <3>1
      <3> QED
        BY <2>1, <3>1, <3>2 DEF SaidLast
    <2> QED
      BY <2>3, <2>4
  <1> QED
    BY <1>3, <1>4, <1>5

LEMMA SendIsOneMore ==
    ASSUME Types, NEW k \in Keys \cup {StartKey}, NEW says \in Health, Send(k, says)
    PROVE  OneMore(k, says)
  BY SendEffect DEF OneMore

\* An exception makes one message more, or none; the process goes on with what it has
\* observed, or ends.
LEMMA ToldRaises ==
    ASSUME Types, Told, Raises
    PROVE  Told'
  <1>1. PICK list \in Seq(MessageType) : \E more \in SUBSET (1 .. Len(list)) : LeftBehind(list, more)
    BY RaisesLeave
  <1>2. PICK more \in SUBSET (1 .. Len(list)) : LeftBehind(list, more)
    BY <1>1
  <1>3. /\ Leaves(list, more) /\ Len(msgs) <= Len(list) /\ (AsMany(list) \/ OneMade(list, more))
        /\ \A i \in Message : list[i].key = msgs[i].key /\ list[i].says = msgs[i].says
    BY <1>2 DEF LeftBehind, Spared
  <1>4. /\ Len(msgs') = Len(list) /\ Len(list) \in Nat /\ Len(msgs) \in Nat /\ up /\ UNCHANGED before
        /\ \A i \in 1 .. Len(list) : msgs'[i].key = list[i].key /\ msgs'[i].says = list[i].says
        /\ \/ Gone
           \/ up' = TRUE /\ IF AtObservation THEN Observed ELSE UNCHANGED <<states, quiet>>
    BY <1>3, LeavesEffect, LenProperties DEF Types, TypeOK
  <1>5. before \in Nat /\ before <= Len(msgs) /\ states \in [Keys -> Health]
    BY DEF Told, Types, TypeOK
  <1>6. Message \subseteq 1 .. Len(list)
    BY <1>3, <1>4 DEF Message
  <1>7. CASE Gone
    BY <1>3, <1>4, <1>5, <1>7 DEF Gone, Told
  <1>8. CASE AsMany(list) /\ ~Gone
    <2>1. Same /\ UNCHANGED <<up, states, before>>
      BY <1>3, <1>4, <1>6, <1>8 DEF Same, AsMany, Types, TypeOK
    <2> QED
      BY <2>1, QuietStep
  <1>9. CASE OneMade(list, more) /\ ~Gone
    <2>1. CASE AtObservation
      <3>1. PICK k \in Keys, says \in Health : k = Key /\ says = State
        BY <2>1, Observation
      <3>4. states' = [states EXCEPT ![k] = says]
        BY <1>4, <1>9, <2>1, <3>1 DEF Observed
      <3>2. OneMore(k, says)
        BY <1>3, <1>4, <1>6, <1>9, <2>1, <3>1 DEF OneMade, OneMore
      <3>3. /\ SaidLast(k, "active")' <=> says = "active"
            /\ \A j \in Keys : j # k => (SaidLast(j, "active")' <=> SaidLast(j, "active"))
            /\ before' <= Len(msgs')
        BY <1>4, <1>5, <3>1, <3>2, SaidAfter
      <3> QED
        BY <1>4, <1>5, <1>9, <3>1, <3>3, <3>4 DEF Told
    <2>2. CASE ~AtObservation
      <3>1. UNCHANGED states /\ "unknown" \in Health
        BY <1>4, <1>9, <2>2 DEF Health
      <3>2. OneMore(StartKey, "unknown")
        BY <1>3, <1>4, <1>6, <1>9, <2>2 DEF OneMade, OneMore
      <3>3. /\ \A j \in Keys : j # StartKey => (SaidLast(j, "active")' <=> SaidLast(j, "active"))
            /\ before' <= Len(msgs')
        BY <1>4, <1>5, <3>1, <3>2, SaidAfter
      <3> QED
        BY <1>4, <1>5, <1>9, <3>1, <3>3, KeyFacts DEF Told
    <2> QED
      BY <2>1, <2>2
  <1> QED
    BY <1>3, <1>7, <1>8, <1>9

LEMMA ToldStep == Types /\ Told /\ [Next]_vars => Told'
  <1> SUFFICES ASSUME Types, Told, [Next]_vars PROVE Told'
    OBVIOUS
  <1>0. Len(msgs) \in Nat /\ before \in Nat /\ states \in [Keys -> Health]
    BY LenProperties DEF Types, TypeOK
  <1>1. CASE Start
    <2>1. up' /\ before' = Len(msgs) /\ Len(msgs') = Len(msgs) /\ UNCHANGED states /\ ~up
      BY <1>1, EffectOfStart DEF Start
    <2>2. \A m \in Message' : ~(m > before')
      BY <1>0, <2>1 DEF Message
    <2> QED
      BY <1>0, <2>1, <2>2 DEF Told, SaidLast
  <1>2. CASE Dies
    <2>1. Len(msgs') = Len(msgs)
      BY <1>2, EffectOfDeath
    <2> QED
      BY <1>2, <2>1 DEF Dies, ProcessEnds, Told, history
  <1>3. CASE RecordSinks
    <2>1. UNCHANGED <<msgs, up, before>> /\ up
          /\ \A k \in Keys : k.about # "sink" => states'[k] = states[k]
      BY <1>3 DEF RecordSinks, At, history
    <2>2. Same
      BY <2>1 DEF Same
    <2> QED
      BY <2>1, <2>2, SameSaid DEF Told, Telling, Same
  <1>4. CASE Announce
    <2>1. Send(StartKey, "unknown") /\ "unknown" \in Health /\ UNCHANGED <<up, states, before>>
      BY <1>4 DEF Announce, Health, history
    <2>2. before' <= Len(msgs') /\ \A j \in Keys : SaidLast(j, "active")' <=> SaidLast(j, "active")
      BY <2>1, SendIsOneMore, SaidAfter, KeyFacts DEF Told
    <2> QED
      BY <2>1, <2>2 DEF Told
  <1>5. CASE ObserveNews \/ ObserveNothing
    <2>1. /\ Key \in Keys /\ State \in Health /\ up /\ up' = up /\ UNCHANGED before
          /\ states' = [states EXCEPT ![Key] = State]
          /\ Telling(Key) => ~Head(agenda).never
      <3>1. AtObservation /\ Observed /\ up' = up /\ UNCHANGED before
        BY <1>5 DEF ObserveNews, ObserveNothing, history
      <3> QED
        BY <3>1, Observation DEF Observed, Telling
    <2>2. CASE ObserveNews
      <3>1. OneMore(Key, State)
        BY <2>1, <2>2, SendIsOneMore DEF ObserveNews
      <3> QED
        BY <1>0, <2>1, <3>1, SaidAfter DEF Told
    <2>3. CASE ObserveNothing
      <3>1. UNCHANGED msgs /\ (Telling(Key) => ~IsNews(states[Key], State))
        BY <2>1, <2>3 DEF ObserveNothing
      <3>2. Same
        BY <3>1 DEF Same
      <3>3. Telling(Key) => (State = "active" <=> states[Key] = "active")
        BY <1>0, <2>1, <3>1 DEF IsNews, Health
      <3> QED
        BY <1>0, <2>1, <3>2, <3>3, SameSaid DEF Told, Same
    <2> QED
      BY <1>5, <2>2, <2>3
  <1>6. CASE Raises
    BY <1>6, ToldRaises
  <1> QED
    BY <1>1, <1>2, <1>3, <1>4, <1>5, <1>6, StepsAreQuiet, QuietStep DEF Next, Step

LEMMA ToldInit == Init => Told
  <1> SUFFICES ASSUME Init PROVE Told
    OBVIOUS
  <1>1. Len(msgs) = 0 /\ before = 0 /\ ~up /\ \A k \in Keys : states[k] = "unknown"
    BY EmptySeq DEF Init
  <1> QED
    BY <1>1 DEF Told

-------------------------------------------------------------------------------
(* What the disk knows of a message that a sink has taken.                 *)

\* But for the messages whose fate the records cannot tell: every record is on the
\* disk, as the process has it when nothing is being done to it, and says so where a
\* sink has taken the message.
Settled ==
    \A n \in Message : n \notin excused =>
        /\ msgs[n].kept = TRUE
        /\ AtRest(n) => msgs[n].now = msgs[n].disk
        /\ \A s \in Sinks : n \in heard[s] => msgs[n].now[s].state = "delivered"

\* A message tried for the first time is the last there is, and the sinks it has not
\* got to have not had it.
Sending ==
    hand.mode = "send" =>
        /\ hand.msg = Len(msgs)
        /\ \A s \in Sinks : s >= hand.next => hand.msg \notin heard[s]

LEMMA SettledInit == Init => Settled /\ Sending
  <1> SUFFICES ASSUME Init PROVE Settled /\ Sending
    OBVIOUS
  <1>1. Len(msgs) = 0 /\ hand.mode = "idle"
    BY EmptySeq DEF Init, Idle
  <1>2. \A n \in Message : FALSE
    BY <1>1 DEF Message
  <1> QED
    BY <1>1, <1>2 DEF Settled, Sending

\* KeepEffect, for a record there is already.
LEMMA RewriteEffect ==
    ASSUME Types, NEW m \in Message, NEW d \in [Sinks -> DeliveryType], Keep(msgs, m, d)
    PROVE  /\ Len(msgs') = Len(msgs) /\ Message' = Message
           /\ \A i \in Message : i # m => msgs'[i] = msgs[i]
           /\ msgs'[m].now = d
           /\ m \notin excused' => msgs'[m].disk = d /\ msgs'[m].kept = TRUE
           /\ excused \subseteq excused'
  <1> DEFINE list == msgs
  <1>1. list \in Seq(MessageType) /\ changes \in Nat /\ m \in 1 .. Len(list) /\ Keep(list, m, d)
    BY DEF Types, TypeOK, Message
  <1> HIDE DEF list
  <1>2. /\ Len(msgs') = Len(list)
        /\ \A i \in 1 .. Len(list) : i # m => msgs'[i] = list[i]
        /\ msgs'[m].now = d
        /\ m \notin excused' => msgs'[m].disk = d /\ msgs'[m].kept = TRUE
        /\ excused' \in {excused, excused \cup {m}}
    BY <1>1, KeepEffect
  <1>3. Len(msgs') = Len(msgs) /\ Message' = Message
    BY <1>2 DEF list, Message
  <1>4. \A i \in Message : i # m => msgs'[i] = msgs[i]
    BY <1>2 DEF list, Message
  <1> QED
    BY <1>2, <1>3, <1>4

\* A record is taken up, or nothing is done to any.
LEMMA SettledRests ==
    ASSUME Settled, Sending, UNCHANGED <<msgs, heard, excused>>,
           hand' = hand \/ (hand'.mode = "retry" /\ (~Busy \/ hand'.msg = hand.msg))
    PROVE  Settled' /\ Sending'
  <1>1. Message' = Message
    BY DEF Message
  <1>2. \A n \in Message : AtRest(n)' => AtRest(n)
    BY DEF AtRest, Busy
  <1>3. Settled'
    BY <1>1, <1>2 DEF Settled
  <1>4. Sending'
    BY DEF Sending
  <1> QED
    BY <1>3, <1>4

LEMMA SettledSends ==
    ASSUME Types, Settled, Sending, NEW k \in Keys \cup {StartKey}, NEW says \in Health, Send(k, says),
           ~Busy, UNCHANGED heard
    PROVE  Settled' /\ Sending'
  <1> DEFINE m == Len(msgs) + 1
  <1>1. /\ m \in Nat /\ Len(msgs') = m /\ Message' = 1 .. m /\ Message = 1 .. Len(msgs)
        /\ \A i \in Message : msgs'[i] = msgs[i]
        /\ msgs'[m].now = Fresh /\ msgs'[m].disk = Fresh
        /\ m \notin excused' => msgs'[m].kept = TRUE
        /\ excused' \in {excused, excused \cup {m}}
        /\ hand' = Try("send", m, Fresh)
    BY SendEffect
  <1>2. Len(msgs) \in Nat /\ heard \in [Sinks -> SUBSET Message]
    BY LenProperties DEF Types, TypeOK
  <1>3. m \notin Message /\ \A n \in Message' : n \in Message \/ n = m
    BY <1>1, <1>2
  <1>4. \A s \in Sinks : m \notin heard'[s]
    BY <1>2, <1>3
  <1> HIDE DEF m
  <1>5. Settled'
    <2> SUFFICES ASSUME NEW n \in Message', n \notin excused'
                 PROVE  /\ msgs'[n].kept = TRUE /\ msgs'[n].now = msgs'[n].disk
                        /\ \A s \in Sinks : n \in heard'[s] => msgs'[n].now[s].state = "delivered"
      BY DEF Settled
    <2>1. CASE n = m
      BY <1>1, <1>4, <2>1
    <2>2. CASE n \in Message
      BY <1>1, <2>2 DEF Settled, AtRest
    <2> QED
      BY <1>3, <2>1, <2>2
  <1>6. Sending'
    BY <1>1, <1>4 DEF Sending, Try
  <1> QED
    BY <1>5, <1>6

\* Of all the records one sink's delivery of one changes, as the process has it.
Changes(m, t, d) ==
    /\ Len(msgs') = Len(msgs) /\ Message' = Message
    /\ \A i \in Message : msgs'[i].kept = msgs[i].kept /\ (i # m => msgs'[i] = msgs[i])
    /\ msgs'[m].now[t] = d
    /\ \A r \in Sinks : r # t => msgs'[m].now[r] = msgs[m].now[r]

LEMMA OneChanges ==
    ASSUME Types, NEW m \in Message, NEW s \in Sinks, NEW d \in DeliveryType,
           msgs' = [msgs EXCEPT ![m].now[s] = d]
    PROVE  Changes(m, s, d)
  <1>1. /\ Len(msgs') = Len(msgs) /\ Message' = Message /\ msgs'[m].now[s] = d
        /\ \A i \in Message : msgs'[i].kept = msgs[i].kept /\ (i # m => msgs'[i] = msgs[i])
        /\ \A r \in Sinks : r # s => msgs'[m].now[r] = msgs[m].now[r]
    BY DeliveryChanges
  <1> QED
    BY <1>1 DEF Changes

\* A delivery of the record in hand: of a sink that had not taken the message.
LEMMA SettledTries ==
    ASSUME Types, Settled, Sending, Busy, NEW m \in Message, NEW t \in Sinks, m = hand.msg, t = hand.next,
           NEW d \in DeliveryType, Changes(m, t, d),
           m \notin excused => m \notin heard[t],
           UNCHANGED heard \/ (d.state = "delivered" /\ heard' = [heard EXCEPT ![t] = @ \cup {m}]),
           hand' = [hand EXCEPT !.next = @ + 1], UNCHANGED excused
    PROVE  Settled' /\ Sending'
  <1>1. /\ t \in Nat /\ heard \in [Sinks -> SUBSET Message]
        /\ hand \in HandType
    BY DEF Types, TypeOK, Sinks
  <1>2. /\ Len(msgs') = Len(msgs) /\ Message' = Message
        /\ \A i \in Message : msgs'[i].kept = msgs[i].kept /\ (i # m => msgs'[i] = msgs[i])
        /\ msgs'[m].now[t] = d
        /\ \A r \in Sinks : r # t => msgs'[m].now[r] = msgs[m].now[r]
    BY DEF Changes
  <1>3. hand'.mode = hand.mode /\ hand'.msg = m /\ hand'.next = t + 1
    BY <1>1
  <1>4. \A s \in Sinks, n \in Message : n # m \/ s # t => (n \in heard'[s] <=> n \in heard[s])
    BY <1>1
  <1>5. m \notin excused /\ m \in heard'[t] => d.state = "delivered"
    BY <1>1
  <1>6. Settled'
    <2> SUFFICES ASSUME NEW n \in Message, n \notin excused
                 PROVE  /\ msgs'[n].kept = TRUE /\ (AtRest(n)' => msgs'[n].now = msgs'[n].disk)
                        /\ \A s \in Sinks : n \in heard'[s] => msgs'[n].now[s].state = "delivered"
      BY <1>2 DEF Settled
    <2>1. CASE n = m
      <3>1. ~AtRest(m)' /\ msgs'[m].kept = TRUE
        BY <1>1, <1>2, <1>3, <2>1 DEF AtRest, Busy, Settled
      <3>2. ASSUME NEW s \in Sinks, m \in heard'[s] PROVE msgs'[m].now[s].state = "delivered"
        <4>1. CASE s = t
          BY <1>2, <1>5, <2>1, <3>2, <4>1
        <4>2. CASE s # t
          BY <1>1, <1>2, <1>4, <2>1, <3>2, <4>2 DEF Settled
        <4> QED
          BY <4>1, <4>2
      <3> QED
        BY <2>1, <3>1, <3>2
    <2>2. CASE n # m
      <3>1. AtRest(n) /\ msgs'[n] = msgs[n]
        BY <1>2, <2>2 DEF AtRest
      <3> QED
        BY <1>4, <2>2, <3>1 DEF Settled
    <2> QED
      BY <2>1, <2>2
  <1>7. Sending'
    <2>1. \A s \in Sinks : s >= t + 1 => s >= t /\ s # t
      BY <1>1 DEF Sinks
    <2> QED
      BY <1>1, <1>2, <1>3, <1>4, <2>1 DEF Sending
  <1> QED
    BY <1>6, <1>7

\* A record is written: the one in hand, or one that no process has taken up.
LEMMA SettledKeeps ==
    ASSUME Types, Settled, Sending, NEW m \in Message, NEW d \in [Sinks -> DeliveryType], Keep(msgs, m, d),
           ~Busy \/ m = hand.msg, hand'.mode = "idle", UNCHANGED heard,
           \A s \in Sinks : m \notin excused /\ m \in heard[s] => d[s].state = "delivered"
    PROVE  Settled' /\ Sending'
  <1>1. /\ Message' = Message /\ excused \subseteq excused'
        /\ \A i \in Message : i # m => msgs'[i] = msgs[i]
        /\ msgs'[m].now = d
        /\ m \notin excused' => msgs'[m].disk = d /\ msgs'[m].kept = TRUE
    BY RewriteEffect
  <1>2. Settled'
    <2> SUFFICES ASSUME NEW n \in Message, n \notin excused'
                 PROVE  /\ msgs'[n].kept = TRUE /\ msgs'[n].now = msgs'[n].disk
                        /\ \A s \in Sinks : n \in heard[s] => msgs'[n].now[s].state = "delivered"
      BY <1>1 DEF Settled
    <2>1. CASE n = m
      BY <1>1, <2>1
    <2>2. CASE n # m
      <3>1. AtRest(n)
        BY <2>2 DEF AtRest
      <3> QED
        BY <1>1, <2>2, <3>1 DEF Settled
    <2> QED
      BY <2>1, <2>2
  <1>3. Sending'
    BY DEF Sending
  <1> QED
    BY <1>2, <1>3

\* A record that is gone, or was cut off, is excused; the others are as they were.
LEMMA SettledEnds ==
    ASSUME Types, Settled, Sending, Purge \/ Dies
    PROVE  Settled' /\ Sending'
  <1>1. /\ Message' = Message /\ excused \subseteq excused' /\ UNCHANGED heard /\ hand'.mode = "idle"
        /\ \A i \in Message : i \notin excused' => msgs'[i] = msgs[i] /\ msgs[i].now = msgs[i].disk
    <2>1. CASE Dies
      BY <2>1, EffectOfDeath DEF Dies, ProcessEnds, Idle, history
    <2>2. CASE Purge
      <3>1. /\ Message' = Message /\ excused \subseteq excused' /\ UNCHANGED <<heard, hand>> /\ ~Busy
            /\ \A i \in Message : i \notin excused' => msgs'[i] = msgs[i]
        BY <2>2, EffectOfPurge DEF Purge, At, history
      <3> QED
        BY <3>1 DEF Settled, AtRest, Busy
    <2> QED
      BY <2>1, <2>2
  <1>2. Settled'
    BY <1>1 DEF Settled
  <1>3. Sending'
    BY <1>1 DEF Sending
  <1> QED
    BY <1>2, <1>3

\* A start finds what was forgotten, and changes nothing else of a record.
LEMMA SettledStarts ==
    ASSUME Types, Settled, Sending, Start
    PROVE  Settled' /\ Sending'
  <1>1. /\ Len(msgs') = Len(msgs) /\ Message' = Message
        /\ \A i \in Message : /\ msgs'[i].now = msgs[i].now /\ msgs'[i].disk = msgs[i].disk
                              /\ msgs[i].kept = TRUE => msgs'[i].kept = TRUE
    BY EffectOfStart
  <1>2. UNCHANGED <<hand, heard, excused>>
    BY DEF Start
  <1>3. Settled'
    <2>1. \A n \in Message : AtRest(n)' <=> AtRest(n)
      BY <1>2 DEF AtRest, Busy
    <2> QED
      BY <1>1, <1>2, <2>1 DEF Settled
  <1>4. Sending'
    BY <1>1, <1>2 DEF Sending
  <1> QED
    BY <1>3, <1>4

\* What an exception leaves is on the disk, or excused.
LEMMA SettledRaises ==
    ASSUME Types, Settled, Sending, Raises
    PROVE  Settled' /\ Sending'
  <1>1. PICK list \in Seq(MessageType) : \E more \in SUBSET (1 .. Len(list)) : LeftBehind(list, more)
    BY RaisesLeave
  <1>2. PICK more \in SUBSET (1 .. Len(list)) : LeftBehind(list, more)
    BY <1>1
  <1>3. /\ Leaves(list, more) /\ Len(msgs) <= Len(list) /\ (AsMany(list) \/ OneMade(list, more))
        /\ excused \subseteq more /\ \A i \in Message : Spared(i, list, more)
    BY <1>2 DEF LeftBehind
  <1>4. /\ Len(msgs') = Len(list) /\ Len(list) \in Nat /\ Len(msgs) \in Nat /\ UNCHANGED heard
        /\ more \subseteq excused' /\ hand' = Idle
        /\ \A i \in 1 .. Len(list) : i \notin excused' => msgs'[i] = list[i]
    BY <1>3, LeavesEffect, LenProperties DEF Types, TypeOK
  <1>5. Message' = 1 .. Len(list) /\ heard \in [Sinks -> SUBSET Message]
    BY <1>4 DEF Message, Types, TypeOK
  <1>6. hand'.mode = "idle"
    BY <1>4 DEF Idle
  <1>7. Settled'
    <2> SUFFICES ASSUME NEW n \in 1 .. Len(list), n \notin excused'
                 PROVE  /\ list[n].kept = TRUE /\ list[n].now = list[n].disk
                        /\ \A s \in Sinks : n \in heard[s] => list[n].now[s].state = "delivered"
      <3>1. \A n \in Message' : n \in 1 .. Len(list) /\ (n \notin excused' => msgs'[n] = list[n])
        BY <1>4, <1>5
      <3>2. \A s \in Sinks : heard'[s] = heard[s]
        BY <1>4
      <3> SUFFICES ASSUME NEW n \in Message', n \notin excused'
                   PROVE  /\ msgs'[n].kept = TRUE /\ msgs'[n].now = msgs'[n].disk
                          /\ \A s \in Sinks : n \in heard'[s] => msgs'[n].now[s].state = "delivered"
        BY DEF Settled
      <3>3. n \in 1 .. Len(list) /\ msgs'[n] = list[n]
        BY <3>1
      <3> QED
        BY <3>2, <3>3
    <2>1. n \notin more /\ n \notin excused
      BY <1>3, <1>4
    <2>2. CASE n \in Message
      <3>1. /\ msgs[n].kept = TRUE /\ (AtRest(n) => msgs[n].now = msgs[n].disk)
            /\ \A s \in Sinks : n \in heard[s] => msgs[n].now[s].state = "delivered"
        BY <2>1, <2>2 DEF Settled
      <3>2. CASE list[n] = msgs[n] /\ AtRest(n)
        BY <3>1, <3>2
      <3>3. CASE list[n].kept = TRUE /\ list[n].now = list[n].disk /\ list[n].now = msgs[n].now
        BY <3>1, <3>3
      <3>4. CASE list[n].kept = TRUE /\ list[n].now = list[n].disk /\ ~Busy /\ list[n].now = Resumed(n)
        <4>1. msgs[n].now = msgs[n].disk
          BY <3>1, <3>4 DEF AtRest
        <4>2. \A s \in Sinks : msgs[n].disk[s].state = "delivered" => Resumed(n)[s] = msgs[n].disk[s]
          BY DEF Resumed
        <4>3. \A s \in Sinks : n \in heard[s] => list[n].now[s].state = "delivered"
          BY <3>1, <3>4, <4>1, <4>2
        <4> QED
          BY <3>4, <4>3
      <3> QED
        BY <1>3, <2>1, <2>2, <3>2, <3>3, <3>4 DEF Spared
    <2>3. CASE n \notin Message
      <3>1. n = Len(msgs) + 1 /\ OneMade(list, more)
        BY <1>3, <1>4, <2>3 DEF AsMany, OneMade, Message
      <3>2. \A s \in Sinks : n \notin heard[s]
        BY <1>5, <2>3
      <3> QED
        BY <2>1, <3>1, <3>2 DEF OneMade
    <2> QED
      BY <2>2, <2>3
  <1>8. Sending'
    BY <1>6 DEF Sending
  <1> QED
    BY <1>7, <1>8

\* What is due is not what a sink has taken, and was not said after it was out of date.
LEMMA Weighed ==
    ASSUME Types, Settled, Retrying, Due(hand.msg, hand.next)
    PROVE  /\ hand.msg \notin excused => hand.msg \notin heard[hand.next]
           /\ ~Superseded(hand.msg, hand.next) =>
                 \A n \in heard[hand.next] :
                     n > hand.msg /\ msgs[n].key = msgs[hand.msg].key => hand.msg \in excused \/ n \in excused
  <1>1. hand.msg \in Message /\ hand.next \in Sinks /\ heard[hand.next] \subseteq Message /\ hand.msg \in Nat
    BY InHand DEF Retrying, Busy, HandType, Types, TypeOK, Message
  <1>2. hand.msg \notin excused => hand.msg \notin heard[hand.next]
    BY <1>1 DEF Due, Settled
  <1>3. ASSUME ~Superseded(hand.msg, hand.next), hand.msg \notin excused,
               NEW n \in heard[hand.next], n > hand.msg, msgs[n].key = msgs[hand.msg].key, n \notin excused
        PROVE  FALSE
    <2>1. n \in Message /\ AtRest(n)
      BY <1>1, <1>3 DEF AtRest, Message
    <2>2. msgs[n].disk[hand.next].state = "delivered" /\ msgs[n].kept /\ msgs[hand.msg].kept
      BY <1>1, <1>3, <2>1 DEF Settled
    <2>3. n \in Later(hand.msg)
      BY <1>1, <1>3, <2>1, <2>2 DEF Later, Message
    <2> QED
      BY <1>3, <2>2, <2>3 DEF Superseded
  <1> QED
    BY <1>2, <1>3

LEMMA SettledStep == Types /\ Settled /\ Sending /\ [Next]_vars => Settled' /\ Sending'
  <1> SUFFICES ASSUME Types, Settled, Sending, [Next]_vars PROVE Settled' /\ Sending'
    OBVIOUS
  <1>1. ASSUME \/ Poll \/ PollTarget \/ ObserveNothing \/ ReportSinks \/ Reported \/ Started
               \/ RecordSinks \/ RetryRecord \/ PassOver \/ Retried \/ Resume \/ UNCHANGED vars
               \/ \E m \in Message, s \in Sinks : FallsDue(m, s)
        PROVE  Settled' /\ Sending'
    <2>1. ASSUME RetryRecord \/ PassOver
          PROVE  /\ UNCHANGED <<msgs, heard, excused>>
                 /\ hand' = hand \/ (hand'.mode = "retry" /\ (~Busy \/ hand'.msg = hand.msg))
      <3>1. hand \in HandType
        BY DEF Types, TypeOK
      <3> QED
        BY <2>1, <3>1 DEF RetryRecord, PassOver, At, Retrying, HandType, Try, history
    <2>2. ASSUME \/ Poll \/ PollTarget \/ ObserveNothing \/ ReportSinks \/ Reported \/ Started
                 \/ RecordSinks \/ Retried \/ Resume \/ UNCHANGED vars \/ \E m \in Message, s \in Sinks : FallsDue(m, s)
          PROVE  UNCHANGED <<msgs, heard, excused, hand>>
      BY <2>2 DEF Poll, PollTarget, ObserveNothing, ReportSinks, Reported, Started, RecordSinks, Retried,
         Resume, vars, process, history, FallsDue
    <2> QED
      BY <1>1, <2>1, <2>2, SettledRests
  <1>2. CASE ObserveNews
    BY <1>2, Observation, SettledSends DEF ObserveNews, history
  <1>3. CASE Announce
    BY <1>3, SettledSends DEF Announce, At, history, Health
  <1>4. CASE TryFirst \/ TryAgain
    <2>1. PICK does \in Conditions : Attempt(hand.msg, hand.next, does)
      BY <1>4 DEF TryFirst, TryAgain
    <2>2. /\ Busy /\ hand.next \in Sinks /\ hand.next \in Nat /\ hand.msg \in Message
      BY <1>4, InHand DEF TryFirst, TryAgain, Retrying, Busy
    <2>3. hand.msg \notin excused => hand.msg \notin heard[hand.next]
      <3>1. CASE TryFirst
        BY <2>2, <3>1 DEF TryFirst, Sending
      <3>2. CASE TryAgain
        BY <3>2, Weighed DEF TryAgain
      <3> QED
        BY <1>4, <3>1, <3>2
    <2> DEFINE d == After(msgs[hand.msg].now[hand.next], does)
    <2>4. /\ d \in DeliveryType /\ (does = "takes" => d.state = "delivered")
          /\ msgs' = [msgs EXCEPT ![hand.msg].now[hand.next] = d]
      <3>1. msgs[hand.msg].now[hand.next] \in DeliveryType
        BY <2>2, RecordType
      <3> QED
        BY <2>1, <2>2, <3>1, AttemptEffect, AfterType
    <2>5. /\ \/ UNCHANGED heard
             \/ does = "takes" /\ heard' = [heard EXCEPT ![hand.next] = @ \cup {hand.msg}]
          /\ hand' = [hand EXCEPT !.next = @ + 1] /\ UNCHANGED excused
      BY <2>1 DEF Attempt
    <2> HIDE DEF d
    <2>6. Changes(hand.msg, hand.next, d)
      BY <2>2, <2>4, OneChanges
    <2> QED
      BY <2>2, <2>3, <2>4, <2>5, <2>6, SettledTries
  <1>5. CASE GiveUp
    <2> DEFINE d == [msgs[hand.msg].now[hand.next] EXCEPT !.state = "superseded"]
    <2>1. /\ hand.msg \in Message /\ hand.next \in Sinks /\ Busy
          /\ UNCHANGED <<heard, excused>> /\ hand' = [hand EXCEPT !.next = @ + 1]
          /\ msgs' = [msgs EXCEPT ![hand.msg].now[hand.next] = d]
          /\ hand.msg \notin excused => hand.msg \notin heard[hand.next]
      BY <1>5, InHand, Weighed DEF GiveUp, Retrying, Busy, history
    <2>2. d \in DeliveryType
      <3>1. msgs[hand.msg].now[hand.next] \in DeliveryType
        BY <2>1, RecordType
      <3> QED
        BY <3>1 DEF DeliveryType, DeliveryStates
    <2> HIDE DEF d
    <2>3. Changes(hand.msg, hand.next, d)
      BY <2>1, <2>2, OneChanges
    <2> QED
      BY <2>1, <2>2, <2>3, SettledTries
  <1>6. CASE KeepTried \/ KeepRetried
    <2> DEFINE m == hand.msg
               d == msgs[hand.msg].now
    <2>1. /\ Busy /\ Keep(msgs, m, d) /\ UNCHANGED heard /\ hand'.mode = "idle"
      BY <1>6 DEF KeepTried, KeepRetried, Busy, Idle, history
    <2>2. m \in Message /\ d \in [Sinks -> DeliveryType] /\ m = hand.msg
      BY <2>1, InHand, RecordType
    <2>3. \A s \in Sinks : m \notin excused /\ m \in heard[s] => d[s].state = "delivered"
      BY <2>2 DEF Settled
    <2> HIDE DEF m, d
    <2> QED
      BY <2>1, <2>2, <2>3, SettledKeeps
  <1>7. CASE ResumeRecord
    <2> DEFINE m == Head(agenda).msg
               d == Resumed(m)
    <2>1. /\ m \in Message /\ Keep(msgs, m, d) /\ UNCHANGED <<heard, hand>> /\ ~Busy
      BY <1>7, AtHand DEF ResumeRecord, At, history
    <2>2. d \in [Sinks -> DeliveryType] /\ msgs[m].disk \in [Sinks -> DeliveryType]
      BY <2>1, ResumedType, RecordType
    <2>3. ASSUME NEW s \in Sinks, m \notin excused, m \in heard[s] PROVE d[s].state = "delivered"
      <3>1. msgs[m].disk[s].state = "delivered"
        BY <2>1, <2>3 DEF Settled, AtRest
      <3>2. d[s] = msgs[m].disk[s]
        BY <3>1 DEF Resumed
      <3> QED
        BY <3>1, <3>2
    <2>4. hand'.mode = "idle"
      BY <2>1 DEF Busy
    <2> HIDE DEF m, d
    <2> QED
      BY <2>1, <2>2, <2>3, <2>4, SettledKeeps
  <1> QED
    BY <1>1, <1>2, <1>3, <1>4, <1>5, <1>6, <1>7, SettledEnds, SettledRaises, SettledStarts DEF Next, Step

\* A message newly taken is the last there is, or one that was weighed.
LEMMA OrderStep ==
    ASSUME Types, Settled, Sending, [Next]_vars, NEW s \in Sinks,
           NEW m \in heard'[s] \ heard[s], NEW n \in heard[s], n > m, msgs[n].key = msgs[m].key
    PROVE  m \in excused \/ n \in excused
  <1>1. TryFirst \/ TryAgain
    <2>1. Raises => UNCHANGED heard
      BY DEF Raises, PollRaises, PurgeRaises, SendRaises, TriedRaises, RetriedRaises, ResumeRaises, WriteRaises,
         Leaves, history
    <2> QED
      BY <2>1 DEF Next, Step, Start, Started, Poll, FallsDue, PollTarget, ObserveNews, ObserveNothing, KeepTried, ReportSinks,
       RecordSinks, Reported, RetryRecord, PassOver, GiveUp, KeepRetried, Retried, Resume, ResumeRecord,
       Announce, Purge, Dies, vars, history
  <1>2. PICK does \in Conditions : Attempt(hand.msg, hand.next, does)
    BY <1>1 DEF TryFirst, TryAgain
  <1>3. hand.msg \in Message /\ hand.next \in Sinks /\ heard \in [Sinks -> SUBSET Message] /\ Len(msgs) \in Nat
    BY <1>1, InHand, LenProperties DEF TryFirst, TryAgain, Retrying, Busy, Types, TypeOK
  <1>4. s = hand.next /\ m = hand.msg
    BY <1>2, <1>3 DEF Attempt
  <1>5. CASE TryFirst
    <2>1. m = Len(msgs) /\ n \in Message
      BY <1>3, <1>4, <1>5 DEF TryFirst, Sending
    <2> QED
      BY <1>3, <2>1 DEF Message
  <1>6. CASE TryAgain
    BY <1>4, <1>6, Weighed DEF TryAgain
  <1> QED
    BY <1>1, <1>5, <1>6

-------------------------------------------------------------------------------
(* What has been tried.                                                    *)

\* What this process has made was tried at every sink, or is being so, as far as it has
\* got; a record tried again was tried before.
Attempted ==
    /\ ~up => ~Busy
    /\ up => \A m \in Message : m > before => Tried(m) \/ (hand.mode = "send" /\ m = hand.msg)
    /\ hand.mode = "send" =>
          \A s \in Sinks : s < hand.next => msgs[hand.msg].now[s].state # "pending"
    /\ hand.mode = "retry" /\ hand.msg > before /\ hand.msg \notin dropped =>
          \A s \in Sinks : hand.was[s].state # "pending"

LEMMA AttemptedInit == Init => Attempted
  BY DEF Init, Attempted, Idle, Busy

\* The records have been tried as they had been, and the thread is at one of none, or
\* at one that was tried.
LEMMA AttemptedRests ==
    ASSUME Attempted, UNCHANGED <<up, before, dropped>>, Message' = Message,
           \A m \in Message : msgs'[m].now = msgs[m].now,
           \/ UNCHANGED hand /\ (Busy => hand.msg \in Message)
           \/ hand' = [hand EXCEPT !.next = @ + 1] /\ hand.mode = "retry" /\ hand \in HandType /\ up
           \/ /\ hand.mode = "idle" /\ hand'.mode = "retry" /\ hand'.msg \in Message /\ up
              /\ hand'.was = msgs[hand'.msg].now
    PROVE  Attempted'
  <1>1. \A m \in Message : Tried(m)' <=> Tried(m)
    BY DEF Tried
  <1>2. CASE UNCHANGED hand /\ (Busy => hand.msg \in Message)
    BY <1>1, <1>2 DEF Attempted, Busy
  <1>3. CASE hand' = [hand EXCEPT !.next = @ + 1] /\ hand.mode = "retry" /\ hand \in HandType /\ up
    <2>1. hand'.mode = "retry" /\ hand'.msg = hand.msg /\ hand'.was = hand.was
      BY <1>3 DEF HandType
    <2> QED
      BY <1>1, <1>3, <2>1 DEF Attempted, Busy
  <1>4. CASE /\ hand.mode = "idle" /\ hand'.mode = "retry" /\ hand'.msg \in Message /\ up
             /\ hand'.was = msgs[hand'.msg].now
    BY <1>1, <1>4 DEF Attempted, Busy, Tried
  <1> QED
    BY <1>2, <1>3, <1>4

\* One delivery of the record in hand: it is pending no more.
LEMMA AttemptedTries ==
    ASSUME Types, Attempted, up, Busy, NEW m \in Message, NEW t \in Sinks, m = hand.msg, t = hand.next,
           NEW d \in DeliveryType, d.state # "pending", Changes(m, t, d),
           hand' = [hand EXCEPT !.next = @ + 1], UNCHANGED <<up, before, dropped>>
    PROVE  Attempted'
  <1>1. /\ hand'.mode = hand.mode /\ hand'.msg = m /\ hand'.next = t + 1 /\ hand'.was = hand.was /\ t \in Nat
    BY DEF Types, TypeOK, HandType, Sinks
  <1>2. /\ Message' = Message /\ \A i \in Message : i # m => msgs'[i] = msgs[i]
        /\ msgs'[m].now[t] = d /\ \A r \in Sinks : r # t => msgs'[m].now[r] = msgs[m].now[r]
    BY DEF Changes
  <1>3. \A i \in Message : Tried(i) => Tried(i)'
    BY <1>2 DEF Tried
  <1>4. hand.mode = "send" => \A s \in Sinks : s < t + 1 => msgs'[m].now[s].state # "pending"
    <2> SUFFICES ASSUME hand.mode = "send", NEW s \in Sinks, s < t + 1 PROVE msgs'[m].now[s].state # "pending"
      OBVIOUS
    <2>1. CASE s = t
      BY <1>2, <2>1
    <2>2. CASE s # t
      <3>1. s < t
        BY <1>1, <2>2 DEF Sinks
      <3> QED
        BY <1>2, <2>2, <3>1 DEF Attempted
    <2> QED
      BY <2>1, <2>2
  <1> QED
    BY <1>1, <1>2, <1>3, <1>4 DEF Attempted, Busy

\* A record written: one that has been tried.
LEMMA AttemptedKeeps ==
    ASSUME Types, Attempted, up, NEW m \in Message, NEW d \in [Sinks -> DeliveryType], Keep(msgs, m, d),
           hand'.mode = "idle", UNCHANGED <<up, before>>,
           \/ ~Busy /\ \A s \in Sinks : d[s].state # "pending"
           \/ Busy /\ m = hand.msg /\ d = msgs[m].now /\ hand.next = NumSinks + 1
    PROVE  Attempted'
  <1>1. /\ Message' = Message /\ \A i \in Message : i # m => msgs'[i] = msgs[i]
        /\ msgs'[m].now = d /\ UNCHANGED dropped
    BY RewriteEffect, KeepForgets
  <1>2. \A i \in Message : Tried(i) => Tried(i)'
    BY <1>1 DEF Tried
  <1>3. ASSUME NEW i \in Message, i > before PROVE Tried(i)'
    <2>1. CASE hand.mode = "send" /\ i = hand.msg
      <3>1. \A s \in Sinks : s < NumSinks + 1
        BY MonitorAssumption DEF Sinks
      <3>2. m = i /\ \A s \in Sinks : d[s].state # "pending"
        BY <2>1, <3>1 DEF Attempted, Busy
      <3> QED
        BY <1>1, <3>2 DEF Tried
    <2>2. CASE Tried(i)
      BY <1>2, <2>2
    <2> QED
      BY <1>3, <2>1, <2>2 DEF Attempted
  <1> QED
    BY <1>1, <1>3 DEF Attempted, Busy

LEMMA AttemptedSends ==
    ASSUME Types, Attempted, NEW k \in Keys \cup {StartKey}, NEW says \in Health, Send(k, says),
           up, ~Busy, UNCHANGED <<up, before>>
    PROVE  Attempted'
  <1> DEFINE m == Len(msgs) + 1
  <1>1. /\ m \in Nat /\ Message' = 1 .. m /\ Message = 1 .. Len(msgs)
        /\ \A i \in Message : msgs'[i] = msgs[i]
        /\ hand' = Try("send", m, Fresh)
    BY SendEffect
  <1>2. Len(msgs) \in Nat /\ UNCHANGED dropped
    BY LenProperties, KeepForgets DEF Types, TypeOK, Send
  <1>3. hand'.mode = "send" /\ hand'.msg = m /\ \A s \in Sinks : ~(s < hand'.next)
    BY <1>1 DEF Try, Sinks
  <1>4. \A i \in Message' : i \in Message \/ i = m
    BY <1>1, <1>2
  <1>5. \A i \in Message : Tried(i) => Tried(i)'
    BY <1>1, <1>2 DEF Tried
  <1> HIDE DEF m
  <1> QED
    BY <1>3, <1>4, <1>5 DEF Attempted, Busy

\* What an exception leaves untried is out of the hands of the process.
LEMMA AttemptedRaises ==
    ASSUME Types, Attempted, Raises
    PROVE  Attempted'
  <1>1. PICK list \in Seq(MessageType) : \E more \in SUBSET (1 .. Len(list)) : LeftBehind(list, more)
    BY RaisesLeave
  <1>2. PICK more \in SUBSET (1 .. Len(list)) : LeftBehind(list, more)
    BY <1>1
  <1>3. /\ Leaves(list, more) /\ (AsMany(list) \/ OneMade(list, more)) /\ dropped \subseteq dropped'
        /\ \A i \in Message : \/ list[i].now = msgs[i].now
                              \/ ~Busy /\ list[i].now = Resumed(i)
                              \/ hand.mode = "retry" /\ i = hand.msg /\ list[i].now = hand.was
    BY <1>2 DEF LeftBehind, Spared
  <1>4. /\ Len(msgs') = Len(list) /\ up /\ UNCHANGED before /\ hand'.mode = "idle"
        /\ up' = FALSE \/ (up' = TRUE /\ msgs' = list)
    <2>1. /\ Len(msgs') = Len(list) /\ up /\ UNCHANGED before /\ hand' = Idle
          /\ Gone \/ (up' = TRUE /\ msgs' = list)
      BY <1>3, LeavesEffect
    <2> QED
      BY <2>1 DEF Idle, Gone
  <1>5. CASE up' = FALSE
    BY <1>4, <1>5 DEF Attempted, Busy
  <1>6. CASE up' = TRUE /\ msgs' = list
    <2> SUFFICES ASSUME NEW i \in Message', i > before PROVE Tried(i)'
      BY <1>4, <1>6 DEF Attempted, Busy
    <2>1. CASE i \in Message
      <3>1. Tried(i) \/ (hand.mode = "send" /\ i = hand.msg)
        BY <1>4, <2>1 DEF Attempted
      <3>2. CASE hand.mode = "send" /\ i = hand.msg
        <4>1. i \in dropped'
          BY <1>3, <3>2 DEF AsMany, OneMade, Busy
        <4> QED
          BY <4>1 DEF Tried
      <3>3. CASE i \in dropped
        BY <1>3, <3>3 DEF Tried
      <3>4. CASE /\ i \notin dropped /\ ~(hand.mode = "send" /\ i = hand.msg)
        <4>1. \A s \in Sinks : msgs[i].now[s].state # "pending"
          BY <3>1, <3>4 DEF Tried
        <4>2. \A s \in Sinks : Resumed(i)[s].state # "pending"
          BY ResumedIsTried, <2>1
        <4>3. hand.mode = "retry" /\ i = hand.msg => \A s \in Sinks : hand.was[s].state # "pending"
          BY <2>1, <3>4 DEF Attempted
        <4>4. \A s \in Sinks : list[i].now[s].state # "pending"
          BY <1>3, <2>1, <4>1, <4>2, <4>3
        <4> QED
          BY <1>6, <4>4 DEF Tried
      <3> QED
        BY <3>1, <3>2, <3>3, <3>4
    <2>2. CASE i \notin Message
      <3>1. Len(msgs) \in Nat
        BY LenProperties DEF Types, TypeOK
      <3>2. i \in dropped'
        BY <1>3, <1>4, <2>2, <3>1 DEF AsMany, OneMade, Message
      <3> QED
        BY <3>2 DEF Tried
    <2> QED
      BY <2>1, <2>2
  <1> QED
    BY <1>4, <1>5, <1>6

LEMMA AttemptedStep == Types /\ Attempted /\ [Next]_vars => Attempted'
  <1> SUFFICES ASSUME Types, Attempted, [Next]_vars PROVE Attempted'
    OBVIOUS
  <1>0. hand \in HandType /\ (Busy => hand.msg \in Message)
    BY DEF Types, TypeOK
  <1>1. CASE Poll \/ PollTarget \/ ObserveNothing \/ ReportSinks \/ Reported \/ Started \/ RecordSinks
             \/ Retried \/ Resume \/ UNCHANGED vars \/ \E m \in Message, s \in Sinks : FallsDue(m, s)
    <2>1. UNCHANGED <<msgs, up, before, dropped, hand>>
      BY <1>1 DEF Poll, PollTarget, ObserveNothing, ReportSinks, Reported, Started, RecordSinks, Retried,
         Resume, vars, process, history, aside, FallsDue
    <2>2. Message' = Message /\ \A m \in Message : msgs'[m].now = msgs[m].now
      BY <2>1 DEF Message
    <2>3. hand' = hand /\ (Busy => hand.msg \in Message) /\ UNCHANGED <<up, before, dropped>>
      BY <1>0, <2>1
    <2> QED
      BY <2>2, <2>3, AttemptedRests
  <1>2. CASE RetryRecord
    <2>1. UNCHANGED <<msgs, up, before, dropped>> /\ up /\ ~Busy /\ Head(agenda).msg \in Message
          /\ (hand' = hand \/ hand' = Try("retry", Head(agenda).msg, msgs[Head(agenda).msg].now))
      BY <1>2, AtHand DEF RetryRecord, At, history, aside
    <2>2. Message' = Message /\ (\A m \in Message : msgs'[m].now = msgs[m].now)
          /\ UNCHANGED <<up, before, dropped>> /\ up /\ hand.mode = "idle"
      BY <2>1 DEF Message, Busy
    <2>3. CASE hand' = hand
      BY <2>1, <2>2, <2>3, AttemptedRests
    <2>4. CASE hand' = Try("retry", Head(agenda).msg, msgs[Head(agenda).msg].now)
      <3>1. hand'.mode = "retry" /\ hand'.msg \in Message /\ hand'.was = msgs[hand'.msg].now
        BY <2>1, <2>4 DEF Try
      <3> QED
        BY <2>2, <3>1, AttemptedRests
    <2> QED
      BY <2>1, <2>3, <2>4
  <1>3. CASE PassOver
    BY <1>0, <1>3, AttemptedRests DEF PassOver, Retrying, Message, history, aside
  <1>4. CASE Purge
    <2>1. Message' = Message /\ \A i \in Message : msgs'[i].now = msgs[i].now
      BY <1>4, EffectOfPurge
    <2> QED
      BY <1>0, <1>4, <2>1, AttemptedRests DEF Purge, history, aside
  <1>5. CASE TryFirst \/ TryAgain
    <2>1. PICK does \in Conditions : Attempt(hand.msg, hand.next, does)
      BY <1>5 DEF TryFirst, TryAgain
    <2>2. /\ Busy /\ up /\ hand.next \in Sinks /\ hand.msg \in Message
      BY <1>5, InHand DEF TryFirst, TryAgain, Retrying, Busy
    <2> DEFINE d == After(msgs[hand.msg].now[hand.next], does)
    <2>3. d \in DeliveryType /\ msgs' = [msgs EXCEPT ![hand.msg].now[hand.next] = d]
      BY <2>1, <2>2, AttemptEffect
    <2>4. d.state # "pending"
      BY DEF After, TransientlyFailed
    <2>5. hand' = [hand EXCEPT !.next = @ + 1] /\ UNCHANGED <<up, before, dropped>>
      BY <2>1 DEF Attempt, aside
    <2> HIDE DEF d
    <2>6. Changes(hand.msg, hand.next, d)
      BY <2>2, <2>3, OneChanges
    <2> QED
      BY <2>2, <2>3, <2>4, <2>5, <2>6, AttemptedTries
  <1>6. CASE GiveUp
    <2> DEFINE d == [msgs[hand.msg].now[hand.next] EXCEPT !.state = "superseded"]
    <2>1. /\ hand.msg \in Message /\ hand.next \in Sinks /\ Busy /\ up
          /\ UNCHANGED <<up, before, dropped>> /\ hand' = [hand EXCEPT !.next = @ + 1]
          /\ msgs' = [msgs EXCEPT ![hand.msg].now[hand.next] = d]
      BY <1>6, InHand DEF GiveUp, Retrying, Busy, history, aside
    <2>2. d \in DeliveryType /\ d.state # "pending"
      <3>1. msgs[hand.msg].now[hand.next] \in DeliveryType
        BY <2>1, RecordType
      <3> QED
        BY <3>1 DEF DeliveryType, DeliveryStates
    <2> HIDE DEF d
    <2>3. Changes(hand.msg, hand.next, d)
      BY <2>1, <2>2, OneChanges
    <2> QED
      BY <2>1, <2>2, <2>3, AttemptedTries
  <1>7. CASE KeepTried \/ KeepRetried
    <2> DEFINE m == hand.msg
               d == msgs[hand.msg].now
    <2>1. /\ Busy /\ up /\ Keep(msgs, m, d) /\ hand'.mode = "idle" /\ UNCHANGED <<up, before>>
          /\ hand.next = NumSinks + 1
      BY <1>7 DEF KeepTried, KeepRetried, Busy, Idle, history
    <2>2. m \in Message /\ d \in [Sinks -> DeliveryType] /\ m = hand.msg /\ d = msgs[m].now
      BY <2>1, InHand, RecordType
    <2> HIDE DEF m, d
    <2> QED
      BY <2>1, <2>2, AttemptedKeeps
  <1>8. CASE ResumeRecord
    <2> DEFINE m == Head(agenda).msg
               d == Resumed(m)
    <2>1. /\ m \in Message /\ Keep(msgs, m, d) /\ UNCHANGED <<up, before, hand>> /\ ~Busy /\ up
      BY <1>8, AtHand DEF ResumeRecord, At, history
    <2>2. d \in [Sinks -> DeliveryType] /\ \A s \in Sinks : d[s].state # "pending"
      BY <2>1, ResumedType, ResumedIsTried
    <2>3. hand'.mode = "idle"
      BY <2>1 DEF Busy
    <2> HIDE DEF m, d
    <2> QED
      BY <2>1, <2>2, <2>3, AttemptedKeeps
  <1>9. CASE ObserveNews
    BY <1>9, Observation, AttemptedSends DEF ObserveNews, history
  <1>10. CASE Announce
    BY <1>10, AttemptedSends DEF Announce, At, history, Health
  <1>11. CASE Start
    <2>1. before' = Len(msgs) /\ UNCHANGED hand /\ ~up /\ Message' = Message /\ Len(msgs) \in Nat
      BY <1>11, EffectOfStart, LenProperties DEF Start, Types, TypeOK
    <2>2. \A m \in Message' : ~(m > before')
      BY <2>1 DEF Message
    <2> QED
      BY <2>1, <2>2 DEF Attempted, Busy
  <1>12. CASE Dies
    BY <1>12 DEF Dies, ProcessEnds, Attempted, Busy, Idle
  <1> QED
    BY <1>1, <1>2, <1>3, <1>4, <1>5, <1>6, <1>7, <1>8, <1>9, <1>10, <1>11, <1>12, AttemptedRaises DEF Next, Step

-------------------------------------------------------------------------------
(* The theorems.                                                           *)

MonitorInv == Types /\ Told /\ Settled /\ Sending /\ Attempted

LEMMA MonitorInduction == Spec => []MonitorInv
  <1>1. Init => MonitorInv
    BY TypesInit, ToldInit, SettledInit, AttemptedInit DEF MonitorInv
  <1>2. MonitorInv /\ [Next]_vars => MonitorInv'
    BY TypesStep, ToldStep, SettledStep, AttemptedStep DEF MonitorInv
  <1> QED
    BY <1>1, <1>2, PTL DEF Spec

\* Whatever the sinks, the disk, the target and the process do, the monitor's state is
\* of its types: among them, a call on the agenda is about a message there is.
THEOREM MonitorIsSound == Spec => []TypeOK
  <1>1. MonitorInv => TypeOK
    BY DEF MonitorInv, Types
  <1> QED
    BY <1>1, MonitorInduction, PTL

\* Between two passes a fault the process knows of has been told, and so has the end of
\* one that was told (monitor.py: _observe, _transition).
THEOREM FaultsWereTold == Spec => []FaultsAreTold
  <1>1. MonitorInv => FaultsAreTold
    BY DEF MonitorInv, Told, Telling, Attempted, FaultsAreTold, Waiting, Busy
  <1> QED
    BY <1>1, MonitorInduction, PTL

\* No sink takes a message after a later one about the same thing, as far as the records
\* can tell (monitor.py: _retry, later), through any number of retries and restarts.
THEOREM NewsStaysInOrder == Spec => NoOldNewsAfterNew
  <1>1. MonitorInv /\ [Next]_vars =>
           [\A s \in Sinks : \A m \in heard'[s] \ heard[s], n \in heard[s] :
               n > m /\ msgs[n].key = msgs[m].key => m \in excused \/ n \in excused]_vars
    BY OrderStep DEF MonitorInv
  <1> QED
    BY <1>1, MonitorInduction, PTL DEF Spec, NoOldNewsAfterNew
=============================================================================
