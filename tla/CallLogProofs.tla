----------------------------- MODULE CallLogProofs -----------------------------
(***************************************************************************)
(* Theorems about CallLog, for every value of its constants.  The induction *)
(* goes through what one put does to the store (KeepEffect), and from there *)
(* action by action.                                                        *)
(***************************************************************************)
EXTENDS CallLog, TLAPS

Record == [events : Seq(Event), outcome : Outcome]

\* The events of call c, all n of them, in order and nothing else.
Exact(events, c, n) == Len(events) = n /\ \A i \in 1 .. n : events[i] = <<c, i>>

OfCall(events, c) == \A i \in 1 .. Len(events) : events[i][1] = c

-------------------------------------------------------------------------------
(* The induction.                                                           *)

\* What the process has in hand is of this run, and a start's list of what to close
\* is empty but while it closes, when no call of it has come.
Hands ==
    /\ live \in 0 .. made /\ before <= made
    /\ live # 0 => Up /\ live > before
    /\ \A c \in pulses : before < c /\ c <= made /\ Up
    /\ place # "closing" => toClose = {}
    /\ place = "closing" => before = made

\* A call that has not come has no record, and what the store reads is on the disk.
Files ==
    /\ \A c \in Call : c > made => kept[c] = NoRecord /\ noted[c] = 0
    /\ indexed \subseteq OnDisk
    /\ \A c \in toClose : kept[c].outcome = "none"

\* The session has the whole of its call, which its file does not say has ended.
Session ==
    live # 0 => /\ Exact(body.events, live, noted[live]) /\ body.outcome = "none"
                /\ kept[live].outcome \in {"none", "no_record"}

\* A file is of one call, and one with an end has all that led to it.
Whole ==
    \A c \in Call :
        /\ OfCall(kept[c].events, c)
        /\ kept[c].outcome = "own" => Tells(kept[c], c, endsAt[c])

\* In a run that was refused nothing, every call of it is indexed with every event.
Complete ==
    clean = "yes" /\ Up =>
        /\ place = "open"
        /\ \A c \in Call : before < c /\ c <= made =>
              c \in indexed /\ Exact(kept[c].events, c, noted[c])

\* ... and nothing looks live but what is, or is about to be closed.
Repaired ==
    clean = "yes" /\ place \in {"closing", "open"} =>
        \A c \in Call : kept[c].outcome = "none" => c = live \/ c \in toClose

LogInv == TypeOK /\ Hands /\ Files /\ Session /\ Whole /\ Complete /\ Repaired

-------------------------------------------------------------------------------
(* Events and records.                                                      *)

\* One event more is the next one.
LEMMA AppendExact ==
    ASSUME NEW s \in Seq(Event), NEW c \in Call, NEW n \in Nat, Exact(s, c, n)
    PROVE  /\ Append(s, <<c, n + 1>>) \in Seq(Event)
           /\ Exact(Append(s, <<c, n + 1>>), c, n + 1)
  BY DEF Exact, Event

\* ... and takes nothing away from what was told.
LEMMA AppendOfCall ==
    ASSUME NEW s \in Seq(Event), NEW c \in Call, NEW n \in Nat, OfCall(s, c)
    PROVE  /\ Append(s, <<c, n>>) \in Seq(Event)
           /\ OfCall(Append(s, <<c, n>>), c)
           /\ Len(Append(s, <<c, n>>)) = Len(s) + 1
           /\ \A i \in 1 .. Len(s) : Append(s, <<c, n>>)[i] = s[i]
  BY DEF OfCall, Event

LEMMA ExactTells ==
    ASSUME NEW r \in Record, NEW c \in Call, NEW n \in Nat, Exact(r.events, c, n)
    PROVE  Tells(r, c, n) /\ OfCall(r.events, c)
  BY DEF Exact, Tells, OfCall, Record

LEMMA WithRecord ==
    ASSUME TypeOK, NEW c \in Call, NEW r \in Record
    PROVE  /\ With(r, c) \in Record
           /\ With(r, c).events = Append(r.events, <<c, noted[c] + 1>>)
           /\ With(r, c).outcome = r.outcome
  <1>1. <<c, noted[c] + 1>> \in Event
    BY DEF TypeOK, Event
  <1>2. r.events \in Seq(Event) /\ Append(r.events, <<c, noted[c] + 1>>) \in Seq(Event)
    BY <1>1 DEF Record
  <1>3. With(r, c) = [r EXCEPT !.events = Append(r.events, <<c, noted[c] + 1>>)]
    BY DEF With, NextOf
  <1> QED
    BY <1>2, <1>3 DEF Record

LEMMA Closed ==
    ASSUME NEW r \in Record, NEW o \in Outcome
    PROVE  /\ [r EXCEPT !.outcome = o] \in Record
           /\ [r EXCEPT !.outcome = o].events = r.events
           /\ [r EXCEPT !.outcome = o].outcome = o
  BY DEF Record

LEMMA FreshRecord ==
    /\ Fresh \in Record /\ Fresh.outcome = "none" /\ Fresh.events = <<>>
    /\ NoRecord.outcome = "no_record" /\ NoRecord.events = <<>> /\ NoRecord \notin Record
    /\ \A c \in Call : Exact(<<>>, c, 0) /\ OfCall(<<>>, c)
  BY DEF Fresh, NoRecord, Record, Outcome, Exact, OfCall

-------------------------------------------------------------------------------
(* One put.                                                                 *)

LEMMA KeepEffect ==
    ASSUME TypeOK, Files, NEW c \in Call, NEW r \in Record, NEW how \in Outcomes,
           Keep(c, r, how), place # "down"
    PROVE  /\ kept' \in [Call -> Record \cup {NoRecord}]
           /\ \A d \in Call : d # c => kept'[d] = kept[d]
           /\ kept'[c] = r \/ (how # "done" /\ kept'[c] = kept[c])
           /\ indexed \subseteq indexed' /\ indexed' \subseteq {d \in Call : kept'[d] # NoRecord}
           /\ how = "done" => c \in indexed' /\ UNCHANGED <<clean, faults>>
           /\ how # "done" => clean' = "no" /\ faults' = faults + 1
           /\ place' \in {"closing", "open", "shut"}
           /\ place # "shut" => place' = place
           /\ place = "shut" => place' # "closing"
  <1>1. kept \in [Call -> Record \cup {NoRecord}] /\ NoRecord \notin Record
    BY FreshRecord DEF TypeOK, Record
  <1>2. /\ kept' \in [Call -> Record \cup {NoRecord}]
        /\ \A d \in Call : d # c => kept'[d] = kept[d]
        /\ kept'[c] = r \/ (how \notin {"done", "refused_late"} /\ kept'[c] = kept[c])
    BY <1>1 DEF Keep
  <1>3. OnDisk \subseteq {d \in Call : kept'[d] # NoRecord} /\ indexed \subseteq OnDisk
    BY <1>1, <1>2 DEF OnDisk, Files
  <1>4. how = "done" => kept'[c] # NoRecord
    BY <1>1, <1>2
  <1>5. /\ indexed \subseteq indexed' /\ indexed' \subseteq {d \in Call : kept'[d] # NoRecord}
        /\ how = "done" => c \in indexed'
    BY <1>3, <1>4 DEF Keep
  <1>6. /\ place' \in {"closing", "open", "shut"}
        /\ place # "shut" => place' = place
        /\ place = "shut" => place' # "closing"
    BY DEF Keep, TypeOK
  <1>7. /\ how = "done" => UNCHANGED <<clean, faults>>
        /\ how # "done" => clean' = "no" /\ faults' = faults + 1
    BY DEF Keep, Counted
  <1> QED
    BY <1>2, <1>5, <1>6, <1>7

-------------------------------------------------------------------------------
LEMMA LogInit == Init => LogInv
  <1> SUFFICES ASSUME Init PROVE LogInv
    OBVIOUS
  <1> USE FreshRecord, LogAssumption DEF Init
  <1>1. \A c \in Call : kept[c] = NoRecord /\ noted[c] = 0 /\ kept[c].outcome = "no_record" /\ kept[c].events = <<>>
    OBVIOUS
  <1>2. TypeOK
    BY DEF TypeOK, Record
  <1>3. Hands /\ Files /\ Session /\ Complete /\ Repaired
    BY <1>1 DEF Hands, Files, Session, Complete, Repaired, Up
  <1>4. Whole
    BY <1>1 DEF Whole
  <1> QED
    BY <1>2, <1>3, <1>4 DEF LogInv

-------------------------------------------------------------------------------
(* The session's actions.                                                   *)

\* The types of what a put leaves to its caller.
LEMMA KeepTypes ==
    ASSUME LogInv, NEW c \in Call, NEW r \in Record, NEW how \in Outcomes, Keep(c, r, how),
           place # "down", toClose' \subseteq toClose, UNCHANGED <<before, stops>>,
           live' \in Call \cup {0}, body' \in Record, pulses' \subseteq Call,
           made' \in 0 .. MaxCalls,
           noted' \in [Call -> Nat], endsAt' \in [Call -> Nat]
    PROVE  TypeOK'
  <1>1. /\ kept' \in [Call -> Record \cup {NoRecord}] /\ indexed' \subseteq Call
        /\ place' \in {"closing", "open", "shut"}
        /\ clean' \in {"yes", "no"} /\ faults' \in Nat
    <2>1. TypeOK /\ Files
      BY DEF LogInv
    <2>2. /\ kept' \in [Call -> Record \cup {NoRecord}]
          /\ indexed' \subseteq {d \in Call : kept'[d] # NoRecord}
          /\ place' \in {"closing", "open", "shut"}
          /\ how = "done" => UNCHANGED <<clean, faults>>
          /\ how # "done" => clean' = "no" /\ faults' = faults + 1
      BY <2>1, KeepEffect
    <2>3. clean \in {"yes", "no"} /\ faults \in Nat
      BY <2>1 DEF TypeOK
    <2>4. clean' \in {"yes", "no"} /\ faults' \in Nat
      BY <2>2, <2>3
    <2>5. indexed' \subseteq Call
      BY <2>2
    <2> QED
      BY <2>2, <2>4, <2>5
  <1> QED
    BY <1>1 DEF LogInv, TypeOK, Record

\* One event more in the count of a call.
LEMMA HappensTo ==
    ASSUME TypeOK, NEW c \in Call, Happens(c)
    PROVE  /\ noted' \in [Call -> Nat] /\ noted'[c] = noted[c] + 1
           /\ \A d \in Call : d # c => noted'[d] = noted[d]
  BY DEF TypeOK, Happens

\* An event of the live call: its record grows, on the disk and in the session.
LEMMA NoteStep ==
    ASSUME LogInv, Up, live # 0, NEW r \in Record, NEW how \in Outcomes, Note(r, how),
           Exact(r.events, live, noted'[live]), r.outcome = "none",
           noted' \in [Call -> Nat], \A d \in Call : d # live => noted'[d] = noted[d],
           pulses' \subseteq pulses,
           UNCHANGED <<toClose, live, made, endsAt, before, stops>>
    PROVE  LogInv'
  <1>0. /\ live \in Call /\ live \in 1 .. made /\ Keep(live, r, how) /\ body' = r /\ place # "down"
        /\ place # "closing" /\ toClose = {} /\ made \in Nat /\ before \in Nat
    BY LogAssumption DEF LogInv, TypeOK, Hands, Call, Note, Up
  <1>1. /\ kept' \in [Call -> Record \cup {NoRecord}]
        /\ \A d \in Call : d # live => kept'[d] = kept[d]
        /\ kept'[live] = r \/ (how # "done" /\ kept'[live] = kept[live])
        /\ indexed \subseteq indexed' /\ indexed' \subseteq OnDisk'
        /\ how = "done" => live \in indexed' /\ UNCHANGED <<clean, faults>>
        /\ how # "done" => clean' = "no"
        /\ place' \in {"open", "shut"} /\ (place # "shut" => place' = place)
    BY <1>0, KeepEffect DEF LogInv, OnDisk
  <1>2. OfCall(r.events, live) /\ \A n \in Nat : Exact(r.events, live, n) => Tells(r, live, n)
    BY <1>0, ExactTells DEF LogInv, TypeOK
  <1>3. TypeOK'
    BY <1>0, KeepTypes DEF LogInv, TypeOK
  <1>4. Hands'
    BY <1>0, <1>1 DEF LogInv, Hands, Up
  <1>5. Files'
    <2>1. \A c \in Call : c > made => c # live
      BY <1>0 DEF Call
    <2>2. toClose' = {}
      BY <1>0
    <2> QED
      BY <1>0, <1>1, <2>1, <2>2 DEF LogInv, Files
  <1>6. Session'
    BY <1>0, <1>1 DEF LogInv, Session
  <1>7. Whole'
    BY <1>0, <1>1, <1>2 DEF LogInv, Whole, Tells
  <1>8. Complete'
    BY <1>0, <1>1 DEF LogInv, Complete, Up
  <1>9. Repaired'
    BY <1>0, <1>1 DEF LogInv, Repaired, Complete
  <1> QED
    BY <1>3, <1>4, <1>5, <1>6, <1>7, <1>8, <1>9 DEF LogInv

LEMMA LiveSteps ==
    ASSUME LogInv, NEW how \in Outcomes,
           Step(how) \/ PersonAnswers(how) \/ (PulseSettles(live, how) /\ live # 0)
    PROVE  LogInv'
  <1>1. /\ live \in Call /\ body \in Record /\ Up /\ noted[live] \in Nat /\ TypeOK
        /\ Exact(body.events, live, noted[live]) /\ body.outcome = "none"
    BY LogAssumption DEF LogInv, TypeOK, Hands, Call, Session, Record, Step, PersonAnswers, PulseSettles
  <1>2. /\ With(body, live) \in Record /\ With(body, live).outcome = "none"
        /\ Exact(With(body, live).events, live, noted[live] + 1)
    <2>1. body.events \in Seq(Event)
      BY <1>1 DEF Record
    <2>2. Exact(Append(body.events, <<live, noted[live] + 1>>), live, noted[live] + 1)
      BY <1>1, <2>1, AppendExact
    <2> QED
      BY <1>1, <2>2, WithRecord
  <1>3. CASE Step(how)
    BY <1>1, <1>2, <1>3, NoteStep, HappensTo DEF Step
  <1>4. CASE PersonAnswers(how)
    BY <1>1, <1>4, NoteStep DEF PersonAnswers, TypeOK
  <1>5. CASE PulseSettles(live, how) /\ live # 0
    BY <1>1, <1>2, <1>5, NoteStep, HappensTo DEF PulseSettles
  <1> QED
    BY <1>3, <1>4, <1>5

\* Any other put of a call's record: the first or the last of a call, the only one of
\* a call that is refused, or a late one.
LEMMA PutStep ==
    ASSUME LogInv, Up, NEW c \in Call, NEW r \in Record, NEW how \in Outcomes, Keep(c, r, how),
           \* the event
           Happens(c),
           endsAt' \in [Call -> Nat], \A d \in Call : d # c => endsAt'[d] = endsAt[d],
           OfCall(r.events, c),
           r.outcome = "own" => Tells(r, c, endsAt'[c]),
           kept[c].outcome = "own" => endsAt'[c] = endsAt[c],
           clean = "yes" => Exact(r.events, c, noted[c] + 1),
           \* the calls
           made' \in Nat, made' <= MaxCalls, before < c, c <= made',
           made' = made \/ (made' = made + 1 /\ c = made'),
           \* the session
           live' = 0 \/ live' = live \/ live' = c, live # 0 => live' = live \/ live = c,
           body' \in Record,
           live' # 0 => /\ live' = c => Exact(body'.events, c, noted[c] + 1) /\ r.outcome = "none"
                                        /\ kept[c].outcome \in {"none", "no_record"}
                        /\ live' # c => body' = body
                        /\ body'.outcome = "none",
           clean = "yes" /\ r.outcome = "none" => c = live',
           pulses' \subseteq pulses,
           UNCHANGED <<toClose, before, stops>>
    PROVE  LogInv'
  <1>0. /\ place # "down" /\ place # "closing" /\ toClose = {} /\ made \in Nat /\ before \in Nat
        /\ live \in 0 .. made /\ made' \in 0 .. MaxCalls /\ made <= made' /\ c # 0 /\ c \in Nat
        /\ TypeOK /\ Files
    <2>1. TypeOK /\ Files /\ Hands
      BY DEF LogInv
    <2>2. c \in Nat /\ c # 0 /\ made \in Nat /\ before \in Nat /\ made <= made'
      BY <2>1, LogAssumption DEF TypeOK, Call
    <2>3. place # "down" /\ place # "closing" /\ toClose = {} /\ live \in 0 .. made
      BY <2>1 DEF Hands, Up
    <2>4. made' \in 0 .. MaxCalls
      BY LogAssumption
    <2> QED
      BY <2>1, <2>2, <2>3, <2>4
  <1>1. /\ kept' \in [Call -> Record \cup {NoRecord}]
        /\ \A d \in Call : d # c => kept'[d] = kept[d]
        /\ kept'[c] = r \/ (how # "done" /\ kept'[c] = kept[c])
        /\ indexed \subseteq indexed' /\ indexed' \subseteq OnDisk'
        /\ how = "done" => c \in indexed' /\ UNCHANGED <<clean, faults>>
        /\ how # "done" => clean' = "no"
        /\ place' \in {"open", "shut"} /\ (place # "shut" => place' = place)
    BY <1>0, KeepEffect DEF OnDisk
  <1>2. /\ noted' \in [Call -> Nat] /\ noted'[c] = noted[c] + 1
        /\ \A d \in Call : d # c => noted'[d] = noted[d]
    BY <1>0, HappensTo
  <1>3. live' \in 0 .. made'
    BY <1>0
  <1>4. TypeOK'
    <2>1. live' \in Call \cup {0} /\ pulses' \subseteq Call
      BY <1>0, <1>3, LogAssumption DEF Call, TypeOK
    <2> QED
      BY <1>0, <1>2, <2>1, KeepTypes
  <1>5. Hands'
    <2>1. live' # 0 => before < live'
      BY <1>0 DEF LogInv, Hands
    <2>2. \A d \in pulses' : before' < d /\ d <= made'
      <3>1. \A d \in pulses : before < d /\ d <= made /\ d \in Nat
        BY <1>0 DEF LogInv, Hands, TypeOK, Call
      <3> QED
        BY <1>0, <3>1
    <2>3. Up' /\ toClose' = {} /\ place' # "closing"
      BY <1>0, <1>1 DEF Up
    <2>4. before' <= made'
      BY <1>0 DEF LogInv, Hands
    <2> QED
      BY <1>0, <1>3, <2>1, <2>2, <2>3, <2>4 DEF Hands
  <1>6. Files'
    <2>1. \A d \in Call : d > made' => d > made /\ d # c
      BY <1>0 DEF Call
    <2> QED
      BY <1>0, <1>1, <1>2, <2>1 DEF Files
  <1>7. Session'
    BY <1>0, <1>1, <1>2, <1>3, LogAssumption DEF LogInv, Session, Call, TypeOK
  <1>8. Whole'
    <2>1. OfCall(kept[c].events, c) /\ (kept[c].outcome = "own" => Tells(kept[c], c, endsAt[c]))
      BY DEF LogInv, Whole
    <2> QED
      BY <1>1, <2>1 DEF LogInv, Whole, Tells
  <1>9. Complete'
    <2>1. \A d \in Call : d <= made' /\ d # c => d <= made
      BY <1>0 DEF Call
    <2> QED
      BY <1>0, <1>1, <1>2, <2>1 DEF LogInv, Complete, Up
  <1>10. Repaired'
    <2> SUFFICES ASSUME clean' = "yes", NEW d \in Call, kept'[d].outcome = "none"
                 PROVE  d = live'
      BY DEF Repaired
    <2>1. how = "done" /\ clean = "yes" /\ place = "open"
      BY <1>1 DEF LogInv, Complete
    <2>2. CASE d = c
      BY <1>1, <2>1, <2>2
    <2>3. CASE d # c
      <3>1. d = live
        BY <1>0, <1>1, <2>1, <2>3 DEF LogInv, Repaired
      <3> QED
        BY <1>0, <2>3, <3>1 DEF Call
    <2> QED
      BY <2>2, <2>3
  <1> QED
    BY <1>4, <1>5, <1>6, <1>7, <1>8, <1>9, <1>10 DEF LogInv

LEMMA NewCallFacts ==
    ASSUME LogInv, NewCall
    PROVE  LET c == made + 1 IN
           /\ c \in Call /\ kept[c] = NoRecord /\ noted[c] = 0 /\ before < c /\ c # live
           /\ With(Fresh, c) \in Record /\ With(Fresh, c).outcome = "none"
           /\ Exact(With(Fresh, c).events, c, 1) /\ OfCall(With(Fresh, c).events, c)
           /\ kept[c].outcome = "no_record"
  <1> DEFINE c == made + 1
  <1>1. c \in Call /\ c > made /\ before < c /\ c # live /\ TypeOK /\ Files
    <2>1. TypeOK /\ Files /\ Hands
      BY DEF LogInv
    <2>2. made \in Nat /\ before \in Nat /\ made < MaxCalls /\ MaxCalls \in Nat
      BY <2>1, LogAssumption DEF TypeOK, NewCall
    <2>3. live \in Nat /\ live <= made /\ before <= made
      BY <2>1, <2>2 DEF Hands
    <2> QED
      BY <2>1, <2>2, <2>3 DEF Call
  <1>2. kept[c] = NoRecord /\ noted[c] = 0
    BY <1>1 DEF Files
  <1>3. With(Fresh, c) \in Record /\ With(Fresh, c).events = Append(<<>>, <<c, 0 + 1>>)
        /\ With(Fresh, c).outcome = "none"
    BY <1>1, <1>2, WithRecord, FreshRecord
  <1>4. Exact(With(Fresh, c).events, c, 1) /\ OfCall(With(Fresh, c).events, c)
    <2>1. Exact(Append(<<>>, <<c, 0 + 1>>), c, 0 + 1)
      <3>1. Exact(<<>>, c, 0) /\ <<>> \in Seq(Event)
        BY <1>1, FreshRecord
      <3> HIDE DEF c
      <3> QED
        BY <1>1, <3>1, AppendExact
    <2>2. OfCall(Append(<<>>, <<c, 0 + 1>>), c)
      BY <1>1, <1>3, <2>1, ExactTells DEF Record, Exact, OfCall
    <2> QED
      BY <1>3, <2>1, <2>2
  <1> QED
    BY <1>1, <1>2, <1>3, <1>4, FreshRecord

LEMMA AnswerStep ==
    ASSUME LogInv, NEW how \in Outcomes, Answer(how)
    PROVE  LogInv'
  <1> DEFINE c == made + 1
  <1>1. /\ c \in Call /\ kept[c] = NoRecord /\ noted[c] = 0 /\ before < c /\ c # live
        /\ With(Fresh, c) \in Record /\ With(Fresh, c).outcome = "none"
        /\ Exact(With(Fresh, c).events, c, 1) /\ OfCall(With(Fresh, c).events, c)
        /\ kept[c].outcome = "no_record"
    BY NewCallFacts DEF Answer
  <1>2. /\ Up /\ live = 0 /\ made' = c /\ live' = c /\ body' = With(Fresh, c)
        /\ Keep(c, With(Fresh, c), how) /\ Happens(c)
        /\ UNCHANGED <<toClose, pulses, endsAt, before, stops>>
        /\ c <= MaxCalls /\ c \in Nat /\ endsAt \in [Call -> Nat]
    BY LogAssumption DEF Answer, NewCall, LogInv, TypeOK
  <1> HIDE DEF c
  <1>3. made' = made + 1
    BY DEF Answer, NewCall
  <1> QED
    BY <1>1, <1>2, <1>3, PutStep

LEMMA RefuseStep ==
    ASSUME LogInv, NEW how \in Outcomes, Refuse(how)
    PROVE  LogInv'
  <1> DEFINE c == made + 1
             r == [With(Fresh, c) EXCEPT !.outcome = "own"]
  <1>1. /\ c \in Call /\ kept[c] = NoRecord /\ noted[c] = 0 /\ before < c /\ c # live
        /\ With(Fresh, c) \in Record
        /\ Exact(With(Fresh, c).events, c, 1) /\ OfCall(With(Fresh, c).events, c)
        /\ kept[c].outcome = "no_record"
    BY NewCallFacts DEF Refuse
  <1>2. r \in Record /\ r.events = With(Fresh, c).events /\ r.outcome = "own"
    BY <1>1, Closed DEF Outcome
  <1>3. /\ Up /\ made' = made + 1 /\ made' = c /\ Keep(c, r, how) /\ Happens(c)
        /\ UNCHANGED <<toClose, live, body, pulses, before, stops>>
        /\ endsAt' = [endsAt EXCEPT ![c] = 1]
        /\ c <= MaxCalls /\ c \in Nat /\ endsAt \in [Call -> Nat] /\ body \in Record
        /\ live # 0 => body.outcome = "none"
    BY LogAssumption DEF Refuse, NewCall, LogInv, TypeOK, Session, Record
  <1>4. /\ endsAt' \in [Call -> Nat] /\ endsAt'[c] = 1
        /\ \A d \in Call : d # c => endsAt'[d] = endsAt[d]
    BY <1>1, <1>3
  <1>5. Tells(r, c, 1)
    BY <1>1, <1>2, ExactTells
  <1> HIDE DEF c, r
  <1> QED
    BY <1>1, <1>2, <1>3, <1>4, <1>5, PutStep

LEMMA EndStep ==
    ASSUME LogInv, NEW how \in Outcomes, End(how)
    PROVE  LogInv'
  <1> DEFINE w == With(body, live)
             r == [w EXCEPT !.outcome = "own"]
  <1>1. /\ live \in Call /\ body \in Record /\ Up /\ noted[live] \in Nat /\ TypeOK
        /\ Exact(body.events, live, noted[live]) /\ body.outcome = "none" /\ live # 0
        /\ kept[live].outcome \in {"none", "no_record"} /\ before < live /\ live <= made
        /\ made \in Nat /\ made <= MaxCalls
    BY LogAssumption DEF LogInv, TypeOK, Hands, Call, Session, Record, End
  <1>2. w \in Record /\ Exact(w.events, live, noted[live] + 1) /\ OfCall(w.events, live)
    <2>1. body.events \in Seq(Event)
      BY <1>1 DEF Record
    <2>2. Exact(Append(body.events, <<live, noted[live] + 1>>), live, noted[live] + 1)
      BY <1>1, <2>1, AppendExact
    <2>3. w \in Record /\ Exact(w.events, live, noted[live] + 1)
      BY <1>1, <2>2, WithRecord
    <2> QED
      BY <1>1, <2>3, ExactTells
  <1>3. r \in Record /\ r.events = w.events /\ r.outcome = "own"
    BY <1>2, Closed DEF Outcome
  <1>4. Tells(r, live, noted[live] + 1)
    <2> HIDE DEF w, r
    <2> QED
      BY <1>1, <1>2, <1>3, ExactTells
  <1>5. /\ Keep(live, r, how) /\ Happens(live) /\ live' = 0 /\ body' = Fresh /\ Fresh \in Record
        /\ UNCHANGED <<toClose, pulses, made, before, stops>>
        /\ endsAt' = [endsAt EXCEPT ![live] = noted[live] + 1] /\ endsAt \in [Call -> Nat]
    BY FreshRecord DEF End, LogInv, TypeOK
  <1>6. /\ endsAt' \in [Call -> Nat] /\ endsAt'[live] = noted[live] + 1
        /\ \A d \in Call : d # live => endsAt'[d] = endsAt[d]
    BY <1>1, <1>5
  <1> HIDE DEF w, r
  <1> QED
    BY <1>1, <1>2, <1>3, <1>4, <1>5, <1>6, PutStep

\* A relay that answers after its call: written behind what the file says.
LEMMA LateStep ==
    ASSUME LogInv, NEW c \in Call, NEW how \in Outcomes, PulseSettles(c, how), c # live, c \in indexed
    PROVE  LogInv'
  <1> DEFINE r == With(kept[c], c)
  <1>1. /\ Up /\ c \in pulses /\ before < c /\ c <= made /\ TypeOK /\ made \in Nat /\ made <= MaxCalls
        /\ place # "closing" /\ toClose = {} /\ noted[c] \in Nat /\ body \in Record
        /\ live # 0 => body.outcome = "none"
    <2>1. TypeOK /\ Hands /\ (live # 0 => body.outcome = "none")
      BY DEF LogInv, Session
    <2>2. Up /\ c \in pulses
      BY DEF PulseSettles
    <2>3. made \in Nat /\ made <= MaxCalls /\ noted[c] \in Nat /\ body \in Record
      BY <2>1, LogAssumption DEF TypeOK, Record
    <2>4. before < c /\ c <= made /\ place # "closing" /\ toClose = {}
      BY <2>1, <2>2 DEF Hands, Up
    <2> QED
      BY <2>1, <2>2, <2>3, <2>4
  <1>2. kept[c] \in Record
    BY FreshRecord DEF LogInv, Files, OnDisk, TypeOK, Record
  <1>3. kept[c].events \in Seq(Event) /\ OfCall(kept[c].events, c)
        /\ (kept[c].outcome = "own" => Tells(kept[c], c, endsAt[c]))
    BY <1>2 DEF LogInv, Whole, Record
  <1>4. /\ r \in Record /\ r.outcome = kept[c].outcome
        /\ r.events = Append(kept[c].events, <<c, noted[c] + 1>>)
    BY <1>1, <1>2, WithRecord
  <1>5. OfCall(r.events, c) /\ Len(r.events) = Len(kept[c].events) + 1
        /\ \A i \in 1 .. Len(kept[c].events) : r.events[i] = kept[c].events[i]
    BY <1>1, <1>3, <1>4, AppendOfCall
  <1>6. r.outcome = "own" => Tells(r, c, endsAt[c])
    <2> HIDE DEF r
    <2>1. Len(kept[c].events) \in Nat /\ endsAt[c] \in Nat
      BY <1>1, <1>3 DEF TypeOK
    <2> QED
      BY <1>3, <1>4, <1>5, <2>1 DEF Tells, OfCall
  <1>7. clean = "yes" => Exact(r.events, c, noted[c] + 1)
    <2>1. clean = "yes" => Exact(kept[c].events, c, noted[c])
      BY <1>1 DEF LogInv, Complete
    <2> QED
      BY <1>1, <1>3, <1>4, <2>1, AppendExact
  <1>8. clean = "yes" => r.outcome # "none"
    BY <1>1, <1>4 DEF LogInv, Repaired, Complete
  <1>9. /\ Keep(c, r, how) /\ Happens(c) /\ pulses' \subseteq pulses
        /\ UNCHANGED <<toClose, live, body, made, endsAt, before, stops>>
        /\ endsAt \in [Call -> Nat]
    BY <1>1 DEF PulseSettles, TypeOK
  <1> HIDE DEF r
  <1> QED
    BY <1>1, <1>4, <1>5, <1>6, <1>7, <1>8, <1>9, PutStep

\* ... and dropped where the store has no such record: then something was refused.
LEMMA DropStep ==
    ASSUME LogInv, NEW c \in Call, NEW how \in Outcomes, PulseSettles(c, how), c # live, c \notin indexed
    PROVE  LogInv'
  <1>1. /\ Up /\ c \in pulses /\ Happens(c) /\ pulses' \subseteq pulses /\ TypeOK
        /\ UNCHANGED <<place, kept, indexed, body, clean, faults, toClose, live, made, endsAt, before, stops>>
        /\ before < c /\ c <= made
    BY DEF PulseSettles, LogInv, Hands
  <1>2. /\ noted' \in [Call -> Nat] /\ noted'[c] = noted[c] + 1
        /\ \A d \in Call : d # c => noted'[d] = noted[d]
    BY <1>1, HappensTo
  <1>3. clean = "no"
    BY <1>1 DEF LogInv, Complete, TypeOK
  <1>4. TypeOK'
    BY <1>1, <1>2 DEF TypeOK
  <1>5. Hands' /\ Whole' /\ Repaired' /\ Complete'
    BY <1>1, <1>3 DEF LogInv, Hands, Up, Whole, Tells, OfCall, Repaired, Complete
  <1>6. Files'
    <2>1. \A d \in Call : d > made => d # c
      BY <1>1, LogAssumption DEF TypeOK, Call
    <2> QED
      BY <1>1, <1>2, <2>1 DEF LogInv, Files, OnDisk
  <1>7. Session'
    BY <1>1, <1>2, LogAssumption DEF LogInv, Session, Hands, TypeOK, Call
  <1> QED
    BY <1>4, <1>5, <1>6, <1>7 DEF LogInv

-------------------------------------------------------------------------------
(* A stop and the next start.                                               *)

LEMMA CloseStep ==
    ASSUME LogInv, NEW c \in Call, NEW how \in Outcomes, CloseOne(c, how)
    PROVE  LogInv'
  <1> DEFINE r == [kept[c] EXCEPT !.outcome = "interrupted"]
  <1>1. /\ place = "closing" /\ c \in toClose /\ toClose' = toClose \ {c} /\ TypeOK /\ Files
        /\ kept[c].outcome = "none" /\ live = 0 /\ made \in Nat /\ kept[c] \in Record
        /\ UNCHANGED <<agent, noted, endsAt, before, stops>>
    BY FreshRecord, LogAssumption DEF CloseOne, LogInv, Hands, Files, TypeOK, Up, Record
  <1>2. r \in Record /\ r.events = kept[c].events /\ r.outcome = "interrupted" /\ Keep(c, r, how)
    BY <1>1, Closed DEF Outcome, CloseOne
  <1> HIDE DEF r
  <1>3. /\ kept' \in [Call -> Record \cup {NoRecord}]
        /\ \A d \in Call : d # c => kept'[d] = kept[d]
        /\ kept'[c] = r \/ (how # "done" /\ kept'[c] = kept[c])
        /\ indexed' \subseteq OnDisk'
        /\ how = "done" => UNCHANGED <<clean, faults>>
        /\ how # "done" => clean' = "no"
        /\ place' = "closing"
    BY <1>1, <1>2, KeepEffect DEF OnDisk
  <1>4. TypeOK'
    <2>1. /\ live' \in Call \cup {0} /\ body' \in Record /\ pulses' \subseteq Call
          /\ made' \in 0 .. MaxCalls /\ noted' \in [Call -> Nat] /\ endsAt' \in [Call -> Nat]
          /\ place # "down" /\ toClose' \subseteq toClose /\ UNCHANGED <<before, stops>>
      BY <1>1 DEF TypeOK, agent, Record
    <2> QED
      BY <1>2, <2>1, KeepTypes
  <1>5. Hands'
    BY <1>1, <1>3 DEF LogInv, Hands, agent, Up
  <1>6. Files'
    <2>1. c <= made
      BY <1>1, FreshRecord DEF Files, Call
    <2> QED
      <3>1. made' = made /\ UNCHANGED noted
        BY <1>1 DEF agent
      <3>2. \A d \in Call : d > made => kept'[d] = NoRecord /\ noted[d] = 0
        BY <1>1, <1>3, <2>1 DEF Files, Call
      <3>3. \A d \in toClose' : d # c /\ d \in Call /\ kept'[d].outcome = "none"
        BY <1>1, <1>3 DEF Files, TypeOK
      <3> QED
        BY <1>3, <3>1, <3>2, <3>3 DEF Files
  <1>7. Session' /\ Complete'
    BY <1>1, <1>3 DEF Session, Complete, Up, agent
  <1>8. Whole'
    <2>1. r.outcome # "own" /\ kept[c].outcome # "own" /\ OfCall(r.events, c) /\ OfCall(kept[c].events, c)
      BY <1>1, <1>2 DEF LogInv, Whole
    <2> QED
      BY <1>1, <1>3, <2>1 DEF LogInv, Whole, Tells
  <1>9. Repaired'
    <2> SUFFICES ASSUME clean' = "yes", NEW d \in Call, kept'[d].outcome = "none"
                 PROVE  d \in toClose'
      BY DEF Repaired
    <2>1. how = "done" /\ clean = "yes" /\ kept'[c] = r
      BY <1>3
    <2>2. d # c /\ kept[d].outcome = "none" /\ d # 0
      BY <1>2, <1>3, <2>1 DEF Call
    <2> QED
      BY <1>1, <2>1, <2>2 DEF LogInv, Repaired
  <1> QED
    BY <1>4, <1>5, <1>6, <1>7, <1>8, <1>9 DEF LogInv

LEMMA RunSteps ==
    ASSUME LogInv, PulseStarts \/ Stop \/ Start \/ StartRefused \/ Started
    PROVE  LogInv'
  <1>0. TypeOK /\ Hands /\ Files /\ Session /\ Whole /\ Complete /\ Repaired /\ made \in Nat
    BY LogAssumption DEF LogInv, TypeOK
  <1>1. CASE PulseStarts
    <2>1. TypeOK'
      BY <1>0, <1>1, LogAssumption DEF PulseStarts, store, TypeOK
    <2>2. Hands'
      <3>1. before < live /\ live <= made /\ Up
        BY <1>0, <1>1 DEF PulseStarts, Hands
      <3> QED
        BY <1>0, <1>1, <3>1 DEF PulseStarts, store, Hands, Up
    <2>3. Files' /\ Session'
      BY <1>0, <1>1 DEF PulseStarts, store, Files, Session, Exact, OnDisk
    <2>4. Whole' /\ Complete' /\ Repaired'
      BY <1>0, <1>1 DEF PulseStarts, store, Whole, Tells, OfCall, Exact, Complete, Repaired, Up
    <2> QED
      BY <2>1, <2>2, <2>3, <2>4 DEF LogInv
  <1>2. CASE Stop
    <2>1. TypeOK'
      BY <1>0, <1>2, FreshRecord DEF Stop, TypeOK, Record
    <2> QED
      BY <1>0, <1>2, <2>1 DEF Stop, LogInv, Hands, Files, Session, Whole, Tells, OfCall, Complete,
         Repaired, Up, OnDisk
  <1>3. CASE Start
    <2>0. live = 0 /\ pulses = {} /\ UNCHANGED <<live, pulses, body, made, kept, noted, endsAt>>
          /\ before' = made
      BY <1>0, <1>3 DEF Start, NewRun, agent, Hands, Up, TypeOK
    <2>1. TypeOK'
      BY <1>0, <1>3 DEF Start, NewRun, agent, TypeOK, OnDisk, Unfinished
    <2>2. Hands'
      BY <1>0, <1>3, <2>0 DEF Start, Hands
    <2>3. Files'
      BY <1>0, <1>3, <2>0 DEF Start, Files, OnDisk, Unfinished
    <2>4. Session' /\ Whole'
      BY <1>0, <2>0 DEF Session, Whole, Tells, OfCall
    <2>5. Complete' /\ Repaired'
      BY <1>3, <2>0, FreshRecord DEF Start, Complete, Repaired, Up, OnDisk, Unfinished
    <2> QED
      BY <2>1, <2>2, <2>3, <2>4, <2>5 DEF LogInv
  <1>4. CASE StartRefused
    <2>1. TypeOK' /\ live = 0 /\ pulses = {}
      BY <1>0, <1>4 DEF StartRefused, agent, TypeOK, Hands, Up
    <2> QED
      BY <1>0, <1>4, <2>1 DEF StartRefused, agent, LogInv, Hands, Files, Session, Whole, Tells, OfCall,
         Complete, Repaired, Up, OnDisk
  <1>5. CASE Started
    <2>0. live = 0 /\ pulses = {} /\ UNCHANGED <<live, pulses, body, made, kept, noted, endsAt, indexed,
                                                  toClose, before, clean>>
          /\ toClose = {} /\ place' = "open" /\ place = "closing"
      BY <1>0, <1>5 DEF Started, agent, Hands, Up, TypeOK
    <2>1. TypeOK'
      BY <1>0, <1>5 DEF Started, agent, TypeOK
    <2>2. Hands' /\ Files' /\ Session' /\ Whole' /\ Repaired'
      BY <1>0, <2>0 DEF Hands, Files, OnDisk, Session, Whole, Tells, OfCall, Repaired
    <2>3. Complete'
      <3>1. before' = made' /\ made' \in Nat
        BY <1>0, <2>0 DEF Hands
      <3>2. \A c \in Call : ~ (before' < c /\ c <= made')
        BY <3>1 DEF Call
      <3> QED
        BY <2>0, <3>2 DEF Complete
    <2> QED
      BY <2>1, <2>2, <2>3 DEF LogInv
  <1> QED
    BY <1>1, <1>2, <1>3, <1>4, <1>5

LEMMA LogStep == LogInv /\ [Next]_vars => LogInv'
  <1> SUFFICES ASSUME LogInv, [Next]_vars PROVE LogInv'
    OBVIOUS
  <1>1. CASE UNCHANGED vars
    <2> USE <1>1 DEF vars, store, agent
    <2>1. TypeOK'
      BY DEF LogInv, TypeOK
    <2>2. Hands' /\ Files'
      BY DEF LogInv, Hands, Files, Up, OnDisk
    <2>3. Session' /\ Whole'
      BY DEF LogInv, Session, Whole, Tells, OfCall, Exact
    <2>4. Complete' /\ Repaired'
      BY DEF LogInv, Complete, Repaired, Up, Exact
    <2> QED
      BY <2>1, <2>2, <2>3, <2>4 DEF LogInv
  <1>2. ASSUME NEW how \in Outcomes, NEW c \in Call, PulseSettles(c, how) PROVE LogInv'
    <2>1. CASE c = live
      <3>1. live # 0
        BY <2>1 DEF Call
      <3> QED
        BY <1>2, <2>1, <3>1, LiveSteps
    <2> QED
      BY <1>2, <2>1, LateStep, DropStep
  <1> QED
    BY <1>1, <1>2, AnswerStep, LiveSteps, EndStep, RefuseStep, CloseStep, RunSteps DEF Next

-------------------------------------------------------------------------------
(* The theorems.                                                            *)

\* Every state keeps the types and what the induction rests on.
THEOREM LogIsSound == Spec => []LogInv
  BY LogInit, LogStep, PTL DEF Spec

\* However many calls, events, refusals and restarts there are: a record that says how
\* its call ended has every event the call had by then, in order, and none of another
\* call's, a relay's late answer included (_note, _note_ended, _end, _refused_call).
THEOREM RecordsAreWhole == Spec => []RecordIsWhole
  <1>1. LogInv => RecordIsWhole
    BY DEF LogInv, Whole, RecordIsWhole
  <1> QED
    BY <1>1, LogIsSound, PTL

\* A run the disk refused nothing has every event of its calls on the disk, whatever
\* the session has in hand, so a stop at any moment loses none (_record, _keep_call).
THEOREM NothingLivesOnlyInMemory == Spec => []NothingIsOnlyInMemory
  <1>1. LogInv => NothingIsOnlyInMemory
    <2> SUFFICES ASSUME LogInv, Up, clean = "yes", NEW c \in before + 1 .. made
                 PROVE  Tells(kept[c], c, noted[c])
      BY DEF NothingIsOnlyInMemory
    <2>1. c \in Call /\ before < c /\ c <= made /\ noted[c] \in Nat
      BY LogAssumption DEF LogInv, TypeOK, Call
    <2>2. kept[c] \in Record /\ Exact(kept[c].events, c, noted[c])
      BY <2>1, FreshRecord DEF LogInv, Complete, Files, OnDisk, TypeOK, Record
    <2> QED
      BY <2>1, <2>2, ExactTells
  <1> QED
    BY <1>1, LogIsSound, PTL

\* In a run the disk refused nothing only the live call's record says its call has not
\* ended: what the runs before left so, the start has closed, all of it
\* (_close_interrupted_calls, call_record_unfinished).
THEOREM OnlyLiveLooksLive == Spec => []OnlyTheLiveLooksLive
  <1>1. LogInv => OnlyTheLiveLooksLive
    BY DEF LogInv, Repaired, Hands, OnlyTheLiveLooksLive
  <1> QED
    BY <1>1, LogIsSound, PTL

\* A step of the agent never takes back or changes how a record says its call ended:
\* not a relay's late answer, a start's closing, or a write the disk refused
\* (_note_ended, _close_interrupted_calls).
THEOREM OutcomesStand == Spec => OutcomeStands
  <1> DEFINE Stands == \A c \in Call : kept[c].outcome \in {"own", "interrupted"} =>
                          kept'[c].outcome = kept[c].outcome
  <1>1. ASSUME LogInv, NEW c \in Call, NEW r \in Record, NEW how \in Outcomes, Keep(c, r, how),
               kept[c].outcome \in {"own", "interrupted"} => r.outcome = kept[c].outcome
        PROVE  Stands
    <2>1. /\ \A d \in Call : d # c => kept'[d] = kept[d]
          /\ kept'[c] = r \/ kept'[c] = kept[c]
      BY <1>1 DEF Keep, LogInv, TypeOK
    <2> QED
      BY <1>1, <2>1
  <1>2. ASSUME LogInv, [Next]_vars PROVE Stands
    <2>1. CASE UNCHANGED kept
      BY <2>1
    <2>2. ASSUME NEW how \in Outcomes, Answer(how) \/ Refuse(how) PROVE Stands
      <3> DEFINE c == made + 1
                 r == With(Fresh, c)
                 q == [r EXCEPT !.outcome = "own"]
      <3>1. c \in Call /\ r \in Record /\ q \in Record /\ kept[c].outcome = "no_record"
        BY <1>2, <2>2, NewCallFacts, Closed DEF Answer, Refuse, Outcome
      <3>2. Keep(c, r, how) \/ Keep(c, q, how)
        BY <2>2 DEF Answer, Refuse
      <3> HIDE DEF c, r, q, Stands
      <3> QED
        BY <1>1, <1>2, <3>1, <3>2
    <2>3. ASSUME NEW how \in Outcomes,
                 Step(how) \/ PersonAnswers(how) \/ End(how) \/ (PulseSettles(live, how) /\ live # 0)
          PROVE  Stands
      <3>1. /\ live \in Call /\ body \in Record /\ TypeOK
            /\ kept[live].outcome \in {"none", "no_record"}
        BY <1>2, <2>3, LogAssumption
           DEF LogInv, TypeOK, Call, Session, Record, Step, PersonAnswers, End, PulseSettles
      <3> DEFINE r == With(body, live)
                 q == [r EXCEPT !.outcome = "own"]
      <3>2. r \in Record /\ q \in Record
        BY <3>1, WithRecord, Closed DEF Outcome
      <3>3. Keep(live, r, how) \/ Keep(live, q, how) \/ Keep(live, body, how)
        BY <2>3 DEF Step, PersonAnswers, End, PulseSettles, Note
      <3> HIDE DEF r, q, Stands
      <3> QED
        BY <1>1, <1>2, <3>1, <3>2, <3>3
    <2>4. ASSUME NEW how \in Outcomes, NEW c \in Call, PulseSettles(c, how), c # live PROVE Stands
      <3>1. CASE c \notin indexed
        BY <2>4, <3>1 DEF PulseSettles
      <3>2. CASE c \in indexed
        <4>1. kept[c] \in Record /\ TypeOK
          BY <1>2, <3>2, FreshRecord DEF LogInv, Files, OnDisk, TypeOK, Record
        <4>2. With(kept[c], c) \in Record /\ With(kept[c], c).outcome = kept[c].outcome
          BY <4>1, WithRecord
        <4>3. Keep(c, With(kept[c], c), how)
          BY <2>4, <3>2 DEF PulseSettles
        <4> HIDE DEF Stands
        <4> QED
          BY <1>1, <1>2, <4>2, <4>3
      <3> QED
        BY <3>1, <3>2
    <2>5. ASSUME NEW how \in Outcomes, NEW c \in Call, CloseOne(c, how) PROVE Stands
      <3> DEFINE r == [kept[c] EXCEPT !.outcome = "interrupted"]
      <3>1. kept[c] \in Record /\ kept[c].outcome = "none"
        BY <1>2, <2>5, FreshRecord DEF CloseOne, LogInv, Files, TypeOK, Record
      <3>2. r \in Record /\ Keep(c, r, how)
        BY <2>5, <3>1, Closed DEF Outcome, CloseOne
      <3> HIDE DEF r, Stands
      <3> QED
        BY <1>1, <1>2, <3>1, <3>2
    <2>6. ASSUME NEW how \in Outcomes, NEW c \in Call, PulseSettles(c, how) PROVE Stands
      <3>1. c = live => live # 0
        BY DEF Call
      <3> QED
        BY <2>3, <2>4, <2>6, <3>1
    <2>7. PulseStarts \/ Stop \/ Start \/ StartRefused \/ Started \/ UNCHANGED vars => UNCHANGED kept
      BY DEF PulseStarts, Stop, Start, StartRefused, Started, vars, store
    <2> HIDE DEF Stands
    <2> QED
      BY <1>2, <2>1, <2>2, <2>3, <2>5, <2>6, <2>7 DEF Next
  <1>3. ASSUME LogInv, [Next]_vars PROVE [Stands]_vars
    BY <1>2, <1>3
  <1> QED
    BY <1>3, LogIsSound, PTL DEF Spec, OutcomeStands

=============================================================================
