------------------------------- MODULE CallLog -------------------------------
(***************************************************************************)
(* The durable record of the calls the agent handles (agent.py, _record to *)
(* _keep_call).  Every event of a call is written on its record as it      *)
(* happens, the whole record each time, so that a stop leaves the steps    *)
(* that happened; a relay that answers after its call has ended is written *)
(* on THAT call's record, read back from the store; a start closes what    *)
(* the last run left unfinished.                                           *)
(*                                                                         *)
(* The disk may refuse any write, with the record's old file in its place  *)
(* or with its new one, and the directory itself at a start: the default   *)
(* one is then opened by the first write it accepts.  One thread writes.   *)
(* An event is its call and its place among that call's events.  Which     *)
(* records are removed for age or size is RecordStore's.                   *)
(***************************************************************************)
EXTENDS Naturals, Sequences, FiniteSets

CONSTANTS
    MaxCalls,       \* calls there ever are
    MaxEvents,      \* events of one call before it ends, or its relay is started
    MaxFaults,      \* writes, and openings, the disk refuses
    MaxStops,       \* times the process stops
    Declared        \* TRUE when the directory is declared: a start needs it

Call == 1 .. MaxCalls

ASSUME LogAssumption ==
    /\ MaxCalls \in Nat /\ MaxEvents \in Nat
    /\ MaxFaults \in Nat /\ MaxStops \in Nat
    /\ Declared \in BOOLEAN

VARIABLES
    \* the store
    place,          \* where the process and its store are
    kept,           \* [call -> what its file says]
    indexed,        \* the calls the store reads
    toClose,        \* what a start has yet to close
    \* the agent
    live,           \* the call the session is, 0 for no session
    body,           \* its record, as the session holds it
    pulses,         \* the calls whose relay has yet to answer
    made,           \* calls so far
    \* history and bounds
    noted,          \* [call -> events it has had]
    endsAt,         \* [call -> the last of them it had while live, 0 before]
    before,         \* the calls of earlier runs: 1 .. before
    clean,          \* "no" once this run was refused anything
    faults, stops

store == <<place, kept, indexed, toClose>>
agent == <<live, body, pulses, made>>
vars == <<store, agent, noted, endsAt, before, clean, faults, stops>>

\* The outcome is "own" for every ending the agent knew when it came.
Outcome == {"none", "own", "interrupted"}
NoRecord == [events |-> <<>>, outcome |-> "no_record"]
Fresh == [events |-> <<>>, outcome |-> "none"]

Event == Call \X Nat

TypeOK ==
    /\ place \in {"down", "closing", "open", "shut"}
    /\ kept \in [Call -> [events : Seq(Event), outcome : Outcome] \cup {NoRecord}]
    /\ indexed \subseteq Call /\ toClose \subseteq Call /\ pulses \subseteq Call
    /\ live \in Call \cup {0} /\ body \in [events : Seq(Event), outcome : Outcome]
    /\ made \in 0 .. MaxCalls /\ before \in 0 .. MaxCalls
    /\ noted \in [Call -> Nat] /\ endsAt \in [Call -> Nat]
    /\ clean \in {"yes", "no"} /\ faults \in Nat /\ stops \in Nat

Init ==
    /\ place = "down" /\ kept = [c \in Call |-> NoRecord]
    /\ indexed = {} /\ toClose = {}
    /\ live = 0 /\ body = Fresh /\ pulses = {} /\ made = 0
    /\ noted = [c \in Call |-> 0] /\ endsAt = [c \in Call |-> 0]
    /\ before = 0 /\ clean = "yes" /\ faults = 0 /\ stops = 0

----------------------------------------------------------------------------
(* Writing a record.                                                       *)

Up == place \in {"open", "shut"}

OnDisk == {c \in Call : kept[c] # NoRecord}

\* What comes of a put: a store that is not open is opened first.
Refusals == {"refused", "refused_late"} \cup IF place = "shut" THEN {"not_opened"} ELSE {}
Outcomes == {"done"} \cup IF faults < MaxFaults THEN Refusals ELSE {}

Counted(how) ==
    IF how = "done" THEN UNCHANGED <<clean, faults>>
    ELSE clean' = "no" /\ faults' = faults + 1

\* _keep_call: the whole record, under its own name.  A store opened by a write
\* reads what the disk holds, and closes none of it.
Keep(c, record, how) ==
    /\ kept' = IF how \in {"done", "refused_late"} THEN [kept EXCEPT ![c] = record] ELSE kept
    /\ IF how = "not_opened"
       THEN UNCHANGED <<place, indexed>>
       ELSE /\ place' = IF place = "shut" THEN "open" ELSE place
            /\ indexed' = (IF place = "shut" THEN OnDisk ELSE indexed)
                            \cup IF how = "done" THEN {c} ELSE {}
    /\ Counted(how)

\* _record: one more event of call c.
Happens(c) == noted' = [noted EXCEPT ![c] = @ + 1]
NextOf(c) == <<c, noted[c] + 1>>

With(record, c) == [record EXCEPT !.events = Append(@, NextOf(c))]

\* Mutation of Note: the event is written, and the session keeps the record it had.
NoteOnDiskOnly(record, how) ==
    body' = body /\ Keep(live, record, how)

\* _note: the live call's record, as the session has it from now on, refused or not.
Note(record, how) == body' = record /\ Keep(live, record, how)

----------------------------------------------------------------------------
(* A call.                                                                 *)

NewCall == made < MaxCalls /\ made' = made + 1

Answer(how) ==
    /\ Up /\ live = 0 /\ NewCall
    /\ live' = made + 1
    /\ LET c == made + 1 IN
       /\ body' = With(Fresh, c)
       /\ Keep(c, With(Fresh, c), how)
       /\ Happens(c)
    /\ UNCHANGED <<toClose, pulses, endsAt, before, stops>>

\* The case is spoken, a person rung, an authorisation keyed, a vend asked for.
Step(how) ==
    /\ Up /\ live # 0 /\ noted[live] < MaxEvents
    /\ Note(With(body, live), how) /\ Happens(live)
    /\ UNCHANGED <<toClose, live, pulses, made, endsAt, before, stops>>

\* _brief: the person's answer is on the record and is no event.
PersonAnswers(how) ==
    /\ Up /\ live # 0
    /\ Note(body, how)
    /\ UNCHANGED <<toClose, live, pulses, made, noted, endsAt, before, stops>>

End(how) ==
    /\ Up /\ live # 0
    /\ Keep(live, [With(body, live) EXCEPT !.outcome = "own"], how)
    /\ Happens(live) /\ endsAt' = [endsAt EXCEPT ![live] = noted[live] + 1]
    /\ live' = 0 /\ body' = Fresh
    /\ UNCHANGED <<toClose, pulses, made, before, stops>>

\* A call that is not answered, busy or undeclared: one record, with its one event.
Refuse(how) ==
    /\ Up /\ NewCall
    /\ LET c == made + 1 IN
       /\ Keep(c, [With(Fresh, c) EXCEPT !.outcome = "own"], how)
       /\ Happens(c) /\ endsAt' = [endsAt EXCEPT ![c] = 1]
    /\ UNCHANGED <<toClose, live, body, pulses, before, stops>>

----------------------------------------------------------------------------
(* A relay, which may answer after its call.                               *)

PulseStarts ==
    /\ Up /\ live # 0 /\ live \notin pulses /\ pulses' = pulses \cup {live}
    /\ noted[live] < MaxEvents
    /\ UNCHANGED <<store, live, body, made, noted, endsAt, before, clean, faults, stops>>

\* Mutation of PulseSettles: the outcome is the live call's, whichever it is.
PulseSettlesOnTheLive(c, how) ==
    /\ Up /\ c \in pulses /\ pulses' = pulses \ {c}
    /\ Happens(c)
    /\ IF live # 0 THEN Note(With(body, c), how)
       ELSE how = "done" /\ UNCHANGED <<place, kept, indexed, body, clean, faults>>
    /\ UNCHANGED <<toClose, live, made, endsAt, before, stops>>

\* _settle_pulse: on its own call's record, read back when the call has ended
\* (_note_ended), and dropped when the store has no such record.
PulseSettles(c, how) ==
    /\ Up /\ c \in pulses /\ pulses' = pulses \ {c}
    /\ Happens(c)
    /\ IF c = live THEN Note(With(body, c), how)
       ELSE IF c \in indexed THEN UNCHANGED body /\ Keep(c, With(kept[c], c), how)
       ELSE how = "done" /\ UNCHANGED <<place, kept, indexed, body, clean, faults>>
    /\ UNCHANGED <<toClose, live, made, endsAt, before, stops>>

----------------------------------------------------------------------------
(* A stop, and the next start.                                             *)

Stop ==
    /\ place # "down" /\ stops < MaxStops /\ stops' = stops + 1
    /\ place' = "down" /\ indexed' = {} /\ toClose' = {}
    /\ live' = 0 /\ body' = Fresh /\ pulses' = {}
    /\ UNCHANGED <<kept, made, noted, endsAt, before, clean, faults>>

\* Mutation of Unfinished: only the last call's.
UnfinishedIfLast == {c \in OnDisk : kept[c].outcome = "none" /\ c = made}

\* call_record_unfinished, of what the opened store has read.
Unfinished == {c \in OnDisk : kept[c].outcome = "none"}

NewRun == before' = made /\ clean' = "yes"

Start ==
    /\ place = "down"
    /\ place' = "closing" /\ indexed' = OnDisk /\ toClose' = Unfinished
    /\ NewRun
    /\ UNCHANGED <<kept, agent, noted, endsAt, faults, stops>>

\* The directory is refused.  A declared one ends the start; the agent runs without
\* the default one, and has a code up that says so.
StartRefused ==
    /\ place = "down" /\ ~Declared /\ faults < MaxFaults
    /\ place' = "shut" /\ before' = made /\ clean' = "no" /\ faults' = faults + 1
    /\ UNCHANGED <<kept, indexed, toClose, agent, noted, endsAt, stops>>

\* _close_interrupted_calls, one at a time: the time it ended at stays unsaid.
CloseOne(c, how) ==
    /\ place = "closing" /\ c \in toClose /\ toClose' = toClose \ {c}
    /\ Keep(c, [kept[c] EXCEPT !.outcome = "interrupted"], how)
    /\ UNCHANGED <<agent, noted, endsAt, before, stops>>

Started ==
    /\ place = "closing" /\ toClose = {} /\ place' = "open"
    /\ UNCHANGED <<kept, indexed, toClose, agent, noted, endsAt, before, clean, faults, stops>>

----------------------------------------------------------------------------
Next ==
    \/ \E how \in Outcomes :
          \/ Answer(how) \/ Step(how) \/ PersonAnswers(how) \/ End(how) \/ Refuse(how)
          \/ \E c \in Call : PulseSettles(c, how) \/ CloseOne(c, how)
    \/ PulseStarts
    \/ Stop \/ Start \/ StartRefused \/ Started

Spec == Init /\ [][Next]_vars
----------------------------------------------------------------------------
(* Properties.                                                             *)

\* The first n events of call c, and no event of any other.
Tells(record, c, n) ==
    /\ Len(record.events) >= n
    /\ \A i \in 1 .. n : record.events[i] = <<c, i>>
    /\ \A i \in 1 .. Len(record.events) : record.events[i][1] = c

\* A record that says how its call ended tells the whole call, in order and of no
\* other call -- whatever was refused on the way, whenever its relay answered and
\* whichever call was live by then (_note, _note_ended, _end, _refused_call).
RecordIsWhole ==
    \A c \in Call : kept[c].outcome = "own" => Tells(kept[c], c, endsAt[c])

\* A run that was refused nothing has every event of its calls on the disk, the
\* relay's late answer included: a stop loses none (_record, _settle_pulse).
NothingIsOnlyInMemory ==
    Up /\ clean = "yes" => \A c \in before + 1 .. made : Tells(kept[c], c, noted[c])

\* A record's outcome stands: no late event, no start and no later write takes it
\* back (_note_ended, _close_interrupted_calls, call_record_unfinished).
OutcomeStands ==
    [][\A c \in Call : kept[c].outcome \in {"own", "interrupted"} =>
            kept'[c].outcome = kept[c].outcome]_vars

\* In a run that was refused nothing only the live call looks live: a start repairs
\* what the runs before it could not write (start, _close_interrupted_calls).
OnlyTheLiveLooksLive ==
    place = "open" /\ clean = "yes" =>
        \A c \in Call : kept[c].outcome = "none" => c = live

=============================================================================
