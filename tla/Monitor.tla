------------------------------- MODULE Monitor -------------------------------
(***************************************************************************)
(* The monitor (monitor.py): it polls a target, decides what changed, and  *)
(* tells every sink, keeping a record of each message on its own disk.     *)
(*                                                                         *)
(* There is one thread.  What it does is a tree of calls: an observation   *)
(* sends a message, a message tried at the sinks is an observation of the  *)
(* sinks and of the record store, which may send another.  `hand' is the   *)
(* record being tried, `agenda' the calls the thread has yet to make, the  *)
(* innermost first.  Between any two steps the process may be killed, and  *)
(* the sinks, the store and the target change as they like.                *)
(*                                                                         *)
(* A message is known by the order it was made in, which is the order of   *)
(* its `at': the wall clock is taken not to step.  The record store is     *)
(* RecordStore's, reduced to what a reader finds of each record.           *)
(***************************************************************************)
EXTENDS Naturals, Sequences, FiniteSets

CONSTANTS
    NumSinks,       \* sinks, in the order they are configured
    NumCodes,       \* codes the target publishes
    Endings,        \* how a poll of the target may end
    NeverAlarm,     \* what `never_alarm' may be on the wire
    RetryAttempts,  \* [notify] retry_attempts
    MaxChanges      \* bound: changes of what a sink does with a message, of whether
                    \* the disk takes a write, of what the target answers, removals
                    \* by age, kills, exceptions that nothing catches, and repeats of
                    \* a state that holds (renotify_seconds), together

Sinks == 1 .. NumSinks
Codes == 1 .. NumCodes
Health == {"ok", "active", "unknown"}

ASSUME MonitorAssumption ==
    /\ NumSinks \in Nat /\ NumCodes \in Nat /\ RetryAttempts \in Nat
    /\ Endings \subseteq {"answered", "refused", "unreachable", "unreadable", "unversioned"}
    /\ "answered" \in Endings
    /\ NeverAlarm \subseteq BOOLEAN /\ NeverAlarm # {}
    /\ MaxChanges \in Nat

\* What a state, and a message, is about: the target's own codes, and the
\* monitor's -- spelt apart even where the names are the same.
CodeKey(c) == [about |-> "code", of |-> c]
SinkKey(s) == [about |-> "sink", of |-> s]
Reach == [about |-> "reach", of |-> 0]
Refuse == [about |-> "refuse", of |-> 0]
Contract == [about |-> "contract", of |-> 0]
StoreKey == [about |-> "store", of |-> 0]
StartKey == [about |-> "start", of |-> 0]      \* the startup message's
Keys == {CodeKey(c) : c \in Codes} \cup {SinkKey(s) : s \in Sinks}
            \cup {Reach, Refuse, Contract, StoreKey}

VARIABLES
    \* the disk
    msgs,           \* the messages made so far, each with its record
    forgotten,      \* records the store could not unlink: it knows them no longer,
                    \* and finds them when it is opened again
    \* the process
    up,
    states,         \* [key -> the last state observed]
    quiet,          \* [code -> the `never_alarm' it was last published with]
    reporting,      \* _reporting_a_sink
    refused,        \* _record_failed
    open,           \* the records of _open_records, in its order
    due,            \* the retries whose time has come
    cameBack,       \* sinks a retry has reached in this pass
    hand,           \* the record being tried, and its deliveries before it was
    agenda,         \* the calls still to make
    \* the world
    sink,           \* [sink -> whether it takes a message now]
    store,          \* whether the disk takes a write
    target,         \* what the next poll will find
    \* history and bounds
    before,         \* messages made before this process started
    heard,          \* [sink -> the messages it took and said so]
    excused,        \* messages whose fate the records cannot tell
    dropped,        \* messages an exception took out of this process's hands
    changes, reminders

process == <<up, states, quiet, reporting, refused, open, due, cameBack, hand, agenda>>
world == <<sink, store, target>>
bounds == <<changes, reminders>>
history == <<before, heard>>
aside == <<forgotten, dropped>>
vars == <<msgs, process, world, history, excused, aside, bounds>>

Fresh == [s \in Sinks |-> [state |-> "pending", tries |-> 0]]

\* What a sink does with a message: takes it, refuses it for now, or for good.
Conditions == {"takes", "down", "refuses"}

\* What a poll of the target may find.
Payload ==
    [ending : Endings \cap {"answered"}, code : [Codes -> Health], never : [Codes -> NeverAlarm]]
        \cup [ending : Endings \ {"answered"}, code : {<<>>}, never : {<<>>}]

\* A record: what it is about and the state it announces, its deliveries as the
\* process has them and as the disk has them, if it has them.
NewMessage(k, says) ==
    [key |-> k, says |-> says, now |-> Fresh, disk |-> Fresh, kept |-> FALSE]

Message == 1 .. Len(msgs)
Unfinished(deliveries) == \E s \in Sinks : deliveries[s].state \in {"pending", "retrying"}

\* A call the thread has still to make.
Call(op, k, state, never, m) ==
    [op |-> op, key |-> k, state |-> state, never |-> never, msg |-> m]
Do(op, m) == Call(op, StartKey, "unknown", FALSE, m)
Observe(k, state) == Call("observe", k, state, FALSE, 0)
ObserveCode(c, state, never) == Call("observe", CodeKey(c), state, never, 0)

\* Nothing is being tried; or message m is, for the first time or again, and
\* sink number `next' is its next.
Try(mode, m, was) == [mode |-> mode, msg |-> m, next |-> 1, was |-> was]
Idle == [mode |-> "idle", msg |-> 0, next |-> 0, was |-> Fresh]
Busy == hand.mode # "idle"

\* The world is well when the monitor is first started, and what becomes of it
\* is bounded.
Init ==
    /\ msgs = <<>>
    /\ up = FALSE
    /\ states = [k \in Keys |-> "unknown"]
    /\ quiet = [c \in Codes |-> FALSE]
    /\ reporting = FALSE /\ refused = FALSE
    /\ open = <<>> /\ due = {} /\ cameBack = <<>>
    /\ hand = Idle /\ agenda = <<>>
    /\ sink = [s \in Sinks |-> "takes"]
    /\ store = "writes"
    /\ target \in {found \in Payload : found.ending = "answered" /\ \A c \in Codes : found.code[c] = "ok"}
    /\ before = 0
    /\ heard = [s \in Sinks |-> {}]
    /\ excused = {} /\ forgotten = {} /\ dropped = {}
    /\ changes = 0 /\ reminders = 0

(***************************************************************************)
(* The loop, and the start of the process.                                 *)
(***************************************************************************)
Waiting == up /\ ~Busy /\ agenda = <<>>

Indices(q) == 1 .. Len(q)
InOpen(m) == \E i \in Indices(open) : open[i] = m

\* poll(): the retries that are due, the target, the age rule.
Retries == [i \in Indices(open) |-> Do("retry", open[i])]
Poll ==
    /\ Waiting
    /\ agenda' = (IF open = <<>> THEN <<>> ELSE Append(Retries, Do("retried", 0)))
                    \o <<Do("target", 0), Do("purge", 0)>>
    /\ UNCHANGED <<msgs, up, states, quiet, reporting, refused, open, due, cameBack, hand,
                   world, history, excused, aside, bounds>>

\* start(), from the store's opening on: an unreadable target refuses before the first
\* poll, and so does a store that cannot be opened where it was declared.
Start ==
    /\ ~up
    /\ up' = TRUE
    /\ agenda' = <<Do("store", 0), Do("target", 0), Do("purge", 0),
                   Do("resume", 0), Do("announce", 0), Do("started", 0)>>
    /\ before' = Len(msgs)
    /\ msgs' = [m \in Message |-> [msgs[m] EXCEPT !.kept = @ \/ m \in forgotten]]
    /\ forgotten' = {} /\ dropped' = {}
    /\ UNCHANGED <<states, quiet, reporting, refused, open, due, cameBack, hand,
                   world, heard, excused, bounds>>

\* A retry's moment comes: looked at once a pass, when the pass begins.
FallsDue(m, s) ==
    /\ Waiting
    /\ m \in Message /\ InOpen(m)
    /\ msgs[m].now[s].state = "retrying"
    /\ <<m, s>> \notin due
    /\ due' = due \cup {<<m, s>>}
    /\ UNCHANGED <<msgs, up, states, quiet, reporting, refused, open, cameBack, hand, agenda,
                   world, history, excused, aside, bounds>>

\* Whether the thread is at this call.
At(op) == up /\ ~Busy /\ agenda # <<>> /\ Head(agenda).op = op
Goes(calls) == agenda' = calls \o Tail(agenda)

\* The bound on what happens to the monitor.
MayHappen == changes + reminders < MaxChanges

\* A sink, the store and the target are as they were when last used, or have
\* changed since, a bounded number of times.
Turns(from, to) ==
    \/ from = to /\ UNCHANGED changes
    \/ from # to /\ MayHappen /\ changes' = changes + 1

(***************************************************************************)
(* _poll_target: its endings, each said out loud.                          *)
(***************************************************************************)
\* _retire: what the target used to say is unmeasured now.
Retire == [c \in Codes |-> ObserveCode(c, "unknown", quiet[c])]
Published(found) == [c \in Codes |-> ObserveCode(c, found.code[c], found.never[c])]

Answers(found) ==
    CASE found.ending = "refused" ->
            <<Observe(Reach, "ok"), Observe(Refuse, "active")>> \o Retire
      [] found.ending = "unreachable" ->
            <<Observe(Reach, "active"), Observe(Refuse, "unknown")>> \o Retire
      [] found.ending = "unreadable" ->
            <<Observe(Reach, "ok"), Observe(Refuse, "ok"), Observe(Contract, "active")>>
                \o Retire
      [] found.ending = "unversioned" ->
            <<Observe(Reach, "ok"), Observe(Refuse, "ok"), Observe(Contract, "unknown")>>
      [] OTHER ->
            <<Observe(Reach, "ok"), Observe(Refuse, "ok"), Observe(Contract, "ok")>>
                \o Published(found)

PollTarget ==
    /\ At("target")
    /\ \E found \in Payload :
        /\ Turns(target, found)
        /\ target' = found
        /\ Goes(Answers(found))
    /\ UNCHANGED <<msgs, up, states, quiet, reporting, refused, open, due, cameBack, hand,
                   sink, store, history, excused, aside, reminders>>

\* _keep: the record as the process has it goes to the disk, or the store
\* refuses it and the process goes on with what it has.
Keep(messages, m, deliveries) ==
    \E does \in {"writes", "refuses"} :
        /\ Turns(store, does)
        /\ store' = does
        /\ refused' = (does = "refuses")
        /\ msgs' = [messages EXCEPT ![m].now = deliveries,
                                   ![m].disk = IF does = "writes" THEN deliveries ELSE @,
                                   ![m].kept = @ \/ does = "writes"]
        /\ excused' = IF does = "writes" THEN excused ELSE excused \cup {m}
        /\ forgotten' = IF does = "writes" THEN forgotten \ {m} ELSE forgotten
    /\ UNCHANGED dropped

(***************************************************************************)
(* _observe and _transition: what is news.                                 *)
(***************************************************************************)
IsNews(was, state) ==
    \/ state = "active" /\ was # "active"
    \/ state = "ok" /\ was = "active"
    \/ state = "unknown" /\ was # "unknown"

\* The call is an observation: one it was given, or that of the record store.
AtObservation == At("observe") \/ At("store")
Key == IF Head(agenda).op = "store" THEN StoreKey ELSE Head(agenda).key
State == IF Head(agenda).op = "store" THEN IF refused THEN "active" ELSE "ok"
         ELSE Head(agenda).state

Observed ==
    /\ states' = [states EXCEPT ![Key] = State]
    /\ quiet' = IF Key.about = "code"
                THEN [quiet EXCEPT ![Key.of] = Head(agenda).never] ELSE quiet

\* (mutant: a message the store refuses is tried at no sink)
SendWhatIsKept(k, says) ==
    /\ Keep(Append(msgs, NewMessage(k, says)), Len(msgs) + 1, Fresh)
    /\ hand' = IF store' = "writes" THEN Try("send", Len(msgs) + 1, Fresh) ELSE Idle

\* A message is made and kept, to be tried at every sink.
Send(k, says) ==
    /\ Keep(Append(msgs, NewMessage(k, says)), Len(msgs) + 1, Fresh)
    /\ hand' = Try("send", Len(msgs) + 1, Fresh)

\* A state that holds is said again, when the time for it has come.
Repeated == State = "active" /\ states[Key] = "active"

ObserveNews ==
    /\ AtObservation
    /\ ~Head(agenda).never
    /\ \/ /\ IsNews(states[Key], State)
          /\ UNCHANGED reminders
       \/ /\ Repeated
          /\ MayHappen
          /\ reminders' = reminders + 1
    /\ Observed
    /\ Send(Key, State)
    /\ Goes(<<Do("sinks", Len(msgs) + 1), Do("store", 0)>>)
    /\ UNCHANGED <<up, reporting, open, due, cameBack, sink, target, history>>

\* Nothing changed, or a code that may not wake anybody did.
ObserveNothing ==
    /\ AtObservation
    /\ Head(agenda).never \/ ~IsNews(states[Key], State)
    /\ Observed
    /\ Goes(<<>>)
    /\ UNCHANGED <<msgs, up, reporting, refused, open, due, cameBack, hand, world, history,
                   excused, aside, bounds>>

(***************************************************************************)
(* _deliver, _attempt and _keep: a record at the sinks.                    *)
(***************************************************************************)
\* What a sink answers: taken, a refusal a moment may mend, or one it will not.
TransientlyFailed(tries) ==
    [state |-> IF tries <= RetryAttempts THEN "retrying" ELSE "failed", tries |-> tries]
After(delivery, does) ==
    LET tries == delivery.tries + 1 IN
    CASE does = "takes" -> [state |-> "delivered", tries |-> tries]
      [] does = "down" -> TransientlyFailed(tries)
      [] OTHER -> [state |-> "failed", tries |-> tries]

Attempt(m, s, does) ==
    /\ Turns(sink[s], does)
    /\ sink' = [sink EXCEPT ![s] = does]
    /\ msgs' = [msgs EXCEPT ![m].now[s] = After(@, does)]
    /\ heard' = IF does = "takes" THEN [heard EXCEPT ![s] = @ \cup {m}] ELSE heard
    /\ hand' = [hand EXCEPT !.next = @ + 1]
    /\ UNCHANGED <<up, states, quiet, reporting, refused, open, agenda, store, target, before,
                   excused, aside, reminders>>

TryFirst ==
    /\ up /\ hand.mode = "send" /\ hand.next \in Sinks
    /\ \E does \in Conditions : Attempt(hand.msg, hand.next, does)
    /\ UNCHANGED <<due, cameBack>>

\* What is left of `open', where m is once, without it.
Without(m) ==
    LET i == CHOOSE j \in Indices(open) : open[j] = m
    IN  SubSeq(open, 1, i - 1) \o SubSeq(open, i + 1, Len(open))

WithOpen(m) ==
    open' = IF Unfinished(msgs[m].now) = InOpen(m) THEN open
            ELSE IF InOpen(m) THEN Without(m) ELSE Append(open, m)

KeepTried ==
    /\ up /\ hand.mode = "send" /\ hand.next = NumSinks + 1
    /\ Keep(msgs, hand.msg, msgs[hand.msg].now)
    /\ WithOpen(hand.msg)
    /\ hand' = Idle
    /\ UNCHANGED <<up, states, quiet, reporting, due, cameBack, agenda, sink, target, history,
                   reminders>>

(***************************************************************************)
(* _sink_states and _record_store_state: what a message showed.            *)
(***************************************************************************)
\* _announce's failures go nowhere; those of a message about a failing sink
\* are kept and told to nobody.
Failing(m, s) == msgs[m].now[s].state \in {"retrying", "failed"}
SinkState(m, s) == IF Failing(m, s) THEN "active" ELSE "ok"

ReportSinks ==
    /\ At("sinks") /\ ~reporting
    /\ reporting' = TRUE
    /\ LET m == Head(agenda).msg IN
       Goes([s \in Sinks |-> Observe(SinkKey(s), SinkState(m, s))] \o <<Do("reported", 0)>>)
    /\ UNCHANGED <<msgs, up, states, quiet, refused, open, due, cameBack, hand, world, history,
                   excused, aside, bounds>>

Reported ==
    /\ At("reported")
    /\ reporting' = FALSE
    /\ Goes(<<>>)
    /\ UNCHANGED <<msgs, up, states, quiet, refused, open, due, cameBack, hand, world, history,
                   excused, aside, bounds>>

RecordSinks ==
    /\ At("sinks") /\ reporting
    /\ LET m == Head(agenda).msg IN
       states' = [k \in Keys |-> IF k.about = "sink" THEN SinkState(m, k.of) ELSE states[k]]
    /\ Goes(<<>>)
    /\ UNCHANGED <<msgs, up, quiet, reporting, refused, open, due, cameBack, hand, world,
                   history, excused, aside, bounds>>

(***************************************************************************)
(* _retry: what is due is weighed, and tried again.                        *)
(***************************************************************************)
Due(m, s) == <<m, s>> \in due /\ msgs[m].now[s].state = "retrying"

RetryRecord ==
    /\ At("retry")
    /\ LET m == Head(agenda).msg IN
       IF \E s \in Sinks : Due(m, s) THEN hand' = Try("retry", m, msgs[m].now)
       ELSE UNCHANGED hand
    /\ Goes(<<>>)
    /\ UNCHANGED <<msgs, up, states, quiet, reporting, refused, open, due, cameBack, world,
                   history, excused, aside, bounds>>

\* later(): what the store still has, about the same thing, said afterwards.
Later(m) == {n \in Message : /\ msgs[m].kept /\ msgs[n].kept
                             /\ m < n /\ msgs[n].key = msgs[m].key}
\* (mutant: what is due is tried without being weighed)
NeverSuperseded(m, s) == FALSE
Superseded(m, s) ==
    \/ \E n \in Later(m) : msgs[n].disk[s].state = "delivered"
    \/ msgs[m].key # StartKey /\ states[msgs[m].key] # msgs[m].says

Retrying == up /\ hand.mode = "retry" /\ hand.next \in Sinks

PassOver ==
    /\ Retrying
    /\ ~Due(hand.msg, hand.next)
    /\ hand' = [hand EXCEPT !.next = @ + 1]
    /\ UNCHANGED <<msgs, up, states, quiet, reporting, refused, open, due, cameBack, agenda,
                   world, history, excused, aside, bounds>>

GiveUp ==
    /\ Retrying
    /\ Due(hand.msg, hand.next)
    /\ Superseded(hand.msg, hand.next)
    /\ msgs' = [msgs EXCEPT ![hand.msg].now[hand.next].state = "superseded"]
    /\ due' = due \ {<<hand.msg, hand.next>>}
    /\ hand' = [hand EXCEPT !.next = @ + 1]
    /\ UNCHANGED <<up, states, quiet, reporting, refused, open, cameBack, agenda, world,
                   history, excused, aside, bounds>>

TryAgain ==
    /\ Retrying
    /\ Due(hand.msg, hand.next)
    /\ ~Superseded(hand.msg, hand.next)
    /\ due' = due \ {<<hand.msg, hand.next>>}
    /\ \E does \in Conditions :
        /\ Attempt(hand.msg, hand.next, does)
        /\ cameBack' = IF does = "takes" THEN Append(cameBack, hand.next) ELSE cameBack

KeepRetried ==
    /\ up /\ hand.mode = "retry" /\ hand.next = NumSinks + 1
    /\ Keep(msgs, hand.msg, msgs[hand.msg].now)
    /\ WithOpen(hand.msg)
    /\ hand' = Idle
    /\ UNCHANGED <<up, states, quiet, reporting, due, cameBack, agenda, sink, target, history,
                   reminders>>

\* The sinks that were reached have come back, and that is news by the ordinary
\* rule: a second mention of one finds nothing changed.
Retried ==
    /\ At("retried")
    /\ Goes([i \in Indices(cameBack) |-> Observe(SinkKey(cameBack[i]), "ok")]
                \o <<Do("store", 0)>>)
    /\ cameBack' = <<>>
    /\ UNCHANGED <<msgs, up, states, quiet, reporting, refused, open, due, hand, world, history,
                   excused, aside, bounds>>

(***************************************************************************)
(* _resume_unfinished: what the last run left in progress.                 *)
(***************************************************************************)
Left == {m \in Message : msgs[m].kept /\ Unfinished(msgs[m].disk) /\ ~InOpen(m)}

Resume ==
    /\ At("resume")
    /\ \E order \in [1 .. Cardinality(Left) -> Left] :
        /\ \A m \in Left : \E i \in DOMAIN order : order[i] = m
        /\ Goes([i \in 1 .. Cardinality(Left) |-> Do("resume record", order[i])])
    /\ UNCHANGED <<msgs, up, states, quiet, reporting, refused, open, due, cameBack, hand,
                   world, history, excused, aside, bounds>>

\* A retry goes on where it was; an attempt nobody saw the end of, and a startup
\* message of a run that is over, do not.
\* (mutant: what was pending is left so)
ResumedAsLeft(m) == msgs[m].disk
Resumed(m) ==
    [s \in Sinks |->
        IF \/ msgs[m].disk[s].state = "pending"
           \/ msgs[m].disk[s].state = "retrying" /\ msgs[m].key = StartKey
        THEN [msgs[m].disk[s] EXCEPT !.state = "interrupted"] ELSE msgs[m].disk[s]]

ResumeRecord ==
    /\ At("resume record")
    /\ LET m == Head(agenda).msg IN
        /\ Keep(msgs, m, Resumed(m))
        /\ open' = IF Unfinished(Resumed(m)) THEN Append(open, m) ELSE open
    /\ Goes(<<>>)
    /\ UNCHANGED <<up, states, quiet, reporting, due, cameBack, hand, sink, target, history,
                   reminders>>

\* _announce_unmeasured: the startup message, a record like any other.
Announce ==
    /\ At("announce")
    /\ Send(StartKey, "unknown")
    /\ Goes(<<Do("store", 0)>>)
    /\ UNCHANGED <<up, states, quiet, reporting, open, due, cameBack, sink, target, history,
                   reminders>>

(***************************************************************************)
(* The age rule and the process.                                           *)
(***************************************************************************)
\* Records past their age go, the oldest first, open or not.
Purge ==
    /\ At("purge")
    /\ \/ UNCHANGED <<msgs, excused, changes>>
       \/ /\ MayHappen
          /\ changes' = changes + 1
          /\ \E h \in Message :
                /\ msgs[h].kept
                /\ msgs' = [m \in Message |-> IF m <= h /\ msgs[m].kept
                                THEN [msgs[m] EXCEPT !.kept = FALSE, !.disk = Fresh]
                                ELSE msgs[m]]
                /\ excused' = excused \cup 1 .. h
    /\ Goes(<<>>)
    /\ UNCHANGED <<up, states, quiet, reporting, refused, open, due, cameBack, hand, world,
                   history, aside, reminders>>

Started ==
    /\ At("started")
    /\ Goes(<<>>)
    /\ UNCHANGED <<msgs, up, states, quiet, reporting, refused, open, due, cameBack, hand,
                   world, history, excused, aside, bounds>>

\* What the process knew of a record and the disk does not is gone.
ProcessEnds(messages, unsure) ==
    /\ up' = FALSE
    /\ states' = [k \in Keys |-> "unknown"]
    /\ quiet' = [c \in Codes |-> FALSE]
    /\ reporting' = FALSE /\ refused' = FALSE
    /\ open' = <<>> /\ due' = {} /\ cameBack' = <<>>
    /\ hand' = Idle /\ agenda' = <<>>
    /\ msgs' = [m \in DOMAIN messages |-> [messages[m] EXCEPT !.now = messages[m].disk]]
    /\ excused' = unsure \cup {m \in DOMAIN messages : messages[m].now # messages[m].disk}

Dies ==
    /\ up
    /\ MayHappen
    /\ changes' = changes + 1
    /\ ProcessEnds(msgs, excused)
    /\ UNCHANGED <<world, history, aside, reminders>>

(***************************************************************************)
(* What is caught nowhere on its way.                                      *)
(***************************************************************************)
Starting == \E i \in Indices(agenda) : agenda[i].op = "started"

\* The calls still to make are not made: _poll_forever goes on with the next poll, and
\* a start that raises is the end of the process.
Leaves(messages, unsure) ==
    /\ up /\ MayHappen /\ changes' = changes + 1
    /\ IF Starting THEN ProcessEnds(messages, unsure)
       ELSE /\ hand' = Idle /\ agenda' = <<>> /\ cameBack' = <<>> /\ reporting' = FALSE
            /\ msgs' = messages /\ excused' = unsure
            /\ IF AtObservation THEN Observed ELSE UNCHANGED <<states, quiet>>
            /\ UNCHANGED <<up, refused, open, due>>
    /\ UNCHANGED <<sink, target, history, reminders>>

\* An answer of the target's that is cut, or is not HTTP.
PollRaises == At("target") /\ Leaves(msgs, excused) /\ UNCHANGED <<store, aside>>

\* The oldest record there is, m apart: it has been forgotten when its unlink is refused.
Oldest(messages, m) ==
    {h \in DOMAIN messages \ {m} :
        messages[h].kept /\ \A n \in 1 .. h - 1 : n = m \/ ~messages[n].kept}
Forgets(messages, h) == [messages EXCEPT ![h].kept = FALSE]

PurgeRaises ==
    /\ At("purge")
    /\ \E h \in Oldest(msgs, 0) :
          /\ Leaves(Forgets(msgs, h), excused \cup {h})
          /\ forgotten' = forgotten \cup {h}
    /\ UNCHANGED <<store, dropped>>

\* put: the record is on the disk, and the removal of an older one raises (_make_room,
\* purge); nothing is returned to the caller, which keeps the record it had.
WriteRaises(messages, m, deliveries, unsure) ==
    LET written == [messages EXCEPT ![m].disk = deliveries, ![m].kept = TRUE] IN
    /\ \E h \in Oldest(written, m) :
          /\ Leaves(Forgets(written, h), unsure \cup {h})
          /\ forgotten' = (forgotten \ {m}) \cup {h}
    /\ store' = "writes"

\* A message is made and kept, and tried at no sink.
SendRaises ==
    /\ \/ AtObservation /\ ~Head(agenda).never /\ (IsNews(states[Key], State) \/ Repeated)
       \/ At("announce")
    /\ LET new == IF AtObservation THEN NewMessage(Key, State) ELSE NewMessage(StartKey, "unknown")
       IN  WriteRaises(Append(msgs, new), Len(msgs) + 1, Fresh, excused)
    /\ dropped' = dropped \cup {Len(msgs) + 1}

\* One that was tried is not among those to be tried again; one that was tried again is
\* there as it was before.
TriedRaises ==
    /\ hand.mode = "send" /\ hand.next = NumSinks + 1
    /\ WriteRaises(msgs, hand.msg, msgs[hand.msg].now, excused)
    /\ dropped' = dropped \cup {hand.msg}
RetriedRaises ==
    /\ hand.mode = "retry" /\ hand.next = NumSinks + 1
    /\ WriteRaises([msgs EXCEPT ![hand.msg].now = hand.was], hand.msg, msgs[hand.msg].now,
                   excused \cup {hand.msg})
    /\ UNCHANGED dropped

ResumeRaises ==
    /\ At("resume record")
    /\ LET m == Head(agenda).msg IN
       WriteRaises([msgs EXCEPT ![m].now = Resumed(m)], m, Resumed(m), excused)
    /\ UNCHANGED dropped

Raises == PollRaises \/ PurgeRaises \/ SendRaises \/ TriedRaises \/ RetriedRaises \/ ResumeRaises

Step ==
    \/ PollTarget \/ ObserveNews \/ ObserveNothing
    \/ TryFirst \/ KeepTried
    \/ ReportSinks \/ RecordSinks \/ Reported
    \/ RetryRecord \/ PassOver \/ GiveUp \/ TryAgain \/ KeepRetried \/ Retried
    \/ Resume \/ ResumeRecord \/ Announce \/ Purge \/ Started

Next ==
    \/ Step \/ Poll \/ Start
    \/ \E m \in Message, s \in Sinks : FallsDue(m, s)
    \/ Dies \/ Raises

Spec == Init /\ [][Next]_vars

\* The thread goes on, a poll comes round and the service manager starts the
\* process again; a retry's moment passes, though it is looked at once a pass.
Fairness ==
    /\ WF_vars(Step) /\ WF_vars(Poll) /\ WF_vars(Start)
    /\ SF_vars(\E m \in Message, s \in Sinks : FallsDue(m, s))
FairSpec == Spec /\ Fairness

(***************************************************************************)
(* Properties                                                              *)
(***************************************************************************)
DeliveryStates == {"pending", "delivered", "retrying", "failed", "interrupted", "superseded"}
DeliveryType == [state : DeliveryStates, tries : Nat]
MessageType ==
    [key : Keys \cup {StartKey}, says : Health,
     now : [Sinks -> DeliveryType], disk : [Sinks -> DeliveryType], kept : BOOLEAN]
HandType ==
    [mode : {"idle", "send", "retry"}, msg : Nat, next : Nat, was : [Sinks -> DeliveryType]]
CallType ==
    [op : {"target", "observe", "sinks", "reported", "store", "retry", "retried",
           "resume", "resume record", "announce", "purge", "started"},
     key : Keys \cup {StartKey}, state : Health, never : BOOLEAN, msg : Nat]

\* Types of the state of the monitor, its disk and its world.
TypeOK ==
    /\ msgs \in Seq(MessageType)
    /\ up \in BOOLEAN
    /\ states \in [Keys -> Health]
    /\ quiet \in [Codes -> BOOLEAN]
    /\ reporting \in BOOLEAN /\ refused \in BOOLEAN
    /\ open \in Seq(Message)
    /\ due \subseteq Message \X Sinks
    /\ cameBack \in Seq(Sinks)
    /\ hand \in HandType
    /\ Busy => hand.msg \in Message /\ hand.next <= NumSinks + 1
    /\ agenda \in Seq(CallType)
    /\ sink \in [Sinks -> Conditions]
    /\ store \in {"writes", "refuses"}
    /\ target \in Payload
    /\ before \in Nat
    /\ heard \in [Sinks -> SUBSET Message]
    /\ excused \subseteq Message /\ forgotten \subseteq Message /\ dropped \subseteq Message
    /\ changes \in Nat /\ reminders \in Nat

\* `A retry never says an old fact after a new one': no sink takes a message
\* after a later one about the same thing, as far as the records can tell -- a
\* record the disk refused, the age rule removed or a kill cut off cannot.
NoOldNewsAfterNew ==
    [][\A s \in Sinks : \A m \in heard'[s] \ heard[s], n \in heard[s] :
            n > m /\ msgs[n].key = msgs[m].key => m \in excused \/ n \in excused]_vars

\* The last message of this process about k, of those it has made.
SaidLast(k, says) ==
    \E m \in Message : /\ m > before /\ msgs[m].key = k /\ msgs[m].says = says
                       /\ \A n \in Message : n > m => msgs[n].key # k

\* What this process has made was tried at every sink, but for a message an exception
\* took out of its hands.
Tried(m) == m \in dropped \/ \A s \in Sinks : msgs[m].now[s].state # "pending"

\* Between two passes a fault the process knows of has been told, to every sink, and so
\* has the end of one that was told: nothing but a sink's own code changes in silence,
\* and nothing but the removal of another record that raises (RecordStore._remove, which
\* _keep does not catch) keeps a message from being tried.
FaultsAreTold ==
    Waiting =>
        /\ \A k \in Keys :
              /\ k.about # "sink"
              /\ k.about = "code" => NeverAlarm = {FALSE}
              => /\ states[k] = "active" => SaidLast(k, "active")
                 /\ states[k] # "active" => ~SaidLast(k, "active")
        /\ \A m \in Message : m > before => Tried(m)

\* Every delivery ends: taken, failed, interrupted or superseded, whatever the
\* sinks, the target and the process do -- but for records the disk refused, while a
\* process runs; and but for a message an exception took out of the hands of this
\* process, which nothing tries again until the next start (_deliver, _resume_unfinished).
DeliveriesEnd ==
    <>[](up => \A m \in Message :
            msgs[m].kept /\ m \notin excused \cup dropped => ~Unfinished(msgs[m].disk))

=============================================================================
