------------------------------- MODULE UaLink --------------------------------
(***************************************************************************)
(* The control socket to the user agent (ua_baresip.py): commands and      *)
(* their answers one at a time, the events that arrive between them, the   *)
(* loss of the socket and its reopening.                                   *)
(*                                                                         *)
(* `stream' is what the user agent has said on the open connection and the *)
(* agent has not read.  One read takes any part of it that is there, whole *)
(* messages: the rest of a message stays in the buffer till it comes, and  *)
(* what is not a control message, or an event with no kind here, changes   *)
(* nothing.  A command nobody answers in time ends the connection, so at   *)
(* most one answer is ever under way and its token is left out.            *)
(***************************************************************************)
EXTENDS Naturals, Sequences, FiniteSets, SequencesExt

CONSTANTS
    Accounts,       \* the user agent's accounts, one per intercom
    MaxCalls,       \* calls of the user agent, in all
    MaxNews,        \* registrations it tells, in all
    MaxBreaks,      \* times a connection is lost
    MaxGap          \* [user_agent] reconnect_seconds, in floors of the back-off

Calls == 1 .. MaxCalls

ASSUME UaLinkAssumption ==
    MaxCalls \in Nat /\ MaxNews \in Nat /\ MaxBreaks \in Nat /\ MaxGap \in Nat \ {0}

VARIABLES
    \* the user agent
    uaUp,           \* whether it takes a connection
    held,           \* the calls it holds
    made, news, breaks,
    truth,          \* [account -> what its registration came to]
    broken,         \* whether the connection has ended at its side
    asked,          \* the command it has read and not answered
    stream,
    \* the link
    sock,
    todo,           \* the commands left of the verb; the first is under way
    queue,          \* the events heard and not handed to the agent: _events, their order
                    \* left out, which nothing that is done with them depends on
    registered,
    wait, gap,      \* till the next attempt to reopen, and after a failed one
    started,        \* whether start() came through in this process
    \* history
    synced,         \* whether the calls were listed on this connection
    known,          \* the calls the agent was told of: listed, incoming or dialled
    gone,           \* the calls it was told have ended
    reported        \* [account -> what the user agent last said of it, as read]

userAgent == <<uaUp, held, made, news, breaks, truth>>
wire == <<broken, asked, stream>>
backOff == <<wait, gap>>
heardOf == <<synced, known, gone>>
link == <<sock, todo, queue, registered, started, backOff>>
linkVars == <<userAgent, wire, link, heardOf, reported>>

Nothing == [name |-> "nothing", call |-> 0]
Command(name, call) == [name |-> name, call |-> call]
Message(kind, about, value) == [kind |-> kind, about |-> about, value |-> value]
Says(kind, about) == Message(kind, about, 0)

Idle == sock = "open" /\ todo = <<>>
Waiting == sock = "open" /\ todo # <<>>
Asks(commands) ==
    /\ todo' = commands
    /\ asked' = Head(commands)

LinkInit ==
    /\ uaUp = TRUE /\ made = 0 /\ held = {} /\ news = 0 /\ breaks = 0
    /\ truth = [a \in Accounts |-> "untried"]
    /\ broken = FALSE /\ asked = Nothing /\ stream = <<>>
    /\ sock = "none" /\ todo = <<>> /\ queue = {}
    /\ registered = "unknown"
    /\ wait = 0 /\ gap = 1 /\ started = FALSE
    /\ synced = FALSE /\ known = {} /\ gone = {}
    /\ reported = [a \in Accounts |-> "untried"]

(***************************************************************************)
(* The user agent.                                                         *)
(***************************************************************************)
\* What happens there is said to whoever is connected.
Tell(messages) == stream' = IF sock = "open" /\ ~broken THEN stream \o messages ELSE stream

CallComes ==
    /\ uaUp /\ made < MaxCalls
    /\ made' = made + 1
    /\ held' = held \cup {made + 1}
    /\ Tell(<<Says("incoming", made + 1)>>)
    /\ UNCHANGED <<uaUp, news, breaks, truth, broken, asked, link, heardOf, reported>>

CallEnds ==
    /\ uaUp
    /\ \E c \in held : held' = held \ {c} /\ Tell(<<Says("closed", c)>>)
    /\ UNCHANGED <<uaUp, made, news, breaks, truth, broken, asked, link, heardOf, reported>>

Registers ==
    /\ uaUp /\ news < MaxNews
    /\ news' = news + 1
    /\ \E a \in Accounts, came \in {"ok", "error"} :
          /\ truth' = [truth EXCEPT ![a] = came]
          /\ Tell(<<Says(came, a)>>)
    /\ UNCHANGED <<uaUp, held, made, breaks, broken, asked, link, heardOf, reported>>

\* A command is carried out, or refused; the call it is about may have ended.
Answer(value) == Message("answer", 0, value)
Refusal == Says("refusal", 0)

CarryOut ==
    /\ uaUp /\ ~broken /\ asked # Nothing
    /\ asked' = Nothing
    /\ LET c == asked.call IN
       \/ /\ asked.name = "reginfo" /\ Tell(<<Answer(truth)>>)
          /\ UNCHANGED <<held, made>>
       \/ /\ asked.name = "listcalls" /\ Tell(<<Answer(held)>>)
          /\ UNCHANGED <<held, made>>
       \/ /\ asked.name = "dial" /\ made < MaxCalls
          /\ made' = made + 1 /\ held' = held \cup {made + 1}
          /\ Tell(<<Answer(made + 1)>>)
       \/ /\ asked.name = "dial" \/ (c # 0 /\ c \notin held)
          /\ Tell(<<Refusal>>)
          /\ UNCHANGED <<held, made>>
       \/ /\ asked.name = "hangup" /\ c \in held
          /\ held' = held \ {c}
          /\ \E said \in {<<Answer(0), Says("closed", c)>>, <<Says("closed", c), Answer(0)>>} :
                Tell(said)
          /\ UNCHANGED made
       \/ /\ asked.name \in {"introspect", "select", "drive"} /\ c \in held \cup {0}
          /\ Tell(<<Answer(0)>>)
          /\ UNCHANGED <<held, made>>
    /\ UNCHANGED <<uaUp, news, breaks, truth, broken, link, heardOf, reported>>

\* The connection ends at its side: alone, or with the program and all it holds.
ConnectionBreaks ==
    /\ breaks < MaxBreaks
    /\ uaUp
    /\ breaks' = breaks + 1
    /\ broken' = (sock = "open")
    /\ asked' = Nothing
    /\ \/ UNCHANGED <<uaUp, held, truth>>
       \/ uaUp' = FALSE /\ held' = {} /\ truth' = [a \in Accounts |-> "untried"]
    /\ UNCHANGED <<made, news, stream, link, heardOf, reported>>

ComesUp ==
    /\ ~uaUp
    /\ uaUp' = TRUE
    /\ UNCHANGED <<held, made, news, breaks, truth, wire, link, heardOf, reported>>

----------------------------------------------------------------------------
(* What is read.                                                            *)

IsAnswer(m) == m.kind \in {"answer", "refusal"}
Named(kind, messages) == {m.about : m \in {x \in messages : x.kind = kind}}

\* _event, message by message: the last registration told is the one kept, of
\* whatever account it was.
Registrations(chunk) == {i \in 1 .. Len(chunk) : chunk[i].kind \in {"ok", "error"}}

HeardRegistration(chunk) ==
    IF Registrations(chunk) = {} THEN registered
    ELSE IF chunk[Max(Registrations(chunk))].kind = "ok" THEN "registered" ELSE "lost"

HeardReports(chunk) ==
    [a \in Accounts |->
        LET of == {i \in Registrations(chunk) : chunk[i].about = a}
        IN  IF of = {} THEN reported[a] ELSE chunk[Max(of)].kind]

\* Mutation of Events: what comes under a command is not kept for the poll.
EventsOfPolls(chunk) == {m \in ToSet(chunk) : ~IsAnswer(m) /\ todo = <<>>}

Events(chunk) == {m \in ToSet(chunk) : ~IsAnswer(m)}

\* Mutation of ReadRegistration: an account that has not tried is one that is lost.
ReadRegistrationUntried(states) ==
    IF \A a \in Accounts : states[a] = "ok" THEN "registered" ELSE "lost"

\* _read_registration: any account in error is lost, else any that answered.
ReadRegistration(states) ==
    IF \E a \in Accounts : states[a] = "error" THEN "lost"
    ELSE IF \E a \in Accounts : states[a] = "ok" THEN "registered"
    ELSE "unknown"

\* _lost: the socket is dropped and the next attempt has its time.
ScheduleRetry ==
    /\ wait' = gap
    /\ gap' = IF 2 * gap < MaxGap THEN 2 * gap ELSE MaxGap

\* A loss before start() is through ends the process.
Lost ==
    /\ sock' = "none" /\ todo' = <<>> /\ stream' = <<>> /\ broken' = FALSE
    /\ synced' = FALSE
    /\ IF started THEN ScheduleRetry ELSE UNCHANGED backOff

----------------------------------------------------------------------------
(* The agent: a command and its answer (_command).                          *)

NextCommand ==
    /\ todo' = Tail(todo)
    /\ asked' = IF Tail(todo) = <<>> THEN Nothing ELSE Head(Tail(todo))

\* What an answered command leaves, beside what the events around it say.
Listed(calls) ==
    /\ synced' = TRUE /\ started' = TRUE
    /\ known' = known \cup calls
    /\ gone' = gone \cup (known \ calls)

Completed(command, value, chunk) ==
    /\ registered' = IF command.name = "reginfo" THEN ReadRegistration(value)
                      ELSE HeardRegistration(chunk)
    /\ reported' = IF command.name = "reginfo" THEN value ELSE HeardReports(chunk)
    /\ IF command.name = "listcalls" THEN Listed(value)
       ELSE /\ known' = known \cup {c \in {value} : command.name = "dial"}
            /\ UNCHANGED <<synced, gone, started>>

Hears(chunk) == registered' = HeardRegistration(chunk) /\ reported' = HeardReports(chunk)

\* One read while an answer is awaited: whatever part has come, its events first.
\* A refused command ends its verb.
ReadMore ==
    /\ Waiting
    /\ \E n \in 1 .. Len(stream) :
          LET chunk == SubSeq(stream, 1, n) IN
          /\ stream' = SubSeq(stream, n + 1, Len(stream))
          /\ queue' = queue \cup Events(chunk)
          /\ \/ /\ \A i \in 1 .. n : ~IsAnswer(stream[i])
                /\ Hears(chunk)
                /\ UNCHANGED <<todo, asked, heardOf, started>>
             \/ \E i \in 1 .. n :
                  \/ /\ stream[i].kind = "answer"
                     /\ NextCommand
                     /\ Completed(todo[1], stream[i].value, chunk)
                  \/ /\ stream[i].kind = "refusal"
                     /\ Hears(chunk)
                     /\ todo' = <<>> /\ asked' = Nothing
                     /\ UNCHANGED <<heardOf, started>>
    /\ UNCHANGED <<userAgent, broken, sock, backOff>>

\* The connection has ended under a command: what was still unread goes with it.
CommandLost ==
    /\ Waiting /\ broken
    /\ Lost
    /\ asked' = Nothing
    /\ UNCHANGED <<userAgent, queue, registered, started, known, gone, reported>>

\* Nobody answered in time.  The command may still be carried out there.
TimesOut ==
    /\ Waiting /\ ~broken /\ stream = <<>> /\ breaks < MaxBreaks
    /\ breaks' = breaks + 1
    /\ Lost
    /\ UNCHANGED <<uaUp, held, made, news, truth, asked, queue, registered, started, known,
                   gone, reported>>

----------------------------------------------------------------------------
(* The agent: its verbs and its polls.                                      *)

Plain(name) == Command(name, 0)
\* Mutation of Rereading: what is held is not asked for.
ReadingOfRegistration == <<Plain("reginfo")>>

Rereading == <<Plain("reginfo"), Plain("listcalls")>>
StartReading == <<Plain("reginfo"), Plain("introspect"), Plain("listcalls")>>

\* answer, hangup, play and stop_playing, bridge, dial: of a call the agent
\* takes for one that is up.  What changes nothing kept here is a "drive" (accept,
\* audio_debug with mixausrc, conference), what chooses the call or account a "select" (callfind,
\* uafind), asked anew or, the stream's name remembered, not, and the start's config,
\* modules and about are one "introspect".
Verbs ==
    (UNION {{<<Command("select", c), Command("hangup", c)>>,
             <<Command("select", c), Command("drive", c)>>,
             <<Command("drive", c)>>} : c \in known \ gone})
    \cup {<<Plain("drive")>>, <<Plain("select"), Plain("dial")>>}

Drives ==
    /\ Idle /\ started
    /\ \E verb \in Verbs : Asks(verb)
    /\ UNCHANGED <<userAgent, broken, stream, sock, queue, registered, started, backOff, heardOf,
                   reported>>

\* poll: everything there is, delivered -- or, the connection ended, kept.
Poll ==
    /\ Idle /\ started
    /\ Hears(stream)
    /\ LET said == queue \cup Events(stream) IN
       IF broken
       THEN queue' = said /\ Lost /\ UNCHANGED <<known, gone>>
       ELSE /\ queue' = {} /\ stream' = <<>>
            /\ known' = known \cup Named("incoming", said)
            /\ gone' = gone \cup Named("closed", said)
            /\ UNCHANGED <<sock, todo, broken, synced, backOff>>
    /\ UNCHANGED <<userAgent, asked, started>>

Opened(reading) ==
    /\ sock' = "open" /\ wait' = 0 /\ gap' = 1
    /\ queue' = {}
    /\ Asks(reading)

\* start(), in a process of its own: refused, it ends, and is started again.
Start ==
    /\ ~started /\ sock = "none" /\ uaUp
    /\ Opened(StartReading)
    /\ UNCHANGED <<userAgent, broken, stream, registered, started, heardOf, reported>>

\* _check_configuration, the version, _check_accounts: the process refuses to run.
StartRefused ==
    /\ ~started /\ Waiting /\ todo[1].name = "introspect"
    /\ breaks < MaxBreaks
    /\ breaks' = breaks + 1
    /\ Lost
    /\ asked' = Nothing
    /\ UNCHANGED <<uaUp, held, made, news, truth, queue, registered, started, known, gone,
                   reported>>

\* reconnect, from the poll after a loss: when it is time to, and not before.
Reopen ==
    /\ started /\ sock = "none" /\ wait = 0
    /\ IF uaUp THEN Opened(Rereading)
       ELSE ScheduleRetry /\ UNCHANGED <<sock, queue, todo, asked>>
    /\ UNCHANGED <<userAgent, broken, stream, registered, started, heardOf, reported>>

Tick ==
    /\ wait > 0
    /\ wait' = wait - 1
    /\ UNCHANGED <<userAgent, wire, sock, todo, queue, registered, started, gap, heardOf, reported>>

UserAgent == CallComes \/ CallEnds \/ Registers \/ CarryOut \/ ConnectionBreaks \/ ComesUp
Agent ==
    \/ Start \/ StartRefused \/ Drives \/ ReadMore \/ CommandLost \/ TimesOut
    \/ Poll \/ Reopen \/ Tick
LinkNext == UserAgent \/ Agent

LinkSpec == LinkInit /\ [][LinkNext]_linkVars

\* The program answers or is brought up again; the agent starts, reads what came,
\* waits and reopens as there is cause; and every pass of its loop polls, whatever
\* verbs the passes between make.
LinkFairSpec ==
    /\ LinkSpec
    /\ WF_linkVars(CarryOut \/ ComesUp)
    /\ WF_linkVars(Start \/ Reopen \/ Tick \/ ReadMore \/ CommandLost)
    /\ SF_linkVars(Poll)

----------------------------------------------------------------------------
(* What must hold.                                                          *)

Registration == {"untried", "ok", "error"}
Names ==
    {"nothing", "reginfo", "introspect", "listcalls", "select", "drive", "hangup", "dial"}
Kinds == {"incoming", "closed", "ok", "error", "answer", "refusal"}

\* The types, and what the state of the socket says of the rest: nothing is under
\* way, unread or waited for where it is not so (_open, _lost, _command).
LinkTypeOK ==
    /\ uaUp \in BOOLEAN /\ held \subseteq 1 .. made /\ made \in 0 .. MaxCalls
    /\ news \in 0 .. MaxNews /\ breaks \in 0 .. MaxBreaks
    /\ truth \in [Accounts -> Registration] /\ reported \in [Accounts -> Registration]
    /\ broken \in BOOLEAN /\ asked.name \in Names /\ asked.call \in 0 .. MaxCalls
    /\ \A m \in ToSet(stream) \cup queue : m.kind \in Kinds
    /\ \A m \in queue : ~IsAnswer(m)
    /\ sock \in {"open", "none"} /\ \A c \in ToSet(todo) : c.name \in Names \ {"nothing"}
    /\ registered \in {"unknown", "registered", "lost"}
    /\ known \subseteq Calls /\ gone \subseteq Calls
    /\ wait \in 0 .. MaxGap /\ gap \in 1 .. MaxGap
    /\ synced \in BOOLEAN /\ started \in BOOLEAN
    /\ sock = "none" => todo = <<>> /\ stream = <<>> /\ ~broken /\ ~synced
    /\ Idle /\ started => synced /\ asked = Nothing
    /\ Waiting /\ ~broken => asked \in {todo[1], Nothing}
    /\ \A i, j \in 1 .. Len(stream) : IsAnswer(stream[i]) /\ IsAnswer(stream[j]) => i = j

\* Once the calls were listed and while the connection holds, every call the user
\* agent holds is one the agent was told of or will read of, and every call the
\* agent takes for one that is up is up, or its end is still to be read (_command
\* keeps the events it reads for the poll; reconnect clears them and lists anew).
NoCallIsMissed ==
    sock = "open" /\ synced /\ ~broken =>
        LET unread == queue \cup ToSet(stream)
            dialled == {m.value : m \in {x \in ToSet(stream) :
                                            x.kind = "answer" /\ todo[1].name = "dial"}}
        IN  /\ held \subseteq known \cup Named("incoming", unread) \cup dialled
            /\ known \ gone \subseteq held \cup Named("closed", unread)

\* The registration is said to be lost only after the user agent said an account
\* of its is in error: one nobody has heard about is not one known to be lost
\* (_read_registration, _event).
LostWasSaid == registered = "lost" => \E a \in Accounts : reported[a] = "error"

\* Again and again the agent knows of every call the user agent holds: whenever one
\* came -- under a command, with the socket down, before the start -- it is heard of
\* or it ends (reconnect, calls, poll).
EveryCallIsHeardOf == []<>(held \subseteq known)

=============================================================================
