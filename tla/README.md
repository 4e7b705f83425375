# Verification of the gate agent

TLA+ models of the gate agent (`src/gate_agent` of this repository), TLC
configurations that check them on small instances, and theorems about them that
the TLA+ proof system checks for every value of the constants. Line numbers are
of the commit the models were written from; file names without a directory are
under `src/gate_agent`.

## 1. The system

Three processes stand beside a parking lane's own controller. They never move the
barrier themselves: they ask the lane, and keep an account of what was asked.

* the **agent** answers the intercom, shows a ticket, a fee or a board on the lane's
  screen, rings a person and carries out what the person keys;
* the **monitor** polls the lane, the platform, the identity service, and the agent
  and the capture process beside it, and tells the people a site configured when a
  health code changes;
* the **capture process** photographs what the lane reports.

### Inventory

| Component | Source | State it keeps | Operations | What is hard | What makes it correct | Module |
|---|---|---|---|---|---|---|
| Tickets at a lane | `agent.py`, `tickets.py`, `act.py`, `cases.py` | a record per ticket on disk, the pending ticket and the help window in memory, the frame on the screen | mint, show, tell, confirm, vend, void, expire, reconcile | answers late or lost, a kill between a record and the request it is about, a screen that refuses, a driver on the phone while the poll mints | a record never claims a barrier was, or was not, asked to open when the opposite is true; nothing is lost track of; only a driver who was told vends by a press; every ticket settles but one an exception let go of | `Tickets`, `TicketLife` |
| The call | `agent.py`, `ua.py` | the session: its state, its legs, what is queued or playing on each, deadlines, whose outcome is owed | answer, speak, ring a person, brief, bridge, take digits, hold, close, recover | two legs' events in one batch, a socket lost inside a handler, refused commands, a restart of either program, a relay's thread | a driver is in touch with their own person only; the outcome told is of this call; a case ends, and with its driver; nobody is left ringing | `Dialogue`, `CallPhases` |
| Standalone door | `agent.py`, `relay.py` | the pulse's thread and its result | pulse, collect, give up waiting | a result that comes after its call | as above, and the late result is written on its own call | `Dialogue`, `CallLog`, `Exchange` |
| Record of a call | `agent.py`, `contract.py` | one record per call, whole on every event | note, end, settle a pulse, close what a stop left | refused writes, a directory refused at a start, a pulse that outlives its call | a record that says how its call ended tells the whole call; only the live call looks live | `CallLog` |
| Record store | `records.py` | one file per record, a head file with the counter and what was removed, an index in memory | open, put, purge, page | a crash between two files, a refused write, removal while a consumer is behind | a cursor covers every change before it; a removal is told; the counter goes on | `RecordStore` |
| Monitor | `monitor.py`, `sinks.py` | the state of every code, open episodes, deliveries in progress | poll, observe, send, attempt, retry, resume | retries overtaken by news, a death or an exception between a record and a delivery, sinks that fail about themselves | every fault is told, and its end; no old fact after a newer one; nothing pending for ever | `Monitor` |
| Capture and image store | `capture.py`, `store.py`, `camera.py` | the lane's cursor, digests, the index of image pairs | poll the lane, capture, write, purge, rebuild | a lane that restarts, a two-file write cut in half, clocks that step | no event twice but on a page an exception ended, and none unanswered for; what was passed over is counted; the store stays within its cap | `Capture`, `ImageStore` |
| User agent link | `ua_baresip.py` | the socket's buffer, answers, events, back-off | command, drain, parse, reconnect | answers and events on one socket, a loss under a command | no call is missed; a loss is said; every call is heard of | `UaLink` |
| Screen of a lane | `agent.py`, `display.py`, `fee.py`, `board.py` | what was read of the lane, whose frame is up, the turn of the board | read, paint, redraw, blank, take a turn | four users of one screen, a screen that changes between two writes | what is up is the frame of whoever has it, or said not to be, or an exception left the pass; turns are whole | `Screen` |
| Which case a call is | `cases.py`, `fee.py` | the reading a call made of its lane | read twice, derive, offer | the lane goes on between the two requests, by another clock | nobody is told there is nothing to do but after a recent allow; an offer follows a recent fallback; the figure is the fee | `Reading` |
| Requests to other machines | `client.py`, `act.py`, `relay.py`, `camera.py`, `sinks.py` | none after an answer | ask, read the answer, give up | an answer lost, late, cut, garbled, redirected or dripping | what the caller is told was done was done; "never" is for good | `Exchange` |
| Processes and loops | `cli.py` | none | start, loop, stop | a handler that raises out of the loop, a stop during a pass | in the models as kills, starts and dropped batches | in the others |
| HTTP surfaces | `service.py`, `agent_service.py`, `capture_service.py`, `redirects.py` | none of their own | read snapshots, answer, refuse | none beyond the snapshot's lock | | not modelled |
| Contract and configuration | `contract.py`, `config.py` | none after start | validate | none | | not modelled |
| Codes, glyphs, sentences | `qr.py`, `font.py`, `lines.py` | none | encode | none | | not modelled |

### How they interact

* The agent and the user agent (baresip) share one control socket: commands with
  answers one way, events the other. Everything that happens to a call comes through
  it, in order, and is forgotten when it is lost.
* The agent and the lane: `GET` of the lane's state, health and events; `POST` of a
  vend with an idempotency key. An answer may come after the agent stopped waiting.
* Inside the agent there is one thread, the loop in `cli.py`, which polls the user
  agent, then does what is due, then follows the lanes and turns the boards; only a
  relay's pulse has a thread of its own. An exception out of a handler is logged and
  the loop goes on with what the handler had done and without what it had not: every
  model has those endings as actions of their own (`...Raises`, `PassLeft`, `Raised`,
  `Leaves`), and its properties name what they leave.
* The agent writes calls and the monitor messages to two kinds of one record store;
  the HTTP surfaces read them under the store's lock.
* The capture process follows the lane's events on a cursor of its own.

## 2. The modules

A component's module holds its state, one action per operation, the fairness and the
properties; `MC<module>` is the instance TLC runs; the theorems are in the proof module
the table names.

| Module | What it is | Composes | Proofs |
|---|---|---|---|
| `TicketLife` | abstract: the life of a ticket record against what the lane was brought to do | implemented by `Tickets` | |
| `Tickets` | the ticket path of the agent at one lane | `TicketLife` | `TicketsProofs` |
| `CallPhases` | abstract: one case, one caller, at most one person | implemented by `Dialogue` | |
| `Dialogue` | a call: legs, socket, loop, recovery, relay threads | `CallPhases` | `DialogueProofs` |
| `CallLog` | the record of every call, on disk | | `CallLogProofs` |
| `RecordStore` | the durable store of one kind of record, and a consumer with a cursor | | `RecordStoreProofs` |
| `Monitor` | the monitor, its sinks, its target and its disk | | `MonitorProofs` |
| `ImageStore` | the image store, step by step | | `CaptureProofs` |
| `Capture` | the capture process on that store | extends `ImageStore` | `CaptureProofs` |
| `UaLink` | the control socket, both ends | | `ExchangeProofs` |
| `Screen` | the screen of a lane over the passes of the loop | | `ScreenProofs` |
| `Reading` | what is made of a lane that is read | | `DialogueProofs` |
| `Exchange` | one request of each kind with every ending of it | | `ExchangeProofs` |

`Tickets` takes from a call only its door and a phase (in its case, with a person,
closing). `CallPhases` is the contract between the two: `Dialogue` implements it, and
the way `Tickets` moves a session from a case to a person to its closing is the way
`CallPhases` allows. `Dialogue` assumes of the user agent what `UaLink` checks: no call
is missed while the socket holds, and a loss is said. `Monitor` uses a record store
reduced to what a reader finds of each record, which is what `RecordStore` is about.

**Tickets.** `at` is where the one thread waits. Each action is the code between two
waits: `NewDecision` is `_consider_ticket` from the read of the lane to the frame, with
the void of the ticket that was up; `PressConfirms` is `_confirm_ticket` up to the
request; `Expire` is `_expire_tickets`; `ReconcileIssued` and `ReconcileConfirmed` are
`_reconcile`. The lane is external: it decides, stops offering, sees the car leave and
starts again as it likes, and `wire` holds requests it may still consider. A lost
request is one it never does, so "the agent timed out, the lane acts later" needs no
action of its own. A process may be killed (`Dies`) in every state and starts again
with what is on the disk. Two things leave a pass by an exception: an answer of the lane
that is not HTTP, or a vend's refusal whose body stops (`act.py:174-189`), and a record that
cannot be written (`tickets.py:496-507`). Each is an action with what it leaves behind --
`VendRaises`, `LaneReadRaises`, `VoidAtRaises`, `ConfirmRaises`, `PressRaises`,
`StartRaises` -- and a ticket let go of with its record open is in `dropped` until the next
start reads it. The help window runs out on the clock (`HelpExpires`). Records are kept by
number of minting.

**Dialogue.** `events` is what the user agent said and the loop has not handled,
`Handle` one event, `Advance` what is due (a line to play or give up on, a deadline, the
next leg), `Recover` the reopening of a lost socket (`Reopen`, `Enumerate`,
`RecoverCall`), and `World` what the callers, the persons, the user agent, relay threads
and the socket do. A command inside a handler is answered, refused (`GoneReplies`, where
the call is gone) or cut off before or after it was carried out; a refusal or a cut
leaves the handler where the exception leaves it, and drops what was drained with it.
In the run a hang-up of a call that is gone is refused, as `ua_baresip.py:546-549` has it.
A lane's read may raise (`LaneRaises`). `strays` are the calls a recovery was told of and
left, or whose arrival was in a batch that was dropped.

**CallLog.** `body` is the record as the session holds it, `kept` what its file says; a
write (`Note`) may be refused with the old file in place or the new one. `PulseSettles` is
`_settle_pulse` on the call that began it, whichever is live; `CloseOne` is a step of
`_close_interrupted_calls`. The directory may be refused at a start and opened later.

**RecordStore.** `file`, `headRevision` and `headRemoved` are the disk, `index`,
`revision` and `removed` the process. `put` is the four steps `PutFile`, `PutHead`,
`MakeRoom`..`RoomMade`, `PurgeOldest`..`Purged`: a page cannot come between them (the
store's lock) but a kill can, and each write may be refused with the old file in place
or, where the directory's sync fails after the rename, with the new one. `Page` is
`page()`: what was written after the cursor, in order of revisions, cut at `Limit`,
through the lane filter `Wanted`. `lost`, `told`, `seen` are the consumer's history.

**Monitor.** There is one thread, and what it does is a tree of calls: an observation sends
a message, a message tried at the sinks is an observation of the sinks and of the store,
which may send another. `hand` is the record being tried and `agenda` the calls still to be
made, innermost first, so that a kill, a sink that changes its mind or a disk that refuses
comes between any two. What nothing on its way catches -- an answer that is not HTTP
(`PollRaises`), the unlink of an older record inside a write or a purge
(`records.py:564-565`, `683`; `_keep` names `RecordUnwritable` only) -- leaves the poll with
the agenda dropped (`Leaves`): a message it was about is in `dropped`, a record that could
not be unlinked in `forgotten` until the store is opened again. A removal for room inside a
write that goes well is taken at the end of the poll. `msgs` has, of each message, the
delivery as the process has it and as the disk has it; `heard` is what each sink took.

**Capture and ImageStore.** `call` is how far the thread is in the store's call it has
made -- the purge (`Purge`, `UnlinkFile`, `Forget`, `Fit`), the two temporaries, the two
renames, the index -- with what it has in hand: the shot being written and the files still
to unlink. `todo` is what is left of the poll: the lane to read, the pictures to take, the
cursor to adopt. A kill, a refusal or the lane comes between any two of those steps. A poll
is in the code's order: every event's pictures, each camera in turn, then the cursor, then
the timer's. An answer of a camera or of the lane that is cut or is not HTTP ends the poll
where it stands (`Raised`, and the last line of the lane's unanswered read): the page whose
cursor was not adopted comes again, and `cutOff` is its events a camera was asked about. A
lane numbers its events from one after every start and serves the last
`Window`. `stray` is history: the shots of which the disk refused a file.

**UaLink.** `stream` is what the user agent said and the agent has not read; one read
takes any part of it. `queue` is the events read and not handed over: a set, since nothing
that is done with them here depends on their order (what the order of registrations decides
is decided as they are read). `todo` is what is left of a verb's commands; an answer and an
event are told apart by what they are. `wait` and `gap` are the back-off.

**Screen.** A pass of the loop is cut where the screen may change between two writes; `at`
is where it is. `Wanted` is `frame_wanted`; `DrawLane`, `BlankScreens` and `ShowTicket` are
the three ways of writing, each with what it does when the screen cannot be asked or
refuses; `PassLeft` is an answer that is not HTTP to the read of the fee or of the events,
after which the pass neither reasserts nor paints, and `TicketDropped` an exception between
taking a ticket from its lane and blanking the screen; `raised` is what they left; `Update`,
`Pause` and `TakeTurn` are `Rotation`'s. `Watches` is history: the item last seen on the
screen, and for how long.

**Reading.** A lane decides, lets cars through, raises codes and starts again between the
two requests of one reading; its clock is ahead of the agent's by any of `Skews`. `Derive`,
`OffersTicket`, `ScreenFor` and `PriceLine` are the conclusions, read off the source's
rules.

**Exchange.** One request at a time, of six kinds, against a far end that takes it or not,
does what it asks or not, and answers whole, cut (before its first byte or after), late,
not as HTTP, dripping or never. The head of an answer drips as its body does; a camera and a
relay may challenge again and again: urllib's digest handler follows six in a row, and
digest and basic in turn are followed until the stack ends, so no bound is put on them
(a challenge in a scheme urllib does not know is a `ValueError`, which counts as
nonsense). A mail is answered in its four replies -- sender, recipients, message, goodbye --
each of which may be garbled, when smtplib makes a code of its own of it (-1, or 25 of a
cut 250), and any goodbye but 221 is raised over what came before. `acted` and `told` are
what happened there; `outcome` what the caller is told; `blurred` that what was said came
as something it did not say.

## 3. What each run checks

| Run | Instance | Properties |
|---|---|---|
| `Tickets_calls` | 2 tickets, 2 decisions, 1 door, act token, 1 fault | `NothingForgotten` `PressKnowsTheCode` `HelpIsAboutTheLatest` `ScreenIsLive` |
| `Tickets_restart` | 1 ticket, 2 decisions, 2 doors, 1 restart of the lane, 1 kill, 1 fault, fair | `RecordsAreHonest` `KeepsTicketLife` `PollMintsForNewDecisions` `EveryTicketSettles` |
| `Dialogue_calls` | 4 calls (standalone, a lane's, standalone, a person), a queue of 2, 2 troubles (losses, restarts, exceptions and digits), hang-ups of gone calls refused, fair | `LegsBelongToTheCase` `OutcomeIsThisCalls` `KeepsCallPhases` `NoCaseOutlivesItsDriver` `NobodyLeftRinging` `CaseEnds` |
| `CallLog_calls` | 3 calls of up to 3 events, 2 refusals, 2 stops | `RecordIsWhole` `NothingIsOnlyInMemory` `OnlyTheLiveLooksLive` |
| `RecordStore_cursor` | 3 records, room for 2, 4 writes, pages of 1, 2 crashes, 1 refused write | `CursorCoversChanges` `RemovalIsTold` `ResetIsAnotherStore` |
| `Monitor_deliveries` | 2 sinks, 1 code, 1 retry, 3 changes, fair | `FaultsAreTold` `NoOldNewsAfterNew` `DeliveriesEnd` |
| `Capture_images` | 3 events, a window of 2, 1 camera, 2 pictures of 2 or 3 bytes, a cap of 2, 2 troubles | `CapHolds` `NoEventTwice` `EventsAreAnsweredFor` `LossIsCounted` |
| `UaLink_calls` | 1 account, 2 calls, 1 registration, 1 loss, fair | `NoCallIsMissed` `LostWasSaid` `EveryCallIsHeardOf` |
| `Screen_turns` | 1 fee, 3 boards and none, a turn of 2 ticks, 1 ticket, 2 news, 1 trouble, fair | `WrongIsSaid` `TurnsAreWhole` `EveryItemHasItsTurn` |
| `Reading_cases` | ages up to 1, clock up to 2, 2 changes, five sums of money in three currencies | `NothingToDoIsRecent` `OfferIsOfARecentFallback` `FigureIsTheFee` |
| `Exchange_answers` | a timeout of 2 ticks, a contact of 2, two recipients | `DoneIsDone` `RefusedAnswered` `NeverIsForGood` `PictureIsBounded` |
| `Exchange_doc_unnamed` | the same | `NothingLeavesUnnamed` (violated) |

What each shows:

* **Tickets_calls.** In every order of polls, presses, person's opens and refusals, with
  lost and late answers, a screen that refuses and one exception anywhere: no record is lost
  track of but one the exception let go of, no code that the driver was not told is vended by
  a press, the help window and the screen are about what is up.
* **Tickets_restart.** With a kill anywhere and the reconciliation after it, records stay
  honest about the barrier and the store implements `TicketLife`; across a restart of the
  lane no ticket is minted for a car that was there before; every issued ticket settles, or
  waits for the next start because of an exception.
* **Dialogue_calls.** With two troubles anywhere -- a lost socket, a restart of either
  program, a lane that raises, a digit -- nobody is on the line who should not be, the
  outcome told is this call's though an earlier call's pulse may settle while it waits for
  its own, and the call implements `CallPhases`. Every case ends or is held and none outlives
  its driver, but where the person being rung is gone and the agent will not be told
  (`PersonLost`); nobody is left ringing, but a call whose arrival was dropped with its batch
  (`RingsUnheard`). Both exceptions are of the code, and section 3 tells how they come about.
* **CallLog_calls.** Whatever was refused on the way, a record that says how its call ended
  tells the whole of it; a run that was refused nothing has it all on the disk.
* **RecordStore_cursor.** What a consumer may believe, until the disk refuses a change it
  made or a crash leaves a removal unwritten.
* **Monitor_deliveries.** Between two passes every fault known has been told and every end
  of one too; no sink takes an old fact after a new one; what is kept comes to an end
  -- but for a message an exception took out of the process's hands.
* **Capture_images.** Two troubles anywhere, each a kill, a refusal, a clock that steps back
  a restart of the lane or an answer that raises, and stops between polls besides: what is
  on the disk stays under the cap -- but for a record of which the disk refused to rename or
  unlink a file, till a purge after the next start has counted it -- and the process keeps
  its account of the events.
* **UaLink_calls.** Whatever is lost, and under whichever command, the agent hears of every
  call, is told of a loss, and misses no call while the connection holds.
* **Screen_turns.** Between two passes what the screen shows is right, or said to be wrong,
  or an exception left a pass and nothing was painted since;
  an item gives way after a whole turn; one that stays on the board comes round.
* **Reading_cases.** What is concluded from a lane that goes on between two requests.
* **Exchange_answers.** What the caller of each of six requests is told, against what was
  done at the far end.

**Why the bounds are enough.** Two tickets and two decisions give a ticket that is replaced
while its press, its person or its answer is on the way, and a help window about an older
one; nothing in the code looks at a third. One kill can come at any step of minting, asking
or reconciling, and a second finds the same disk. One fault is an exception or a refused
record at any of their steps. Four calls are a case with both legs and a second driver, and
a relay's pulse of a standalone call that ended settling while a later one waits for its
own: two troubles are the two digits that takes, or any two losses, restarts and exceptions.
A queue of two holds both hang-ups of one case, or a hang-up and the next arrival. Three
records with room for two, served one at a time, make every page short, remove on both sides
of the cursor, and let a record change behind it. Three changes at the monitor are a sink
that refuses, takes again and a kill between; one bound covers changes, kills, removals and
reminders together. A lane that serves two of three events outruns its window; a second
picture has to make room by deleting the first, and a second trouble can meet what the first
left. Two calls and one loss put a call on either side of a listing. Three boards that share
items let the one that is up move, stay and go. In `Reading` TLC has five sums (none, one of
a currency without minor units, one with three, one where the lane and the list disagree),
the theorem all of them. The theorems of section 4 hold without any of these bounds.

**Deadlock** is checked wherever the modelled part cannot stop. It is off in `Dialogue`,
`CallLog` and `Screen`: once every call, event, fault or trouble of the instance
is used up there may be nothing left to happen.

**Fairness.** `Tickets`: the loop passes five times a second, every wait for the lane has a
time-out (a lane that sent a byte before each would outlast it: section 5), the confirm
window runs out on the clock and a service manager starts the process again; expiry is
strongly fair because it is looked at at the end of every pass between two polls. Nothing is
assumed of drivers, persons, the lane or the network. `Dialogue`: what was said is handled,
a lost socket is retried, a line is played or given up (`_line_overdue`) and deadlines pass
(so a disk that refuses `_mark_told` on every pass is not assumed away by name but by this:
a line is played or given up in the end); nothing is assumed of the callers, the persons or
the relay's thread. `Monitor`: the thread goes on, a poll comes round, the service manager
starts it again and a retry's moment passes (strongly: it is looked at once a pass).
`UaLink`: the program answers or comes up again, the agent goes on, and every pass polls
(strongly: a pass may make a command first). `Screen`: the loop passes and the clock runs
between passes; that the lane is due and answers is strongly fair, which is an assumption
about the lane, and a screen that went comes back. `CallLog`, `RecordStore`, `Capture`,
`Reading` and `Exchange` have no liveness property.

**A view.** `Capture_images` explores once the states that differ in nothing but the health
codes and what only a code is made of (`ButTheCodes`): they are published, and no guard, no
property and no other variable reads them. The proofs keep them.

**The types** (`TypeOK`) are theorems for every module; no run lists them.

**No act token.** `HasAct = FALSE` is in the proofs only. `NothingForgotten` and
`ScreenIsLive` are stated of a lane with a token: without one a person's open takes the
pending ticket out of the map and leaves its record issued and its code up
(`docs/CONTRACT.md:2369` against `agent.py:2257`).

**What the properties except.** Each exception is a name in the formula, set by the action
that is the failure: `dropped` (a ticket, a message), `cutOff` (the events of a page an
exception ended), `raised` (a pass left before the screen was painted), `PersonLost` and
`RingsUnheard` (calls), `excused` and `untold` (records the disk refused), `blurred` (a
reply that came as another). Where it is not set the property holds as it stands, and
the theorems say so for every bound.

### Finding (violation run)

`NothingLeavesUnnamed`. `client.py:130` says "One GET, or one of the two refusals",
`camera.py:150` the same of a picture. The handlers name `HTTPError`, `URLError`,
`TimeoutError` and `OSError`; an answer that is not HTTP, or a body that stops inside a
chunk, is an `http.client.HTTPException`, which is none of them, and the body of a vend's
refusal is read outside the handlers. It leaves `get`, `vend` and `snapshot` as itself,
past every caller that catches the two, into the loop's blanket handler: the pass is over
for every other target and no code is raised for this one. `relay.py:255-288` names every
exception, for this reason. What it costs is in the other models:

* `Tickets`: a vend left so has its ticket out of the pending map and its record open, with
  nobody to settle it until the next start, and its code may stay up (`agent.py:1828-1856`,
  `2257`). A record that cannot be written leaves the same way.
* `Capture`: the page is not adopted, and its events are photographed again at the next poll
  -- or, if the window is outrun meanwhile, the rest of them never (`capture.py:440-453`).
* `Screen`: the fee or the board was read, and is neither painted nor said not to be; the
  screen has the earlier car's until the lane's next pass that is not left (`agent.py:932`).
* `Monitor`: the rest of the poll's targets are not observed in that poll; and the unlink of
  an old record that raises inside a write keeps a message on the disk and from every sink
  until a restart (`monitor.py:1122`).

### Observations without a run of their own

Met while modelling; each follows from the lines named, and the models behave this way
unless it says otherwise.

Tickets and calls:

* *A restarted ticket may have been vended.* `docs/CONTRACT.md:2044` says a ticket a killed
  process left "can never be vended" and is settled `restarted`. A person's open asks the
  lane with the record still `issued` (`agent.py:2257`); killed after the lane accepted, the
  next start writes `restarted` over a barrier that was asked to open (`agent.py:612`).
* *The next driver is briefed with the last one's help.* `docs/CONTRACT.md:2309` ends the
  help window at a new decision; only the poll ends it (`agent.py:1662`), so a press that
  has itself read the newer decision is still briefed from the old window.
* *"Do not open" does not outlast its ticket.* `_void_at` (`agent.py:2225`) voids what is
  pending; the decision still offers a ticket, and two presses later the lane is asked.
* *A case that never ends.* A hang-up of a call that is gone is refused
  (`ua_baresip.py:546-549`), and the refusal leaves the handler and drops the rest of the
  batch. Where a person is being rung, and they and the
  driver hang up in one batch, the driver's event is handled first, the hang-up of the
  person's leg is refused (`agent.py:1545`) and the person's own event is in the dropped rest.
  The no-answer deadline then hangs that leg up on every pass, and is refused on every pass
  (`agent.py:2541`): the case never ends and every later caller is refused as busy.
  `PersonLost` is that state, and `CaseEnds` and `NoCaseOutlivesItsDriver` hold but for it. In
  any other state the same batch leaves a session that ends at the next deadline: the driver
  is apologised to, the line is overdue, and `hangupall` ends it.
* *The dropped batch.* An uncaught `UaRefused` in `_handle` drops the rest of the events
  drained with it, another door's arrival included, and that call rings until the socket is
  lost: `RingsUnheard`.
* *Its own driver refused as busy.* A call that arrives between `reconnect()` clearing its
  events and `listcalls` is answered by the recovery and hung up as busy by its own event
  (`agent.py:1595`).
* *A session survives the user agent.* `docs/CONTRACT.md:2587-2591` says of a restart of the
  user agent that "whatever case was in progress is gone" and the session is dropped, as does
  the docstring of `_reconnect`; it returns early where no call is held (`agent.py:864`), and
  the session stays until a deadline of its own ends it.
* *Strays.* Where `_reconnect` is cut off half-way, legs it was told of stay up and are
  joined to the next case's conference: `LegsBelongToTheCase` names them.
* *Told on a dead leg.* When the person hangs up while a relay is awaited, `_tell_person`
  queues a line for a leg that is gone, and `_line_overdue` then cuts the driver under
  their own sentences (`agent.py:1552-1556`).
* *Hold in the briefing* leaves the case on hold with legs that were never bridged
  (cf. `agent.py:2199-2205`).
* `tickets.py:350` calls three states terminal; `confirmed` goes on to `vended`.

The record of a call:

* `ticket_issued` and `ticket_voided` never reach the call's record
  (`contract.py:2671-2673` against `docs/CONTRACT.md:3146-3148`).
* A default directory that is refused at a start and opened by a later write leaves the
  unfinished calls of earlier runs looking live (`agent.py:520-527`).
* A refused write of an ending is not tried again; the next start closes the call as
  interrupted (`contract.py:2666-2667`, `agent.py:2979`).

The record store:

* *A crash hides a removal.* One crash between the unlink and the head forgets
  `removed_through` (`records.py:683`, `606`): a consumer behind it is served a page with
  no `gap`, against `records.py:36-38`. `RemovalIsTold` holds until such a crash.
* *The counter goes back.* `records.py:28-32` says it never does. A crash after a record's
  file and before the head leaves it on the file alone; removed later, with a crash between
  the unlink and the head, the next start counts from less than a cursor it gave out.
* *A refused head is a half-made write.* `put` raises at `records.py:556`, but the file has
  the new body while the index has the old revision: it is served although "a write that
  failed is not served as one that happened" (`records.py:540-542`). A write refused after
  the rename lets a revision be used twice. `doubt` marks both.

The monitor:

* States start unknown after a restart; a record that was refused, or removed for age, is
  not weighed by `later()`, which is what `excused` names in `NoOldNewsAfterNew`.
* A raise after a retry leaves the record as it was before it, and the message may be sent
  again to a sink that took it; only a record that was refused or forgotten is concerned, and
  is `excused`.
* A sink that fails, or takes again, while another sink's fault is being told has its code
  changed and nobody told; so "recovers by the ordinary rule" (`docs/CONTRACT.md:833-834`)
  is not what `monitor.py:1141` does, and `FaultsAreTold` is of the other codes.

Capture:

* `records()` takes its snapshot and then reads the cursor without a lock: a write in
  between is behind a cursor whose page did not have it.
* A rename of a sidecar that is refused leaves an image no purge counts till the next start.
* Loss across a restart of the lane is not counted (`docs/CONTRACT.md:1263-1267` against
  `capture.py:364`): `LossIsCounted` is of one run of the lane.
* `clock_stepped_back` is only looked at at a start and by a write that comes through.

User agent link:

* One flag stands for several accounts (`docs/CONTRACT.md:3096` against
  `ua_baresip.py:690`), and the answer of a `reginfo` read after newer events overwrites them.
* `select` and then a command acts on whichever call is `current` by then.

Screen:

* A stop that waits two seconds and goes on blanks the screen with the pass still under
  way, which then draws on it (`cli.py:217`; `exiting` in the model).
* A ticket taken from its lane and not blanked keeps its code on the screen, with nothing
  said, until something else is drawn (`raised = "ticket"`).
* A screen that cannot be asked keeps an earlier car's fee, with `display_unavailable`
  raised (`agent.py:1057-1060`); an idle screen whose blanking was refused is not tried again.
* `Rotation.update` goes to the first of two equal items; a ticket issued and voided within
  a pass leaves the item that was up the rest of its turn.

Requests, and what is read of a lane:

* `RelayUnreachable` says "nothing moved" (`relay.py:109`), which is not so where only the
  answer was lost; `client.get` has no deadline for the whole answer; a vend answered 202 with
  a body that cannot be read is told as unreachable.
* A camera may take its timeout twice for a plain body once the head is here (`camera.py:160`,
  `docs/CONTRACT.md:1316-1317`), and any time at all for its head, for challenges and for a
  chunk's size: `camera.py:163-175` looks at its deadline between reads of the body only.
  `PictureIsBounded` claims what is so.
* A relay's 200 with a declared body that is cut before its first byte is an empty strip, which
  is told as done whoever answered (`relay.py:256`, `287-299`): `DoneIsDone` names it.
* A mail that was taken is sent again where the goodbye is answered 4xx, and given up for good
  where it is answered anything else but 221 or where the reply to the message came cut or
  garbled (code 25 or -1; `sinks.py:233-241`): `NeverIsForGood` names both.
* Under the comment "ONE LANE READ" (`agent.py:1648-1651`, `2054`) there are two requests,
  and the lane may go on between them; the offset of the two clocks is not measured.

## 4. What is proved

Every safety property of every passing run is a theorem: it holds without the run's bounds.
Each component's proof has the types, an inductive invariant with a lemma per action or
group of actions, and the properties that follow. `Reading` is proved beside `Dialogue`,
whose driver hears what it concludes, and `UaLink` beside `Exchange`: both are what a
request to another program comes to. The only assumptions are the `ASSUME`s of the modules:
bounds are numbers, and the sets are what their comments say (a page has room for a record,
the screen's door is one of the doors, the empty board is a board, a board is a sequence,
the lane serves at least one event and "none" is no view of a camera). TLC evaluates each of
them on the runs.

| Module | Theorems about a run's property | Others |
|---|---|---|
| `TicketsProofs` | `RecordsStayHonest` `TicketsKeepTheirLife` `PollMintsForNewCars` `PressesKnowTheCode` `HelpTellsTheTruth` `NothingIsForgotten` `ScreenStaysLive` | `TypesHold` `HonestyIsInductive` |
| `DialogueProofs`, of `Dialogue` | `LegsAlwaysBelong` `OutcomeAlwaysOwn` `CallsKeepTheirPhases` | `CallTypesHold` `CallsAreAccountedFor` |
| of `Reading` | `NothingToDo` `OffersAreRecent` `MoneyIsRight` | `ReadingTypeCorrect` `ReadIsOfTheLane` `OfferAgrees` |
| `RecordStoreProofs` | `CursorsCoverChanges` `RemovalsAreTold` `CountersGoOn` | `StoreTypesHold` `StoreIsKept` |
| `CallLogProofs` | `RecordsAreWhole` `NothingLivesOnlyInMemory` `OnlyLiveLooksLive` | `LogIsSound` `OutcomesStand` |
| `MonitorProofs` | `FaultsWereTold` `NewsStaysInOrder` | `MonitorIsSound` |
| `ScreenProofs` | `WrongWasSaid` `TurnsStayWhole` | `ScreenIsSound` |
| `CaptureProofs` | `StoreStaysUnderItsCap` `EventsArePhotographedOnce` `NoEventIsLeftOver` `LossIsCountedToTheEvent` | `CaptureTypeCorrect` |
| `ExchangeProofs`, of `Exchange` | `DoneWasDone` `RefusalsWereAnswered` `NeverMeansNever` `PicturesAreBounded` | `ExchangeIsSound` |
| of `UaLink` | `CallsAreNotMissed` `LossIsOneThatWasSaid` | `LinkTypeCorrect` |

**Tickets.** A record settled with a definite reason is never about a barrier that was or
may still be asked to open. That is not inductive: what is needed (`HonestInv`) is that one
ticket is in hand at a time (`OneInHand`), that what is up or being minted has been asked of
nobody (`FreshUntilAsked`), that what was asked for stays open until an answer or an
indefinite reason, unless it was dropped (`OpenWhileAsked`), and that the answer in hand is
about it (`AnswerIsAboutIt`). An exception is harmless to honesty because what it drops is in
no map, is asked for by nobody until the next start, and is settled there by the same two
rules as what a kill left. `TicketsKeepTheirLife`: every step is a step of `TicketLife` or leaves
it alone. On the same invariant stand four more, each with what it needs besides: that
nothing is forgotten, on an agent that neither mints nor asks having nothing in hand
(`HandInv`); that the poll mints only for a decision made after it took the lane's place up
(`AfterAdoption`); that a press vends only what its driver was told of (`UnheardInv`: a
ticket minted over their call is neither confirmed nor asked for); that the help is about
the latest ticket, on the newest being the one in hand and on why the others were voided
(`LatestInv`); and that the code on the screen is that of the ticket that is up, or of a
person's open in a call that is closing (`ShownInv`, `LiveInv`).

**Dialogue.** `DialogueInv` says that what was said and not handled is true of the calls, that
a recovery holds calls only while it runs, that a session has the legs its state says, and
the two properties. The news has to be in it: a handler acts on an event that may be older
than three other changes, and the proof is that calls only begin and end, so old news stays
true. `CallsKeepTheirPhases`: the call implements `CallPhases`.

**RecordStore.** `StoreInv` says that the index is the directory but for the record being
written, that no two files share a revision, that what was served is at or below what a start
would count from -- or else a removal has yet to reach the head (`CounterIsKept`) -- and that
what is passed was served and what was removed is remembered. The middle part is the heart of
it: a removal may take away the only file that carried the counter, and is harmless exactly
while the process lives to write the head.

**CallLog.** `LogInv` is the types, whose calls the session and the relays have in hand
(`Hands`), that the session holds the whole of its call (`Session`), what is on the disk
(`Files`), and three claims: a file is of one call and has all that led to an ending of its
own (`Whole`), a run that was refused nothing has every call of it indexed with every event
(`Complete`), and after a start nothing looks live but what is, or is about to be closed
(`Repaired`). A relay's late answer is written on a record read back from a file that may
lag behind the call's events, which is why `Whole` speaks of the events the call had while
it was live.

**Monitor.** `MonitorInv` is `Types`, down to the kinds of call the agenda holds; `Told`,
that a state the process knows is active exactly if it said so last, but for an observation
under way on the agenda; `Settled`, that a record that is not excused is on the disk as the
process has it when the thread is at rest, and delivered there where a sink took it;
`Attempted`, that what this process made and is not in hand was tried at every sink or was
dropped by an exception; and `Sending`, that a first try is of the last message made, which no
sink has heard. The exceptions have a lemma each, on what all of them have in common
(`RaisesLeave`). The order
of news follows from the last two: a retry is weighed against what the disk knows, and the
disk knows of every message taken.

**Screen.** `Pictured` is what is on the screen between any two writes: `Laid` (the geometry
last read is the screen's, or it was not asked since), `Painted` (at the four places where a
pass has it right, or one was left before it), `OfTicket` (a ticket that is up, anywhere)
and `Blanked` (what is taken for blanked is black), each but where it is said to be wrong.
`HeldByBoard` says that the clock runs only over a board that has the screen or over none.
On these stand `Noted` and `Turning`: what was last seen of an undisturbed board is the item
the rotation is at, and it has been up for as long as its turn. Every step either keeps
(`Kept`: no item comes up, the rotation stays, and a turn grows only while its item is on
the screen) or shows (`Shows`: the item whose turn it is, drawn). A turn that is over has
then been seen whole.

**Reading.** What a reading holds is what the lane said at the first request (`IsOfTheLane`:
the agent's state against the lane's, where nothing moved), and the conclusions are facts
about operators over it (`QuestionsAgree` and the lemmas about figures), for every sum,
currency and clock.

**Exchange.** `ExchangeInv` is the types, `Answering` (what the status being
read says of what was done), `Marked` (the relay's mark is of this pulse), `Timed` (the age of
a plain body is bounded by what is left of the timeouts and by the silence so far) and
`Honoured`, the properties themselves of what is told; a lemma per kind of ending shows that
what is made of it is `Fair`.

**Capture.** That the store is under its cap is not inductive. `StoreSound` is what it takes:
while the process is up what is counted is indexed, on its way out (`Leaving`: forgotten, its
image still to be unlinked) or on its way in (`Coming`: an image on the disk of a shot not
yet indexed), and a write that goes on has room beside what is indexed. Forgetting comes
before unlinking in the size half of a purge and after it in the age half, so neither the
index nor the disk alone bounds the other; a kill is harmless because `CapHolds` is of the
disk and not of the index. The size of a set of shots is the cardinality of the set of their
bytes, which gives the three facts about it (fewer shots, one more, the same lengths) from
the library's theorems and no induction. For the events, `AskedOnce` says that those past
the cursor were shown to nobody, or once on a page an exception ended (`cutOff`), and that
pictures still to take have a cursor to adopt that is past them, and `AnsweredFor` that what
the process was told of is passed over, shown, or still to take, and where its place is among
the events of the same run. That the cursor is adopted after the pictures and not before is
harmless where the poll comes to its end, because one thread takes both and nothing reads
the lane in between; where an exception ends it the page comes again, which is what
`cutOff` says. A killed process forgets its place and takes the current one, which is past
everything that was shown.

**UaLink.** An answer to a listing and the events around it may be read in any cut, so
`NoCallIsMissed` needs a claim about answers not yet read. `Underway` is it: the answer to
`listcalls` on its way is what is held but for what the events around it say, and that to
`dial` is a call that is up or whose end is unread. `Turns` says that at most one answer is,
of the first command left, and that a connection on which nothing was listed is in a verb
that ends by listing; `Accounted`, that a call told of on this connection is up or its end
was told of on it too, which is why a call that comes and goes under a command leaves
nobody ringing.

**Only model-checked**: every liveness property -- `EveryTicketSettles`,
`NoCaseOutlivesItsDriver`, `NobodyLeftRinging`, `CaseEnds`, `DeliveriesEnd`,
`EveryCallIsHeardOf`, `EveryItemHasItsTurn` -- which needs fairness and `ENABLED`, and the
proof system does neither.

## 5. What is not modelled

* Tickets and calls: the retention purge and the signing of tickets, the event log, health
  codes other than those named, the wording of lines.
* Record of a call: the window of events the agent serves and a consumer's pages. Retention
  is `RecordStore`'s.
* Record store: the time filter of a query, unreadable files, the lock against a second
  process, reads by id, the redaction of addresses.
* Monitor: the devices a lane vouches for, the window of events it serves, an identity
  service that refuses to be read, sinks that are configured otherwise between two runs,
  the default directory, a wall clock that steps, and the order of records a start resumes.
* Capture: a consumer's pages, the site with no lane, a lane whose version is refused at the
  start, what is published about the store, the reachability codes.
* User agent link: the bytes of a netstring, the CNAME of a call's audio, refusals of listings.
* Screen: the drawing itself, and the layout beyond whether a frame fits.
* Requests: digests of credentials, TLS, the shapes of pages. Connecting takes no time. Of
  whatever answers at a relay's address besides the relay it is assumed that a 200 it gives
  whole has a body.
* Time in the models other than `Exchange`: a request ends. A peer that sends a byte before
  every timeout may hold the one thread of a process for as long as it likes
  (`Exchange.Drips`); liveness in the other models is of peers that do not.
* The components whose row above says so keep no state or are pure data or I/O.

## 6. Plan

Done: every component with state of its own has a module and a run, and every safety
property a run checks is a theorem.

Left: `Tickets` and `Dialogue` composed at a small instance through `CallPhases`, which is
now the contract each is held to apart; and the pages a consumer of the capture process
is served.
