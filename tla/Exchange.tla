------------------------------ MODULE Exchange ------------------------------
(***************************************************************************)
(* One request to another machine, and what is made of its answer:         *)
(*                                                                         *)
(*   read      a lane or a target is asked for its state     (client.py)   *)
(*   vend      a lane is asked to open its barrier           (act.py)      *)
(*   pulse     a relay is asked for one contact              (relay.py)    *)
(*   picture   a camera is asked for a snapshot              (camera.py)   *)
(*   hook      a webhook is sent a notification              (sinks.py)    *)
(*   mail      a mail server is given one                    (sinks.py)    *)
(*                                                                         *)
(* The far end takes the request or does not, does what it asks or does    *)
(* not, and answers at once, late, or never; on the way the answer may be  *)
(* cut off, or drip.  Nobody here sees what was done there: what the       *)
(* caller is told is read off the answer.  A redirect is never followed.   *)
(* Time passes in ticks; connecting takes none.                            *)
(***************************************************************************)
EXTENDS Naturals, FiniteSets

CONSTANTS
    Patience,       \* a socket's timeout, and a snapshot's, in ticks
    Contact,        \* how long the relay's contact closes for (pulse_ms)
    Margin,         \* how much longer its unit is given (answer_margin_s)
    MaxAge,         \* ticks an exchange is followed for
    Recipient       \* who a mail goes to

ASSUME ExchangeAssumption ==
    /\ Patience \in Nat \ {0} /\ Contact \in Nat \ {0} /\ Margin \in Nat \ {0}
    /\ MaxAge \in Nat /\ IsFiniteSet(Recipient)

Kind == {"read", "vend", "pulse", "picture", "hook", "mail"}

VARIABLES
    kind, phase,    \* what is asked, and how far it is
    status,         \* the answer's, once its head is here
    chunked,        \* "yes" if its body comes in chunks
    age, quiet,     \* ticks since the request, and since the last byte
    seen,           \* the relay's own mark that its unit answered
    outcome,        \* what the caller is told
    refusedTo,      \* the recipients it is told were refused
    \* history
    acted,          \* "yes" once the far end has done what it was asked
    answered,       \* "yes" once anything of an answer came back
    told,           \* the recipients a mail was taken for
    mayPass,        \* "yes" once it said that it might take it later
    headAt,         \* the age at which the answer's head was here
    blurred         \* "yes" once what it said came as something it did not say

vars == <<kind, phase, status, chunked, age, quiet, seen, outcome, refusedTo,
          acted, answered, told, mayPass, headAt, blurred>>

\* Statuses: accepted is 202, odd any other 2xx but 200, broken a 5xx.
Status == {"ok", "accepted", "odd", "redirect", "denied", "conflict", "slow_down", "broken"}
\* Bodies: codeless is an object that names no code, prose is no JSON object.
Body == {"empty", "object", "codeless", "prose", "picture", "too_long"}

\* Of a failed delivery, `later' is worth trying again and `never' is not.
Outcome == {"none", "done", "no", "refused", "unreachable", "later", "never", "unnamed"}

TypeOK ==
    /\ kind \in Kind /\ phase \in {"idle", "asked", "taken", "reading"}
    /\ status \in Status \cup {"none"} /\ chunked \in {"yes", "no"}
    /\ age \in Nat /\ quiet \in 0 .. age /\ headAt \in 0 .. age
    /\ seen \in {"yes", "no"} /\ mayPass \in {"yes", "no"}
    /\ acted \in {"yes", "no"} /\ answered \in {"yes", "no"}
    /\ outcome \in Outcome
    /\ refusedTo \subseteq Recipient /\ told \subseteq Recipient
    /\ blurred \in {"yes", "no"}

Init ==
    /\ kind \in Kind /\ phase = "idle" /\ status = "none" /\ chunked = "no"
    /\ age = 0 /\ quiet = 0 /\ seen = "no"
    /\ outcome = "none" /\ refusedTo = {}
    /\ acted = "no" /\ answered = "no" /\ told = {} /\ mayPass = "no"
    /\ headAt = 0 /\ blurred = "no"

----------------------------------------------------------------------------
(* What an answer is taken for.                                            *)

Success == {"ok", "accepted", "odd"}

\* Mutation of Accepts: the redirect is followed, and answered well elsewhere.
AcceptsRedirects(s) == s \in Success \cup {"redirect"}

\* The opener follows nothing: whatever is no 2xx is an error with its status.
Accepts(s) == s \in Success

\* http_transient: a server error or `slow down' may pass.
Transient(s) == IF s \in {"broken", "slow_down"} THEN "later" ELSE "never"

\* An error status: the far end has answered, and 5xx is as good as no answer.
OfError(k, s) ==
    CASE k = "pulse"                        -> "refused"
      [] k = "hook"                         -> Transient(s)
      [] k \in {"read", "picture"}          -> IF s = "broken" THEN "unreachable" ELSE "refused"

\* The body of a vend's refusal is read before its status is looked at.
ReadsItsErrors(k) == k = "vend"

\* vend(): 409 with the lane's own code is the lane's no; 202 is a vend.
OfVend(s, b) ==
    CASE s = "broken"                                  -> "unreachable"
      [] ~Accepts(s) /\ s \notin {"broken", "conflict"} -> "refused"
      [] s = "conflict" /\ b = "object"                -> "no"
      [] s = "accepted" /\ b \in {"object", "codeless"} -> "done"
      [] OTHER                                         -> "unreachable"

\* pulse(): 200, and nothing where Axis documents nothing.
OfPulse(s, b) == IF s = "ok" /\ b = "empty" THEN "done" ELSE "refused"

\* What is made of a body that has come to its end.
OfBody(k, s, b) ==
    CASE k = "vend"    -> OfVend(s, b)
      [] k = "pulse"   -> OfPulse(s, b)
      [] k = "read"    -> IF b \in {"object", "codeless"} THEN "done" ELSE "unreachable"
      [] k = "picture" -> IF b = "picture" THEN "done" ELSE "unreachable"

\* The body of an error is read where nothing is named any more.
InAnError == phase = "reading" /\ ~Accepts(status)

\* Neither a deadline nor a closed socket: the answer stopped in a chunk, is not
\* HTTP, or challenges in a way urllib cannot follow.  The relay names whatever it
\* is; the others name what an OSError is.
OfNonsense(k) == IF k = "pulse" THEN "refused" ELSE "unnamed"

\* The socket broke.  The relay takes a unit it has seen for one that refused.
OfBreak(k) ==
    CASE k = "pulse" -> IF seen = "yes" THEN "refused" ELSE "unreachable"
      [] k \in {"read", "vend", "picture"} -> "unreachable"
      [] k \in {"hook", "mail"} -> "later"

OfSilence(k) == IF k \in {"hook", "mail"} THEN "later" ELSE "unreachable"

----------------------------------------------------------------------------
(* Asking.                                                                 *)

\* Relay.timeout: the contact and its margin.
TimeoutOf(k) == IF k = "pulse" THEN Contact + Margin ELSE Patience

\* Mutation of Unseen: the mark of the pulse before is left.
StillSeen(k) == seen

\* pulse() begins by forgetting that its unit ever answered.
Unseen(k) == IF k = "pulse" THEN "no" ELSE seen

Ask(k) ==
    /\ phase = "idle" /\ phase' = "asked" /\ kind' = k
    /\ status' = "none" /\ chunked' = "no" /\ age' = 0 /\ quiet' = 0 /\ seen' = Unseen(k)
    /\ outcome' = "none" /\ refusedTo' = {}
    /\ acted' = "no" /\ answered' = "no" /\ told' = {} /\ mayPass' = "no"
    /\ headAt' = 0 /\ blurred' = "no"

Ends(result) == phase' = "idle" /\ outcome' = result

\* The far end has the whole request, and does what it asks or does not.
Taken ==
    /\ phase = "asked" /\ kind # "mail" /\ phase' = "taken"
    /\ acted' \in {"yes", "no"}
    /\ UNCHANGED <<kind, status, chunked, age, quiet, seen, outcome, refusedTo,
                   answered, told, mayPass, headAt, blurred>>

Heard == answered' = "yes" /\ quiet' = 0 /\ seen' = IF kind = "pulse" THEN "yes" ELSE seen

\* A relay or a camera that wants the credential is asked again, with it, each time
\* with the socket's whole timeout.  The digest handler follows six challenges in a
\* row; a camera that asks for digest and basic in turn is followed until the stack
\* ends.  Not counted here: one too many ends as `denied' or as nonsense does.
Challenged ==
    /\ phase = "taken" /\ kind \in {"pulse", "picture"} /\ acted = "no"
    /\ phase' = "asked" /\ Heard
    /\ UNCHANGED <<kind, status, chunked, age, outcome, refusedTo, acted, told, mayPass,
                   headAt, blurred>>

\* What a far end may answer, by what it did: it says no to nothing it has done,
\* and a vend's 202 is of a vend.  Only the one that was asked answers as it does.
Honest(k, s) ==
    /\ acted = "yes" => s \notin {"redirect", "denied", "conflict", "slow_down"}
    /\ s = "accepted" /\ k = "vend" => acted = "yes"
    /\ s \in Success /\ k \in {"read", "hook"} => acted = "yes"

\* A 200 with nothing in it is the relay's own.
HonestBody(k, s, b) ==
    /\ k = "pulse" /\ s = "ok" /\ b = "empty" => acted = "yes"
    /\ k = "picture" /\ b = "picture" => acted = "yes"

\* The head of an answer, all of it.  A 401 that is not followed is `denied'.
Answers(s, c) ==
    /\ phase = "taken" /\ Honest(kind, s) /\ Heard /\ status' = s /\ chunked' = c
    /\ headAt' = age
    /\ CASE Accepts(s) /\ kind = "hook"                 -> Ends("done")
         [] ~Accepts(s) /\ ~ReadsItsErrors(kind)        -> Ends(OfError(kind, s))
         [] OTHER                                       -> phase' = "reading" /\ UNCHANGED outcome
    /\ mayPass' = IF s \in {"broken", "slow_down"} THEN "yes" ELSE "no"
    /\ UNCHANGED <<kind, age, refusedTo, acted, told, blurred>>

\* Mutation of InTime: the timeout is the socket's alone.
AlwaysInTime == TRUE

\* snapshot() looks at its deadline between two reads.
InTime == kind = "picture" => age < Patience

Overdue == phase = "reading" /\ quiet = 0 /\ ~InTime

\* One read takes what one recv brings; of a body in chunks it takes a chunk's size
\* or what follows the last one as well, however many of them that needs.
Reading == phase = "reading" /\ (Overdue => chunked = "yes")

\* Some more of it.  The status line and the headers are read to their end, and as
\* long as there is some of them nobody gives up.
Drips ==
    /\ phase = "taken" \/ Reading
    /\ quiet > 0 /\ quiet' = 0
    /\ UNCHANGED <<kind, phase, status, chunked, age, seen, outcome, refusedTo,
                   acted, answered, told, mayPass, headAt, blurred>>

Abandoned ==
    /\ Overdue
    /\ Ends("unreachable")
    /\ UNCHANGED <<kind, status, chunked, age, quiet, seen, refusedTo,
                   acted, answered, told, mayPass, headAt, blurred>>

\* The body ends, all of it here.
BodyEnds(b) ==
    /\ Reading /\ HonestBody(kind, status, b)
    /\ Ends(OfBody(kind, status, b))
    /\ UNCHANGED <<kind, status, chunked, age, quiet, seen, refusedTo,
                   acted, answered, told, mayPass, headAt, blurred>>

\* It ends before its declared length: what there is of it, which may be nothing, is
\* taken for the whole.
CutShort(b) ==
    /\ Reading /\ chunked = "no"
    /\ (b = "empty") \/ HonestBody(kind, status, b)
    /\ Ends(OfBody(kind, status, b))
    /\ blurred' = IF kind = "pulse" /\ b = "empty" THEN "yes" ELSE blurred
    /\ UNCHANGED <<kind, status, chunked, age, quiet, seen, refusedTo,
                   acted, answered, told, mayPass, headAt>>

\* An answer that is not HTTP, or a body that stops in a chunk.
Nonsense ==
    /\ phase = "taken" \/ (Reading /\ chunked = "yes")
    /\ Ends(OfNonsense(kind)) /\ answered' = "yes"
    /\ UNCHANGED <<kind, status, chunked, age, quiet, seen, refusedTo, acted, told, mayPass,
                   headAt, blurred>>

\* Refused, reset, or closed without an answer.
Breaks ==
    /\ phase # "idle"
    /\ Ends(IF InAnError THEN "unnamed" ELSE OfBreak(kind))
    /\ UNCHANGED <<kind, status, chunked, age, quiet, seen, refusedTo,
                   acted, answered, told, mayPass, headAt, blurred>>

Passes ==
    /\ phase # "idle" /\ age < MaxAge /\ quiet < TimeoutOf(kind)
    /\ phase = "reading" => Reading
    /\ age' = age + 1 /\ quiet' = quiet + 1
    /\ UNCHANGED <<kind, phase, status, chunked, seen, outcome, refusedTo,
                   acted, answered, told, mayPass, headAt, blurred>>

\* Nothing within the timeout of one read.
GivesUp ==
    /\ phase # "idle" /\ quiet = TimeoutOf(kind)
    /\ Ends(IF InAnError THEN "unnamed" ELSE OfSilence(kind))
    /\ UNCHANGED <<kind, status, chunked, age, quiet, seen, refusedTo,
                   acted, answered, told, mayPass, headAt, blurred>>

----------------------------------------------------------------------------
(* A mail: the server answers the sender, each recipient and the message.  *)

Reply == {"ok", "later", "never"}

\* A reply that is cut or garbled is heard with a code of its own making, -1 or 25.
Heardable == Reply \cup {"garbled"}

\* Any code that is neither the one that was expected nor a 4xx is for good.
OfReply(r) == IF r = "garbled" THEN "never" ELSE r

\* Mutation of AllRefused: worth another try only if every one of them is.
AllRefusedForNow(replies) == IF \A r \in Recipient : replies[r] = "later" THEN "later" ELSE "never"

\* Every recipient refused: worth another try if one was told `later'.
AllRefused(replies) == IF \E r \in Recipient : replies[r] = "later" THEN "later" ELSE "never"

\* send_message: `message' is the reply to the message, `lost' when none came.
OfSession(sender, replies, message) ==
    IF sender # "ok" THEN OfReply(sender)
    ELSE IF \A r \in Recipient : replies[r] # "ok" THEN AllRefused(replies)
    ELSE IF message = "lost" THEN "later" ELSE OfReply(message)

\* _send: `bye' is what the server says to being left -- `ok' is 221, or no answer --
\* and whatever else it says is raised over all that came before.
OfMail(sender, replies, message, bye) ==
    IF bye # "ok" /\ message # "lost" THEN OfReply(bye)
    ELSE IF OfSession(sender, replies, message) = "ok" THEN "done"
    ELSE OfSession(sender, replies, message)

\* It is taken, for the recipients that were, once the message is.
MailAnswered(sender, replies, message, bye) ==
    LET accepted == {r \in Recipient : replies[r] = "ok"} IN
    /\ phase = "asked" /\ kind = "mail"
    /\ acted' \in IF sender # "ok" \/ accepted = {} \/ message \in {"later", "never"} THEN {"no"}
                  ELSE IF message = "ok" THEN {"yes"} ELSE {"yes", "no"}
    /\ told' \in IF acted' = "yes"
                 THEN {accepted \cup more : more \in SUBSET {r \in Recipient : replies[r] = "garbled"}}
                 ELSE {{}}
    /\ Ends(OfMail(sender, replies, message, bye))
    /\ refusedTo' = IF outcome' = "done" THEN Recipient \ accepted ELSE {}
    /\ answered' = "yes"
    /\ mayPass' = IF /\ sender # "never" /\ \E r \in Recipient : replies[r] # "never"
                     /\ accepted = {} \/ message # "never"
                  THEN "yes" ELSE "no"
    /\ blurred' = IF \/ bye # "ok" \/ "garbled" \in {sender, message}
                     \/ \E r \in Recipient : replies[r] = "garbled"
                  THEN "yes" ELSE "no"
    /\ UNCHANGED <<kind, status, chunked, age, quiet, seen, headAt>>

----------------------------------------------------------------------------
Next ==
    \/ \E k \in Kind : Ask(k)
    \/ Taken \/ Challenged \/ Drips \/ Abandoned \/ Nonsense \/ Breaks \/ Passes \/ GivesUp
    \/ \E s \in Status, c \in {"yes", "no"} : Answers(s, c)
    \/ \E b \in Body : BodyEnds(b) \/ CutShort(b)
    \/ \E sender \in Heardable, replies \in [Recipient -> Heardable],
         message \in Heardable \cup {"lost"}, bye \in Heardable :
            MailAnswered(sender, replies, message, bye)

Spec == Init /\ [][Next]_vars
----------------------------------------------------------------------------
(* Properties.                                                             *)

Told == phase = "idle" /\ outcome # "none"

\* What the caller is told was done was done, by whom it was asked: not by a
\* redirect, not by whatever else answers at a relay's address -- but for a 200 whose
\* body was cut before its first byte, which is what the relay's own looks like; and a
\* mail that was taken was taken for everyone it is not said to be refused for
\* (redirects, pulse, vend, _post, _send).
DoneIsDone ==
    Told /\ outcome = "done" =>
        /\ acted = "yes" \/ (kind = "pulse" /\ blurred = "yes")
        /\ kind = "mail" => /\ Recipient \ refusedTo # {} /\ Recipient \ refusedTo \subseteq told
                            /\ blurred = "no" => told = Recipient \ refusedTo

\* A refusal is told only of a machine that answered this very request: not of one
\* that is down, and not of one that answered the request before (pulse, get, vend,
\* snapshot).  And it is told of nothing that was done, but by a relay, and by a mail
\* server that could not be understood.
RefusedAnswered ==
    Told /\ outcome \in {"refused", "no", "never"} =>
        answered = "yes" /\ (kind # "pulse" /\ blurred = "no" => acted = "no")

\* A message not worth trying again is one that nobody took, and that nobody would
\* take if it came again: of a webhook always, of a mail whenever each reply came as
\* it was given and the server said goodbye as it should (DeliveryFailed,
\* http_transient, smtp_transient, _send).  A reply that is cut off, and a goodbye of
\* any other code, end a message that was taken as one that never will be.
NeverIsForGood ==
    Told /\ outcome = "never" /\ (kind = "mail" => blurred = "no") =>
        acted = "no" /\ mayPass = "no"

\* Once the head of its answer is here, a camera whose body is not in chunks holds
\* the process for less than twice its timeout, all told, or for nothing more, however
\* that body drips (snapshot).  Nothing bounds the head, a challenge, or a chunk's size.
PictureIsBounded ==
    kind = "picture" /\ status # "none" /\ chunked = "no" =>
        age < 2 * Patience \/ age = headAt

\* As the clients have it, an exchange ends in an answer or in one of two refusals:
\* nothing else leaves it.
NothingLeavesUnnamed == Told => outcome # "unnamed"
=============================================================================
