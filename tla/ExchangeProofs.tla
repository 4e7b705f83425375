--------------------------- MODULE ExchangeProofs ---------------------------
(***************************************************************************)
(* Theorems about what the agent asks of other machines: Exchange, for     *)
(* every timeout, margin and set of recipients, and UaLink, the one socket *)
(* it keeps open, for every number of calls, accounts and losses.          *)
(*                                                                         *)
(* Exchange: what an answer is taken for is said once for each kind of     *)
(* ending, as lemmas about the operators; the induction then needs only    *)
(* what is known of the far end while its answer is awaited and read.      *)
(* UaLink: what the calls held and the answers on their way have to do     *)
(* with each other is said beside what is unread of their events.          *)
(***************************************************************************)
EXTENDS Exchange, UaLink, SequenceTheorems, WellFoundedInduction, TLAPS

-------------------------------------------------------------------------------
(* The induction.                                                          *)

\* While an answer is read: what it says of what was done, and that it is here.
Answering ==
    /\ phase = "taken" => kind # "mail"
    /\ phase = "reading" =>
          /\ kind \in {"read", "vend", "pulse", "picture"} /\ status \in Status
          /\ Accepts(status) \/ kind = "vend"
          /\ Honest(kind, status) /\ answered = "yes"

\* The relay's mark is of this request.
Marked == phase # "idle" /\ kind = "pulse" /\ seen = "yes" => answered = "yes"

\* A camera's clock: while a plain body is read, the last of it came within the timeout.
Timed ==
    /\ phase \in {"asked", "taken"} => status = "none"
    /\ PictureIsBounded
    /\ kind = "picture" /\ phase = "reading" /\ chunked = "no" =>
          quiet <= Patience /\ (quiet > 0 => age < quiet + Patience)

Honoured == DoneIsDone /\ RefusedAnswered /\ NeverIsForGood

ExchangeInv == TypeOK /\ Answering /\ Marked /\ Timed /\ Honoured

-------------------------------------------------------------------------------
(* What is made of an answer.                                              *)

\* A result, told of a request of kind k with `done' what the far end did.
Fair(k, result, acted_, answered_, mayPass_, blurred_) ==
    /\ result \in Outcome \ {"none"}
    /\ result = "done" => acted_ = "yes" \/ (k = "pulse" /\ blurred_ = "yes")
    /\ result \in {"refused", "no", "never"} => answered_ = "yes" /\ (k # "pulse" => acted_ = "no")
    /\ result = "never" => acted_ = "no" /\ mayPass_ = "no"

\* An exchange that ends in a fair result keeps its promises; a mail's has more to say.
LEMMA EndsFairly ==
    ASSUME NEW result, Ends(result), kind' = kind, kind # "mail",
           Fair(kind, result, acted', answered', mayPass', blurred')
    PROVE  Honoured'
  BY DEF Ends, Fair, Honoured, DoneIsDone, RefusedAnswered, NeverIsForGood, Told

\* ... and nothing is told while it goes on.
LEMMA NothingTold ==
    ASSUME phase' # "idle"
    PROVE  Honoured'
  BY DEF Honoured, DoneIsDone, RefusedAnswered, NeverIsForGood, Told

\* The answer's status alone.
LEMMA ErrorIsFair ==
    ASSUME NEW k \in {"read", "pulse", "picture", "hook"}, NEW s \in Status, ~Accepts(s),
           Honest(k, s), acted \in {"yes", "no"}, NEW p,
           p = IF s \in {"broken", "slow_down"} THEN "yes" ELSE "no"
    PROVE  Fair(k, OfError(k, s), acted, "yes", p, blurred)
  <1>1. s \in {"redirect", "denied", "conflict", "slow_down", "broken"}
    BY DEF Accepts, Success, Status
  <1>2. acted = "yes" => s = "broken"
    BY <1>1 DEF Honest
  <1>3. CASE k = "pulse"
    BY <1>3 DEF Fair, OfError, Outcome
  <1>4. CASE k = "hook"
    BY <1>1, <1>2, <1>4 DEF Fair, OfError, Transient, Outcome
  <1>5. CASE k \in {"read", "picture"}
    BY <1>1, <1>2, <1>5 DEF Fair, OfError, Outcome
  <1> QED
    BY <1>3, <1>4, <1>5

\* A body that has come to its end, or was cut short.
LEMMA BodyIsFair ==
    ASSUME NEW k \in {"read", "vend", "pulse", "picture"}, NEW s \in Status, NEW b \in Body,
           Accepts(s) \/ k = "vend", Honest(k, s), acted \in {"yes", "no"}, NEW p,
           NEW blur, k = "pulse" /\ s = "ok" /\ b = "empty" => acted = "yes" \/ blur = "yes",
           k = "picture" /\ b = "picture" => acted = "yes"
    PROVE  Fair(k, OfBody(k, s, b), acted, "yes", p, blur)
  <1>1. CASE k = "vend"
    <2>1. OfBody(k, s, b) = OfVend(s, b)
      BY <1>1 DEF OfBody
    <2>2. /\ acted = "yes" => s \in {"ok", "accepted", "odd", "broken"}
          /\ s = "accepted" => acted = "yes"
      BY <1>1 DEF Honest, Status
    <2>3. /\ OfVend(s, b) \in {"unreachable", "refused", "no", "done"}
          /\ OfVend(s, b) = "done" => s = "accepted"
          /\ OfVend(s, b) \in {"refused", "no"} => s \notin {"ok", "accepted", "odd", "broken"}
      BY DEF OfVend, Accepts, Success
    <2> QED
      BY <1>1, <2>1, <2>2, <2>3 DEF Fair, Outcome
  <1>2. CASE k = "pulse"
    BY <1>2 DEF OfBody, OfPulse, Fair, Outcome
  <1>3. CASE k = "read"
    BY <1>3 DEF OfBody, Fair, Outcome, Honest, Accepts
  <1>4. CASE k = "picture"
    BY <1>4 DEF OfBody, Fair, Outcome
  <1> QED
    BY <1>1, <1>2, <1>3, <1>4

-------------------------------------------------------------------------------
LEMMA ExchangeInit == Init => ExchangeInv
  BY ExchangeAssumption
     DEF Init, ExchangeInv, TypeOK, Answering, Marked, Timed, PictureIsBounded, Honoured, DoneIsDone, RefusedAnswered,
         NeverIsForGood, Told, Outcome, Kind

\* An exchange that ends before anything more is known of the far end.
LEMMA EndStep ==
    ASSUME ExchangeInv, phase # "idle", kind # "mail", NEW result, Ends(result),
           answered' \in {answered, "yes"}, blurred' \in {blurred, "yes"},
           Fair(kind, result, acted, answered', mayPass, blurred'),
           UNCHANGED <<kind, status, chunked, age, quiet, seen, refusedTo, acted, told, mayPass, headAt>>
    PROVE  ExchangeInv'
  <1>1. Honoured'
    BY EndsFairly
  <1>2. TypeOK'
    BY DEF ExchangeInv, TypeOK, Ends, Fair
  <1>3. Answering' /\ Marked' /\ Timed'
    BY DEF ExchangeInv, Answering, Marked, Timed, PictureIsBounded, Ends
  <1> QED
    BY <1>1, <1>2, <1>3 DEF ExchangeInv

\* ... with nothing but `unreachable', `later' or `unnamed' to tell.
LEMMA LostStep ==
    ASSUME ExchangeInv, phase # "idle", NEW result \in {"unreachable", "later", "unnamed"}, Ends(result),
           answered' \in {answered, "yes"},
           UNCHANGED <<kind, status, chunked, age, quiet, seen, refusedTo, acted, told, mayPass, headAt, blurred>>
    PROVE  ExchangeInv'
  <1>1. Honoured'
    BY DEF Ends, Honoured, DoneIsDone, RefusedAnswered, NeverIsForGood, Told
  <1>2. TypeOK'
    BY DEF ExchangeInv, TypeOK, Ends, Outcome
  <1>3. Answering' /\ Marked' /\ Timed'
    BY DEF ExchangeInv, Answering, Marked, Timed, PictureIsBounded, Ends
  <1> QED
    BY <1>1, <1>2, <1>3 DEF ExchangeInv

\* ... and a relay, `refused' too, where something of its answer was here.
LEMMA PulseLostStep ==
    ASSUME ExchangeInv, phase # "idle", kind = "pulse", Ends("refused"), answered' = "yes",
           UNCHANGED <<kind, status, chunked, age, quiet, seen, refusedTo, acted, told, mayPass, headAt, blurred>>
    PROVE  ExchangeInv'
  BY EndStep DEF Fair, Outcome

-------------------------------------------------------------------------------
(* Action by action.                                                       *)

LEMMA AskStep ==
    ASSUME ExchangeInv, NEW k \in Kind, Ask(k)
    PROVE  ExchangeInv'
  <1>1. Honoured'
    BY NothingTold DEF Ask
  <1>2. TypeOK'
    BY DEF ExchangeInv, TypeOK, Ask, Unseen, Outcome
  <1>3. Answering' /\ Marked' /\ Timed'
    BY ExchangeAssumption DEF Ask, Answering, Marked, Timed, PictureIsBounded, Unseen
  <1> QED
    BY <1>1, <1>2, <1>3 DEF ExchangeInv

LEMMA GoingOn ==
    ASSUME ExchangeInv, Taken \/ Challenged \/ Drips \/ Passes
    PROVE  ExchangeInv'
  <1>1. Honoured'
    BY NothingTold DEF Taken, Challenged, Drips, Reading, Passes
  <1>2. CASE Taken
    BY <1>1, <1>2 DEF Taken, ExchangeInv, TypeOK, Answering, Marked, Timed, PictureIsBounded
  <1>3. CASE Challenged
    <2>1. TypeOK'
      BY <1>3 DEF Challenged, Heard, ExchangeInv, TypeOK
    <2>2. Answering' /\ Marked'
      BY <1>3 DEF Challenged, Heard, Answering, Marked
    <2>3. Timed'
      BY <1>3 DEF Challenged, Heard, ExchangeInv, Timed, PictureIsBounded
    <2> QED
      BY <1>1, <2>1, <2>2, <2>3 DEF ExchangeInv
  <1>4. CASE Drips
    <2>1. TypeOK' /\ Answering' /\ Marked'
      BY <1>4 DEF Drips, Reading, ExchangeInv, TypeOK, Answering, Honest, Marked
    <2>2. Timed'
      BY <1>4, ExchangeAssumption DEF Drips, Reading, ExchangeInv, TypeOK, Timed, PictureIsBounded
    <2> QED
      BY <1>1, <2>1, <2>2 DEF ExchangeInv
  <1>5. CASE Passes
    <2>1. TypeOK' /\ Answering' /\ Marked'
      BY <1>5 DEF Passes, ExchangeInv, TypeOK, Answering, Honest, Marked
    <2>2. Timed'
      <3>1. /\ age \in Nat /\ quiet \in Nat /\ Patience \in Nat /\ phase # "idle"
            /\ age' = age + 1 /\ quiet' = quiet + 1
            /\ phase \in {"asked", "taken", "reading"} /\ UNCHANGED <<kind, phase, status, chunked, headAt>>
        BY <1>5, ExchangeAssumption DEF Passes, ExchangeInv, TypeOK
      <3>2. CASE phase = "reading" /\ kind = "picture" /\ chunked = "no"
        <4>1. (quiet = 0 => age < Patience) /\ quiet < Patience
          BY <1>5, <3>2 DEF Passes, Reading, Overdue, InTime, TimeoutOf
        <4> QED
          BY <3>1, <3>2, <4>1 DEF ExchangeInv, Timed, PictureIsBounded
      <3>3. CASE phase \in {"asked", "taken"}
        BY <3>1, <3>3 DEF ExchangeInv, Timed, PictureIsBounded
      <3> QED
        BY <3>1, <3>2, <3>3 DEF ExchangeInv, Timed, PictureIsBounded
    <2> QED
      BY <1>1, <2>1, <2>2 DEF ExchangeInv
  <1> QED
    BY <1>2, <1>3, <1>4, <1>5

LEMMA AnswersStep ==
    ASSUME ExchangeInv, NEW s \in Status, NEW c \in {"yes", "no"}, Answers(s, c)
    PROVE  ExchangeInv'
  <1>1. /\ phase = "taken" /\ kind \in {"read", "vend", "pulse", "picture", "hook"}
        /\ UNCHANGED <<kind, age, refusedTo, acted, told, blurred>> /\ chunked' = c /\ headAt' = age
        /\ acted \in {"yes", "no"} /\ Honest(kind, s) /\ status' = s /\ answered' = "yes" /\ quiet' = 0
        /\ seen' \in {"yes", "no"} /\ mayPass' = IF s \in {"broken", "slow_down"} THEN "yes" ELSE "no"
    BY DEF Answers, Heard, ExchangeInv, TypeOK, Kind, Answering
  <1>2. /\ Marked' /\ (phase' \in {"idle", "reading"} => Timed')
        /\ (phase' \in {"idle", "reading"} /\ outcome' \in Outcome => TypeOK')
    BY <1>1, ExchangeAssumption DEF ExchangeInv, TypeOK, Marked, Timed, PictureIsBounded
  <1>3. CASE Accepts(s) /\ kind = "hook"
    <2>1. Ends("done")
      BY <1>3 DEF Answers
    <2>2. acted = "yes"
      BY <1>1, <1>3 DEF Honest, Accepts
    <2>3. Honoured'
      BY <1>1, <1>3, <2>1, <2>2, EndsFairly DEF Fair, Outcome
    <2> QED
      BY <1>2, <2>1, <2>3 DEF Ends, Answering, Outcome, ExchangeInv
  <1>4. CASE ~Accepts(s) /\ ~ReadsItsErrors(kind)
    <2>1. Ends(OfError(kind, s)) /\ kind # "vend"
      BY <1>4 DEF Answers, ReadsItsErrors
    <2>2. Fair(kind, OfError(kind, s), acted', answered', mayPass', blurred')
      BY <1>1, <1>4, <2>1, ErrorIsFair
    <2>3. Honoured'
      BY <1>1, <2>1, <2>2, EndsFairly
    <2> QED
      BY <1>2, <2>1, <2>2, <2>3 DEF Ends, Fair, Answering, ExchangeInv
  <1>5. CASE ~(Accepts(s) /\ kind = "hook") /\ ~(~Accepts(s) /\ ~ReadsItsErrors(kind))
    <2>1. phase' = "reading" /\ UNCHANGED outcome /\ outcome \in Outcome
      BY <1>5 DEF Answers, ExchangeInv, TypeOK
    <2>2. (Accepts(s) \/ kind = "vend") /\ kind # "hook"
      BY <1>5 DEF ReadsItsErrors
    <2>3. Honoured'
      BY <2>1, NothingTold
    <2>4. Answering'
      BY <1>1, <2>1, <2>2 DEF Answering, Honest
    <2> QED
      BY <1>2, <2>1, <2>3, <2>4 DEF ExchangeInv
  <1> QED
    BY <1>3, <1>4, <1>5

\* What a body makes of the exchange, the whole of it or what there is.
LEMMA BodyStep ==
    ASSUME ExchangeInv, NEW b \in Body, phase = "reading", Ends(OfBody(kind, status, b)),
           blurred' \in {blurred, "yes"},
           kind = "pulse" /\ status = "ok" /\ b = "empty" => acted = "yes" \/ blurred' = "yes",
           kind = "picture" /\ b = "picture" => acted = "yes",
           UNCHANGED <<kind, status, chunked, age, quiet, seen, refusedTo, acted, answered, told, mayPass, headAt>>
    PROVE  ExchangeInv'
  <1>1. /\ kind \in {"read", "vend", "pulse", "picture"} /\ status \in Status
        /\ Accepts(status) \/ kind = "vend"
        /\ Honest(kind, status) /\ answered = "yes" /\ acted \in {"yes", "no"}
    BY DEF ExchangeInv, Answering, TypeOK
  <1>2. Fair(kind, OfBody(kind, status, b), acted, "yes", mayPass, blurred')
    BY <1>1, BodyIsFair
  <1> QED
    BY <1>1, <1>2, EndStep

LEMMA EndingSteps ==
    ASSUME ExchangeInv, Abandoned \/ (\E b \in Body : BodyEnds(b) \/ CutShort(b)) \/ Nonsense \/ Breaks \/ GivesUp
    PROVE  ExchangeInv'
  <1>0. /\ kind \in Kind /\ phase \in {"idle", "asked", "taken", "reading"}
        /\ phase = "taken" => kind # "mail"
        /\ phase = "reading" => kind \notin {"hook", "mail"} /\ answered = "yes"
    BY DEF ExchangeInv, TypeOK, Answering
  <1>1. CASE Abandoned
    BY <1>1, LostStep DEF Abandoned, Overdue
  <1>2. ASSUME NEW b \in Body, BodyEnds(b) PROVE ExchangeInv'
    BY <1>2, BodyStep DEF BodyEnds, Reading, HonestBody
  <1>3. ASSUME NEW b \in Body, CutShort(b) PROVE ExchangeInv'
    BY <1>3, BodyStep DEF CutShort, Reading, HonestBody
  <1>4. CASE Nonsense
    <2>1. phase \in {"taken", "reading"} /\ answered' = "yes" /\ Ends(OfNonsense(kind))
          /\ UNCHANGED <<kind, status, chunked, age, quiet, seen, refusedTo, acted, told, mayPass, headAt, blurred>>
      BY <1>4 DEF Nonsense, Reading
    <2>2. CASE kind = "pulse"
      BY <2>1, <2>2, PulseLostStep DEF OfNonsense
    <2>3. CASE kind # "pulse"
      BY <2>1, <2>3, LostStep DEF OfNonsense
    <2> QED
      BY <2>2, <2>3
  <1>5. CASE Breaks
    <2>1. /\ phase # "idle" /\ Ends(IF InAnError THEN "unnamed" ELSE OfBreak(kind))
          /\ UNCHANGED <<kind, status, chunked, age, quiet, seen, refusedTo, acted, answered, told, mayPass, headAt, blurred>>
      BY <1>5 DEF Breaks
    <2>2. CASE InAnError
      BY <2>1, <2>2, LostStep
    <2>3. CASE ~InAnError /\ kind = "pulse" /\ seen = "yes"
      <3>1. answered = "yes"
        BY <2>1, <2>3 DEF ExchangeInv, Marked
      <3> QED
        BY <2>1, <2>3, <3>1, PulseLostStep DEF OfBreak
    <2>4. CASE ~InAnError /\ ~(kind = "pulse" /\ seen = "yes")
      <3>1. OfBreak(kind) \in {"unreachable", "later"}
        BY <1>0, <2>4 DEF OfBreak, Kind
      <3> QED
        BY <2>1, <2>4, <3>1, LostStep
    <2> QED
      BY <2>2, <2>3, <2>4
  <1>6. CASE GivesUp
    <2>1. /\ phase # "idle" /\ Ends(IF InAnError THEN "unnamed" ELSE OfSilence(kind))
          /\ UNCHANGED <<kind, status, chunked, age, quiet, seen, refusedTo, acted, answered, told, mayPass, headAt, blurred>>
      BY <1>6 DEF GivesUp
    <2> QED
      BY <2>1, LostStep DEF OfSilence
  <1> QED
    BY <1>1, <1>2, <1>3, <1>4, <1>5, <1>6

\* What a session makes of its replies, and its goodbye of that.
LEMMA MailResult ==
    ASSUME NEW sender \in Heardable, NEW replies \in [Recipient -> Heardable],
           NEW message \in Heardable \cup {"lost"}, NEW bye \in Heardable
    PROVE  LET accepted == {r \in Recipient : replies[r] = "ok"}
               result == OfMail(sender, replies, message, bye) IN
           /\ result \in {"done", "ok", "later", "never"}
           /\ result # "ok"
           /\ result = "done" => sender = "ok" /\ accepted # {} /\ message = "ok"
           /\ result = "never" /\ bye = "ok" /\ "garbled" \notin {sender, message}
                 /\ (\A r \in Recipient : replies[r] # "garbled") =>
                 \/ sender = "never"
                 \/ sender = "ok" /\ accepted = {} /\ \A r \in Recipient : replies[r] = "never"
                 \/ sender = "ok" /\ accepted # {} /\ message = "never"
  <1> DEFINE accepted == {r \in Recipient : replies[r] = "ok"}
             said == OfSession(sender, replies, message)
  <1>1. accepted = {} <=> \A r \in Recipient : replies[r] # "ok"
    OBVIOUS
  <1>2. /\ said = IF sender # "ok" THEN OfReply(sender) ELSE IF accepted = {} THEN AllRefused(replies)
                  ELSE IF message = "lost" THEN "later" ELSE OfReply(message)
    BY <1>1 DEF OfSession
  <1>3. \A r \in Heardable : OfReply(r) \in Reply /\ (r # "ok" => OfReply(r) \in {"later", "never"})
                              /\ (r # "garbled" => OfReply(r) = r)
    BY DEF OfReply, Heardable, Reply
  <1>4. /\ AllRefused(replies) \in {"later", "never"}
        /\ AllRefused(replies) = "never" => \A r \in Recipient : replies[r] # "later"
    BY DEF AllRefused
  <1>5. OfMail(sender, replies, message, bye) = IF bye # "ok" /\ message # "lost" THEN OfReply(bye)
                                                ELSE IF said = "ok" THEN "done" ELSE said
    BY DEF OfMail
  <1>6. said \in Reply /\ (said = "ok" => sender = "ok" /\ accepted # {} /\ message = "ok")
    BY <1>2, <1>3, <1>4 DEF Reply, Heardable
  <1>7. said = "never" /\ "garbled" \notin {sender, message} =>
                 \/ sender = "never"
                 \/ sender = "ok" /\ accepted = {} /\ \A r \in Recipient : replies[r] # "later"
                 \/ sender = "ok" /\ accepted # {} /\ message = "never"
    BY <1>2, <1>3, <1>4 DEF Heardable, Reply
  <1>8. accepted = {} /\ (\A r \in Recipient : replies[r] # "later" /\ replies[r] # "garbled") =>
           \A r \in Recipient : replies[r] = "never"
    BY <1>1 DEF Heardable, Reply
  <1> HIDE DEF accepted, said
  <1>9. /\ OfMail(sender, replies, message, bye) \in {"done", "later", "never"}
        /\ OfMail(sender, replies, message, bye) = "done" => said = "ok"
        /\ OfMail(sender, replies, message, bye) = "never" /\ bye = "ok" => said = "never"
    BY <1>3, <1>5, <1>6 DEF Reply
  <1> QED
    BY <1>6, <1>7, <1>8, <1>9 DEF accepted

\* A mail that is done was taken, for those it is not said to be refused for; one not
\* worth trying again would find nobody another time either, if it was understood.
LEMMA MailStep ==
    ASSUME ExchangeInv, NEW sender \in Heardable, NEW replies \in [Recipient -> Heardable],
           NEW message \in Heardable \cup {"lost"}, NEW bye \in Heardable,
           MailAnswered(sender, replies, message, bye)
    PROVE  ExchangeInv'
  <1> DEFINE accepted == {r \in Recipient : replies[r] = "ok"}
             garbled == {r \in Recipient : replies[r] = "garbled"}
             result == OfMail(sender, replies, message, bye)
             clear == /\ bye = "ok" /\ "garbled" \notin {sender, message}
                      /\ \A r \in Recipient : replies[r] # "garbled"
  <1>1. /\ phase = "asked" /\ kind = "mail" /\ Ends(result) /\ answered' = "yes"
        /\ UNCHANGED <<kind, status, chunked, age, quiet, seen, headAt>>
        /\ acted' \in IF sender # "ok" \/ accepted = {} \/ message \in {"later", "never"} THEN {"no"}
                      ELSE IF message = "ok" THEN {"yes"} ELSE {"yes", "no"}
        /\ told' \in IF acted' = "yes" THEN {accepted \cup more : more \in SUBSET garbled} ELSE {{}}
        /\ refusedTo' = IF outcome' = "done" THEN Recipient \ accepted ELSE {}
        /\ mayPass' = IF /\ sender # "never" /\ \E r \in Recipient : replies[r] # "never"
                         /\ accepted = {} \/ message # "never"
                     THEN "yes" ELSE "no"
        /\ blurred' = IF clear THEN "no" ELSE "yes"
    BY DEF MailAnswered
  <1>2. /\ result \in {"done", "later", "never"}
        /\ result = "done" => sender = "ok" /\ accepted # {} /\ message = "ok"
        /\ result = "never" /\ clear =>
              \/ sender = "never"
              \/ sender = "ok" /\ accepted = {} /\ \A r \in Recipient : replies[r] = "never"
              \/ sender = "ok" /\ accepted # {} /\ message = "never"
    BY MailResult
  <1>3. accepted \subseteq Recipient /\ accepted = Recipient \ (Recipient \ accepted)
        /\ garbled \subseteq Recipient /\ (clear => garbled = {})
    OBVIOUS
  <1> HIDE DEF accepted, garbled, result, clear
  <1>4. /\ acted' \in {"yes", "no"} /\ told' \subseteq Recipient
        /\ acted' = "yes" => accepted \subseteq told' /\ (clear => told' = accepted)
    BY <1>1, <1>3
  <1>5. Honoured'
    <2>1. outcome' = result /\ phase' = "idle"
      BY <1>1 DEF Ends
    <2>2. DoneIsDone'
      BY <1>1, <1>2, <1>3, <1>4, <2>1 DEF DoneIsDone
    <2>3. result = "never" /\ clear => acted' = "no" /\ mayPass' = "no"
      BY <1>1, <1>2
    <2>4. blurred' = "no" => clear
      BY <1>1
    <2> QED
      BY <1>1, <1>2, <2>1, <2>2, <2>3, <2>4 DEF Honoured, RefusedAnswered, NeverIsForGood
  <1>6. TypeOK'
    BY <1>1, <1>2, <1>3, <1>4 DEF ExchangeInv, TypeOK, Ends, Outcome
  <1>7. Answering' /\ Marked' /\ Timed'
    BY <1>1 DEF Answering, Marked, Timed, PictureIsBounded, Ends
  <1> QED
    BY <1>5, <1>6, <1>7 DEF ExchangeInv

LEMMA ExchangeStep == ExchangeInv /\ [Next]_vars => ExchangeInv'
  <1> SUFFICES ASSUME ExchangeInv, [Next]_vars PROVE ExchangeInv'
    OBVIOUS
  <1>1. CASE UNCHANGED vars
    BY <1>1 DEF vars, ExchangeInv, TypeOK, Answering, Honest, Marked, Timed, PictureIsBounded, Honoured, DoneIsDone,
       RefusedAnswered, NeverIsForGood, Told
  <1> QED
    BY <1>1, AskStep, GoingOn, AnswersStep, EndingSteps, MailStep DEF Next

-------------------------------------------------------------------------------
(* The theorems.                                                           *)

\* Every state keeps the types, and what the induction rests on.
THEOREM ExchangeIsSound == Spec => []ExchangeInv
  BY ExchangeInit, ExchangeStep, PTL DEF Spec

\* Whatever machine is asked, whatever it does and however its answer is cut off: what
\* the caller is told was done was done by the one that was asked -- but for a pulse
\* answered 200 whose body was cut before its first byte -- and a mail was taken for
\* everyone it is not said to be refused for (get, vend, pulse, snapshot, _post, _send).
THEOREM DoneWasDone == Spec => []DoneIsDone
  BY ExchangeIsSound, PTL DEF ExchangeInv, Honoured

\* A refusal is told only of a machine that answered this very request, and of nothing
\* that was done but by a relay, whose mark is forgotten as each pulse begins (pulse),
\* or by a mail server that was not understood.
THEOREM RefusalsWereAnswered == Spec => []RefusedAnswered
  BY ExchangeIsSound, PTL DEF ExchangeInv, Honoured

\* A message not worth trying again was taken by nobody and would be by nobody: for any
\* number of recipients and any mix of their answers, each heard as it was given
\* (_send, http_transient).
THEOREM NeverMeansNever == Spec => []NeverIsForGood
  BY ExchangeIsSound, PTL DEF ExchangeInv, Honoured

\* Once the head is here, a camera whose body is not in chunks holds the process for
\* less than twice its timeout or for nothing more, whatever the timeout is, however it
\* drips and however often it challenged (snapshot).
THEOREM PicturesAreBounded == Spec => []PictureIsBounded
  BY ExchangeIsSound, PTL DEF ExchangeInv, Timed

-------------------------------------------------------------------------------
(* The link to the user agent: what is said on the wire, and read.          *)

Values == (0 .. MaxCalls) \cup (SUBSET Calls) \cup [Accounts -> Registration]
Messages ==
    [kind : Kinds, about : Accounts \cup 0 .. MaxCalls,
     value : Values]
Commands == [name : Names, call : 0 .. MaxCalls]

LEMMA ValuesAre ==
    ASSUME NEW v, v \in 0 .. MaxCalls \/ v \in SUBSET Calls \/ v \in [Accounts -> Registration]
    PROVE  v \in Values
  BY DEF Values

\* What an event is about.
Sound(m) ==
    /\ m.kind \in {"ok", "error"} => m.about \in Accounts
    /\ m.kind \in {"incoming", "closed"} => m.about \in Calls

\* The parts of a stream are the stream.
LEMMA ReadInParts ==
    ASSUME NEW S, NEW s \in Seq(S), NEW n \in 1 .. Len(s)
    PROVE  /\ SubSeq(s, 1, n) \in Seq(S) /\ SubSeq(s, n + 1, Len(s)) \in Seq(S)
           /\ Len(SubSeq(s, 1, n)) = n
           /\ \A i \in 1 .. n : SubSeq(s, 1, n)[i] = s[i]
           /\ Len(SubSeq(s, n + 1, Len(s))) = Len(s) - n
           /\ \A i \in 1 .. Len(s) - n : SubSeq(s, n + 1, Len(s))[i] = s[n + i]
           /\ ToSet(s) = ToSet(SubSeq(s, 1, n)) \cup ToSet(SubSeq(s, n + 1, Len(s)))
  <1> DEFINE a == SubSeq(s, 1, n)
             b == SubSeq(s, n + 1, Len(s))
  <1>1. a \in Seq(S) /\ Len(a) = n /\ \A i \in 1 .. n : a[i] = s[i]
    BY SubSeqProperties
  <1>2. b \in Seq(S) /\ Len(b) = Len(s) - n /\ \A i \in 1 .. Len(s) - n : b[i] = s[n + i]
    BY SubSeqProperties
  <1>3. DOMAIN a = 1 .. n /\ DOMAIN b = 1 .. Len(s) - n /\ DOMAIN s = 1 .. Len(s)
    BY <1>1, <1>2, LenProperties
  <1>4. ToSet(s) \subseteq ToSet(a) \cup ToSet(b)
    <2> SUFFICES ASSUME NEW i \in 1 .. Len(s) PROVE s[i] \in ToSet(a) \cup ToSet(b)
      BY <1>3 DEF ToSet
    <2>1. CASE i <= n
      <3>1. i \in DOMAIN a /\ a[i] = s[i]
        BY <2>1, <1>1, <1>3
      <3> QED
        BY <3>1 DEF ToSet
    <2>2. CASE ~(i <= n)
      <3>1. i \in Nat /\ n \in Nat /\ i > n /\ i <= Len(s) /\ Len(s) \in Nat
        BY <2>2, LenProperties
      <3>2. i - n \in 1 .. Len(s) - n /\ n + (i - n) = i
        BY <3>1
      <3> DEFINE j == i - n
      <3> HIDE DEF j
      <3>3. j \in DOMAIN b /\ b[j] = s[i]
        BY <1>2, <1>3, <3>2 DEF j
      <3> QED
        BY <3>3 DEF ToSet
    <2> QED
      BY <2>1, <2>2
  <1>5. ToSet(a) \cup ToSet(b) \subseteq ToSet(s)
    <2>1. \A i \in DOMAIN a : i \in DOMAIN s /\ a[i] = s[i]
      BY <1>1, <1>3
    <2>2. \A i \in DOMAIN b : n + i \in DOMAIN s /\ b[i] = s[n + i]
      <3> SUFFICES ASSUME NEW i \in 1 .. Len(s) - n
                   PROVE  n + i \in 1 .. Len(s) /\ b[i] = s[n + i]
        BY <1>3
      <3>1. b[i] = s[n + i]
        BY <1>2
      <3>2. Len(s) \in Nat
        BY LenProperties
      <3> QED
        BY <3>1, <3>2
    <2> QED
      BY <2>1, <2>2 DEF ToSet
  <1> QED
    BY <1>1, <1>2, <1>4, <1>5

\* What is said is added to what was.
LEMMA SaidAfter ==
    ASSUME NEW S, NEW s \in Seq(S), NEW t \in Seq(S)
    PROVE  /\ s \o t \in Seq(S) /\ Len(s \o t) = Len(s) + Len(t)
           /\ \A i \in 1 .. Len(s) : (s \o t)[i] = s[i]
           /\ \A i \in 1 .. Len(t) : (s \o t)[Len(s) + i] = t[i]
           /\ ToSet(s \o t) = ToSet(s) \cup ToSet(t)
  <1> DEFINE c == s \o t
  <1>1. /\ c \in Seq(S) /\ Len(c) = Len(s) + Len(t)
        /\ \A i \in 1 .. Len(s) : c[i] = s[i]
        /\ \A i \in 1 .. Len(t) : c[Len(s) + i] = t[i]
    BY ConcatProperties
  <1>2. /\ DOMAIN c = 1 .. Len(c) /\ DOMAIN s = 1 .. Len(s) /\ DOMAIN t = 1 .. Len(t)
        /\ Len(s) \in Nat /\ Len(t) \in Nat
    BY <1>1, LenProperties
  <1>3. \A i \in DOMAIN s : i \in DOMAIN c /\ c[i] = s[i]
    BY <1>1, <1>2
  <1>4. \A i \in DOMAIN t : Len(s) + i \in DOMAIN c /\ c[Len(s) + i] = t[i]
    BY <1>1, <1>2
  <1>5. \A i \in DOMAIN c : i \in DOMAIN s \/ (i - Len(s) \in DOMAIN t /\ c[i] = t[i - Len(s)])
    <2> SUFFICES ASSUME NEW i \in 1 .. Len(c), ~(i <= Len(s))
                 PROVE  i - Len(s) \in 1 .. Len(t) /\ c[i] = t[i - Len(s)]
      BY <1>2
    <2>1. i - Len(s) \in 1 .. Len(t) /\ Len(s) + (i - Len(s)) = i
      BY <1>1, <1>2
    <2> QED
      BY <1>1, <2>1
  <1>6. ToSet(c) \subseteq ToSet(s) \cup ToSet(t)
    BY <1>5 DEF ToSet
  <1>7. ToSet(s) \cup ToSet(t) \subseteq ToSet(c)
    BY <1>3, <1>4 DEF ToSet
  <1> QED
    BY <1>1, <1>6, <1>7

\* A set of the numbers up to a bound that is not empty has a greatest.
LEMMA LastExists ==
    ASSUME NEW n \in Nat, NEW S, S \subseteq 1 .. n, S # {}
    PROVE  Max(S) \in S /\ \A i \in S : i <= Max(S)
  <1> DEFINE T == {n - i : i \in S}
  <1>1. T \subseteq Nat /\ T # {}
    <2>1. \A i \in S : n - i \in Nat
      OBVIOUS
    <2>2. PICK i \in S : TRUE
      OBVIOUS
    <2>3. n - i \in T
      OBVIOUS
    <2> QED
      BY <2>1, <2>3
  <1>2. PICK t \in T : \A u \in T : ~(<<u, t>> \in OpToRel(<, Nat))
    BY <1>1, NatLessThanWellFounded, WFMin, Zenon
  <1>3. \A u \in T : ~(u < t)
    BY <1>1, <1>2 DEF OpToRel
  <1>4. PICK m \in S : t = n - m
    OBVIOUS
  <1>5. \A i \in S : i <= m
    <2> SUFFICES ASSUME NEW i \in S, i > m PROVE FALSE
      OBVIOUS
    <2>1. n - i \in T /\ n - i < t
      BY <1>4
    <2> QED
      BY <1>3, <2>1
  <1>6. \A i \in S : m >= i
    BY <1>5
  <1>7. \E x \in S : \A y \in S : x >= y
    BY <1>6
  <1>8. Max(S) \in S /\ \A y \in S : Max(S) >= y
    BY <1>7 DEF Max
  <1> QED
    BY <1>8

\* The calls named, part by part.
LEMMA NamedInParts ==
    ASSUME NEW k, NEW S, NEW T
    PROVE  Named(k, S \cup T) = Named(k, S) \cup Named(k, T)
  BY DEF Named

LEMMA NamedInThree ==
    ASSUME NEW k, NEW A, NEW B, NEW C
    PROVE  /\ Named(k, (A \cup B) \cup C) = Named(k, A) \cup Named(k, B) \cup Named(k, C)
           /\ Named(k, A \cup (B \cup C)) = Named(k, A) \cup Named(k, B) \cup Named(k, C)
  BY DEF Named

\* A read's events are all of it but the answer.
LEMMA EventsNamed ==
    ASSUME NEW k, k \notin {"answer", "refusal"}, NEW chunk
    PROVE  Named(k, Events(chunk)) = Named(k, ToSet(chunk))
  BY DEF Named, Events, IsAnswer

\* Where the registration is lost after a read, some account of those read or heard
\* before is in error.
LEMMA LastHeard ==
    ASSUME NEW chunk \in Seq(Messages), \A m \in ToSet(chunk) : Sound(m),
           reported \in [Accounts -> Registration], LostWasSaid
    PROVE  /\ HeardReports(chunk) \in [Accounts -> Registration]
           /\ HeardRegistration(chunk) = "lost" => \E a \in Accounts : HeardReports(chunk)[a] = "error"
  <1> DEFINE R == Registrations(chunk)
             of(a) == {i \in R : chunk[i].about = a}
  <1>1. Len(chunk) \in Nat /\ R \subseteq 1 .. Len(chunk)
    BY LenProperties DEF Registrations
  <1>2. \A i \in R : chunk[i].kind \in {"ok", "error"}
    BY DEF Registrations
  <1>3. \A a \in Accounts : of(a) # {} =>
          /\ Max(of(a)) \in of(a) /\ \A i \in of(a) : i <= Max(of(a))
    BY <1>1, LastExists
  <1>4. HeardReports(chunk) = [a \in Accounts |->
            IF of(a) = {} THEN reported[a] ELSE chunk[Max(of(a))].kind]
    BY DEF HeardReports
  <1>5. HeardReports(chunk) \in [Accounts -> Registration]
    BY <1>2, <1>3, <1>4 DEF Registration
  <1>6. ASSUME HeardRegistration(chunk) = "lost"
        PROVE  \E a \in Accounts : HeardReports(chunk)[a] = "error"
    <2>1. CASE R = {}
      <3>1. registered = "lost"
        BY <1>6, <2>1 DEF HeardRegistration
      <3>2. PICK a \in Accounts : reported[a] = "error"
        BY <3>1 DEF LostWasSaid
      <3>3. of(a) = {}
        BY <2>1
      <3> QED
        BY <1>4, <3>2, <3>3
    <2>2. CASE R # {}
      <3> DEFINE i == Max(R)
      <3>1. i \in R /\ \A j \in R : j <= i
        BY <1>1, <2>2, LastExists
      <3>2. chunk[i].kind = "error"
        BY <1>2, <1>6, <2>2, <3>1 DEF HeardRegistration
      <3> DEFINE a == chunk[i].about
      <3>3. chunk[i] \in ToSet(chunk)
        BY <1>1, <3>1, LenProperties DEF ToSet
      <3>4. a \in Accounts
        BY <3>2, <3>3 DEF Sound
      <3>5. i \in of(a)
        BY <3>1
      <3>6. Max(of(a)) = i
        <4> DEFINE m == Max(of(a))
        <4>1. m \in of(a) /\ i <= m
          BY <1>3, <3>4, <3>5
        <4>2. m \in R /\ m <= i
          BY <3>1, <4>1
        <4>3. m \in Int /\ i \in Int
          BY <1>1, <3>1, <4>2
        <4>4. m = i
          <5> HIDE DEF m, i
          <5> QED
            BY <4>1, <4>2, <4>3
        <4> QED
          BY <4>4
      <3> QED
        BY <1>4, <3>2, <3>4, <3>5, <3>6
    <2> QED
      BY <2>1, <2>2
  <1> QED
    BY <1>5, <1>6

-------------------------------------------------------------------------------
(* The induction, for the link.                                             *)

\* What is kept at the user agent, on the wire and in the agent.
Elsewhere ==
    /\ uaUp \in BOOLEAN /\ made \in 0 .. MaxCalls /\ held \subseteq 1 .. made
    /\ news \in 0 .. MaxNews /\ breaks \in 0 .. MaxBreaks
    /\ truth \in [Accounts -> Registration]

Wired ==
    /\ broken \in BOOLEAN /\ asked \in Commands
    /\ stream \in Seq(Messages) /\ queue \subseteq Messages
    /\ \A m \in ToSet(stream) \cup queue : Sound(m)
    /\ \A m \in queue : ~IsAnswer(m)

Kept ==
    /\ sock \in {"open", "none"} /\ todo \in Seq({c \in Commands : c.name # "nothing"})
    /\ registered \in {"unknown", "registered", "lost"}
    /\ reported \in [Accounts -> Registration]
    /\ known \subseteq Calls /\ gone \subseteq Calls
    /\ wait \in 0 .. MaxGap /\ gap \in 1 .. MaxGap
    /\ synced \in BOOLEAN /\ started \in BOOLEAN

\* One command is under way, the first of what is left of its verb; till the calls were
\* listed that verb is one that ends by listing them.
Syncing ==
    {StartReading, Rereading, <<Plain("introspect"), Plain("listcalls")>>, <<Plain("listcalls")>>}
Turns ==
    /\ sock = "none" => todo = <<>> /\ stream = <<>> /\ ~broken /\ ~synced
    /\ sock = "open" => asked = Nothing \/ (todo # <<>> /\ asked = todo[1])
    /\ sock = "open" /\ ~synced => todo \in Syncing
    /\ \A i \in 1 .. Len(stream) : IsAnswer(stream[i]) => todo # <<>> /\ asked = Nothing
    /\ \A i, j \in 1 .. Len(stream) : IsAnswer(stream[i]) /\ IsAnswer(stream[j]) => i = j

\* An answer on its way is true of the calls but for what is said beside it.
Fits(name, value) ==
    /\ name = "reginfo" => value \in [Accounts -> Registration]
    /\ name = "listcalls" =>
          /\ value \subseteq Calls
          /\ ~broken => /\ held \subseteq value \cup Named("incoming", queue \cup ToSet(stream))
                        /\ value \subseteq held \cup Named("closed", queue \cup ToSet(stream))
    /\ name = "dial" =>
          /\ value \in Calls
          /\ ~broken => value \in held \cup Named("closed", queue \cup ToSet(stream))
Underway ==
    \A i \in 1 .. Len(stream) :
        /\ stream[i].kind = "answer" => Fits(todo[1].name, stream[i].value)
        /\ stream[i].kind = "refusal" => synced

\* A call told of on this connection is up, or its end was told of on it too.
Accounted ==
    sock = "open" /\ ~broken =>
        Named("incoming", queue \cup ToSet(stream)) \subseteq
            held \cup gone \cup Named("closed", queue \cup ToSet(stream))

LinkInv ==
    /\ Elsewhere /\ Wired /\ Kept /\ Turns /\ Underway /\ Accounted
    /\ NoCallIsMissed /\ LostWasSaid

LEMMA LinkInvInit == LinkInit => LinkInv
  <1> SUFFICES ASSUME LinkInit PROVE LinkInv
    OBVIOUS
  <1> USE UaLinkAssumption DEF LinkInit
  <1>1. Elsewhere
    BY DEF Elsewhere, Registration
  <1>2. ToSet(<<>>) = {} /\ Len(<<>>) = 0
    BY DEF ToSet
  <1>3. Wired
    <2>1. Nothing \in Commands
      BY DEF Commands, Names, Nothing
    <2>2. <<>> \in Seq(Messages)
      BY EmptySeq
    <2> QED
      BY <1>2, <2>1, <2>2 DEF Wired
  <1>4. Kept
    <2>1. <<>> \in Seq({c \in Commands : c.name # "nothing"})
      BY EmptySeq
    <2>2. 0 \in 0 .. MaxGap /\ 1 \in 1 .. MaxGap
      OBVIOUS
    <2>3. reported \in [Accounts -> Registration]
      BY DEF Registration
    <2> QED
      BY <2>1, <2>2, <2>3 DEF Kept
  <1>5. Turns /\ Underway
    BY <1>2 DEF Turns, Underway
  <1>6. NoCallIsMissed /\ LostWasSaid /\ Accounted
    BY DEF NoCallIsMissed, LostWasSaid, Accounted
  <1> QED
    BY <1>1, <1>3, <1>4, <1>5, <1>6 DEF LinkInv

\* The invariant is its parts' type invariant.
LEMMA LinkInvTypes == LinkInv => LinkTypeOK
  <1> SUFFICES ASSUME LinkInv PROVE LinkTypeOK
    OBVIOUS
  <1> USE DEF LinkInv
  <1>1. \A m \in ToSet(stream) : m \in Messages
    BY DEF Wired, ToSet
  <1>2. \A c \in ToSet(todo) : c.name \in Names \ {"nothing"}
    BY DEF Kept, ToSet, Commands
  <1>3. Idle => synced /\ asked = Nothing
    BY DEF Idle, Turns, Kept, Syncing, StartReading, Rereading
  <1>4. Waiting => asked \in {todo[1], Nothing}
    BY DEF Waiting, Turns
  <1> QED
    BY <1>1, <1>2, <1>3, <1>4 DEF LinkTypeOK, Elsewhere, Wired, Kept, Turns, Messages, Commands

\* Nothing of it changes.
LEMMA LinkUntouched == LinkInv /\ UNCHANGED linkVars => LinkInv'
  BY DEF LinkInv, Elsewhere, Wired, Kept, Turns, Underway, Fits, Accounted, NoCallIsMissed, LostWasSaid,
         linkVars, userAgent, wire, heardOf, link, backOff, Sound, IsAnswer, Named

-------------------------------------------------------------------------------
(* The user agent's steps.                                                  *)

\* What it says beside an answer changes what is unread and what it holds together.
LEMMA Speaks ==
    ASSUME LinkInv, Elsewhere',
           NEW ms \in Seq(Messages), \A m \in ToSet(ms) : Sound(m) /\ ~IsAnswer(m), Tell(ms),
           held' \subseteq held \cup Named("incoming", ToSet(ms)),
           held \subseteq held' \cup Named("closed", ToSet(ms)),
           Named("incoming", ToSet(ms)) \subseteq held',
           UNCHANGED <<broken, asked, link, heardOf, reported>>
    PROVE  LinkInv'
  <1> USE DEF LinkInv, link, heardOf, backOff
  <1>1. Kept' /\ LostWasSaid'
    BY DEF Kept, LostWasSaid
  <1>2. CASE sock = "open" /\ ~broken
    <2>1. stream' = stream \o ms
      BY <1>2 DEF Tell
    <2>2. /\ stream' \in Seq(Messages) /\ Len(stream') = Len(stream) + Len(ms)
          /\ \A i \in 1 .. Len(stream) : stream'[i] = stream[i]
          /\ \A i \in 1 .. Len(ms) : stream'[Len(stream) + i] = ms[i]
          /\ ToSet(stream') = ToSet(stream) \cup ToSet(ms)
      BY <2>1, SaidAfter DEF Wired
    <2>3. \A i \in 1 .. Len(stream') :
             IsAnswer(stream'[i]) => i \in 1 .. Len(stream) /\ stream'[i] = stream[i]
      <3> SUFFICES ASSUME NEW i \in 1 .. Len(stream'), i > Len(stream)
                   PROVE  ~IsAnswer(stream'[i])
        BY <2>2, LenProperties DEF Wired
      <3>1. Len(stream) \in Nat /\ Len(ms) \in Nat
        BY LenProperties DEF Wired
      <3>2. i - Len(stream) \in 1 .. Len(ms) /\ i = Len(stream) + (i - Len(stream))
        BY <2>2, <3>1
      <3>3. stream'[i] = ms[i - Len(stream)]
        BY <2>2, <3>2
      <3>4. ms[i - Len(stream)] \in ToSet(ms)
        BY <3>2, LenProperties DEF ToSet
      <3> QED
        BY <3>3, <3>4
    <2>4. Wired'
      BY <2>2 DEF Wired, Sound, IsAnswer
    <2>5. Turns'
      BY <1>2, <2>3 DEF Turns, IsAnswer
    <2>6. \A k : Named(k, ToSet(stream')) = Named(k, ToSet(stream)) \cup Named(k, ToSet(ms))
      BY <2>2, NamedInParts
    <2>7. Underway'
      <3>1. \A i \in 1 .. Len(stream') : stream'[i].kind \in {"answer", "refusal"} =>
               i \in 1 .. Len(stream) /\ stream'[i] = stream[i]
        BY <2>3 DEF IsAnswer
      <3>2. \A k : Named(k, queue \cup ToSet(stream')) =
                       Named(k, queue \cup ToSet(stream)) \cup Named(k, ToSet(ms))
        BY <2>2 DEF Named
      <3> QED
        BY <1>2, <3>1, <3>2 DEF Underway, Fits
    <2>8. NoCallIsMissed'
      <3> DEFINE D == {m.value : m \in {x \in ToSet(stream) :
                                            x.kind = "answer" /\ todo[1].name = "dial"}}
                 E == {m.value : m \in {x \in ToSet(stream)' :
                                            x.kind = "answer" /\ todo[1].name = "dial"}}
      <3> SUFFICES ASSUME synced
                   PROVE  /\ held' \subseteq known \cup Named("incoming", queue \cup ToSet(stream')) \cup E
                          /\ known \ gone \subseteq held' \cup Named("closed", queue \cup ToSet(stream'))
        BY DEF NoCallIsMissed
      <3>1. /\ held \subseteq known \cup Named("incoming", queue \cup ToSet(stream)) \cup D
            /\ known \ gone \subseteq held \cup Named("closed", queue \cup ToSet(stream))
        BY <1>2 DEF NoCallIsMissed
      <3>2. D \subseteq E
        BY <2>2
      <3>3. \A k : Named(k, queue \cup ToSet(stream')) =
                       Named(k, queue \cup ToSet(stream)) \cup Named(k, ToSet(ms))
        BY <2>2 DEF Named
      <3> HIDE DEF D, E
      <3> QED
        BY <3>1, <3>2, <3>3
    <2>9. Accounted'
      <3>1. \A k : Named(k, queue \cup ToSet(stream')) =
                       Named(k, queue \cup ToSet(stream)) \cup Named(k, ToSet(ms))
        BY <2>2 DEF Named
      <3> QED
        BY <1>2, <3>1 DEF Accounted
    <2> QED
      BY <1>1, <2>4, <2>5, <2>7, <2>8, <2>9
  <1>3. CASE ~(sock = "open" /\ ~broken)
    <2>1. stream' = stream
      BY <1>3 DEF Tell
    <2>2. Wired' /\ Turns'
      BY <2>1 DEF Wired, Turns, Sound, IsAnswer
    <2>3. CASE broken
      <3>1. Underway' /\ NoCallIsMissed' /\ Accounted'
        BY <2>1, <2>3 DEF Underway, Fits, NoCallIsMissed, Accounted
      <3> QED
        BY <1>1, <2>2, <3>1
    <2>4. CASE sock # "open"
      <3>1. Len(stream) = 0
        BY <2>4 DEF Turns, Kept
      <3>2. Underway' /\ NoCallIsMissed' /\ Accounted'
        BY <2>1, <2>4, <3>1 DEF Underway, NoCallIsMissed, Accounted
      <3> QED
        BY <1>1, <2>2, <3>2
    <2> QED
      BY <1>3, <2>3, <2>4
  <1> QED
    BY <1>2, <1>3

\* One message of its own accord.
LEMMA SaysOne ==
    ASSUME NEW m
    PROVE  ToSet(<<m>>) = {m} /\ \A k : Named(k, ToSet(<<m>>)) = IF m.kind = k THEN {m.about} ELSE {}
  <1>1. ToSet(<<m>>) = {m}
    BY DEF ToSet
  <1> QED
    BY <1>1 DEF Named

LEMMA LinkCallComes == LinkInv /\ CallComes => LinkInv'
  <1> SUFFICES ASSUME LinkInv, CallComes PROVE LinkInv'
    OBVIOUS
  <1> USE UaLinkAssumption
  <1> DEFINE m == Says("incoming", made + 1)
  <1>1. made + 1 \in 1 .. MaxCalls
    BY DEF LinkInv, Elsewhere, CallComes
  <1>2. m \in Messages /\ Sound(m) /\ ~IsAnswer(m) /\ m.kind = "incoming" /\ m.about = made + 1
    BY <1>1 DEF Messages, Values, Kinds, Says, Message, Sound, IsAnswer, Calls
  <1>3. Elsewhere'
    BY <1>1 DEF LinkInv, Elsewhere, CallComes
  <1>4. <<m>> \in Seq(Messages)
    BY <1>2
  <1>5. ToSet(<<m>>) = {m} /\ Named("incoming", ToSet(<<m>>)) = {made + 1}
    BY <1>2, SaysOne
  <1>6. Tell(<<m>>) /\ held' = held \cup {made + 1} /\ UNCHANGED <<broken, asked, link, heardOf, reported>>
    BY DEF CallComes
  <1> HIDE DEF m
  <1>7. held' \subseteq held \cup Named("incoming", ToSet(<<m>>)) /\ held \subseteq held' \cup Named("closed", ToSet(<<m>>))
    BY <1>5, <1>6
  <1>8. Named("incoming", ToSet(<<m>>)) \subseteq held'
    BY <1>5, <1>6
  <1> QED
    BY <1>2, <1>3, <1>4, <1>5, <1>6, <1>7, <1>8, Speaks

LEMMA LinkCallEnds == LinkInv /\ CallEnds => LinkInv'
  <1> SUFFICES ASSUME LinkInv, CallEnds PROVE LinkInv'
    OBVIOUS
  <1> USE UaLinkAssumption
  <1>0. PICK c \in held : held' = held \ {c} /\ Tell(<<Says("closed", c)>>)
    BY DEF CallEnds
  <1> DEFINE m == Says("closed", c)
  <1>1. c \in 1 .. MaxCalls
    BY DEF LinkInv, Elsewhere
  <1>2. m \in Messages /\ Sound(m) /\ ~IsAnswer(m) /\ m.kind = "closed" /\ m.about = c
    BY <1>1 DEF Messages, Values, Kinds, Says, Message, Sound, IsAnswer, Calls
  <1>3. Elsewhere'
    BY <1>0 DEF LinkInv, Elsewhere, CallEnds
  <1>4. <<m>> \in Seq(Messages)
    BY <1>2
  <1>5. ToSet(<<m>>) = {m} /\ Named("closed", ToSet(<<m>>)) = {c}
    BY <1>2, SaysOne
  <1>6. Tell(<<m>>) /\ UNCHANGED <<broken, asked, link, heardOf, reported>>
    BY <1>0 DEF CallEnds
  <1> HIDE DEF m
  <1>7. held' \subseteq held \cup Named("incoming", ToSet(<<m>>)) /\ held \subseteq held' \cup Named("closed", ToSet(<<m>>))
    BY <1>0, <1>5
  <1>8. Named("incoming", ToSet(<<m>>)) = {}
    BY <1>2, <1>5 DEF Named
  <1> QED
    BY <1>2, <1>3, <1>4, <1>5, <1>6, <1>7, <1>8, Speaks

LEMMA LinkRegisters == LinkInv /\ Registers => LinkInv'
  <1> SUFFICES ASSUME LinkInv, Registers PROVE LinkInv'
    OBVIOUS
  <1> USE UaLinkAssumption
  <1>0. PICK a \in Accounts, came \in {"ok", "error"} :
           truth' = [truth EXCEPT ![a] = came] /\ Tell(<<Says(came, a)>>)
    BY DEF Registers
  <1> DEFINE m == Says(came, a)
  <1>2. m \in Messages /\ Sound(m) /\ ~IsAnswer(m) /\ m.kind # "incoming"
    BY DEF Messages, Values, Kinds, Says, Message, Sound, IsAnswer
  <1>3. Elsewhere'
    BY <1>0 DEF LinkInv, Elsewhere, Registers, Registration
  <1>4. <<m>> \in Seq(Messages)
    BY <1>2
  <1>5. ToSet(<<m>>) = {m}
    BY SaysOne
  <1>6. Tell(<<m>>) /\ held' = held /\ UNCHANGED <<broken, asked, link, heardOf, reported>>
    BY <1>0 DEF Registers
  <1> HIDE DEF m
  <1>7. Named("incoming", ToSet(<<m>>)) = {}
    BY <1>2, <1>5 DEF Named
  <1> QED
    BY <1>2, <1>3, <1>4, <1>5, <1>6, <1>7, Speaks

LEMMA NothingIsCommand == Nothing \in Commands
  BY UaLinkAssumption DEF Nothing, Commands, Names

\* An answer to the command under way, the one answer unread, and what is said beside it.
LEMMA Replies ==
    ASSUME LinkInv, Elsewhere', sock = "open", ~broken, asked # Nothing, asked' = Nothing,
           NEW ms \in Seq(Messages), \A m \in ToSet(ms) : Sound(m),
           NEW k \in 1 .. Len(ms), IsAnswer(ms[k]), \A i \in 1 .. Len(ms) : IsAnswer(ms[i]) => i = k,
           stream' = stream \o ms,
           held \subseteq held' \cup Named("closed", ToSet(ms)),
           Named("incoming", ToSet(ms)) = {},
           held' \subseteq held \cup {c \in {ms[k].value} : ms[k].kind = "answer" /\ asked.name = "dial"},
           ms[k].kind = "refusal" => synced,
           ms[k].kind = "answer" =>
              /\ asked.name = "reginfo" => ms[k].value \in [Accounts -> Registration]
              /\ asked.name = "listcalls" => ms[k].value = held /\ held' = held
              /\ asked.name = "dial" => ms[k].value \in held',
           UNCHANGED <<broken, link, heardOf, reported>>
    PROVE  LinkInv'
  <1> USE DEF LinkInv, link, heardOf, backOff
  <1>1. Kept' /\ LostWasSaid'
    BY DEF Kept, LostWasSaid
  <1>2. todo # <<>> /\ asked = todo[1] /\ \A i \in 1 .. Len(stream) : ~IsAnswer(stream[i])
    BY DEF Turns
  <1>3. /\ stream' \in Seq(Messages) /\ Len(stream') = Len(stream) + Len(ms)
        /\ \A i \in 1 .. Len(stream) : stream'[i] = stream[i]
        /\ \A i \in 1 .. Len(ms) : stream'[Len(stream) + i] = ms[i]
        /\ ToSet(stream') = ToSet(stream) \cup ToSet(ms)
    BY SaidAfter DEF Wired
  <1>4. \A i \in 1 .. Len(stream') :
           IsAnswer(stream'[i]) => i = Len(stream) + k /\ stream'[i] = ms[k]
    <2> SUFFICES ASSUME NEW i \in 1 .. Len(stream'), IsAnswer(stream'[i])
                 PROVE  i = Len(stream) + k /\ stream'[i] = ms[k]
      OBVIOUS
    <2>1. Len(stream) \in Nat /\ Len(ms) \in Nat
      BY LenProperties DEF Wired
    <2>2. ~(i <= Len(stream))
      BY <1>2, <1>3, <2>1
    <2>3. i - Len(stream) \in 1 .. Len(ms) /\ i = Len(stream) + (i - Len(stream))
      BY <1>3, <2>1, <2>2
    <2>4. stream'[i] = ms[i - Len(stream)]
      BY <1>3, <2>3
    <2>5. i - Len(stream) = k
      BY <2>3, <2>4
    <2> QED
      BY <2>3, <2>4, <2>5
  <1>5. ms[k] \in ToSet(ms)
    BY LenProperties DEF ToSet
  <1>6. Wired'
    <2>1. asked' \in Commands
      BY NothingIsCommand
    <2> QED
      BY <1>3, <2>1 DEF Wired, Sound, IsAnswer
  <1>7. Turns'
    <2>1. \A i, j \in 1 .. Len(stream') : IsAnswer(stream'[i]) /\ IsAnswer(stream'[j]) => i = j
      BY <1>4
    <2> QED
      BY <1>2, <2>1 DEF Turns, IsAnswer
  <1>8. \A n : Named(n, ToSet(stream')) = Named(n, ToSet(stream)) \cup Named(n, ToSet(ms))
    BY <1>3 DEF Named
  <1>9. Underway'
    <2>1. \A i \in 1 .. Len(stream') :
             stream'[i].kind \in {"answer", "refusal"} => stream'[i] = ms[k]
      BY <1>4 DEF IsAnswer
    <2>2. held \subseteq Calls /\ held' \subseteq Calls
      BY UaLinkAssumption DEF Elsewhere, Calls
    <2>3. ASSUME ms[k].kind = "answer"
          PROVE  /\ todo[1].name = "reginfo" => ms[k].value \in [Accounts -> Registration]
                 /\ todo[1].name = "listcalls" => ms[k].value = held /\ held' = held
                 /\ todo[1].name = "dial" => ms[k].value \in held'
      BY <1>2, <2>3
    <2> QED
      BY <2>1, <2>2, <2>3 DEF Underway, Fits
  <1>10. NoCallIsMissed'
    <2> DEFINE D == {m.value : m \in {x \in ToSet(stream) :
                                          x.kind = "answer" /\ todo[1].name = "dial"}}
               E == {m.value : m \in {x \in ToSet(stream)' :
                                          x.kind = "answer" /\ todo[1].name = "dial"}}
    <2>0. UNCHANGED <<sock, todo, queue, known, gone, synced>>
      OBVIOUS
    <2> HIDE DEF LinkInv, link, heardOf
    <2> SUFFICES ASSUME synced
                 PROVE  /\ held' \subseteq known \cup Named("incoming", queue \cup ToSet(stream')) \cup E
                        /\ known \ gone \subseteq held' \cup Named("closed", queue \cup ToSet(stream'))
      BY <2>0 DEF NoCallIsMissed
    <2> USE DEF LinkInv
    <2>1. /\ held \subseteq known \cup Named("incoming", queue \cup ToSet(stream)) \cup D
          /\ known \ gone \subseteq held \cup Named("closed", queue \cup ToSet(stream))
      BY DEF NoCallIsMissed
    <2>2. D \subseteq E
      BY <1>3
    <2>3. \A n : Named(n, queue \cup ToSet(stream')) =
                     Named(n, queue \cup ToSet(stream)) \cup Named(n, ToSet(ms))
      BY <1>3 DEF Named
    <2>4. {c \in {ms[k].value} : ms[k].kind = "answer" /\ asked.name = "dial"} \subseteq E
      BY <1>2, <1>3, <1>5
    <2> HIDE DEF D, E
    <2> QED
      BY <2>1, <2>2, <2>3, <2>4
  <1>11. Accounted'
    <2>1. \A n : Named(n, queue \cup ToSet(stream')) =
                     Named(n, queue \cup ToSet(stream)) \cup Named(n, ToSet(ms))
      BY <1>3 DEF Named
    <2>2. UNCHANGED <<sock, queue, gone, broken>>
      OBVIOUS
    <2>3. /\ held \subseteq held' \cup Named("closed", ToSet(ms))
          /\ Named("incoming", ToSet(ms)) = {}
      OBVIOUS
    <2>4. Accounted
      OBVIOUS
    <2> HIDE DEF LinkInv, link, heardOf
    <2> SUFFICES ASSUME sock = "open", ~broken
                 PROVE  Named("incoming", queue \cup ToSet(stream')) \subseteq
                            held' \cup gone \cup Named("closed", queue \cup ToSet(stream'))
      BY <2>2 DEF Accounted
    <2>5. Named("incoming", queue \cup ToSet(stream)) \subseteq
              held \cup gone \cup Named("closed", queue \cup ToSet(stream))
      BY <2>4 DEF Accounted
    <2>6. Named("incoming", queue \cup ToSet(stream')) = Named("incoming", queue \cup ToSet(stream))
      BY <2>1, <2>3
    <2>7. Named("closed", queue \cup ToSet(stream')) =
              Named("closed", queue \cup ToSet(stream)) \cup Named("closed", ToSet(ms))
      BY <2>1
    <2> QED
      BY <2>3, <2>5, <2>6, <2>7
  <1> QED
    BY <1>1, <1>6, <1>7, <1>9, <1>10, <1>11

\* Nobody hears the answer: the socket is closed here.
LEMMA RepliesUnheard ==
    ASSUME LinkInv, Elsewhere', sock # "open", asked' = Nothing,
           UNCHANGED <<broken, stream, link, heardOf, reported>>
    PROVE  LinkInv'
  <1> USE DEF LinkInv, link, heardOf, backOff
  <1>1. Len(stream) = 0
    BY DEF Turns, Kept
  <1>2. asked' \in Commands
    BY NothingIsCommand
  <1>3. Kept' /\ LostWasSaid' /\ NoCallIsMissed' /\ Accounted'
    BY DEF Kept, LostWasSaid, NoCallIsMissed, Accounted
  <1>4. Wired' /\ Turns'
    BY <1>1, <1>2 DEF Wired, Turns, Sound, IsAnswer
  <1>5. Underway'
    BY <1>1 DEF Underway
  <1> QED
    BY <1>3, <1>4, <1>5

\* One answer alone.
LEMMA RepliesOne ==
    ASSUME LinkInv, Elsewhere', asked # Nothing, asked' = Nothing, ~broken,
           NEW m \in Messages, IsAnswer(m), Tell(<<m>>),
           held' \subseteq held \cup {c \in {m.value} : m.kind = "answer" /\ asked.name = "dial"},
           held \subseteq held',
           m.kind = "refusal" /\ sock = "open" => synced,
           m.kind = "answer" =>
              /\ asked.name = "reginfo" => m.value \in [Accounts -> Registration]
              /\ asked.name = "listcalls" => m.value = held /\ held' = held
              /\ asked.name = "dial" => m.value \in held',
           UNCHANGED <<broken, link, heardOf, reported>>
    PROVE  LinkInv'
  <1> DEFINE ms == <<m>>
  <1>1. /\ ms \in Seq(Messages) /\ Len(ms) = 1 /\ ms[1] = m
        /\ ToSet(ms) = {m}
    BY DEF ToSet
  <1>2. Sound(m)
    BY DEF Sound, IsAnswer
  <1>3. CASE sock = "open"
    <2>1. stream' = stream \o ms
      BY <1>3 DEF Tell
    <2> HIDE DEF ms
    <2>2. 1 \in 1 .. Len(ms) /\ \A i \in 1 .. Len(ms) : IsAnswer(ms[i]) => i = 1
      BY <1>1
    <2>3. held \subseteq held' \cup Named("closed", ToSet(ms))
      OBVIOUS
    <2>4. held' \subseteq held \cup {c \in {ms[1].value} : ms[1].kind = "answer" /\ asked.name = "dial"}
      BY <1>1
    <2>5. Named("incoming", ToSet(ms)) = {}
      BY <1>1 DEF Named, IsAnswer
    <2> QED
      BY <1>1, <1>2, <1>3, <2>1, <2>2, <2>3, <2>4, <2>5, Replies
  <1>4. CASE sock # "open"
    BY <1>4, RepliesUnheard DEF Tell
  <1> QED
    BY <1>3, <1>4

\* While the calls were not listed, no command is under way that can be refused.
LEMMA RefusedOnceSynced ==
    ASSUME LinkInv, sock = "open", asked # Nothing,
           asked.call # 0 \/ asked.name = "dial"
    PROVE  synced
  BY DEF LinkInv, Turns, Syncing, StartReading, Rereading, Plain, Command

LEMMA LinkCarryOut == LinkInv /\ CarryOut => LinkInv'
  <1> SUFFICES ASSUME LinkInv, CarryOut PROVE LinkInv'
    OBVIOUS
  <1> USE UaLinkAssumption
  <1>1. /\ ~broken /\ asked # Nothing /\ asked' = Nothing
        /\ UNCHANGED <<uaUp, news, breaks, truth, broken, link, heardOf, reported>>
    BY DEF CarryOut
  <1>2. ASSUME UNCHANGED <<held, made>>, Tell(<<Refusal>>), asked.call # 0 \/ asked.name = "dial"
        PROVE  LinkInv'
    <2>1. Refusal \in Messages /\ IsAnswer(Refusal) /\ Refusal.kind = "refusal"
      BY DEF Refusal, Says, Message, Messages, Values, Kinds, IsAnswer
    <2>2. Elsewhere'
      BY <1>1, <1>2 DEF LinkInv, Elsewhere
    <2>3. sock = "open" => synced
      BY <1>1, <1>2, RefusedOnceSynced
    <2> HIDE DEF Refusal
    <2> QED
      BY <1>1, <1>2, <2>1, <2>2, <2>3, RepliesOne
  <1>3. ASSUME NEW v \in Values,
               UNCHANGED <<held, made>>, Tell(<<Answer(v)>>), asked.name # "dial",
               asked.name = "reginfo" => v \in [Accounts -> Registration],
               asked.name = "listcalls" => v = held
        PROVE  LinkInv'
    <2>1. /\ Answer(v) \in Messages /\ IsAnswer(Answer(v)) /\ Answer(v).kind = "answer"
          /\ Answer(v).value = v
      BY DEF Answer, Message, Messages, Kinds, IsAnswer
    <2>2. Elsewhere'
      BY <1>1, <1>3 DEF LinkInv, Elsewhere
    <2> HIDE DEF Answer
    <2> QED
      BY <1>1, <1>3, <2>1, <2>2, RepliesOne
  <1>4. CASE asked.name = "reginfo" /\ Tell(<<Answer(truth)>>) /\ UNCHANGED <<held, made>>
    <2>1. truth \in [Accounts -> Registration]
      BY DEF LinkInv, Elsewhere
    <2>2. truth \in Values
      BY <2>1, ValuesAre
    <2> QED
      BY <1>3, <1>4, <2>1, <2>2
  <1>5. CASE asked.name = "listcalls" /\ Tell(<<Answer(held)>>) /\ UNCHANGED <<held, made>>
    <2>1. held \in SUBSET Calls
      BY DEF LinkInv, Elsewhere, Calls
    <2>2. held \in Values
      BY <2>1, ValuesAre
    <2> QED
      BY <1>3, <1>5, <2>1, <2>2
  <1>6. CASE /\ asked.name = "dial" /\ made < MaxCalls
             /\ made' = made + 1 /\ held' = held \cup {made + 1}
             /\ Tell(<<Answer(made + 1)>>)
    <2> DEFINE m == Answer(made + 1)
    <2>1. made + 1 \in 1 .. MaxCalls
      BY <1>6 DEF LinkInv, Elsewhere
    <2>2. made + 1 \in Values
      <3>1. made + 1 \in 0 .. MaxCalls
        BY <2>1
      <3> QED
        BY <3>1, ValuesAre
    <2>3. m \in Messages /\ IsAnswer(m) /\ m.kind = "answer" /\ m.value = made + 1
      BY <2>2 DEF Answer, Message, Messages, Kinds, IsAnswer
    <2>4. Elsewhere'
      BY <1>1, <1>6, <2>1 DEF LinkInv, Elsewhere
    <2>5. Tell(<<m>>)
      BY <1>6
    <2> HIDE DEF m
    <2>6. /\ held' \subseteq held \cup {c \in {m.value} : m.kind = "answer" /\ asked.name = "dial"}
          /\ held \subseteq held' /\ m.value \in held'
      BY <1>6, <2>3
    <2> QED
      BY <1>1, <1>6, <2>3, <2>4, <2>5, <2>6, RepliesOne
  <1> DEFINE c == asked.call
  <1>7. CASE /\ asked.name = "dial" \/ (c # 0 /\ c \notin held)
             /\ Tell(<<Refusal>>) /\ UNCHANGED <<held, made>>
    BY <1>2, <1>7
  <1>8. CASE /\ asked.name = "hangup" /\ c \in held /\ held' = held \ {c} /\ UNCHANGED made
             /\ \E said \in {<<Answer(0), Says("closed", c)>>, <<Says("closed", c), Answer(0)>>} :
                   Tell(said)
    <2>1. held' = held \ {c} /\ made' = made
      BY <1>8
    <2>2. PICK said \in {<<Answer(0), Says("closed", c)>>, <<Says("closed", c), Answer(0)>>} :
             Tell(said)
      BY <1>8
    <2>3. Elsewhere'
      BY <1>1, <2>1 DEF LinkInv, Elsewhere
    <2>4. c \in Calls
      <3>1. held \subseteq Calls
        BY DEF LinkInv, Elsewhere, Calls
      <3> QED
        BY <1>8, <3>1
    <2>5. /\ Answer(0) \in Messages /\ IsAnswer(Answer(0)) /\ Answer(0).kind = "answer"
          /\ Sound(Answer(0))
      BY DEF Answer, Message, Messages, Values, Kinds, IsAnswer, Sound
    <2>6. /\ Says("closed", c) \in Messages /\ ~IsAnswer(Says("closed", c)) /\ Sound(Says("closed", c))
          /\ Says("closed", c).kind = "closed" /\ Says("closed", c).about = c
      BY <2>4 DEF Says, Message, Messages, Values, Kinds, IsAnswer, Sound, Calls
    <2> HIDE DEF c
    <2>7. /\ said \in Seq(Messages) /\ Len(said) = 2 /\ ToSet(said) = {Answer(0), Says("closed", c)}
          /\ \/ said[1] = Answer(0) /\ said[2] = Says("closed", c)
             \/ said[2] = Answer(0) /\ said[1] = Says("closed", c)
      <3>1. ASSUME NEW x \in Messages, NEW y \in Messages
            PROVE  /\ <<x, y>> \in Seq(Messages) /\ Len(<<x, y>>) = 2
                   /\ ToSet(<<x, y>>) = {x, y} /\ <<x, y>>[1] = x /\ <<x, y>>[2] = y
        BY DEF ToSet
      <3>2. \/ said = <<Answer(0), Says("closed", c)>>
            \/ said = <<Says("closed", c), Answer(0)>>
        BY <2>2
      <3> DEFINE x == Answer(0)
                 y == Says("closed", c)
      <3>3. said = <<x, y>> \/ said = <<y, x>>
        BY <3>2
      <3>4. x \in Messages /\ y \in Messages
        BY <2>5, <2>6
      <3>5. {x, y} = {y, x}
        OBVIOUS
      <3> HIDE DEF x, y
      <3>6. /\ said \in Seq(Messages) /\ Len(said) = 2 /\ ToSet(said) = {x, y}
            /\ (said[1] = x /\ said[2] = y) \/ (said[2] = x /\ said[1] = y)
        <4>1. CASE said = <<x, y>>
          BY <3>1, <3>4, <4>1
        <4>2. CASE said = <<y, x>>
          BY <3>1, <3>4, <3>5, <4>2
        <4> QED
          BY <3>3, <4>1, <4>2
      <3> QED
        BY <3>6 DEF x, y
    <2>8. PICK k \in 1 .. Len(said) :
             said[k] = Answer(0) /\ \A i \in 1 .. Len(said) : IsAnswer(said[i]) => i = k
      BY <2>5, <2>6, <2>7
    <2>9. c \in Named("closed", ToSet(said))
      BY <2>6, <2>7 DEF Named
    <2>10. CASE sock = "open"
      <3>1. stream' = stream \o said
        BY <1>1, <2>2, <2>10 DEF Tell
      <3>2. \A m \in ToSet(said) : Sound(m)
        BY <2>5, <2>6, <2>7
      <3>3. held \subseteq held' \cup Named("closed", ToSet(said)) /\ held' \subseteq held
        BY <2>1, <2>9
      <3>4. IsAnswer(said[k]) /\ said[k].kind = "answer"
        BY <2>5, <2>8
      <3>5. held' \subseteq held
                \cup {x \in {said[k].value} : said[k].kind = "answer" /\ asked.name = "dial"}
        BY <3>3
      <3>6. Named("incoming", ToSet(said)) = {}
        BY <2>5, <2>6, <2>7 DEF Named
      <3> QED
        BY <1>1, <1>8, <2>3, <2>7, <2>8, <2>10, <3>1, <3>2, <3>3, <3>4, <3>5, <3>6, Replies
    <2>11. CASE sock # "open"
      BY <1>1, <2>2, <2>3, <2>11, RepliesUnheard DEF Tell
    <2> QED
      BY <2>10, <2>11
  <1>9. CASE /\ asked.name \in {"introspect", "select", "drive"} /\ c \in held \cup {0}
             /\ Tell(<<Answer(0)>>) /\ UNCHANGED <<held, made>>
    <2>1. 0 \in Values
      <3>1. 0 \in 0 .. MaxCalls
        OBVIOUS
      <3> QED
        BY <3>1, ValuesAre
    <2> QED
      BY <1>3, <1>9, <2>1
  <1> QED
    BY <1>4, <1>5, <1>6, <1>7, <1>8, <1>9, Zenon DEF CarryOut

LEMMA LinkConnectionBreaks == LinkInv /\ ConnectionBreaks => LinkInv'
  <1> SUFFICES ASSUME LinkInv, ConnectionBreaks PROVE LinkInv'
    OBVIOUS
  <1> USE UaLinkAssumption DEF LinkInv, link, heardOf, backOff
  <1>1. /\ breaks < MaxBreaks /\ breaks' = breaks + 1 /\ broken' = (sock = "open") /\ asked' = Nothing
        /\ UNCHANGED <<made, news, stream, link, heardOf, reported>>
    BY DEF ConnectionBreaks
  <1>2. /\ uaUp' \in BOOLEAN /\ held' \subseteq held /\ truth' \in [Accounts -> Registration]
    BY DEF ConnectionBreaks, Elsewhere, Registration
  <1>3. Elsewhere'
    BY <1>1, <1>2 DEF Elsewhere
  <1>4. asked' \in Commands
    BY <1>1, NothingIsCommand
  <1>5. Wired' /\ Kept' /\ Turns'
    BY <1>1, <1>4 DEF Wired, Kept, Turns, Sound, IsAnswer
  <1>6. NoCallIsMissed' /\ LostWasSaid' /\ Accounted'
    BY <1>1 DEF NoCallIsMissed, LostWasSaid, Accounted
  <1>7. Underway'
    <2>1. CASE sock = "open"
      BY <1>1, <2>1 DEF Underway, Fits
    <2>2. CASE sock # "open"
      <3>1. Len(stream') = 0
        BY <1>1, <2>2 DEF Turns, Kept
      <3> QED
        BY <3>1 DEF Underway
    <2> QED
      BY <2>1, <2>2
  <1> QED
    BY <1>3, <1>5, <1>6, <1>7

LEMMA LinkComesUp == LinkInv /\ ComesUp => LinkInv'
  BY DEF LinkInv, ComesUp, Elsewhere, Wired, Kept, Turns, Underway, Fits, Accounted, NoCallIsMissed, LostWasSaid,
         wire, heardOf, link, backOff, Sound, IsAnswer, Named

-------------------------------------------------------------------------------
(* The agent's steps.                                                       *)

LEMMA RetryScheduled == LinkInv /\ ScheduleRetry => wait' \in 0 .. MaxGap /\ gap' \in 1 .. MaxGap
  BY UaLinkAssumption DEF LinkInv, Kept, ScheduleRetry

\* A connection that is lost takes what was unread with it, and what was known stays.
LEMMA Loses ==
    ASSUME LinkInv, Elsewhere', Lost, asked' \in {asked, Nothing},
           queue' \subseteq queue \cup Events(stream),
           registered' \in {"unknown", "registered", "lost"},
           reported' \in [Accounts -> Registration], LostWasSaid',
           UNCHANGED <<known, gone, started>>
    PROVE  LinkInv'
  <1> USE DEF LinkInv
  <1>1. /\ sock' = "none" /\ todo' = <<>> /\ stream' = <<>> /\ broken' = FALSE /\ synced' = FALSE
        /\ ScheduleRetry \/ UNCHANGED <<wait, gap>>
    BY DEF Lost, backOff
  <1>2. Len(<<>>) = 0 /\ ToSet(<<>>) = {} /\ <<>> \in Seq(Messages)
        /\ <<>> \in Seq({c \in Commands : c.name # "nothing"})
    BY EmptySeq DEF ToSet
  <1>3. Wired'
    <2>1. asked' \in Commands
      BY NothingIsCommand DEF Wired
    <2>2. \A m \in queue' : m \in Messages /\ Sound(m) /\ ~IsAnswer(m)
      <3>1. \A m \in Events(stream) : m \in Messages /\ m \in ToSet(stream) /\ ~IsAnswer(m)
        BY DEF Events, Wired, ToSet
      <3> QED
        BY <3>1 DEF Wired
    <2> QED
      BY <1>1, <1>2, <2>1, <2>2 DEF Wired, Sound, IsAnswer
  <1>4. Kept'
    <2>1. wait' \in 0 .. MaxGap /\ gap' \in 1 .. MaxGap
      BY <1>1, RetryScheduled DEF Kept
    <2> QED
      BY <1>1, <1>2, <2>1 DEF Kept
  <1>5. Turns' /\ Underway' /\ NoCallIsMissed' /\ Accounted'
    BY <1>1, <1>2 DEF Turns, Underway, NoCallIsMissed, Accounted
  <1> QED
    BY <1>3, <1>4, <1>5

LEMMA LinkStartRefused == LinkInv /\ StartRefused => LinkInv'
  <1> SUFFICES ASSUME LinkInv, StartRefused PROVE LinkInv'
    OBVIOUS
  <1>1. Elsewhere'
    BY UaLinkAssumption DEF StartRefused, LinkInv, Elsewhere
  <1>2. LostWasSaid'
    BY DEF StartRefused, LinkInv, LostWasSaid
  <1>3. /\ registered' \in {"unknown", "registered", "lost"} /\ reported' \in [Accounts -> Registration]
    BY DEF StartRefused, LinkInv, Kept
  <1> QED
    BY <1>1, <1>2, <1>3, Loses DEF StartRefused

LEMMA LinkCommandLost == LinkInv /\ CommandLost => LinkInv'
  <1> SUFFICES ASSUME LinkInv, CommandLost PROVE LinkInv'
    OBVIOUS
  <1>1. Elsewhere'
    BY DEF CommandLost, LinkInv, Elsewhere, userAgent
  <1>2. LostWasSaid'
    BY DEF CommandLost, LinkInv, LostWasSaid
  <1>3. /\ registered' \in {"unknown", "registered", "lost"} /\ reported' \in [Accounts -> Registration]
    BY DEF CommandLost, LinkInv, Kept
  <1> QED
    BY <1>1, <1>2, <1>3, Loses DEF CommandLost

LEMMA LinkTimesOut == LinkInv /\ TimesOut => LinkInv'
  <1> SUFFICES ASSUME LinkInv, TimesOut PROVE LinkInv'
    OBVIOUS
  <1>1. Elsewhere'
    BY UaLinkAssumption DEF TimesOut, LinkInv, Elsewhere
  <1>2. LostWasSaid'
    BY DEF TimesOut, LinkInv, LostWasSaid
  <1>3. /\ registered' \in {"unknown", "registered", "lost"} /\ reported' \in [Accounts -> Registration]
    BY DEF TimesOut, LinkInv, Kept
  <1> QED
    BY <1>1, <1>2, <1>3, Loses DEF TimesOut

\* What a read of everything unread hears.
LEMMA HearsAll ==
    ASSUME LinkInv, NEW chunk \in Seq(Messages), \A m \in ToSet(chunk) : Sound(m), Hears(chunk)
    PROVE  /\ registered' \in {"unknown", "registered", "lost"}
           /\ reported' \in [Accounts -> Registration]
           /\ LostWasSaid'
  <1>1. HeardRegistration(chunk) \in {"unknown", "registered", "lost"}
    BY DEF HeardRegistration, LinkInv, Kept
  <1> QED
    BY <1>1, LastHeard DEF Hears, LinkInv, Kept, LostWasSaid

LEMMA LinkPoll == LinkInv /\ Poll => LinkInv'
  <1> SUFFICES ASSUME LinkInv, Poll PROVE LinkInv'
    OBVIOUS
  <1> USE DEF LinkInv
  <1>1. /\ sock = "open" /\ todo = <<>> /\ started /\ Hears(stream)
        /\ UNCHANGED <<userAgent, asked, started>>
    BY DEF Poll, Idle
  <1>2. /\ registered' \in {"unknown", "registered", "lost"}
        /\ reported' \in [Accounts -> Registration]
        /\ LostWasSaid'
    BY <1>1, HearsAll DEF Wired
  <1>3. Elsewhere'
    BY <1>1 DEF Elsewhere, userAgent
  <1>4. CASE broken
    <2>1. queue' = queue \cup Events(stream) /\ Lost /\ UNCHANGED <<known, gone>>
      BY <1>4 DEF Poll
    <2> QED
      BY <1>1, <1>2, <1>3, <2>1, Loses
  <1>5. CASE ~broken
    <2> DEFINE said == queue \cup Events(stream)
    <2>1. /\ queue' = {} /\ stream' = <<>>
          /\ known' = known \cup Named("incoming", said)
          /\ gone' = gone \cup Named("closed", said)
          /\ UNCHANGED <<sock, todo, broken, synced, wait, gap>>
      BY <1>5 DEF Poll, backOff
    <2>2. Len(<<>>) = 0 /\ ToSet(<<>>) = {} /\ <<>> \in Seq(Messages)
      BY EmptySeq DEF ToSet
    <2>3. Wired' /\ Turns' /\ Underway'
      BY <1>1, <2>1, <2>2 DEF Wired, Turns, Underway
    <2>4. \A m \in ToSet(stream) : ~IsAnswer(m)
      <3>1. \A i \in 1 .. Len(stream) : ~IsAnswer(stream[i])
        BY <1>1 DEF Turns
      <3> QED
        BY <3>1, LenProperties DEF ToSet, Wired
    <2>5. Events(stream) = ToSet(stream)
      BY <2>4 DEF Events
    <2>6. Named("incoming", said) \subseteq Calls /\ Named("closed", said) \subseteq Calls
      BY <2>5 DEF Named, Wired, Sound
    <2>7. Kept'
      BY <1>1, <1>2, <2>1, <2>6 DEF Kept
    <2>8. NoCallIsMissed'
      <3> SUFFICES ASSUME synced
                   PROVE  held' \subseteq known' /\ known' \ gone' \subseteq held'
        BY <2>1 DEF NoCallIsMissed
      <3>1. {m.value : m \in {x \in ToSet(stream) : x.kind = "answer" /\ todo[1].name = "dial"}} = {}
        BY <2>4 DEF IsAnswer
      <3>2. /\ held \subseteq known \cup Named("incoming", queue \cup ToSet(stream))
            /\ known \ gone \subseteq held \cup Named("closed", queue \cup ToSet(stream))
        BY <1>1, <1>5, <3>1 DEF NoCallIsMissed
      <3>3. Named("incoming", said) \subseteq held \cup gone \cup Named("closed", said)
        BY <1>1, <1>5, <2>5 DEF Accounted
      <3> QED
        BY <1>1, <2>1, <2>5, <3>2, <3>3 DEF userAgent
    <2>9. Accounted'
      BY <2>1, <2>2 DEF Accounted, Named
    <2> QED
      BY <1>2, <1>3, <2>3, <2>7, <2>8, <2>9
  <1> QED
    BY <1>4, <1>5

\* The commands a connection opens with, and those of the verbs.
TodoOf == Seq({c \in Commands : c.name # "nothing"})

LEMMA PlainIsCommand ==
    ASSUME NEW name \in Names \ {"nothing"}, NEW c \in 0 .. MaxCalls
    PROVE  /\ Command(name, c) \in {x \in Commands : x.name # "nothing"}
           /\ Plain(name) \in {x \in Commands : x.name # "nothing"}
  BY UaLinkAssumption DEF Plain, Command, Commands

LEMMA OfTwo ==
    ASSUME NEW C, NEW x \in C, NEW y \in C
    PROVE  /\ <<x, y>> \in Seq(C) /\ <<x, y>> # <<>> /\ Head(<<x, y>>) = <<x, y>>[1]
           /\ <<x, y>>[1] = x /\ Tail(<<x, y>>) = <<y>>
           /\ <<x>> \in Seq(C) /\ <<x>> # <<>> /\ Head(<<x>>) = <<x>>[1] /\ <<x>>[1] = x
  OBVIOUS

LEMMA OfThree ==
    ASSUME NEW C, NEW x \in C, NEW y \in C, NEW z \in C
    PROVE  /\ <<x, y, z>> \in Seq(C) /\ <<x, y, z>> # <<>> /\ Head(<<x, y, z>>) = <<x, y, z>>[1]
           /\ <<x, y, z>>[1] = x /\ Tail(<<x, y, z>>) = <<y, z>>
  OBVIOUS

LEMMA LinkOpened ==
    ASSUME LinkInv, sock = "none", NEW reading \in {StartReading, Rereading}, Opened(reading),
           UNCHANGED <<userAgent, broken, stream, registered, started, heardOf, reported>>
    PROVE  LinkInv'
  <1> USE UaLinkAssumption DEF LinkInv, heardOf
  <1>1. /\ sock' = "open" /\ wait' = 0 /\ gap' = 1 /\ queue' = {}
        /\ todo' = reading /\ asked' = Head(reading)
    BY DEF Opened, Asks
  <1>2. /\ Plain("reginfo") \in {c \in Commands : c.name # "nothing"}
        /\ Plain("introspect") \in {c \in Commands : c.name # "nothing"}
        /\ Plain("listcalls") \in {c \in Commands : c.name # "nothing"}
    <2>1. 0 \in 0 .. MaxCalls
      OBVIOUS
    <2> QED
      BY <2>1, PlainIsCommand DEF Names
  <1>3. reading \in TodoOf /\ reading # <<>> /\ Head(reading) = reading[1] /\ reading[1] \in Commands
    <2> DEFINE C == {c \in Commands : c.name # "nothing"}
               x == Plain("reginfo")
               y == Plain("introspect")
               z == Plain("listcalls")
    <2>1. x \in C /\ y \in C /\ z \in C /\ C \subseteq Commands
      BY <1>2
    <2>2. reading = <<x, y, z>> \/ reading = <<x, z>>
      BY DEF StartReading, Rereading
    <2>3. TodoOf = Seq(C)
      BY DEF TodoOf
    <2> HIDE DEF C, x, y, z
    <2>4. CASE reading = <<x, y, z>>
      BY <2>1, <2>3, <2>4, OfThree
    <2>5. CASE reading = <<x, z>>
      BY <2>1, <2>3, <2>5, OfTwo
    <2> QED
      BY <2>2, <2>4, <2>5
  <1>4. stream' = <<>> /\ Len(stream') = 0 /\ ToSet(stream') = {} /\ ~broken' /\ ~synced'
    BY DEF Turns, Kept, ToSet
  <1>5. Elsewhere'
    BY DEF Elsewhere, userAgent
  <1>6. Wired'
    BY <1>1, <1>3, <1>4 DEF Wired
  <1>7. Kept'
    BY <1>1, <1>3 DEF Kept, TodoOf
  <1>8. Turns'
    BY <1>1, <1>3, <1>4 DEF Turns, Syncing
  <1>9. Underway'
    BY <1>4 DEF Underway
  <1>10. Accounted'
    BY <1>1, <1>4 DEF Accounted, Named
  <1>11. NoCallIsMissed' /\ LostWasSaid'
    BY <1>4 DEF NoCallIsMissed, LostWasSaid
  <1> QED
    BY <1>5, <1>6, <1>7, <1>8, <1>9, <1>10, <1>11

LEMMA LinkStart == LinkInv /\ Start => LinkInv'
  BY LinkOpened DEF Start

LEMMA LinkReopen == LinkInv /\ Reopen => LinkInv'
  <1> SUFFICES ASSUME LinkInv, Reopen PROVE LinkInv'
    OBVIOUS
  <1>1. CASE uaUp
    BY <1>1, LinkOpened DEF Reopen
  <1>2. CASE ~uaUp
    <2>1. /\ ScheduleRetry
          /\ UNCHANGED <<sock, queue, todo, asked, userAgent, broken, stream, registered, started,
                         heardOf, reported>>
      BY <1>2 DEF Reopen
    <2>2. wait' \in 0 .. MaxGap /\ gap' \in 1 .. MaxGap
      BY <2>1, RetryScheduled
    <2> USE DEF LinkInv, userAgent, heardOf
    <2>3. Elsewhere' /\ Kept'
      BY <2>1, <2>2 DEF Elsewhere, Kept
    <2>4. Wired' /\ Turns'
      BY <2>1 DEF Wired, Turns, Sound, IsAnswer
    <2>5. Underway' /\ Accounted' /\ NoCallIsMissed' /\ LostWasSaid'
      BY <2>1 DEF Underway, Fits, Accounted, NoCallIsMissed, LostWasSaid, Named
    <2> QED
      BY <2>3, <2>4, <2>5
  <1> QED
    BY <1>1, <1>2

LEMMA LinkTick == LinkInv /\ Tick => LinkInv'
  <1> SUFFICES ASSUME LinkInv, Tick PROVE LinkInv'
    OBVIOUS
  <1>1. /\ wait > 0 /\ wait' = wait - 1
        /\ UNCHANGED <<userAgent, wire, sock, todo, queue, registered, started, gap, heardOf, reported>>
    BY DEF Tick
  <1> USE DEF LinkInv, userAgent, heardOf, wire
  <1>2. Elsewhere' /\ Kept'
    BY <1>1, UaLinkAssumption DEF Elsewhere, Kept
  <1>3. Wired' /\ Turns'
    BY <1>1 DEF Wired, Turns, Sound, IsAnswer
  <1>4. Underway' /\ Accounted' /\ NoCallIsMissed' /\ LostWasSaid'
    BY <1>1 DEF Underway, Fits, Accounted, NoCallIsMissed, LostWasSaid, Named
  <1> QED
    BY <1>2, <1>3, <1>4

LEMMA LinkDrives == LinkInv /\ Drives => LinkInv'
  <1> SUFFICES ASSUME LinkInv, Drives PROVE LinkInv'
    OBVIOUS
  <1> USE UaLinkAssumption DEF LinkInv, heardOf, backOff
  <1>1. /\ sock = "open" /\ todo = <<>>
        /\ UNCHANGED <<userAgent, broken, stream, sock, queue, registered, started, backOff, heardOf,
                       reported>>
    BY DEF Drives, Idle
  <1>2. PICK verb \in Verbs : Asks(verb)
    BY DEF Drives
  <1>3. verb \in TodoOf /\ verb # <<>> /\ Head(verb) = verb[1] /\ verb[1] \in Commands
    <2> DEFINE C == {x \in Commands : x.name # "nothing"}
    <2>1. C \subseteq Commands
      OBVIOUS
    <2>3. \A c \in known \ gone : c \in 0 .. MaxCalls
      BY DEF Kept, Calls
    <2>4. \A c \in known \ gone :
             Command("select", c) \in C /\ Command("hangup", c) \in C /\ Command("drive", c) \in C
      BY <2>3, PlainIsCommand DEF Names
    <2>5. Plain("drive") \in C /\ Plain("select") \in C /\ Plain("dial") \in C
      <3>1. 0 \in 0 .. MaxCalls
        OBVIOUS
      <3> QED
        BY <3>1, PlainIsCommand DEF Names
    <2> HIDE DEF C
    <2>6. \/ \E c \in known \ gone :
                \/ verb = <<Command("select", c), Command("hangup", c)>>
                \/ verb = <<Command("select", c), Command("drive", c)>>
                \/ verb = <<Command("drive", c)>>
          \/ verb = <<Plain("drive")>> \/ verb = <<Plain("select"), Plain("dial")>>
      BY <1>2 DEF Verbs
    <2>7. TodoOf = Seq(C)
      BY DEF TodoOf, C
    <2>8. (\E x \in C : verb = <<x>>) \/ (\E x, y \in C : verb = <<x, y>>)
      BY <2>4, <2>5, <2>6
    <2>9. CASE \E x \in C : verb = <<x>>
      BY <2>1, <2>7, <2>9, OfTwo
    <2>10. CASE \E x, y \in C : verb = <<x, y>>
      BY <2>1, <2>7, <2>10, OfTwo
    <2> QED
      BY <2>8, <2>9, <2>10
  <1>4. todo' = verb /\ asked' = verb[1]
    BY <1>2, <1>3 DEF Asks
  <1>5. synced
    BY <1>1 DEF Turns, Syncing, StartReading, Rereading
  <1>6. \A i \in 1 .. Len(stream) : ~IsAnswer(stream[i])
    BY <1>1 DEF Turns
  <1>7. Elsewhere' /\ Kept'
    BY <1>1, <1>3, <1>4 DEF Elsewhere, Kept, userAgent, TodoOf
  <1>8. Wired'
    BY <1>1, <1>3, <1>4 DEF Wired, Sound, IsAnswer
  <1>9. Turns'
    BY <1>1, <1>3, <1>4, <1>5, <1>6 DEF Turns, IsAnswer
  <1>10. Underway'
    BY <1>1, <1>6 DEF Underway, IsAnswer
  <1>11. Accounted' /\ LostWasSaid'
    BY <1>1 DEF Accounted, LostWasSaid, Named, userAgent
  <1>12. NoCallIsMissed'
    <2>1. \A m \in ToSet(stream) : ~IsAnswer(m)
      BY <1>6, LenProperties DEF ToSet, Wired
    <2>2. {m.value : m \in {x \in ToSet(stream) : x.kind = "answer" /\ todo[1].name = "dial"}} = {}
      BY <2>1 DEF IsAnswer
    <2>3. ~broken => /\ held \subseteq known \cup Named("incoming", queue \cup ToSet(stream))
                     /\ known \ gone \subseteq held \cup Named("closed", queue \cup ToSet(stream))
      BY <1>1, <1>5, <2>2 DEF NoCallIsMissed
    <2> QED
      BY <1>1, <2>3 DEF NoCallIsMissed, userAgent, Named
  <1> QED
    BY <1>7, <1>8, <1>9, <1>10, <1>11, <1>12

\* One read: its events are kept and what is left unread is what is after it.
LEMMA LinkReadMore == LinkInv /\ ReadMore => LinkInv'
  <1> SUFFICES ASSUME LinkInv, ReadMore PROVE LinkInv'
    OBVIOUS
  <1> USE UaLinkAssumption DEF LinkInv
  <1>1. PICK n \in 1 .. Len(stream) :
           /\ stream' = SubSeq(stream, n + 1, Len(stream))
           /\ queue' = queue \cup Events(SubSeq(stream, 1, n))
           /\ \/ /\ \A i \in 1 .. n : ~IsAnswer(stream[i])
                 /\ Hears(SubSeq(stream, 1, n))
                 /\ UNCHANGED <<todo, asked, heardOf, started>>
              \/ \E i \in 1 .. n :
                  \/ /\ stream[i].kind = "answer"
                     /\ NextCommand
                     /\ Completed(todo[1], stream[i].value, SubSeq(stream, 1, n))
                  \/ /\ stream[i].kind = "refusal"
                     /\ Hears(SubSeq(stream, 1, n))
                     /\ todo' = <<>> /\ asked' = Nothing
                     /\ UNCHANGED <<heardOf, started>>
    BY DEF ReadMore
  <1> DEFINE chunk == SubSeq(stream, 1, n)
             rest == SubSeq(stream, n + 1, Len(stream))
             unread == queue \cup ToSet(stream)
  <1>2. /\ sock = "open" /\ todo # <<>>
        /\ UNCHANGED <<userAgent, broken, sock, wait, gap>>
    BY DEF ReadMore, Waiting, backOff
  <1>3. /\ chunk \in Seq(Messages) /\ rest \in Seq(Messages)
        /\ Len(chunk) = n /\ \A i \in 1 .. n : chunk[i] = stream[i]
        /\ Len(rest) = Len(stream) - n /\ \A i \in 1 .. Len(stream) - n : rest[i] = stream[n + i]
        /\ ToSet(stream) = ToSet(chunk) \cup ToSet(rest)
    BY ReadInParts DEF Wired
  <1>4. Len(stream) \in Nat
    BY LenProperties DEF Wired
  <1>5. stream' = rest /\ queue' = queue \cup Events(chunk)
    BY <1>1
  <1> HIDE DEF chunk, rest
  <1>6. \A m \in Events(chunk) : m \in Messages /\ Sound(m) /\ ~IsAnswer(m)
    <2>1. \A m \in ToSet(chunk) : m \in Messages /\ Sound(m)
      BY <1>3 DEF ToSet, Wired
    <2> QED
      BY <2>1 DEF Events
  <1>7. /\ Named("incoming", queue' \cup ToSet(stream')) = Named("incoming", unread)
        /\ Named("closed", queue' \cup ToSet(stream')) = Named("closed", unread)
    <2>1. ASSUME NEW k, k \notin {"answer", "refusal"}
          PROVE  Named(k, queue' \cup ToSet(stream')) = Named(k, unread)
      <3> DEFINE A == queue
                 B == Events(chunk)
                 C == ToSet(rest)
                 D == ToSet(chunk)
      <3>1. Named(k, B) = Named(k, D)
        BY <2>1, EventsNamed
      <3>2. queue' \cup ToSet(stream') = (A \cup B) \cup C /\ unread = A \cup (D \cup C)
        BY <1>3, <1>5
      <3> HIDE DEF A, B, C, D, unread
      <3>3. /\ Named(k, (A \cup B) \cup C) = Named(k, A) \cup Named(k, B) \cup Named(k, C)
            /\ Named(k, A \cup (D \cup C)) = Named(k, A) \cup Named(k, D) \cup Named(k, C)
        BY NamedInThree
      <3> QED
        BY <3>1, <3>2, <3>3
    <2> QED
      BY <2>1
  <1>8. Elsewhere'
    BY <1>2 DEF Elsewhere, userAgent
  <1>9. ASSUME asked' \in Commands PROVE Wired'
    BY <1>2, <1>3, <1>5, <1>6, <1>9 DEF Wired, Sound, IsAnswer
  <1>10. \A i \in 1 .. Len(rest) : n + i \in 1 .. Len(stream) /\ rest[i] = stream[n + i]
    BY <1>3, <1>4
  <1>11. Hears(chunk) => /\ registered' \in {"unknown", "registered", "lost"}
                         /\ reported' \in [Accounts -> Registration]
                         /\ LostWasSaid'
    <2>1. \A m \in ToSet(chunk) : Sound(m)
      BY <1>3 DEF Wired
    <2> QED
      BY <1>3, <2>1, HearsAll
  <1>12. \A i \in 1 .. Len(rest) : \A j \in 1 .. n : IsAnswer(rest[i]) => ~IsAnswer(stream[j])
    <2> SUFFICES ASSUME NEW i \in 1 .. Len(rest), NEW j \in 1 .. n,
                        IsAnswer(rest[i]), IsAnswer(stream[j])
                 PROVE  FALSE
      OBVIOUS
    <2>1. j \in 1 .. Len(stream) /\ n + i = j
      BY <1>4, <1>10 DEF Turns
    <2> QED
      BY <2>1
  <1>13. \A m \in ToSet(stream) :
            m \in ToSet(stream') \/ \E i \in 1 .. n : m = stream[i]
    <2>1. \A m \in ToSet(chunk) : \E i \in 1 .. n : m = chunk[i]
      BY <1>3, LenProperties DEF ToSet
    <2> QED
      BY <1>3, <1>5, <2>1
  \* No answer is among what was read.
  <1>14. CASE /\ \A i \in 1 .. n : ~IsAnswer(stream[i])
              /\ Hears(chunk) /\ UNCHANGED <<todo, asked, heardOf, started>>
    <2>1. Wired'
      BY <1>9, <1>14 DEF Wired
    <2>2. Kept' /\ LostWasSaid'
      BY <1>2, <1>11, <1>14 DEF Kept, heardOf
    <2>3. Turns'
      <3>1. \A i, j \in 1 .. Len(rest) : IsAnswer(rest[i]) /\ IsAnswer(rest[j]) => i = j
        <4> SUFFICES ASSUME NEW i \in 1 .. Len(rest), NEW j \in 1 .. Len(rest),
                            IsAnswer(rest[i]), IsAnswer(rest[j])
                     PROVE  i = j
          OBVIOUS
        <4>1. n + i = n + j
          BY <1>10 DEF Turns
        <4> QED
          BY <4>1
      <3>2. \A i \in 1 .. Len(rest) : IsAnswer(rest[i]) => todo # <<>> /\ asked = Nothing
        BY <1>10 DEF Turns
      <3> QED
        BY <1>2, <1>5, <1>14, <3>1, <3>2 DEF Turns, heardOf, IsAnswer
    <2>4. Underway'
      BY <1>2, <1>5, <1>7, <1>10, <1>14 DEF Underway, Fits, heardOf, userAgent
    <2>5. Accounted'
      <3>1. UNCHANGED <<sock, broken, held, gone>>
        BY <1>2, <1>14 DEF heardOf, userAgent
      <3> HIDE DEF LinkInv
      <3> QED
        BY <1>7, <3>1 DEF LinkInv, Accounted
    <2>6. NoCallIsMissed'
      <3> DEFINE D == {m.value : m \in {x \in ToSet(stream) :
                                            x.kind = "answer" /\ todo[1].name = "dial"}}
                 E == {m.value : m \in {x \in ToSet(stream') :
                                            x.kind = "answer" /\ todo[1].name = "dial"}}
      <3>1. D \subseteq E
        BY <1>13, <1>14 DEF IsAnswer
      <3>2. UNCHANGED <<sock, broken, synced, held, known, gone, todo>>
        BY <1>2, <1>14 DEF heardOf, userAgent
      <3>3. sock = "open" /\ synced /\ ~broken =>
               /\ held \subseteq known \cup Named("incoming", unread) \cup D
               /\ known \ gone \subseteq held \cup Named("closed", unread)
        BY DEF NoCallIsMissed
      <3>4. sock' = "open" /\ synced' /\ ~broken' =>
               /\ held' \subseteq known' \cup Named("incoming", queue' \cup ToSet(stream')) \cup E
               /\ known' \ gone' \subseteq held' \cup Named("closed", queue' \cup ToSet(stream'))
        <4> HIDE DEF D, E, unread, LinkInv
        <4> QED
          BY <1>7, <3>1, <3>2, <3>3
      <3> HIDE DEF LinkInv, unread
      <3> QED
        BY <3>2, <3>4 DEF NoCallIsMissed
    <2> QED
      BY <1>8, <2>1, <2>2, <2>3, <2>4, <2>5, <2>6
  \* The answer is, and none is left.
  <1>15. ASSUME NEW k \in 1 .. n, IsAnswer(stream[k])
         PROVE  /\ \A i \in 1 .. Len(rest) : ~IsAnswer(rest[i])
                /\ asked = Nothing
                /\ \A m \in ToSet(stream) : IsAnswer(m) => m = stream[k]
    <2>1. k \in 1 .. Len(stream)
      BY <1>4
    <2>2. \A i \in 1 .. Len(rest) : ~IsAnswer(rest[i])
      BY <1>12, <1>15
    <2>3. asked = Nothing
      BY <1>15, <2>1 DEF Turns
    <2>4. \A m \in ToSet(stream) : IsAnswer(m) => m = stream[k]
      <3> SUFFICES ASSUME NEW m \in ToSet(stream), IsAnswer(m) PROVE m = stream[k]
        OBVIOUS
      <3>1. PICK j \in 1 .. Len(stream) : m = stream[j]
        BY LenProperties DEF ToSet, Wired
      <3> QED
        BY <1>15, <2>1, <3>1 DEF Turns
    <2> QED
      BY <2>2, <2>3, <2>4
  <1>16. ASSUME NEW k \in 1 .. n, stream[k].kind = "refusal",
                Hears(chunk), todo' = <<>>, asked' = Nothing, UNCHANGED <<heardOf, started>>
         PROVE  LinkInv'
    <2>1. /\ \A i \in 1 .. Len(rest) : ~IsAnswer(rest[i])
          /\ \A m \in ToSet(stream) : IsAnswer(m) => m = stream[k]
      BY <1>15, <1>16 DEF IsAnswer
    <2>2. synced
      BY <1>4, <1>16 DEF Underway
    <2>3. Wired'
      BY <1>9, <1>16, NothingIsCommand
    <2>4. <<>> \in TodoOf
      BY EmptySeq DEF TodoOf
    <2>5. Kept' /\ LostWasSaid'
      BY <1>2, <1>11, <1>16, <2>4 DEF Kept, heardOf, TodoOf
    <2>6. Turns' /\ Underway'
      BY <1>2, <1>5, <1>16, <2>1, <2>2 DEF Turns, Underway, heardOf, IsAnswer
    <2>7. Accounted'
      <3>1. UNCHANGED <<sock, broken, held, gone>>
        BY <1>2, <1>16 DEF heardOf, userAgent
      <3> HIDE DEF LinkInv
      <3> QED
        BY <1>7, <3>1 DEF LinkInv, Accounted
    <2>8. NoCallIsMissed'
      <3>1. \A m \in ToSet(stream) : m.kind # "answer"
        BY <1>16, <2>1 DEF IsAnswer
      <3>2. {m.value : m \in {x \in ToSet(stream) : x.kind = "answer" /\ todo[1].name = "dial"}} = {}
        BY <3>1
      <3>3. ~broken => /\ held \subseteq known \cup Named("incoming", unread)
                       /\ known \ gone \subseteq held \cup Named("closed", unread)
        BY <1>2, <2>2, <3>2 DEF NoCallIsMissed
      <3>4. UNCHANGED <<broken, held, known, gone>>
        BY <1>2, <1>16 DEF heardOf, userAgent
      <3>5. ~broken' => /\ held' \subseteq known' \cup Named("incoming", queue' \cup ToSet(stream'))
                        /\ known' \ gone' \subseteq held' \cup Named("closed", queue' \cup ToSet(stream'))
        <4> HIDE DEF LinkInv, unread
        <4> QED
          BY <1>7, <3>3, <3>4
      <3> HIDE DEF LinkInv, unread
      <3> QED
        BY <3>5 DEF NoCallIsMissed
    <2> QED
      BY <1>8, <2>3, <2>5, <2>6, <2>7, <2>8
  <1>17. ASSUME NEW k \in 1 .. n, stream[k].kind = "answer", NextCommand,
                Completed(todo[1], stream[k].value, chunk)
         PROVE  LinkInv'
    <2> DEFINE v == stream[k].value
    <2>1. /\ \A i \in 1 .. Len(rest) : ~IsAnswer(rest[i])
          /\ \A m \in ToSet(stream) : IsAnswer(m) => m = stream[k]
      BY <1>15, <1>17 DEF IsAnswer
    <2>2. Fits(todo[1].name, v)
      BY <1>4, <1>17 DEF Underway
    <2> HIDE DEF v
    <2>3. /\ todo' = Tail(todo) /\ asked' = IF Tail(todo) = <<>> THEN Nothing ELSE Head(Tail(todo))
          /\ Tail(todo) \in TodoOf
          /\ Tail(todo) # <<>> => Head(Tail(todo)) = Tail(todo)[1] /\ Tail(todo)[1] \in Commands
      BY <1>2, <1>17, HeadTailProperties DEF NextCommand, Kept, TodoOf
    <2>4. Wired'
      BY <1>9, <2>3, NothingIsCommand
    <2>5. /\ registered' = IF todo[1].name = "reginfo" THEN ReadRegistration(v)
                           ELSE HeardRegistration(chunk)
          /\ reported' = IF todo[1].name = "reginfo" THEN v ELSE HeardReports(chunk)
          /\ todo[1].name = "listcalls" => Listed(v)
          /\ todo[1].name # "listcalls" =>
                /\ known' = known \cup {c \in {v} : todo[1].name = "dial"}
                /\ UNCHANGED <<synced, gone, started>>
      BY <1>17 DEF Completed, v
    <2>6. /\ registered' \in {"unknown", "registered", "lost"}
          /\ reported' \in [Accounts -> Registration] /\ LostWasSaid'
      <3>1. CASE todo[1].name = "reginfo"
        BY <2>2, <2>5, <3>1 DEF ReadRegistration, LostWasSaid, Fits
      <3>2. CASE todo[1].name # "reginfo"
        BY <1>11, <2>5, <3>2 DEF Hears
      <3> QED
        BY <3>1, <3>2
    <2>7. CASE todo[1].name = "listcalls"
      <3>1. /\ synced' /\ started' /\ known' = known \cup v /\ gone' = gone \cup (known \ v)
        BY <2>5, <2>7 DEF Listed
      <3>2. /\ v \subseteq Calls
            /\ ~broken => /\ held \subseteq v \cup Named("incoming", unread)
                          /\ v \subseteq held \cup Named("closed", unread)
        BY <2>2, <2>7 DEF Fits
      <3>3. Kept'
        BY <1>2, <2>3, <2>5, <2>6, <2>7, <3>1, <3>2 DEF Kept, TodoOf, Listed
      <3>4. Turns' /\ Underway'
        BY <1>2, <1>5, <2>1, <2>3, <3>1 DEF Turns, Underway, IsAnswer
      <3>5. UNCHANGED <<sock, broken, held>>
        BY <1>2 DEF userAgent
      <3>6. Accounted'
        BY <1>7, <3>1, <3>5 DEF Accounted
      <3>7. NoCallIsMissed'
        <4>1. ~broken' => /\ held' \subseteq known' \cup Named("incoming", queue' \cup ToSet(stream'))
                          /\ known' \ gone' \subseteq held' \cup Named("closed", queue' \cup ToSet(stream'))
          <5> HIDE DEF LinkInv, unread
          <5> QED
            BY <1>7, <3>1, <3>2, <3>5
        <4> HIDE DEF LinkInv, unread
        <4> QED
          BY <4>1 DEF NoCallIsMissed
      <3> QED
        BY <1>8, <2>4, <2>6, <3>3, <3>4, <3>6, <3>7
    <2>8. CASE todo[1].name # "listcalls"
      <3>1. /\ known' = known \cup {c \in {v} : todo[1].name = "dial"}
            /\ UNCHANGED <<synced, gone, started>>
        BY <2>5, <2>8
      <3>2. todo[1].name = "dial" =>
               v \in Calls /\ (~broken => v \in held \cup Named("closed", unread))
        BY <2>2 DEF Fits
      <3>3. Kept'
        BY <1>2, <2>3, <2>6, <3>1, <3>2 DEF Kept, TodoOf
      <3>4. sock' = "open" /\ ~synced' => todo' \in Syncing
        <4>1. ASSUME ~synced PROVE Tail(todo) \in Syncing
          <5>1. todo \in Syncing
            BY <1>2, <4>1 DEF Turns
          <5> DEFINE x == Plain("reginfo")
                     y == Plain("introspect")
                     z == Plain("listcalls")
          <5>2. todo \in {<<x, y, z>>, <<x, z>>, <<y, z>>, <<z>>}
            BY <5>1 DEF Syncing, StartReading, Rereading
          <5>3. z.name = "listcalls"
            BY DEF Plain, Command
          <5> HIDE DEF x, y, z
          <5>4. <<z>>[1] = z
            OBVIOUS
          <5>5. todo # <<z>>
            BY <2>8, <5>3, <5>4
          <5>6. /\ Tail(<<x, y, z>>) = <<y, z>>
                /\ Tail(<<x, z>>) = <<z>> /\ Tail(<<y, z>>) = <<z>>
            OBVIOUS
          <5>7. Tail(todo) \in {<<y, z>>, <<z>>}
            BY <5>2, <5>5, <5>6
          <5> QED
            BY <5>7 DEF Syncing, x, y, z
        <4> QED
          BY <2>3, <3>1, <4>1
      <3>5. Turns' /\ Underway'
        BY <1>2, <1>5, <2>1, <2>3, <3>4 DEF Turns, Underway, IsAnswer
      <3>6. UNCHANGED <<sock, broken, held>>
        BY <1>2 DEF userAgent
      <3>7. Accounted'
        <4> HIDE DEF LinkInv
        <4> QED
          BY <1>7, <3>1, <3>6 DEF LinkInv, Accounted
      <3>8. NoCallIsMissed'
        <4> DEFINE D == {m.value : m \in {x \in ToSet(stream) :
                                              x.kind = "answer" /\ todo[1].name = "dial"}}
        <4>1. D \subseteq {c \in {v} : todo[1].name = "dial"}
          BY <2>1 DEF IsAnswer, v
        <4>2. synced /\ ~broken =>
                 /\ held \subseteq known \cup Named("incoming", unread) \cup D
                 /\ known \ gone \subseteq held \cup Named("closed", unread)
          BY <1>2 DEF NoCallIsMissed
        <4>3. synced' /\ ~broken' =>
                 /\ held' \subseteq known' \cup Named("incoming", queue' \cup ToSet(stream'))
                 /\ known' \ gone' \subseteq held' \cup Named("closed", queue' \cup ToSet(stream'))
          <5> HIDE DEF LinkInv, unread, D
          <5> QED
            BY <1>7, <3>1, <3>2, <3>6, <4>1, <4>2
        <4> HIDE DEF LinkInv, unread, D
        <4> QED
          BY <4>3 DEF NoCallIsMissed
      <3> QED
        BY <1>8, <2>4, <2>6, <3>3, <3>5, <3>7, <3>8
    <2> QED
      BY <2>7, <2>8
  <1> QED
    BY <1>1, <1>14, <1>16, <1>17 DEF chunk

-------------------------------------------------------------------------------
(* The theorems, of the link.                                               *)

LEMMA LinkInvStep == LinkInv /\ [LinkNext]_linkVars => LinkInv'
  <1> SUFFICES ASSUME LinkInv, LinkNext PROVE LinkInv'
    BY LinkUntouched
  <1>1. CASE UserAgent
    BY <1>1, LinkCallComes, LinkCallEnds, LinkRegisters, LinkCarryOut, LinkConnectionBreaks,
       LinkComesUp DEF UserAgent
  <1>2. CASE Agent
    BY <1>2, LinkStart, LinkStartRefused, LinkDrives, LinkReadMore, LinkCommandLost, LinkTimesOut,
       LinkPoll, LinkReopen, LinkTick DEF Agent
  <1> QED
    BY <1>1, <1>2 DEF LinkNext

LEMMA LinkInvHolds == LinkSpec => []LinkInv
  BY LinkInvInit, LinkInvStep, PTL DEF LinkSpec

\* The types of the link hold, and so does what its socket says of the rest: whatever the
\* back-off, the accounts and the calls, nothing is under way, unread or waited for where
\* there is no connection, and no two answers are ever under way (_open, _lost, _command).
THEOREM LinkTypeCorrect == LinkSpec => []LinkTypeOK
  BY LinkInvHolds, LinkInvTypes, PTL

\* From the listing of the calls on, as long as the connection holds, the agent knows of
\* every call the user agent holds or will read of it, and takes none for one that is up
\* that is not, whichever part of the stream each read takes and whatever is said around
\* an answer (_command, _read, calls, poll).
THEOREM CallsAreNotMissed == LinkSpec => []NoCallIsMissed
  <1>1. LinkInv => NoCallIsMissed
    BY DEF LinkInv
  <1> QED
    BY <1>1, LinkInvHolds, PTL

\* The registration is lost only by the user agent's word about an account, whatever the
\* accounts and in whatever parts its words are read (_read_registration, _event).
THEOREM LossIsOneThatWasSaid == LinkSpec => []LostWasSaid
  <1>1. LinkInv => LostWasSaid
    BY DEF LinkInv
  <1> QED
    BY <1>1, LinkInvHolds, PTL

=============================================================================
