----------------------------- MODULE CallPhases -----------------------------
(***************************************************************************)
(* What the rest of the agent may take for granted about one case, however *)
(* the socket, the user agent and the people behave: it is one caller's    *)
(* from the answer to the end, it reaches at most one person, that person  *)
(* is rung only after the caller's case, and it is over for good once it   *)
(* closes.  Dialogue.tla implements this; Tickets.tla is built on it.      *)
(***************************************************************************)
EXTENDS Naturals

CONSTANT Caller     \* the calls there can be

VARIABLES
    phase,      \* where the case is
    caller,     \* whose case it is
    person      \* the call the person is on

vars == <<phase, caller, person>>

NoCall == 0

Init == phase = "none" /\ caller = NoCall /\ person = NoCall

\* A call is answered: there is a case for a person, or everything there is to
\* say is said and the call closes.
Answer(c) ==
    /\ phase = "none" /\ phase' \in {"case", "closing"}
    /\ caller' = c /\ person' = NoCall

\* The person is rung, once.
Ring(p) ==
    /\ phase = "case" /\ phase' = "ringing"
    /\ p # caller /\ person' = p /\ UNCHANGED caller

Unreachable ==
    /\ phase \in {"case", "ringing"} /\ phase' = "closing"
    /\ person' = NoCall /\ UNCHANGED caller

PickUp == phase = "ringing" /\ phase' = "talking" /\ UNCHANGED <<caller, person>>

\* The person has decided, or has not.
Decide == phase = "talking" /\ phase' = "closing" /\ UNCHANGED <<caller, person>>

\* The person's leg goes; with an instruction still to give, the case closes.
PersonLeaves ==
    /\ phase # "none" /\ person # NoCall /\ person' = NoCall /\ UNCHANGED caller
    /\ phase' = phase \/ (phase = "talking" /\ phase' = "closing")

End == phase # "none" /\ phase' = "none" /\ caller' = NoCall /\ person' = NoCall

Next ==
    \/ \E c \in Caller : Answer(c) \/ Ring(c)
    \/ Unreachable \/ PickUp \/ Decide \/ PersonLeaves \/ End

Spec == Init /\ [][Next]_vars
=============================================================================
