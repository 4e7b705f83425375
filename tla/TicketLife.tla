------------------------------ MODULE TicketLife ------------------------------
(***************************************************************************)
(* What a ticket record promises, with nothing of how it is kept: the      *)
(* life of each record against what the lane was really brought to do.     *)
(*                                                                         *)
(* A record is issued, may be confirmed by a press, and is settled once.   *)
(* `opened' is the set of tickets whose vend the lane has accepted.  A     *)
(* record that says "vended" is about a barrier that was asked to open; a  *)
(* record "closed" is about one that was not and never will be, by this    *)
(* ticket; a record "unclear" claims neither.                              *)
(***************************************************************************)
CONSTANT Ticket

VARIABLES
    life,      \* what each record says
    opened     \* the tickets whose vend the lane has accepted

lifeVars == <<life, opened>>

Open == {"issued", "confirmed"}

Init ==
    /\ life = [t \in Ticket |-> "none"]
    /\ opened = {}

Issue(t) ==
    /\ life[t] = "none"
    /\ life' = [life EXCEPT ![t] = "issued"]
    /\ UNCHANGED opened

Confirm(t) ==
    /\ life[t] = "issued"
    /\ life' = [life EXCEPT ![t] = "confirmed"]
    /\ UNCHANGED opened

\* The lane accepts a vend that names this ticket.  Possible while the record
\* is open and after it was settled "unclear", never once it is closed.
LaneOpens(t) ==
    /\ life[t] \in Open \cup {"unclear"}
    /\ opened' = opened \cup {t}
    /\ UNCHANGED life

Vend(t) ==
    /\ life[t] \in Open
    /\ t \in opened
    /\ life' = [life EXCEPT ![t] = "vended"]
    /\ UNCHANGED opened

Close(t) ==
    /\ life[t] \in Open
    /\ t \notin opened
    /\ life' = [life EXCEPT ![t] = "closed"]
    /\ UNCHANGED opened

GiveUp(t) ==
    /\ life[t] \in Open
    /\ life' = [life EXCEPT ![t] = "unclear"]
    /\ UNCHANGED opened

\* One step may settle one record and issue the next (a new decision voids the
\* ticket that was up and mints another).
Replace(t, u) ==
    /\ t # u
    /\ life[t] \in Open /\ t \notin opened
    /\ life[u] = "none"
    /\ life' = [life EXCEPT ![t] = "closed", ![u] = "issued"]
    /\ UNCHANGED opened

Next ==
    \/ \E t \in Ticket :
          Issue(t) \/ Confirm(t) \/ LaneOpens(t) \/ Vend(t) \/ Close(t) \/ GiveUp(t)
    \/ \E t, u \in Ticket : Replace(t, u)

Spec == Init /\ [][Next]_lifeVars
===============================================================================
