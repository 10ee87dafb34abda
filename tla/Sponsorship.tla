----------------------------- MODULE Sponsorship -----------------------------
(***************************************************************************)
(* What the fee payer relay promises (examples/feepayer/README.md and      *)
(* server.go), without signatures, strings and calls: payments that their  *)
(* senders signed for a fee payer are taken and settled, each once and in  *)
(* the order their sender gave them; a requester who is told that his was  *)
(* sent is told the truth; and everybody who asks is told something.       *)
(***************************************************************************)
EXTENDS Naturals, FiniteSets

CONSTANTS
    Requesters,   \* requests, each asking for one payment
    Payments,     \* the payments that are signed to be sponsored
    Something,    \* what else may be asked for: it is never done
    SenderOf(_),  \* the sender of a payment
    NumberOf(_)   \* its place among the sender's payments, from zero

VARIABLES
    asked,    \* what each request asks for, and whether it waits for it
    told,     \* what it is told: nothing yet, "sent" or "failed"
    taken,    \* the payments the node has taken for some request
    settled   \* the payments it has executed

vars == <<asked, told, taken, settled>>

NotYet == [payment |-> Something, waits |-> FALSE, arrived |-> FALSE]

Init ==
    /\ asked = [r \in Requesters |-> NotYet]
    /\ told = [r \in Requesters |-> "nothing"]
    /\ taken = {} /\ settled = {}

Ask(r, payment, waits) ==
    /\ ~asked[r].arrived
    /\ asked' = [asked EXCEPT ![r] = [payment |-> payment, waits |-> waits,
                                      arrived |-> TRUE]]
    /\ UNCHANGED <<told, taken, settled>>

\* The node takes what somebody asked for, and nothing else.
Take(r) ==
    /\ asked[r].payment \in Payments
    /\ taken' = taken \cup {asked[r].payment}
    /\ UNCHANGED <<asked, told, settled>>

\* A payment is settled when it is the next of its sender.
Settle(p) ==
    /\ p \in taken
    /\ NumberOf(p) = Cardinality({q \in settled : SenderOf(q) = SenderOf(p)})
    /\ settled' = settled \cup {p}
    /\ UNCHANGED <<asked, told, taken>>

\* "sent" is only said of a payment that was taken, and to one who waits for it
\* when it is settled.
Tell(r, what) ==
    /\ asked[r].arrived /\ told[r] = "nothing"
    /\ what = "sent" =>
          asked[r].payment \in IF asked[r].waits THEN settled ELSE taken
    /\ told' = [told EXCEPT ![r] = what]
    /\ UNCHANGED <<asked, taken, settled>>

Next ==
    \/ \E r \in Requesters :
          \/ \E p \in Payments \cup {Something}, waits \in BOOLEAN : Ask(r, p, waits)
          \/ Take(r)
          \/ \E what \in {"sent", "failed"} : Tell(r, what)
    \/ \E p \in Payments : Settle(p)

\* Whoever has asked is told something.
Fairness ==
    \A r \in Requesters : WF_vars(\E what \in {"sent", "failed"} : Tell(r, what))

Spec == Init /\ [][Next]_vars /\ Fairness
=============================================================================
