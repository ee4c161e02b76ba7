------------------------------ MODULE AtomicSwap ------------------------------
(***************************************************************************)
(* What a Granola trade promises, without sessions, messages or relays:    *)
(* an offer and a payment, each locked to the same hash at a mint, that    *)
(* are claimed in the one safe order or refunded after their locktimes,    *)
(* two parties that report a trade as filled, and an order that closes.    *)
(***************************************************************************)
EXTENDS Naturals

CONSTANTS Party, PaymentLocktime, OfferLocktime

VARIABLES
    offer,      \* the leg the maker locks first
    payment,    \* the leg the taker locks second
    filled,     \* the parties that report the trade as filled
    outcome,    \* what the order says: "open", "fill" or "release"
    now

vars == <<offer, payment, filled, outcome, now>>

Leg == {"unlocked", "locked", "claimed", "refunded"}

TypeOK ==
    /\ offer \in Leg
    /\ payment \in Leg
    /\ filled \subseteq Party
    /\ outcome \in {"open", "fill", "release"}
    /\ now \in Nat

Settled == offer = "claimed" /\ payment = "claimed"

Init ==
    /\ offer = "unlocked"
    /\ payment = "unlocked"
    /\ filled = {}
    /\ outcome = "open"
    /\ now = 0

LockOffer ==
    /\ offer = "unlocked" /\ offer' = "locked"
    /\ UNCHANGED <<payment, filled, outcome, now>>

\* The taker pays only against an offer that was locked.
LockPayment ==
    /\ payment = "unlocked" /\ offer # "unlocked" /\ payment' = "locked"
    /\ UNCHANGED <<offer, filled, outcome, now>>

\* The maker knows the preimage, and reveals it with this claim.
ClaimPayment ==
    /\ payment = "locked" /\ payment' = "claimed"
    /\ UNCHANGED <<offer, filled, outcome, now>>

\* The taker learns the preimage from the claim of its payment.
ClaimOffer ==
    /\ offer = "locked" /\ payment = "claimed" /\ offer' = "claimed"
    /\ UNCHANGED <<payment, filled, outcome, now>>

RefundPayment ==
    /\ payment = "locked" /\ now > PaymentLocktime /\ payment' = "refunded"
    /\ UNCHANGED <<offer, filled, outcome, now>>

RefundOffer ==
    /\ offer = "locked" /\ now > OfferLocktime /\ offer' = "refunded"
    /\ UNCHANGED <<payment, filled, outcome, now>>

Report(p) ==
    /\ Settled /\ filled' = filled \cup {p}
    /\ UNCHANGED <<offer, payment, outcome, now>>

\* An order that closes stays closed.
Close ==
    /\ outcome = "open"
    /\ \/ Settled /\ outcome' = "fill"
       \/ offer = "refunded" /\ outcome' = "release"
    /\ UNCHANGED <<offer, payment, filled, now>>

Elapse ==
    /\ now' = now + 1
    /\ UNCHANGED <<offer, payment, filled, outcome>>

Next ==
    \/ LockOffer \/ LockPayment \/ ClaimPayment \/ ClaimOffer
    \/ RefundPayment \/ RefundOffer \/ Close \/ Elapse
    \/ \E p \in Party : Report(p)

Spec == Init /\ [][Next]_vars

=============================================================================
