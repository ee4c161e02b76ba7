------------------------------- MODULE OrderLife --------------------------------
(***************************************************************************)
(* What the maker's order amounts to, without outbox, relays, pages or     *)
(* concurrent calls: an amount that is sold in parts.  A part is held for  *)
(* one taker before it is sold, it is sold or given back whole, and what   *)
(* ended never changes again.  Every change is the next revision.          *)
(***************************************************************************)
EXTENDS Naturals

CONSTANTS
    Amount,       \* what the order offers
    Minimum,      \* the smallest part, except the last
    Reservation,  \* records with the field amount
    None

VARIABLES
    status,
    revision,
    left,         \* what is not sold yet
    held          \* the reservation that holds a part of it, or None

vars == <<status, revision, left, held>>

Init ==
    /\ status = "private" /\ revision = 0
    /\ left = Amount /\ held = None

\* No part is smaller than the minimum, and none leaves less than the minimum.
Fits(part) ==
    /\ part <= left
    /\ part = left \/ (part >= Minimum /\ left - part >= Minimum)

Resting == status \in {"open", "partially_filled"}
Rest(amount) ==
    IF amount = 0 THEN "filled" ELSE IF amount = Amount THEN "open" ELSE "partially_filled"

Publish ==
    /\ status = "private" /\ status' = "open"
    /\ UNCHANGED <<revision, left, held>>

Hold ==
    /\ Resting /\ held' \in Reservation /\ Fits(held'.amount)
    /\ status' = "reserved" /\ revision' = revision + 1
    /\ UNCHANGED left

Sell ==
    /\ status = "reserved" /\ Fits(held.amount)
    /\ left' = left - held.amount /\ held' = None
    /\ status' = Rest(left') /\ revision' = revision + 1

GiveBack ==
    /\ status = "reserved"
    /\ held' = None /\ status' = Rest(left) /\ revision' = revision + 1
    /\ UNCHANGED left

End ==
    /\ Resting /\ status' \in {"canceled", "expired"} /\ revision' = revision + 1
    /\ UNCHANGED <<left, held>>

Next == Publish \/ Hold \/ Sell \/ GiveBack \/ End

Spec == Init /\ [][Next]_vars

\* No remnant: what is left can be sold as one part, or nothing is left.
NoRemnant == left = 0 \/ left >= Minimum

=================================================================================
