------------------------------- MODULE TradeTerms -------------------------------
(***************************************************************************)
(* The terms two sides settle on: the deadlines of a settlement plan, as   *)
(* the maker makes them, sends them and both store them, and the amounts   *)
(* of a fill.  Functions only; times are seconds, amounts are integers.    *)
(***************************************************************************)
EXTENDS Integers

-----------------------------------------------------------------------------
(* Deadlines *)

Skew == 30              \* how far a mint's clock may be from the local one
ShortLock == 10 * 60
LongLock == 20 * 60
Reservation == 30 * 60
ClaimMargin == 120
Guard == 60             \* refundGuardSeconds
Gaps == {600, 3 * 86400}

Clocks == [local : Nat, base : Nat, quote : Nat]
Later(a, b) == IF a > b THEN a ELSE b
Anchor(clocks) == Later(clocks.local, Later(clocks.base, clocks.quote))
Agree(local, mint) == mint - local \in -Skew .. Skew

\* createSettlementPlan: when it makes a plan, and the plan it makes.
MayPlan(clocks, orderExpiresAt) ==
    /\ Agree(clocks.local, clocks.base) /\ Agree(clocks.local, clocks.quote)
    /\ orderExpiresAt >= Anchor(clocks) + Reservation
PlanFrom(anchor) ==
    [anchor               |-> anchor,
     shortLocktime        |-> anchor + ShortLock,
     makerClaimCutoff     |-> anchor + ShortLock - ClaimMargin,
     longLocktime         |-> anchor + LongLock,
     takerClaimCutoff     |-> anchor + LongLock - ClaimMargin,
     reservationExpiresAt |-> anchor + Reservation]

\* What a reserve_accept says of the plan, and what its reader requires of it.
Body == [short_locktime : Nat, maker_claim_cutoff : Nat, long_locktime : Nat,
         taker_claim_cutoff : Nat, reservation_expires_at : Nat]
Acceptance(plan) ==
    [short_locktime         |-> plan.shortLocktime,
     maker_claim_cutoff     |-> plan.makerClaimCutoff,
     long_locktime          |-> plan.longLocktime,
     taker_claim_cutoff     |-> plan.takerClaimCutoff,
     reservation_expires_at |-> plan.reservationExpiresAt]
ValidAcceptance(body) ==
    /\ body.maker_claim_cutoff = body.short_locktime - ClaimMargin
    /\ body.long_locktime - body.short_locktime \in Gaps
    /\ body.taker_claim_cutoff = body.long_locktime - ClaimMargin
    /\ body.reservation_expires_at >= body.long_locktime + 600

\* The plan the taker stores for it, with an anchor worked out backwards.
Adopted(body) ==
    [anchor               |-> body.short_locktime -
                                (IF body.long_locktime - body.short_locktime = 3 * 86400
                                 THEN 4 * 86400 ELSE 600),
     shortLocktime        |-> body.short_locktime,
     makerClaimCutoff     |-> body.maker_claim_cutoff,
     longLocktime         |-> body.long_locktime,
     takerClaimCutoff     |-> body.taker_claim_cutoff,
     reservationExpiresAt |-> body.reservation_expires_at]

\* What the store, and the check of a lock's deadlines, require of a plan.
Storable(plan) ==
    /\ {plan.anchor, plan.shortLocktime, plan.makerClaimCutoff, plan.longLocktime,
        plan.takerClaimCutoff, plan.reservationExpiresAt} \subseteq Nat
    /\ plan.makerClaimCutoff = plan.shortLocktime - ClaimMargin
    /\ plan.longLocktime - plan.shortLocktime \in Gaps
    /\ plan.takerClaimCutoff = plan.longLocktime - ClaimMargin
Lockable(plan) ==
    /\ plan.longLocktime > plan.shortLocktime
    /\ plan.longLocktime - plan.shortLocktime \in Gaps

-----------------------------------------------------------------------------
(* Amounts *)

Satoshis == 100000000   \* a price is in cents per bitcoin

\* quoteAmountForSettlement: whole cents, and a fill must be worth one.
Quote(base, price) == (base * price) \div Satoshis

\* validateFillShape: what the order may reserve and fill.
OrderTakes(order, fill) ==
    /\ fill <= order.remaining
    /\ order.execution = "all_or_none" => fill = order.remaining
    /\ order.execution = "partial" =>
          /\ fill >= order.minimum \/ fill = order.remaining
          /\ ~(order.remaining - fill > 0 /\ order.remaining - fill < order.minimum)
    /\ Quote(fill, order.price) # 0

\* settlementAmounts, and its caller: what a session may be made for.
SessionTakes(order, fill) ==
    /\ fill <= order.remaining
    /\ order.execution = "all_or_none" => fill = order.remaining
    /\ order.execution = "partial" => fill >= order.minimum
    /\ Quote(fill, order.price) # 0
    /\ ~(order.remaining - fill > 0 /\ order.remaining - fill < order.minimum)

=================================================================================
