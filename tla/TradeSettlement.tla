--------------------------- MODULE TradeSettlement ---------------------------
(***************************************************************************)
(* The settlement of one Granola trade: the maker's and the taker's        *)
(* durable trade sessions (src/src/trade/coordinator-plan.ts plans the     *)
(* next step of each, src/src/trade/effects.ts performs it), the two HTLCs *)
(* at the Cashu mints, the encrypted messages at the Nostr relays, and the *)
(* maker's order publication.                                              *)
(*                                                                         *)
(* The protocol slot "base" is the maker's offer, locked first and for     *)
(* long; "quote" is the taker's payment, locked second and for short.      *)
(* SlotLeg maps a slot to the market leg it is for the order's side.       *)
(*                                                                         *)
(* A session advances one planned step at a time.  A step that has an      *)
(* external effect may lose its result before it is saved (the tab closes, *)
(* the network call times out): the effect stays and the session does not  *)
(* change.  The request of execute_cashu_operation travels on its own, so  *)
(* it may reach the mint long after the plan was made.                     *)
(***************************************************************************)
EXTENDS Naturals

CONSTANTS
    OrderSide,              \* "sell" or "buy"
    MakerClaimCutoff,       \* the settlement plan's deadlines, as instants
    ShortLocktime,
    TakerClaimCutoff,
    LongLocktime,
    RefundGuard,
    ReservationExpiresAt,
    MaxTime,                \* bound: the clock stops here
    MaxFaults               \* bound: crashes, lost requests, lost results

\* createSettlementPlan: 480 < 600 < 660 < 1080 < 1200 < 1260 < 1800.
ASSUME PlanAssumption ==
    /\ OrderSide \in {"sell", "buy"}
    /\ {MakerClaimCutoff, ShortLocktime, TakerClaimCutoff, LongLocktime,
        RefundGuard, ReservationExpiresAt, MaxTime, MaxFaults} \subseteq Nat
    /\ MakerClaimCutoff < ShortLocktime
    /\ ShortLocktime + RefundGuard < TakerClaimCutoff
    /\ TakerClaimCutoff < LongLocktime
    /\ LongLocktime + RefundGuard < ReservationExpiresAt

VARIABLES
    session,    \* [Role -> Session], what the session repository holds
    waiting,    \* [Role -> BOOLEAN], a call of execute_cashu_operation is pending
    wire,       \* mint requests on their way
    mint,       \* [Slot -> LegState], the HTLCs at the mints
    relay,      \* messages the relays hold
    order,      \* the order outbox's entry and whether relays accepted it
    now,
    faults

vars == <<session, waiting, wire, mint, relay, order, now, faults>>

-----------------------------------------------------------------------------
(* Roles, slots and deadlines *)

Role == {"maker", "taker"}
Slot == {"base", "quote"}

OtherSlot(slot) == IF slot = "base" THEN "quote" ELSE "base"

\* Maps a protocol slot to its market leg for either order side.
SlotLeg(slot) == IF OrderSide = "buy" THEN OtherSlot(slot) ELSE slot

OwnSlot(r) == IF r = "maker" THEN "base" ELSE "quote"
Locktime(slot) == IF slot = "base" THEN LongLocktime ELSE ShortLocktime
ClaimCutoff(slot) == IF slot = "base" THEN TakerClaimCutoff ELSE MakerClaimCutoff
RefundableAfter(slot) == Locktime(slot) + RefundGuard

\* A role locks and refunds its own slot and claims the other one.
Kind == {"lock", "claim", "refund"}

\* Mutant: a claim addresses the claimer's own slot.
ClaimsOwnSlot(r, kind) == OwnSlot(r)

KindSlot(r, kind) == IF kind = "claim" THEN OtherSlot(OwnSlot(r)) ELSE OwnSlot(r)
Request == [role: Role, kind: Kind]
RequestSlot(q) == KindSlot(q.role, q.kind)

-----------------------------------------------------------------------------
(* The durable session *)

Phase == {"negotiating", "base_locked", "quote_locked", "filled",
          "waiting_quote_refund", "waiting_base_refund", "released", "frozen"}

Choreography == {"absent", "awaiting_reserve_propose", "awaiting_reserve_accept",
                 "awaiting_quote_lock", "settling", "settled", "refunding", "failed"}

Message == {"reserve_propose", "reserve_accept", "quote_lock", "error"}

\* Evidence of a leg: nothing, UNSPENT, UNSPENT observed after the refund guard
\* ("expired"), SPENT with its verified witness.
Seen == {"none", "unspent", "expired", "spent"}

NoCashu == [kind |-> "none", status |-> "none", reserved |-> FALSE]
Cashu == {NoCashu} \cup
         [kind: Kind, status: {"prepared", "completed", "wallet_applied"}, reserved: BOOLEAN]

Operation == {"reserve", "fill", "release"}
NoPublication == [operation |-> "none", status |-> "none"]
Publication == {NoPublication} \cup
               [operation: Operation, status: {"staged", "committed"}]

Session ==
    [phase: Phase, choreography: Choreography, inbox: {"unregistered", "staged"},
     outbox: Message \cup {"none"}, incoming: Message \cup {"none"},
     cashu: Cashu, claimed: BOOLEAN, preimage: BOOLEAN,
     token: SUBSET Slot, seen: [Slot -> Seen],
     reserve: BOOLEAN, fill: BOOLEAN, publication: Publication]

NewSession(choreography, preimage) ==
    [phase |-> "negotiating", choreography |-> choreography, inbox |-> "unregistered",
     outbox |-> "none", incoming |-> "none",
     cashu |-> NoCashu, claimed |-> FALSE, preimage |-> preimage,
     token |-> {}, seen |-> [slot \in Slot |-> "none"],
     reserve |-> FALSE, fill |-> FALSE, publication |-> NoPublication]

LegState == {"unlocked", "locked", "claimed", "refunded"}

TypeOK ==
    /\ session \in [Role -> Session]
    /\ waiting \in [Role -> BOOLEAN]
    /\ wire \subseteq Request
    /\ mint \in [Slot -> LegState]
    /\ relay \subseteq Message
    /\ order \in [operation: {"create"} \cup Operation, published: BOOLEAN]
    /\ now \in 0..MaxTime
    /\ faults \in 0..MaxFaults

-----------------------------------------------------------------------------
(* nextCoordinatorAction: one step per session, from what is stored and the  *)
(* clock.  Each layer names the step it demands, or passes to the next one.  *)

Pass == "pass"
a ?? b == IF a = Pass THEN b ELSE a

\* Mutant: any observation counts as spent.
SpentOnceObserved(s, slot) == s.seen[slot] # "none"

Spent(s, slot) == s.seen[slot] = "spent"
BothLegsSpent(s) == \A slot \in Slot : Spent(s, slot)

\* Mutant: a release follows any finished operation, not only a refund.
ReleaseAfterAnyOperation(r) ==
    LET s == session[r]
    IN  IF s.cashu.status = "completed" THEN "reconcile_wallet"
        ELSE IF s.cashu.status # "wallet_applied" THEN Pass
        ELSE IF ~(r = "maker" /\ s.reserve) THEN "clear_cashu_operation"
        ELSE IF s.publication.operation \in {"none", "reserve"} THEN "stage_order_release"
        ELSE IF s.publication.status = "committed" THEN "clear_cashu_operation"
        ELSE Pass

\* A finished mint operation comes first; a refund that lets the maker reopen
\* its order is kept until the release is published.
CashuDue(r) ==
    LET s == session[r]
        releases == r = "maker" /\ s.reserve
        refunded == s.cashu.status = "wallet_applied" /\ s.cashu.kind = "refund"
    IN  IF s.cashu.status = "completed" THEN "reconcile_wallet"
        ELSE IF ~refunded THEN Pass
        ELSE IF ~releases THEN "clear_cashu_operation"
        ELSE IF s.publication.operation \in {"none", "reserve"} THEN "stage_order_release"
        ELSE IF s.publication.operation = "fill" THEN "enter_recovery"
        ELSE IF s.publication.status = "committed" THEN "clear_cashu_operation"
        ELSE Pass

\* Reserve and fill publications are announced beside the steps (AnnounceOrder).
PublicationDue(r) ==
    IF session[r].publication = [operation |-> "release", status |-> "staged"]
    THEN "publish_order_projection" ELSE Pass

InboxDue(r) ==
    IF session[r].inbox = "unregistered" THEN "stage_inbox_registration" ELSE Pass

\* Every message of the direct choreography is useless from the claim cutoff on.
UnsafeStagedDelivery == now >= ReservationExpiresAt \/ now >= MakerClaimCutoff

OutboxDue(r) ==
    IF session[r].outbox = "none" THEN Pass
    ELSE IF UnsafeStagedDelivery THEN "enter_recovery" ELSE "deliver_outbox"

\* Mutant: an operation is still executed at the instant of its cutoff.
UnsafeAfterCutoff(r) ==
    LET kind == session[r].cashu.kind
        slot == KindSlot(r, kind)
    IN  IF kind = "refund" THEN now <= RefundableAfter(slot)
        ELSE now > (IF kind = "claim" /\ slot = "base"
                    THEN TakerClaimCutoff ELSE MakerClaimCutoff)

UnsafePreparedOperation(r) ==
    LET kind == session[r].cashu.kind
        slot == KindSlot(r, kind)
    IN  IF kind = "refund" THEN now <= RefundableAfter(slot)
        ELSE now >= (IF kind = "claim" /\ slot = "base"
                     THEN TakerClaimCutoff ELSE MakerClaimCutoff)

PreparedDue(r) ==
    IF session[r].cashu.status # "prepared" THEN Pass
    ELSE IF UnsafePreparedOperation(r) THEN "enter_recovery"
    ELSE IF session[r].cashu.reserved THEN "execute_cashu_operation"
    ELSE "reserve_cashu_inputs"

IncomingDue(r) == IF session[r].incoming # "none" THEN "validate_incoming" ELSE Pass

TerminalDue(r) ==
    LET s == session[r]
        terminal == \/ s.phase = "filled" /\ BothLegsSpent(s)
                    \/ /\ s.phase = "released"
                       /\ s.publication = [operation |-> "release", status |-> "committed"]
                    \/ s.phase = "frozen" /\ ~s.reserve /\ s.token = {}
    IN  IF terminal THEN "none"
        ELSE IF s.choreography = "settled" THEN "enter_recovery" ELSE Pass

\* Mutant: only a session that entered recovery refunds.
RefundInRecovery(r) ==
    LET s == session[r]
        own == OwnSlot(r)
    IN  IF s.choreography = "refunding" /\ own \in s.token /\ ~Spent(s, own)
           /\ now >= RefundableAfter(own)
        THEN IF s.seen[own] = "expired" THEN "prepare_refund"
             ELSE IF own = "base" THEN "observe_base" ELSE "observe_quote"
        ELSE Pass

\* Recovery of the party's own lock, once it is old enough to be refunded.
RefundDue(r) ==
    LET s == session[r]
        own == OwnSlot(r)
    IN  IF own \in s.token /\ ~Spent(s, own) /\ now >= RefundableAfter(own)
        THEN IF s.seen[own] = "expired" THEN "prepare_refund"
             ELSE IF own = "base" THEN "observe_base" ELSE "observe_quote"
        ELSE Pass

CutoffDue(r) ==
    LET choreography == session[r].choreography
    IN  IF \/ /\ r = "maker" /\ now >= MakerClaimCutoff
              /\ choreography \in {"awaiting_reserve_accept", "settling"}
           \/ r = "taker" /\ now >= TakerClaimCutoff /\ choreography = "settling"
           \/ now >= ReservationExpiresAt
        THEN "enter_recovery" ELSE Pass

\* The steps before both legs are locked; all of them end at the claim cutoff.
LockingDue(r) ==
    LET s == session[r]
        late == now >= MakerClaimCutoff
        locking == {"awaiting_reserve_propose", "awaiting_reserve_accept", "awaiting_quote_lock"}
    IN  IF s.choreography \notin locking THEN Pass
        ELSE IF late THEN "enter_recovery"
        ELSE IF s.choreography = "awaiting_reserve_propose" THEN "stage_reserve_propose"
        ELSE IF s.choreography = "awaiting_reserve_accept" THEN
            IF r = "taker" THEN "poll_inbox"
            ELSE IF ~s.reserve THEN "stage_order_reserve"
            ELSE IF "base" \notin s.token THEN "prepare_lock"
            ELSE "stage_reserve_accept"
        ELSE IF r = "maker" THEN "poll_inbox"
        ELSE IF "quote" \notin s.token THEN "prepare_lock"
        ELSE "stage_quote_lock"

\* Mutant: the maker stages the fill as soon as it has the payment.
FillOncePaid(r) ==
    LET s == session[r]
    IN  IF s.choreography # "settling" THEN Pass
        ELSE IF ~(Spent(s, "quote") /\ (r = "maker" \/ s.preimage)) THEN
            IF r = "maker" /\ ~s.claimed THEN "prepare_claim" ELSE "observe_quote"
        ELSE IF r = "maker" /\ ~s.fill THEN "stage_order_fill"
        ELSE IF ~Spent(s, "base") THEN
            IF r = "taker" /\ ~s.claimed THEN "prepare_claim" ELSE "observe_base"
        ELSE "complete_settlement"

\* Both legs are locked: the maker claims the payment first, and the taker
\* learns the preimage from it.
SettlingDue(r) ==
    LET s == session[r]
        learned == Spent(s, "quote") /\ (r = "maker" \/ s.preimage)
    IN  IF s.choreography # "settling" THEN Pass
        ELSE IF ~learned THEN
            IF r = "maker" /\ ~s.claimed THEN "prepare_claim" ELSE "observe_quote"
        ELSE IF ~Spent(s, "base") THEN
            IF r = "taker" /\ ~s.claimed THEN "prepare_claim" ELSE "observe_base"
        ELSE IF r = "maker" /\ ~s.fill THEN "stage_order_fill"
        ELSE "complete_settlement"

StoppedDue(r) ==
    IF session[r].choreography = "refunding" THEN "enter_recovery" ELSE "none"

Plan(r) ==
    CashuDue(r) ?? (PublicationDue(r) ?? (InboxDue(r) ?? (OutboxDue(r) ?? (PreparedDue(r)
    ?? (IncomingDue(r) ?? (TerminalDue(r) ?? (RefundDue(r) ?? (CutoffDue(r)
    ?? (LockingDue(r) ?? (SettlingDue(r) ?? StoppedDue(r)))))))))))

-----------------------------------------------------------------------------
(* Saving a step.  The repository refuses a phase change that is not on its  *)
(* list, and then the whole step fails.                                      *)

HappyPathPhases ==
    {<<"negotiating", "base_locked">>, <<"base_locked", "quote_locked">>,
     <<"quote_locked", "filled">>, <<"base_locked", "waiting_base_refund">>,
     <<"quote_locked", "waiting_quote_refund">>,
     <<"waiting_quote_refund", "waiting_base_refund">>,
     <<"waiting_base_refund", "released">>}

PhaseAllowed(old, new) == old = new \/ new = "frozen" \/ <<old, new>> \in HappyPathPhases

Fault == faults < MaxFaults /\ faults' = faults + 1

Save(r, s) ==
    /\ PhaseAllowed(session[r].phase, s.phase)
    /\ session' = [session EXCEPT ![r] = s]

\* The result of an external effect: saved; or not, because the repository
\* refuses it or because it is lost.  The effect itself stays either way.
Checkpoint(r, s) ==
    \/ Save(r, s) /\ UNCHANGED faults
    \/ ~PhaseAllowed(session[r].phase, s.phase) /\ UNCHANGED <<session, faults>>
    \/ Fault /\ UNCHANGED session

Ready(r, action) ==
    session[r].choreography # "absent" /\ ~waiting[r] /\ Plan(r) = action

\* A step that touches nothing but the session.
LocalStep(r, s) ==
    Save(r, s) /\ UNCHANGED <<waiting, wire, mint, relay, order, now, faults>>

-----------------------------------------------------------------------------
(* Local steps *)

StageInbox(r) ==
    /\ Ready(r, "stage_inbox_registration")
    /\ LocalStep(r, [session[r] EXCEPT !.inbox = "staged"])

EnterRecovery(r) ==
    /\ Ready(r, "enter_recovery")
    /\ LocalStep(r,
        IF OwnSlot(r) \in session[r].token
        THEN [session[r] EXCEPT !.choreography = "refunding",
                 !.phase = IF r = "maker" THEN "waiting_base_refund" ELSE "waiting_quote_refund"]
        ELSE [session[r] EXCEPT !.choreography = "failed", !.phase = "frozen"])

CompleteSettlement(r) ==
    /\ Ready(r, "complete_settlement")
    /\ BothLegsSpent(session[r])
    /\ LocalStep(r, [session[r] EXCEPT !.choreography = "settled", !.phase = "filled"])

ClearCashuOperation(r) ==
    /\ Ready(r, "clear_cashu_operation")
    /\ LocalStep(r, [session[r] EXCEPT !.cashu = NoCashu])

-----------------------------------------------------------------------------
(* Messages *)

StagedMessage == [stage_reserve_propose |-> "reserve_propose",
                  stage_reserve_accept |-> "reserve_accept",
                  stage_quote_lock |-> "quote_lock"]

\* advanceAtomicSwapChoreography and rootPhase: where a message leads.
NextChoreography == [reserve_propose |-> "awaiting_reserve_accept",
                     reserve_accept |-> "awaiting_quote_lock",
                     quote_lock |-> "settling", error |-> "failed"]

RootPhase == [awaiting_reserve_accept |-> "negotiating", awaiting_quote_lock |-> "base_locked",
              settling |-> "quote_locked", failed |-> "frozen"]

Advanced(s, message) ==
    LET next == NextChoreography[message]
    IN  [s EXCEPT !.choreography = next, !.phase = RootPhase[next]]

StageOutgoing(r) ==
    \E action \in DOMAIN StagedMessage :
        /\ Ready(r, action)
        /\ now < ReservationExpiresAt
        /\ LocalStep(r, [session[r] EXCEPT !.outbox = StagedMessage[action]])

\* deliverOutbox and commitOutbox: the relays accept the wrapper and the
\* transcript advances in one save.
DeliverOutbox(r) ==
    LET message == session[r].outbox
    IN  /\ Ready(r, "deliver_outbox")
        /\ relay' = relay \cup {message}
        /\ Checkpoint(r, [Advanced(session[r], message) EXCEPT !.outbox = "none"])
        /\ UNCHANGED <<waiting, wire, mint, order, now>>

\* The maker takes the proposal of an order that is still open: a new session.
MakerAccepts ==
    /\ session["maker"].choreography = "absent"
    /\ "reserve_propose" \in relay /\ "error" \notin relay
    /\ now < ReservationExpiresAt
    /\ session' = [session EXCEPT !["maker"] = NewSession("awaiting_reserve_accept", TRUE)]
    /\ UNCHANGED <<waiting, wire, mint, relay, order, now, faults>>

\* Another session holds the order, or the order changed: the answer is an error.
RejectProposal ==
    /\ session["maker"].choreography = "absent"
    /\ "reserve_propose" \in relay
    /\ now < ReservationExpiresAt
    /\ relay' = relay \cup {"error"}
    /\ UNCHANGED <<session, waiting, wire, mint, order, now, faults>>

Expected(r) == IF r = "taker" THEN {"reserve_accept", "error"} ELSE {"quote_lock"}

PollInbox(r) ==
    /\ Ready(r, "poll_inbox")
    /\ now < ReservationExpiresAt
    /\ \E message \in relay \cap Expected(r) :
           LocalStep(r, [session[r] EXCEPT !.incoming = message])

\* Mutant: the token of the acceptance is validated but not stored.
ValidateWithoutToken(r) ==
    LET message == session[r].incoming
        slot == OtherSlot(OwnSlot(r))
        accepted == [Advanced(session[r], message) EXCEPT !.incoming = "none"]
    IN  /\ Ready(r, "validate_incoming")
        /\ now < ReservationExpiresAt
        /\ \/ message = "error" /\ LocalStep(r, accepted)
           \/ /\ message # "error" /\ mint[slot] = "locked"
              /\ LocalStep(r, [accepted EXCEPT
                     !.token = IF message = "quote_lock" THEN @ \cup {slot} ELSE @,
                     !.seen[slot] = "unspent",
                     !.reserve = @ \/ message = "reserve_accept"])

\* A lock message is opened at the mint again: its proofs must be unspent.
ValidateIncoming(r) ==
    LET message == session[r].incoming
        slot == OtherSlot(OwnSlot(r))
        accepted == [Advanced(session[r], message) EXCEPT !.incoming = "none"]
    IN  /\ Ready(r, "validate_incoming")
        /\ now < ReservationExpiresAt
        /\ \/ message = "error" /\ LocalStep(r, accepted)
           \/ /\ message # "error" /\ mint[slot] = "locked"
              /\ LocalStep(r, [accepted EXCEPT !.token = @ \cup {slot},
                                   !.seen[slot] = "unspent",
                                   !.reserve = @ \/ message = "reserve_accept"])

-----------------------------------------------------------------------------
(* Cashu operations *)

\* The mint is asked about the locked proofs before a claim or a refund.
Preparable(r, kind) ==
    LET slot == KindSlot(r, kind)
    IN  /\ kind # "lock" => slot \in session[r].token /\ mint[slot] = "locked"
        /\ kind = "claim" => session[r].preimage /\ now < ClaimCutoff(slot)
        /\ kind = "refund" => now > RefundableAfter(slot)

PlannedKind == [prepare_lock |-> "lock", prepare_claim |-> "claim", prepare_refund |-> "refund"]

PrepareCashu(r) ==
    \E action \in DOMAIN PlannedKind :
        LET kind == PlannedKind[action]
        IN  /\ Ready(r, action)
            /\ Preparable(r, kind)
            /\ LocalStep(r, [session[r] EXCEPT
                   !.cashu = [kind |-> kind, status |-> "prepared", reserved |-> FALSE],
                   !.claimed = @ \/ kind = "claim"])

ReserveCashuInputs(r) ==
    /\ Ready(r, "reserve_cashu_inputs")
    /\ LocalStep(r, [session[r] EXCEPT !.cashu.reserved = TRUE])

CashuRequest(r) == [role |-> r, kind |-> session[r].cashu.kind]
Outcome == [lock |-> "locked", claim |-> "claimed", refund |-> "refunded"]

\* Only one role can lock, claim or refund a given slot, so the outcome names
\* the request.  A lock is done whatever happened to it afterwards.
Done(q) ==
    IF q.kind = "lock" THEN mint[RequestSlot(q)] # "unlocked"
    ELSE mint[RequestSlot(q)] = Outcome[q.kind]

\* The spend conditions of the mint: a claim shows the preimage at any time, a
\* refund waits for the locktime.
MintAccepts(q) ==
    /\ mint[RequestSlot(q)] = (IF q.kind = "lock" THEN "unlocked" ELSE "locked")
    /\ q.kind = "refund" => now > Locktime(RequestSlot(q))

\* Mutant: outputs of an earlier call are never restored.
ExecuteWithoutRestore(r) ==
    LET q == CashuRequest(r)
    IN  /\ Ready(r, "execute_cashu_operation")
        /\ MintAccepts(q)
        /\ waiting' = [waiting EXCEPT ![r] = TRUE]
        /\ wire' = wire \cup {q}
        /\ UNCHANGED <<session, mint, relay, order, now, faults>>

\* executeCashu asks the mint to restore the outputs first, and sends the swap
\* only when there is nothing to restore.
ExecuteCashu(r) ==
    LET q == CashuRequest(r)
    IN  /\ Ready(r, "execute_cashu_operation")
        /\ Done(q) \/ MintAccepts(q)
        /\ waiting' = [waiting EXCEPT ![r] = TRUE]
        /\ wire' = IF Done(q) THEN wire ELSE wire \cup {q}
        /\ UNCHANGED <<session, mint, relay, order, now, faults>>

MintProcess(q) ==
    /\ q \in wire
    /\ wire' = wire \ {q}
    /\ mint' = IF MintAccepts(q)
               THEN [mint EXCEPT ![RequestSlot(q)] = Outcome[q.kind]] ELSE mint
    /\ UNCHANGED <<session, waiting, relay, order, now, faults>>

\* Mutant: the completed lock's token is not checkpointed.
ReturnWithoutToken(r) ==
    /\ waiting[r] /\ Done(CashuRequest(r))
    /\ Save(r, [session[r] EXCEPT !.cashu.status = "completed"])
    /\ waiting' = [waiting EXCEPT ![r] = FALSE]
    /\ UNCHANGED <<wire, mint, relay, order, now, faults>>

ExecuteReturn(r) ==
    LET q == CashuRequest(r)
        completed == [session[r] EXCEPT !.cashu.status = "completed"]
    IN  /\ waiting[r] /\ Done(q)
        /\ Save(r, IF q.kind = "lock"
                   THEN [completed EXCEPT !.token = @ \cup {OwnSlot(r)},
                             !.seen[OwnSlot(r)] = "unspent"]
                   ELSE completed)
        /\ waiting' = [waiting EXCEPT ![r] = FALSE]
        /\ UNCHANGED <<wire, mint, relay, order, now, faults>>

\* The mint refused the request, or it never arrived: the step is retried.
ExecuteError(r) ==
    /\ waiting[r] /\ ~Done(CashuRequest(r)) /\ CashuRequest(r) \notin wire
    /\ waiting' = [waiting EXCEPT ![r] = FALSE]
    /\ UNCHANGED <<session, wire, mint, relay, order, now, faults>>

ReconcileWallet(r) ==
    /\ Ready(r, "reconcile_wallet")
    /\ LocalStep(r, [session[r] EXCEPT !.cashu.status = "wallet_applied"])

\* The coordinator checks the literal market leg before it performs the
\* observation, whatever the order's side; observeLeg reads the slot's own leg.
ObservationCheckpoint(slot) == SlotLeg(slot)

\* Mutant: an observation after the refund guard is not told from an earlier one.
ObservedUndated(slot) == IF mint[slot] = "claimed" THEN "spent" ELSE "unspent"

Observed(slot) ==
    IF mint[slot] = "claimed" THEN "spent"
    ELSE IF now > RefundableAfter(slot) THEN "expired" ELSE "unspent"

\* Mutant: the preimage of the observed witness is not kept.
ObserveWithoutPreimage(r, slot) ==
    /\ Ready(r, IF slot = "base" THEN "observe_base" ELSE "observe_quote")
    /\ {slot, ObservationCheckpoint(slot)} \subseteq session[r].token
    /\ mint[slot] # "refunded"
    /\ LocalStep(r, [session[r] EXCEPT !.seen[slot] = Observed(slot)])

\* A spent proof without a preimage (a refund) is no evidence: the step fails.
Observe(r, slot) ==
    /\ Ready(r, IF slot = "base" THEN "observe_base" ELSE "observe_quote")
    /\ {slot, ObservationCheckpoint(slot)} \subseteq session[r].token
    /\ mint[slot] # "refunded"
    /\ LocalStep(r, [session[r] EXCEPT
           !.seen[slot] = Observed(slot),
           !.preimage = @ \/ (r = "taker" /\ slot = "quote" /\ mint[slot] = "claimed")])

-----------------------------------------------------------------------------
(* The maker's order *)

StagedOperation == [stage_order_reserve |-> "reserve", stage_order_fill |-> "fill",
                    stage_order_release |-> "release"]

\* Which head of the order a publication succeeds; staging again is idempotent.
Succeeds(operation) ==
    IF operation = "reserve" THEN {"create", "reserve"} ELSE {"reserve", operation}

\* stageOrder: a release waits for the reservation to expire.  A fill or a
\* release may replace a reserve that is not committed yet.
StageOrder(r) ==
    \E action \in DOMAIN StagedOperation :
        LET operation == StagedOperation[action]
            published == order.operation = operation /\ order.published
        IN  /\ Ready(r, action)
            /\ session[r].publication.operation \in
                   {"none"} \cup (IF operation = "reserve" THEN {} ELSE {"reserve"})
            /\ order.operation \in Succeeds(operation)
            /\ operation = "release" => order.operation = "release" \/ now >= ReservationExpiresAt
            /\ order' = [operation |-> operation, published |-> published]
            /\ Checkpoint(r, [session[r] EXCEPT
                   !.publication = [operation |-> operation,
                                    status |-> IF published THEN "committed" ELSE "staged"],
                   !.reserve = @ \/ operation = "reserve",
                   !.fill = @ \/ operation = "fill"])
            /\ UNCHANGED <<waiting, wire, mint, relay, now>>

\* publishOrderStage publishes whatever entry the order's outbox holds; only a
\* session that recorded the same publication saves the acknowledgement.
Published(r) == [session[r] EXCEPT !.publication.status = "committed"]

PublishRelease(r) ==
    /\ Ready(r, "publish_order_projection")
    /\ order' = [order EXCEPT !.published = TRUE]
    /\ IF order.operation = "release"
       THEN Checkpoint(r, [Published(r) EXCEPT !.phase = "released"])
       ELSE UNCHANGED <<session, faults>>
    /\ UNCHANGED <<waiting, wire, mint, relay, now>>

\* startAnnouncements: beside the steps, also while a mint call is pending.
AnnounceOrder(r) ==
    /\ session[r].publication.status = "staged"
    /\ session[r].publication.operation \in {"reserve", "fill"}
    /\ order' = [order EXCEPT !.published = TRUE]
    /\ IF order.operation = session[r].publication.operation
       THEN Checkpoint(r, Published(r))
       ELSE UNCHANGED <<session, faults>>
    /\ UNCHANGED <<waiting, wire, mint, relay, now>>

-----------------------------------------------------------------------------
(* Failures and time *)

\* The tab closes, or the call times out, while the mint's answer is pending.
Crash(r) ==
    /\ waiting[r] /\ Fault
    /\ waiting' = [waiting EXCEPT ![r] = FALSE]
    /\ UNCHANGED <<session, wire, mint, relay, order, now>>

LoseRequest(q) ==
    /\ q \in wire /\ Fault
    /\ wire' = wire \ {q}
    /\ UNCHANGED <<session, waiting, mint, relay, order, now>>

Tick ==
    /\ now < MaxTime
    /\ now' = now + 1
    /\ UNCHANGED <<session, waiting, wire, mint, relay, order, faults>>

-----------------------------------------------------------------------------

Init ==
    /\ session = [r \in Role |-> NewSession(IF r = "taker" THEN "awaiting_reserve_propose"
                                            ELSE "absent", FALSE)]
    /\ waiting = [r \in Role |-> FALSE]
    /\ wire = {}
    /\ mint = [slot \in Slot |-> "unlocked"]
    /\ relay = {}
    /\ order = [operation |-> "create", published |-> TRUE]
    /\ now = 0
    /\ faults = 0

SessionStep(r) ==
    \/ StageInbox(r) \/ EnterRecovery(r) \/ CompleteSettlement(r) \/ ClearCashuOperation(r)
    \/ StageOutgoing(r) \/ DeliverOutbox(r) \/ PollInbox(r) \/ ValidateIncoming(r)
    \/ PrepareCashu(r) \/ ReserveCashuInputs(r)
    \/ ExecuteCashu(r) \/ ExecuteReturn(r) \/ ExecuteError(r) \/ ReconcileWallet(r)
    \/ \E slot \in Slot : Observe(r, slot)
    \/ StageOrder(r) \/ PublishRelease(r) \/ AnnounceOrder(r)

MakerInboxStep == MakerAccepts \/ RejectProposal

Next ==
    \/ \E r \in Role : SessionStep(r) \/ Crash(r)
    \/ MakerInboxStep
    \/ \E q \in Request : MintProcess(q) \/ LoseRequest(q)
    \/ Tick

Spec == Init /\ [][Next]_vars

-----------------------------------------------------------------------------
(* What must hold, however slow either party is and whatever is lost. *)

Claimed(slot) == mint[slot] = "claimed"
BothClaimed == \A slot \in Slot : Claimed(slot)

\* The maker's offer can only be claimed once the taker's payment is: the taker
\* has no other way to the preimage (effects.ts, observeLeg).
OfferOnlyAfterPayment == Claimed("base") => Claimed("quote")

\* The taker's payment is locked only when the offer was, and only after the
\* taker itself validated and stored the offer's token (validateIncoming before
\* prepare_quote_lock).
PaymentOnlyAfterOffer ==
    mint["quote"] # "unlocked" => mint["base"] # "unlocked" /\ "base" \in session["taker"].token

\* A session reports "filled" only when both mints have paid out, although it
\* relies on observations it made earlier and across restarts.
FilledMeansBothClaimed == \A r \in Role : session[r].phase = "filled" => BothClaimed

\* The maker tells the order book "fill" only of a settled trade and "release"
\* only when its offer is back, and never both.
PublicationBackedByMint ==
    /\ order.operation = "fill" => BothClaimed
    /\ order.operation = "release" => mint["base"] = "refunded"

\* Funds never depend on an answer that was lost: a lock the mint holds is in
\* its owner's session, as a token or as a reserved operation that can restore
\* it, and a claim or a refund the mint accepted is in its author's.
MintEffectsAreJournaled ==
    /\ \A r \in Role : mint[OwnSlot(r)] # "unlocked" =>
           \/ OwnSlot(r) \in session[r].token
           \/ session[r].cashu = [kind |-> "lock", status |-> "prepared", reserved |-> TRUE]
    /\ \A r \in Role : Claimed(OtherSlot(OwnSlot(r))) => session[r].claimed
    /\ \A r \in Role : mint[OwnSlot(r)] = "refunded" => session[r].seen[OwnSlot(r)] = "expired"

\* Once the maker has the payment the taker holds all it needs to collect the
\* offer on its own: both tokens, whatever the maker sends or withholds.
ClaimLeavesTakerAble == Claimed("quote") => session["taker"].token = Slot

\* No request leaves for a mint outside its window, retries after a restart
\* included: locks and the maker's claim before the maker's cutoff, the taker's
\* claim before the taker's, a refund after the locktime and the guard.
InWindow(q) ==
    CASE q.kind = "refund" -> now > RefundableAfter(RequestSlot(q))
      [] q = [role |-> "taker", kind |-> "claim"] -> now < TakerClaimCutoff
      [] OTHER -> now < MakerClaimCutoff

RequestsInWindow == [][\A q \in wire' \ wire : InWindow(q)]_vars

\* The trade implements the atomic swap: a mint's leg is a leg, a session in
\* phase "filled" is a report, the outbox's fill or release closes the order.
Swap == INSTANCE AtomicSwap WITH
    Party <- Role,
    PaymentLocktime <- ShortLocktime,
    OfferLocktime <- LongLocktime,
    offer <- mint["base"],
    payment <- mint["quote"],
    filled <- {r \in Role : session[r].phase = "filled"},
    outcome <- IF order.operation \in {"fill", "release"} THEN order.operation ELSE "open"

ImplementsAtomicSwap == Swap!Spec

=============================================================================
