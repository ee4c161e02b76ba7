------------------------ MODULE TradeSettlement_proofs ------------------------
(***************************************************************************)
(* Theorems about TradeSettlement, for every value of its constants.       *)
(***************************************************************************)
EXTENDS TradeSettlement, Integers, TLAPS

-----------------------------------------------------------------------------
(* What the plan of a step says about the session that planned it *)

\* The steps each layer of the plan may demand.
LEMMA LayerSteps ==
    ASSUME NEW r
    PROVE  /\ CashuDue(r) \in {Pass, "reconcile_wallet", "clear_cashu_operation",
                               "stage_order_release", "enter_recovery"}
           /\ PublicationDue(r) \in {Pass, "publish_order_projection"}
           /\ InboxDue(r) \in {Pass, "stage_inbox_registration"}
           /\ OutboxDue(r) \in {Pass, "enter_recovery", "deliver_outbox"}
           /\ PreparedDue(r) \in {Pass, "enter_recovery", "execute_cashu_operation",
                                  "reserve_cashu_inputs"}
           /\ IncomingDue(r) \in {Pass, "validate_incoming"}
           /\ TerminalDue(r) \in {Pass, "none", "enter_recovery"}
           /\ RefundDue(r) \in {Pass, "prepare_refund", "observe_base", "observe_quote"}
           /\ CutoffDue(r) \in {Pass, "enter_recovery"}
           /\ LockingDue(r) \in {Pass, "enter_recovery", "stage_reserve_propose", "poll_inbox",
                                 "stage_order_reserve", "prepare_lock", "stage_reserve_accept",
                                 "stage_quote_lock"}
           /\ SettlingDue(r) \in {Pass, "prepare_claim", "observe_quote", "observe_base",
                                  "stage_order_fill", "complete_settlement"}
           /\ StoppedDue(r) \in {"enter_recovery", "none"}
<1>1. CashuDue(r) \in {Pass, "reconcile_wallet", "clear_cashu_operation",
                       "stage_order_release", "enter_recovery"}
  BY DEF CashuDue
<1>2. PublicationDue(r) \in {Pass, "publish_order_projection"} BY DEF PublicationDue
<1>3. InboxDue(r) \in {Pass, "stage_inbox_registration"} BY DEF InboxDue
<1>4. OutboxDue(r) \in {Pass, "enter_recovery", "deliver_outbox"} BY DEF OutboxDue
<1>5. PreparedDue(r) \in {Pass, "enter_recovery", "execute_cashu_operation",
                          "reserve_cashu_inputs"}
  BY DEF PreparedDue
<1>6. IncomingDue(r) \in {Pass, "validate_incoming"} BY DEF IncomingDue
<1>7. TerminalDue(r) \in {Pass, "none", "enter_recovery"} BY DEF TerminalDue
<1>8. RefundDue(r) \in {Pass, "prepare_refund", "observe_base", "observe_quote"}
  BY DEF RefundDue
<1>9. CutoffDue(r) \in {Pass, "enter_recovery"} BY DEF CutoffDue
<1>10. LockingDue(r) \in {Pass, "enter_recovery", "stage_reserve_propose", "poll_inbox",
                          "stage_order_reserve", "prepare_lock", "stage_reserve_accept",
                          "stage_quote_lock"}
  BY DEF LockingDue
<1>11. SettlingDue(r) \in {Pass, "prepare_claim", "observe_quote", "observe_base",
                           "stage_order_fill", "complete_settlement"}
  BY DEF SettlingDue
<1>12. StoppedDue(r) \in {"enter_recovery", "none"} BY DEF StoppedDue
<1> QED
  BY <1>1, <1>2, <1>3, <1>4, <1>5, <1>6, <1>7, <1>8, <1>9, <1>10, <1>11, <1>12

\* The taker locks its payment only after it accepted the maker's offer, and
\* only the maker sends the acceptance.
LEMMA PlanLock ==
    ASSUME NEW r
    PROVE  /\ Plan(r) = "prepare_lock" /\ r = "taker"
                  => session[r].choreography = "awaiting_quote_lock"
           /\ Plan(r) = "stage_reserve_accept" => r # "taker"
<1>1. Plan(r) \in {"prepare_lock", "stage_reserve_accept"} => LockingDue(r) = Plan(r)
  BY LayerSteps DEF Plan, ??, Pass
<1> QED BY <1>1 DEF LockingDue, Pass

\* Only the taker shows a payment, and only one it locked on an accepted offer.
LEMMA PlanShow ==
    ASSUME NEW r, Plan(r) = "stage_quote_lock"
    PROVE  /\ r # "maker" /\ "quote" \in session[r].token
           /\ session[r].choreography = "awaiting_quote_lock"
<1>1. LockingDue(r) = Plan(r)
  BY LayerSteps DEF Plan, ??, Pass
<1> QED BY <1>1 DEF LockingDue, Pass

\* A fill is staged and a settlement completed only with both legs seen spent.
LEMMA PlanSettled ==
    ASSUME NEW r, Plan(r) \in {"stage_order_fill", "complete_settlement"}
    PROVE  Spent(session[r], "base") /\ Spent(session[r], "quote")
<1>1. SettlingDue(r) = Plan(r)
  BY LayerSteps DEF Plan, ??, Pass
<1> QED BY <1>1 DEF SettlingDue, Pass

\* A release is staged only by a maker whose refund was applied to its wallet.
LEMMA PlanRelease ==
    ASSUME NEW r, Plan(r) = "stage_order_release"
    PROVE  /\ r = "maker"
           /\ session[r].cashu.status = "wallet_applied" /\ session[r].cashu.kind = "refund"
<1>1. CashuDue(r) = Plan(r)
  BY LayerSteps DEF Plan, ??, Pass
<1> QED BY <1>1 DEF CashuDue, Pass

\* A mint operation is reserved, executed and reconciled in that order.
LEMMA PlanCashu ==
    ASSUME NEW r
    PROVE  /\ Plan(r) = "reserve_cashu_inputs" => session[r].cashu.status = "prepared"
           /\ Plan(r) = "execute_cashu_operation" =>
                  session[r].cashu.status = "prepared" /\ session[r].cashu.reserved
           /\ Plan(r) = "reconcile_wallet" => session[r].cashu.status = "completed"
           /\ Plan(r) = "publish_order_projection" =>
                  session[r].publication = [operation |-> "release", status |-> "staged"]
           /\ Plan(r) = "deliver_outbox" => session[r].outbox # "none"
           /\ Plan(r) = "validate_incoming" => session[r].incoming # "none"
<1>1. Plan(r) \in {"reserve_cashu_inputs", "execute_cashu_operation"} => PreparedDue(r) = Plan(r)
  BY LayerSteps DEF Plan, ??, Pass
<1>2. Plan(r) = "reconcile_wallet" => CashuDue(r) = Plan(r)
  BY LayerSteps DEF Plan, ??, Pass
<1>3. Plan(r) = "publish_order_projection" => PublicationDue(r) = Plan(r)
  BY LayerSteps DEF Plan, ??, Pass
<1>4. Plan(r) = "deliver_outbox" => OutboxDue(r) = Plan(r)
  BY LayerSteps DEF Plan, ??, Pass
<1>5. Plan(r) = "validate_incoming" => IncomingDue(r) = Plan(r)
  BY LayerSteps DEF Plan, ??, Pass
<1>6. PreparedDue(r) \in {"reserve_cashu_inputs", "execute_cashu_operation"} =>
          /\ session[r].cashu.status = "prepared"
          /\ PreparedDue(r) = "execute_cashu_operation" => session[r].cashu.reserved
  BY DEF PreparedDue, Pass
<1>7. CashuDue(r) = "reconcile_wallet" => session[r].cashu.status = "completed"
  BY DEF CashuDue, Pass
<1>8. PublicationDue(r) = "publish_order_projection" =>
          session[r].publication = [operation |-> "release", status |-> "staged"]
  BY DEF PublicationDue, Pass
<1>9. OutboxDue(r) = "deliver_outbox" => session[r].outbox # "none"
  BY DEF OutboxDue, Pass
<1>10. IncomingDue(r) = "validate_incoming" => session[r].incoming # "none"
  BY DEF IncomingDue, Pass
<1> QED BY <1>1, <1>2, <1>3, <1>4, <1>5, <1>6, <1>7, <1>8, <1>9, <1>10

-----------------------------------------------------------------------------
(* Type correctness *)

\* The mint request a waiting session sent is the one its operation describes.
WaitingIsPrepared ==
    \A r \in Role : waiting[r] =>
        /\ session[r].choreography # "absent"
        /\ session[r].cashu.status = "prepared" /\ session[r].cashu.reserved

TypeInv == TypeOK /\ WaitingIsPrepared

LEMMA TypeInit == Init => TypeInv
<1> SUFFICES ASSUME Init PROVE TypeInv OBVIOUS
<1>1. NewSession("absent", FALSE) \in Session /\ NewSession("awaiting_reserve_propose", FALSE) \in Session
  BY DEF NewSession, Session, Phase, Choreography, Message, Cashu, NoCashu, Publication,
         NoPublication, Seen, Slot
<1>2. session \in [Role -> Session] BY <1>1 DEF Init
<1>3. 0 \in 0..MaxTime /\ 0 \in 0..MaxFaults BY PlanAssumption
<1> QED BY <1>2, <1>3 DEF Init, TypeInv, TypeOK, WaitingIsPrepared, LegState, Slot, Role, Operation

\* A saved session is a session: what Save and Checkpoint do to the type.
LEMMA SaveTypes ==
    ASSUME TypeOK, NEW r \in Role, NEW s \in Session
    PROVE  /\ Save(r, s) => session' \in [Role -> Session]
           /\ Checkpoint(r, s) => session' \in [Role -> Session] /\ faults' \in 0..MaxFaults
<1>1. Save(r, s) => session' \in [Role -> Session] BY DEF Save, TypeOK
<1>2. Fault => faults' \in 0..MaxFaults BY PlanAssumption DEF Fault, TypeOK
<1> QED BY <1>1, <1>2 DEF Checkpoint, TypeOK

\* A local step of a session that is not waiting keeps the types.
LEMMA LocalTypes ==
    ASSUME TypeInv, NEW r \in Role, ~waiting[r], NEW s \in Session, LocalStep(r, s)
    PROVE  TypeInv'
<1>1. session' \in [Role -> Session] BY SaveTypes DEF LocalStep, TypeInv
<1>2. session' = [session EXCEPT ![r] = s] BY DEF LocalStep, Save
<1>3. TypeOK' BY <1>1 DEF LocalStep, TypeInv, TypeOK
<1>4. WaitingIsPrepared' BY <1>2 DEF LocalStep, TypeInv, TypeOK, WaitingIsPrepared
<1> QED BY <1>3, <1>4 DEF TypeInv

\* An effect outside the session whose checkpoint leaves a pending mint call alone.
LEMMA CheckpointTypes ==
    ASSUME TypeInv, NEW r \in Role, NEW s \in Session,
           waiting[r] => /\ s.cashu = session[r].cashu
                         /\ s.choreography = session[r].choreography,
           Checkpoint(r, s) \/ UNCHANGED <<session, faults>>, UNCHANGED waiting
    PROVE  session' \in [Role -> Session] /\ faults' \in 0..MaxFaults /\ WaitingIsPrepared'
<1>1. session' \in [Role -> Session] /\ faults' \in 0..MaxFaults
  BY SaveTypes DEF TypeInv, TypeOK
<1>2. session' = session \/ session' = [session EXCEPT ![r] = s]
  BY DEF Checkpoint, Save
<1>3. WaitingIsPrepared' BY <1>2 DEF TypeInv, TypeOK, WaitingIsPrepared
<1> QED BY <1>1, <1>3

\* How an operation that is under way may move on.
LEMMA CashuTypes ==
    ASSUME NEW op \in Cashu, op.status \in {"prepared", "completed"}
    PROVE  /\ [op EXCEPT !.reserved = TRUE] \in Cashu
           /\ [op EXCEPT !.status = "completed"] \in Cashu
           /\ [op EXCEPT !.status = "wallet_applied"] \in Cashu
           /\ op.kind \in Kind
<1>1. op # NoCashu BY DEF NoCashu
<1>2. op \in [kind: Kind, status: {"prepared", "completed", "wallet_applied"}, reserved: BOOLEAN]
  BY <1>1 DEF Cashu
<1>3. op.kind \in Kind BY <1>2
<1> DEFINE Planned == [kind: Kind, status: {"prepared", "completed", "wallet_applied"},
                       reserved: BOOLEAN]
<1>4. [op EXCEPT !.reserved = TRUE] \in Planned BY <1>2
<1>5. [op EXCEPT !.status = "completed"] \in Planned BY <1>2
<1>6. [op EXCEPT !.status = "wallet_applied"] \in Planned BY <1>2
<1>7. Planned \subseteq Cashu BY DEF Cashu
<1> QED BY <1>3, <1>4, <1>5, <1>6, <1>7

LEMMA AdvancedTypes ==
    ASSUME NEW s \in Session, NEW message \in Message
    PROVE  Advanced(s, message) \in Session
<1>1. NextChoreography[message] \in {"awaiting_reserve_accept", "awaiting_quote_lock",
                                     "settling", "failed"}
  BY DEF Message, NextChoreography
<1>2. RootPhase[NextChoreography[message]] \in Phase
  BY <1>1 DEF RootPhase, Phase
<1> QED BY <1>1, <1>2 DEF Advanced, Session, Choreography

\* A session that moves to another phase and choreography is a session.
LEMMA MovedTypes ==
    ASSUME NEW s \in Session, NEW choreography \in Choreography, NEW phase \in Phase
    PROVE  [s EXCEPT !.choreography = choreography, !.phase = phase] \in Session
BY DEF Session

\* Recovery moves a session that holds its own lock to its refund, and freezes
\* one that does not.
LEMMA RecoveryMoves ==
    ASSUME NEW r \in Role, EnterRecovery(r)
    PROVE  \E choreography \in {"refunding", "failed"},
             phase \in {"waiting_base_refund", "waiting_quote_refund", "frozen"} :
             LocalStep(r, [session[r] EXCEPT !.choreography = choreography, !.phase = phase])
BY DEF EnterRecovery

\* So are one that heard a message, one whose operation, intent or publication is
\* replaced, and one that stored the token a message showed it.
LEMMA HeardTypes ==
    ASSUME NEW s \in Session, NEW message \in Message
    PROVE  [s EXCEPT !.incoming = message] \in Session
BY DEF Session

LEMMA OperationTypes ==
    ASSUME NEW s \in Session, NEW op \in Cashu
    PROVE  /\ [s EXCEPT !.cashu = op] \in Session
           /\ [s EXCEPT !.cashu = op].token = s.token
<1>1. [s EXCEPT !.cashu = op] \in Session BY DEF Session
<1>2. [s EXCEPT !.cashu = op].token = s.token BY DEF Session
<1> QED BY <1>1, <1>2

LEMMA PreparedTypes ==
    ASSUME NEW s \in Session, NEW op \in Cashu, NEW kind
    PROVE  [s EXCEPT !.cashu = op, !.claimed = @ \/ kind = "claim"] \in Session
<1> DEFINE claimed == s.claimed \/ kind = "claim"
<1>1. claimed \in BOOLEAN OBVIOUS
<1> HIDE DEF claimed
<1>2. [s EXCEPT !.cashu = op, !.claimed = claimed] \in Session BY <1>1 DEF Session
<1> QED BY <1>2 DEF claimed

LEMMA PublishedTypes ==
    ASSUME NEW s \in Session, NEW publication \in Publication, NEW phase \in Phase
    PROVE  LET t == [s EXCEPT !.publication = publication, !.phase = phase]
           IN  /\ t \in Session
               /\ t.cashu = s.cashu
               /\ t.choreography = s.choreography
<1> DEFINE t == [s EXCEPT !.publication = publication, !.phase = phase]
<1>1. t \in Session BY DEF Session
<1>2. t.cashu = s.cashu BY DEF Session
<1>3. t.choreography = s.choreography BY DEF Session
<1> QED BY <1>1, <1>2, <1>3

LEMMA StoredTypes ==
    ASSUME NEW s \in Session, NEW slot \in Slot, NEW reserve \in BOOLEAN
    PROVE  LET t == [s EXCEPT !.token = @ \cup {slot}, !.seen[slot] = "unspent",
                              !.reserve = reserve]
           IN  t \in Session /\ t.token = s.token \cup {slot}
<1> DEFINE token == s.token \cup {slot}
           seen == [s.seen EXCEPT ![slot] = "unspent"]
           t == [s EXCEPT !.token = token, !.seen = seen, !.reserve = reserve]
<1>1. token \in SUBSET Slot BY DEF Session
<1>2. s.seen \in [Slot -> Seen] BY DEF Session
<1>3. seen \in [Slot -> Seen] BY <1>2 DEF Seen
<1>4. t.token = token BY DEF Session
<1> HIDE DEF token, seen
<1>5. t \in Session BY <1>1, <1>3 DEF Session
<1> QED BY <1>4, <1>5 DEF token, seen

LEMMA TypeStep == TypeInv /\ [Next]_vars => TypeInv'
<1> SUFFICES ASSUME TypeInv, [Next]_vars PROVE TypeInv' OBVIOUS
<1> USE DEF TypeInv
<1> DEFINE S(r) == session[r]
<1>0. \A r \in Role : S(r) \in Session BY DEF TypeOK
<1>1. ASSUME NEW r \in Role, StageInbox(r) PROVE TypeInv'
  BY <1>0, <1>1, LocalTypes DEF StageInbox, Ready, Session
<1>2. ASSUME NEW r \in Role, EnterRecovery(r) PROVE TypeInv'
  <2>1. PICK choreography \in {"refunding", "failed"},
             phase \in {"waiting_base_refund", "waiting_quote_refund", "frozen"} :
            LocalStep(r, [S(r) EXCEPT !.choreography = choreography, !.phase = phase])
    BY <1>2, RecoveryMoves
  <2>2. choreography \in Choreography /\ phase \in Phase
    BY DEF Choreography, Phase
  <2> DEFINE s == [S(r) EXCEPT !.choreography = choreography, !.phase = phase]
  <2>3. s \in Session BY <1>0, <2>2, MovedTypes
  <2>4. ~waiting[r] BY <1>2 DEF EnterRecovery, Ready
  <2> HIDE DEF s
  <2> QED BY <2>1, <2>3, <2>4, LocalTypes DEF s
<1>3. ASSUME NEW r \in Role, CompleteSettlement(r) PROVE TypeInv'
  <2> DEFINE s == [S(r) EXCEPT !.choreography = "settled", !.phase = "filled"]
  <2>1. s \in Session BY <1>0, MovedTypes DEF Choreography, Phase
  <2>2. ~waiting[r] /\ LocalStep(r, s) BY <1>3 DEF CompleteSettlement, Ready
  <2> HIDE DEF s
  <2> QED BY <2>1, <2>2, LocalTypes
<1>4. ASSUME NEW r \in Role, ClearCashuOperation(r) PROVE TypeInv'
  BY <1>0, <1>4, LocalTypes DEF ClearCashuOperation, Ready, Session, Cashu
<1>5. ASSUME NEW r \in Role, StageOutgoing(r) PROVE TypeInv'
  BY <1>0, <1>5, LocalTypes DEF StageOutgoing, Ready, Session, Message, StagedMessage
<1>6. ASSUME NEW r \in Role, DeliverOutbox(r) PROVE TypeInv'
  <2>1. S(r).outbox \in Message BY <1>0, <1>6, PlanCashu DEF DeliverOutbox, Ready, Session
  <2> DEFINE s == [Advanced(S(r), S(r).outbox) EXCEPT !.outbox = "none"]
  <2>2. s \in Session BY <1>0, <2>1, AdvancedTypes DEF Session
  <2>3. session' \in [Role -> Session] /\ faults' \in 0..MaxFaults /\ WaitingIsPrepared'
    BY <1>6, <2>2, CheckpointTypes DEF DeliverOutbox, Ready
  <2> QED BY <1>6, <2>1, <2>3 DEF DeliverOutbox, TypeOK
<1>7. ASSUME NEW r \in Role, PollInbox(r) PROVE TypeInv'
  <2>1. PICK message \in relay \cap Expected(r) :
            LocalStep(r, [session[r] EXCEPT !.incoming = message])
    BY <1>7 DEF PollInbox
  <2>2. message \in Message BY <2>1 DEF TypeOK
  <2>3. [session[r] EXCEPT !.incoming = message] \in Session
    BY <1>0, <2>2, HeardTypes
  <2>4. ~waiting[r] BY <1>7 DEF PollInbox, Ready
  <2> DEFINE s == [session[r] EXCEPT !.incoming = message]
  <2> HIDE DEF s
  <2> QED BY <2>1, <2>3, <2>4, LocalTypes DEF s
<1>8. ASSUME NEW r \in Role, ValidateIncoming(r) PROVE TypeInv'
  <2> DEFINE message == S(r).incoming
             slot == OtherSlot(OwnSlot(r))
             accepted == [Advanced(S(r), message) EXCEPT !.incoming = "none"]
             stored == [accepted EXCEPT !.token = @ \cup {slot}, !.seen[slot] = "unspent",
                                        !.reserve = @ \/ message = "reserve_accept"]
  <2>1. message \in Message
    BY <1>0, <1>8, PlanCashu DEF ValidateIncoming, Ready, Session
  <2>2. slot \in Slot BY DEF OtherSlot, OwnSlot, Slot
  <2>3. accepted \in Session BY <1>0, <2>1, AdvancedTypes DEF Session
  <2>4. stored \in Session BY <2>2, <2>3 DEF Session, Seen
  <2>5. LocalStep(r, accepted) \/ LocalStep(r, stored) BY <1>8 DEF ValidateIncoming
  <2> QED BY <1>8, <2>3, <2>4, <2>5, LocalTypes DEF ValidateIncoming, Ready
<1>9. ASSUME NEW r \in Role, PrepareCashu(r) PROVE TypeInv'
  <2>1. PICK action \in DOMAIN PlannedKind :
            /\ Ready(r, action)
            /\ LocalStep(r, [session[r] EXCEPT
                   !.cashu = [kind |-> PlannedKind[action], status |-> "prepared",
                              reserved |-> FALSE],
                   !.claimed = @ \/ PlannedKind[action] = "claim"])
    BY <1>9 DEF PrepareCashu
  <2>2. PlannedKind[action] \in Kind BY DEF PlannedKind, Kind
  <2> DEFINE op == [kind |-> PlannedKind[action], status |-> "prepared", reserved |-> FALSE]
             s == [session[r] EXCEPT !.cashu = op,
                                     !.claimed = @ \/ PlannedKind[action] = "claim"]
  <2>3. op \in Cashu BY <2>2 DEF Cashu
  <2>4. s \in Session
    <3> HIDE DEF op
    <3> QED BY <1>0, <2>3, PreparedTypes
  <2> QED BY <2>1, <2>4, LocalTypes DEF Ready
<1>10. ASSUME NEW r \in Role, ReserveCashuInputs(r) PROVE TypeInv'
  <2>1. S(r).cashu \in Cashu /\ S(r).cashu.status = "prepared"
    BY <1>0, <1>10, PlanCashu DEF ReserveCashuInputs, Ready, Session
  <2>2. [S(r).cashu EXCEPT !.reserved = TRUE] \in Cashu BY <2>1, CashuTypes
  <2>3. [session[r] EXCEPT !.cashu.reserved = TRUE] \in Session
    BY <1>0, <2>2, OperationTypes
  <2> QED BY <1>10, <2>3, LocalTypes DEF ReserveCashuInputs, Ready
<1>11. ASSUME NEW r \in Role, ReconcileWallet(r) PROVE TypeInv'
  <2>1. S(r).cashu \in Cashu /\ S(r).cashu.status = "completed"
    BY <1>0, <1>11, PlanCashu DEF ReconcileWallet, Ready, Session
  <2>2. [S(r).cashu EXCEPT !.status = "wallet_applied"] \in Cashu BY <2>1, CashuTypes
  <2>3. [session[r] EXCEPT !.cashu.status = "wallet_applied"] \in Session
    BY <1>0, <2>2, OperationTypes
  <2> QED BY <1>11, <2>3, LocalTypes DEF ReconcileWallet, Ready
<1>12. ASSUME NEW r \in Role, NEW slot \in Slot, Observe(r, slot) PROVE TypeInv'
  <2> DEFINE s == [session[r] EXCEPT
           !.seen[slot] = Observed(slot),
           !.preimage = @ \/ (r = "taker" /\ slot = "quote" /\ mint[slot] = "claimed")]
  <2>1. Observed(slot) \in Seen BY DEF Observed, Seen
  <2>2. s \in Session BY <1>0, <2>1 DEF Session
  <2> QED BY <1>12, <2>2, LocalTypes DEF Observe, Ready
<1>13. ASSUME NEW r \in Role, ExecuteCashu(r) PROVE TypeInv'
  <2>1. /\ S(r).choreography # "absent" /\ S(r).cashu \in Cashu
        /\ S(r).cashu.status = "prepared" /\ S(r).cashu.reserved
    BY <1>0, <1>13, PlanCashu DEF ExecuteCashu, Ready, Session
  <2>2. CashuRequest(r) \in Request BY <2>1, CashuTypes DEF CashuRequest, Request
  <2> QED BY <1>13, <2>1, <2>2 DEF ExecuteCashu, TypeOK, WaitingIsPrepared
<1>14. ASSUME NEW r \in Role, ExecuteReturn(r) PROVE TypeInv'
  <2> DEFINE completed == [S(r) EXCEPT !.cashu.status = "completed"]
             locked == [completed EXCEPT !.token = @ \cup {OwnSlot(r)},
                                         !.seen[OwnSlot(r)] = "unspent"]
  <2>1. S(r).cashu \in Cashu /\ S(r).cashu.status = "prepared"
    BY <1>0, <1>14 DEF ExecuteReturn, WaitingIsPrepared, Session
  <2>2. [S(r).cashu EXCEPT !.status = "completed"] \in Cashu BY <2>1, CashuTypes
  <2>3. completed \in Session BY <1>0, <2>2, OperationTypes
  <2>4. OwnSlot(r) \in Slot BY DEF OwnSlot, Slot
  <2>5. locked \in Session BY <2>3, <2>4 DEF Session, Seen
  <2>6. PICK s \in {completed, locked} : Save(r, s) BY <1>14 DEF ExecuteReturn
  <2>7. session' \in [Role -> Session] /\ session' = [session EXCEPT ![r] = s]
    BY <2>3, <2>5, <2>6, SaveTypes DEF Save
  <2>8. waiting' = [waiting EXCEPT ![r] = FALSE] BY <1>14 DEF ExecuteReturn
  <2>9. TypeOK' BY <1>14, <2>7, <2>8 DEF ExecuteReturn, TypeOK
  <2>10. WaitingIsPrepared' BY <2>7, <2>8 DEF TypeOK, WaitingIsPrepared
  <2> QED BY <2>9, <2>10
<1>15. ASSUME NEW r \in Role, ExecuteError(r) PROVE TypeInv'
  BY <1>15 DEF ExecuteError, TypeOK, WaitingIsPrepared
<1>16. ASSUME NEW r \in Role, StageOrder(r) PROVE TypeInv'
  <2>1. PICK action \in DOMAIN StagedOperation : LET
            operation == StagedOperation[action]
            published == order.operation = operation /\ order.published
        IN  /\ order' = [operation |-> operation, published |-> published]
            /\ Checkpoint(r, [session[r] EXCEPT
                   !.publication = [operation |-> operation,
                                    status |-> IF published THEN "committed" ELSE "staged"],
                   !.reserve = @ \/ operation = "reserve",
                   !.fill = @ \/ operation = "fill"])
            /\ UNCHANGED <<waiting, wire, mint, relay, now>>
    BY <1>16 DEF StageOrder
  <2> DEFINE operation == StagedOperation[action]
             published == order.operation = operation /\ order.published
             publication == [operation |-> operation,
                             status |-> IF published THEN "committed" ELSE "staged"]
             s == [session[r] EXCEPT !.publication = publication,
                   !.reserve = @ \/ operation = "reserve",
                   !.fill = @ \/ operation = "fill"]
  <2>2. operation \in Operation BY DEF StagedOperation, Operation
  <2>3. publication \in Publication BY <2>2 DEF Publication
  <2>4. /\ s \in Session /\ s.cashu = session[r].cashu
         /\ s.choreography = session[r].choreography
    <3>1. ASSUME NEW reserve, reserve = (session[r].reserve \/ operation = "reserve"),
                 NEW fill, fill = (session[r].fill \/ operation = "fill")
          PROVE  /\ s \in Session /\ s.cashu = session[r].cashu
                 /\ s.choreography = session[r].choreography
      <4>1. reserve \in BOOLEAN BY <3>1
      <4>2. fill \in BOOLEAN BY <3>1
      <4>3. s = [session[r] EXCEPT !.publication = publication, !.reserve = reserve,
                                   !.fill = fill]
        BY <3>1
      <4>4. session[r] \in Session BY <1>0
      <4> HIDE DEF s, publication, operation, S
      <4>5. s \in Session
        BY <2>3, <4>1, <4>2, <4>3, <4>4 DEF Session
      <4>6. s.cashu = session[r].cashu BY <4>3, <4>4 DEF Session
      <4>7. s.choreography = session[r].choreography BY <4>3, <4>4 DEF Session
      <4> QED BY <4>5, <4>6, <4>7
    <3> QED BY <3>1
  <2>5. session' \in [Role -> Session] /\ faults' \in 0..MaxFaults /\ WaitingIsPrepared'
    BY <2>1, <2>4, CheckpointTypes
  <2>6. order' \in [operation: {"create"} \cup Operation, published: BOOLEAN]
    BY <2>1, <2>2 DEF TypeOK
  <2> QED BY <2>1, <2>5, <2>6 DEF TypeOK
<1>17. ASSUME NEW r \in Role, PublishRelease(r) PROVE TypeInv'
  <2> DEFINE s == [Published(r) EXCEPT !.phase = "released"]
  <2>1. S(r).publication = [operation |-> "release", status |-> "staged"]
    BY <1>17, PlanCashu DEF PublishRelease, Ready
  <2>2. [S(r).publication EXCEPT !.status = "committed"] \in Publication
    BY <2>1 DEF Publication, Operation
  <2>3. /\ s \in Session /\ s.cashu = session[r].cashu
         /\ s.choreography = session[r].choreography
    <3> DEFINE publication == [S(r).publication EXCEPT !.status = "committed"]
    <3>1. s = [S(r) EXCEPT !.publication = publication, !.phase = "released"]
      BY <1>0 DEF Published, Session
    <3>2. "released" \in Phase BY DEF Phase
    <3> HIDE DEF publication, s
    <3> QED BY <1>0, <2>2, <3>1, <3>2, PublishedTypes DEF publication
  <2>4. session' \in [Role -> Session] /\ faults' \in 0..MaxFaults /\ WaitingIsPrepared'
    BY <1>17, <2>3, CheckpointTypes DEF PublishRelease
  <2> QED BY <1>17, <2>4 DEF PublishRelease, TypeOK
<1>18. ASSUME NEW r \in Role, AnnounceOrder(r) PROVE TypeInv'
  <2>1. [S(r).publication EXCEPT !.status = "committed"] \in Publication
    BY <1>0, <1>18 DEF AnnounceOrder, Session, Publication, NoPublication, Operation
  <2>2. /\ Published(r) \in Session /\ Published(r).cashu = session[r].cashu
         /\ Published(r).choreography = session[r].choreography
    BY <1>0, <2>1 DEF Published, Session
  <2>3. session' \in [Role -> Session] /\ faults' \in 0..MaxFaults /\ WaitingIsPrepared'
    BY <1>18, <2>2, CheckpointTypes DEF AnnounceOrder
  <2> QED BY <1>18, <2>3 DEF AnnounceOrder, TypeOK
<1>19. ASSUME NEW r \in Role, Crash(r) PROVE TypeInv'
  BY <1>19, PlanAssumption DEF Crash, Fault, TypeOK, WaitingIsPrepared
<1>20. CASE MakerAccepts
  <2>1. NewSession("awaiting_reserve_accept", TRUE) \in Session
    BY DEF NewSession, Session, Phase, Choreography, Message, Cashu, NoCashu, Publication,
           NoPublication, Seen, Slot
  <2>2. ~waiting["maker"] BY <1>20 DEF MakerAccepts, WaitingIsPrepared, Role
  <2>3. TypeOK' BY <1>20, <2>1 DEF MakerAccepts, TypeOK
  <2>4. WaitingIsPrepared' BY <1>20, <2>2 DEF MakerAccepts, TypeOK, WaitingIsPrepared
  <2> QED BY <2>3, <2>4
<1>21. CASE RejectProposal
  BY <1>21 DEF RejectProposal, TypeOK, WaitingIsPrepared, Message
<1>22. ASSUME NEW q \in Request, MintProcess(q) PROVE TypeInv'
  <2>1. Outcome[q.kind] \in LegState BY DEF Outcome, Request, Kind, LegState
  <2> QED BY <1>22, <2>1 DEF MintProcess, TypeOK, WaitingIsPrepared
<1>23. ASSUME NEW q \in Request, LoseRequest(q) PROVE TypeInv'
  BY <1>23, PlanAssumption DEF LoseRequest, Fault, TypeOK, WaitingIsPrepared
<1>24. CASE Tick
  BY <1>24, PlanAssumption DEF Tick, TypeOK, WaitingIsPrepared
<1>25. CASE UNCHANGED vars
  BY <1>25 DEF vars, TypeOK, WaitingIsPrepared
<1> QED
  BY <1>1, <1>2, <1>3, <1>4, <1>5, <1>6, <1>7, <1>8, <1>9, <1>10, <1>11, <1>12, <1>13,
     <1>14, <1>15, <1>16, <1>17, <1>18, <1>19, <1>20, <1>21, <1>22, <1>23, <1>24, <1>25
     DEF Next, SessionStep, MakerInboxStep

\* Every reachable state has its type: what the sessions, the mints, the relays
\* and the order's outbox can hold.
THEOREM TypeCorrect == Spec => []TypeOK
<1>1. TypeInv => TypeOK BY DEF TypeInv
<1> QED BY <1>1, TypeInit, TypeStep, PTL DEF Spec

-----------------------------------------------------------------------------
(* The inductive invariant behind the safety theorems: nothing a session     *)
(* holds, plans or has sent speaks of a mint effect that did not happen.     *)

\* What a session may hold, given what the mints did.
Backed(r, s) ==
    /\ \A slot \in s.token : mint[slot] # "unlocked"
    /\ \A slot \in Slot : Spent(s, slot) => Claimed(slot)
    /\ s.cashu.kind = "refund" /\ s.cashu.status \in {"completed", "wallet_applied"} =>
           mint[OwnSlot(r)] = "refunded"
    /\ s.phase = "filled" => BothClaimed
    /\ s.incoming \in {"none"} \cup Expected(r)

\* The taker moves only behind the maker: it locks on top of the offer it
\* stored, shows a payment it locked, and claims with the preimage it observed.
TakerFollows(s) ==
    /\ s.preimage => Claimed("quote")
    /\ s.cashu.kind = "claim" => s.preimage
    /\ s.cashu.kind = "lock" \/ s.choreography = "awaiting_quote_lock" => "base" \in s.token
    /\ s.outbox # "reserve_accept"
    /\ s.outbox = "quote_lock" => s.token = Slot

\* The maker sees the payment only in the taker's message, and claims only a
\* payment it has seen.
MakerFollows(s) ==
    /\ s.cashu.kind = "claim" => "quote" \in s.token
    /\ s.outbox # "quote_lock"
    /\ s.incoming = "quote_lock" \/ "quote" \in s.token => session["taker"].token = Slot

\* The same for what is under way at the relays and to the mints.
SentBacked ==
    /\ "quote_lock" \in relay => session["taker"].token = Slot
    /\ [role |-> "maker", kind |-> "claim"] \in wire => session["taker"].token = Slot
    /\ [role |-> "taker", kind |-> "lock"] \in wire => "base" \in session["taker"].token
    /\ [role |-> "taker", kind |-> "claim"] \in wire => Claimed("quote")

SafeInv ==
    /\ \A r \in Role : Backed(r, session[r])
    /\ TakerFollows(session["taker"])
    /\ MakerFollows(session["maker"])
    /\ SentBacked
    /\ OfferOnlyAfterPayment
    /\ PaymentOnlyAfterOffer
    /\ PublicationBackedByMint
    /\ ClaimLeavesTakerAble

\* What a session must satisfy for the invariant, in its role.
Safe(r, s) ==
    /\ Backed(r, s)
    /\ r = "taker" => TakerFollows(s)
    /\ r = "maker" => MakerFollows(s)

LEMMA SafeInit == Init => SafeInv
<1> SUFFICES ASSUME Init PROVE SafeInv OBVIOUS
<1>1. ASSUME NEW r \in Role PROVE Backed(r, session[r])
  BY DEF Init, Backed, NewSession, NoCashu, Spent
<1>2. TakerFollows(session["taker"]) /\ MakerFollows(session["maker"])
  BY DEF Init, TakerFollows, MakerFollows, NewSession, NoCashu, Role
<1> QED
  BY <1>1, <1>2
     DEF Init, SafeInv, SentBacked, OfferOnlyAfterPayment, PaymentOnlyAfterOffer,
         PublicationBackedByMint, ClaimLeavesTakerAble, Claimed, Slot

\* A step of one session, its mint requests apart, is safe when the session it
\* leaves behind is, when it keeps the taker's tokens, and when what it shows the
\* relays and the order book is backed.
LEMMA OneSessionSafe ==
    ASSUME TypeInv, SafeInv, NEW r \in Role, NEW s,
           session' = session \/ session' = [session EXCEPT ![r] = s],
           Safe(r, s), r = "taker" => session[r].token \subseteq s.token /\ s.token \subseteq Slot,
           "quote_lock" \in relay' => "quote_lock" \in relay \/ session["taker"].token = Slot,
           PublicationBackedByMint', UNCHANGED <<wire, mint>>
    PROVE  SafeInv'
<1>1. \A p \in Role : session[p] \in Session BY DEF TypeInv, TypeOK
<1>2. "taker" \in Role /\ "maker" \in Role BY DEF Role
<1>3. CASE session' = session
  <2>1. (\A p \in Role : Backed(p, session[p]))' BY <1>3 DEF SafeInv, Backed, Claimed, BothClaimed
  <2>2. TakerFollows(session["taker"])' /\ MakerFollows(session["maker"])'
    BY <1>3 DEF SafeInv, TakerFollows, MakerFollows, Claimed
  <2>3. SentBacked' BY <1>3 DEF SafeInv, SentBacked, Claimed
  <2> QED BY <1>3, <2>1, <2>2, <2>3 DEF SafeInv, OfferOnlyAfterPayment, PaymentOnlyAfterOffer,
              ClaimLeavesTakerAble, Claimed
<1>4. CASE session' = [session EXCEPT ![r] = s]
  <2>1. session'[r] = s /\ \A p \in Role \ {r} : session'[p] = session[p]
    BY <1>4 DEF TypeInv, TypeOK
  <2>2. session["taker"].token \subseteq session'["taker"].token
        /\ session'["taker"].token \subseteq Slot
    BY <1>1, <1>2, <2>1 DEF Session
  <2>3. ASSUME NEW p \in Role PROVE Backed(p, session[p])'
    <3>1. Backed(p, session'[p]) BY <2>1 DEF Safe, SafeInv
    <3> QED BY <3>1 DEF Backed, Claimed, BothClaimed
  <2>4. TakerFollows(session["taker"])'
    <3>1. TakerFollows(session'["taker"]) BY <1>2, <2>1 DEF Safe, SafeInv
    <3> QED BY <3>1 DEF TakerFollows, Claimed
  <2>5. MakerFollows(session["maker"])'
    <3>1. MakerFollows(session'["maker"]) BY <1>2, <2>1 DEF Safe, SafeInv
    <3> QED BY <3>1, <2>2 DEF MakerFollows
  <2>6. SentBacked' BY <2>2 DEF SafeInv, SentBacked, Claimed
  <2>7. OfferOnlyAfterPayment' /\ PaymentOnlyAfterOffer' /\ ClaimLeavesTakerAble'
    BY <2>2 DEF SafeInv, OfferOnlyAfterPayment, PaymentOnlyAfterOffer, ClaimLeavesTakerAble, Claimed
  <2> QED BY <2>3, <2>4, <2>5, <2>6, <2>7 DEF SafeInv
<1> QED BY <1>3, <1>4

\* A local step publishes nothing.
LEMMA LocalSafe ==
    ASSUME TypeInv, SafeInv, NEW r \in Role, NEW s \in Session, LocalStep(r, s), Safe(r, s),
           r = "taker" => session[r].token \subseteq s.token
    PROVE  SafeInv'
<1>1. PublicationBackedByMint' BY DEF LocalStep, SafeInv, PublicationBackedByMint, BothClaimed, Claimed
<1>2. s.token \subseteq Slot BY DEF Session
<1> QED BY <1>1, <1>2, OneSessionSafe DEF LocalStep, Save

\* A step at the mint keeps every session safe: an unlocked proof may be locked,
\* a locked one spent, and that is final.
LEMMA MintSafe ==
    ASSUME TypeInv, SafeInv, NEW q \in Request, MintProcess(q)
    PROVE  SafeInv'
<1> DEFINE slot == RequestSlot(q)
<1>1. CASE ~MintAccepts(q)
  <2>1. UNCHANGED <<session, mint, relay, order>> /\ wire' \subseteq wire
    BY <1>1 DEF MintProcess
  <2>2. (\A p \in Role : Backed(p, session[p]))' BY <2>1 DEF SafeInv, Backed, Claimed, BothClaimed
  <2>3. TakerFollows(session["taker"])' /\ MakerFollows(session["maker"])'
    BY <2>1 DEF SafeInv, TakerFollows, MakerFollows, Claimed
  <2>4. SentBacked' BY <2>1 DEF SafeInv, SentBacked, Claimed
  <2> QED BY <2>1, <2>2, <2>3, <2>4 DEF SafeInv, OfferOnlyAfterPayment, PaymentOnlyAfterOffer,
              PublicationBackedByMint, ClaimLeavesTakerAble, Claimed, BothClaimed
<1>2. CASE MintAccepts(q)
  <2>1. /\ UNCHANGED <<session, relay, order>> /\ wire' = wire \ {q} /\ q \in wire
        /\ mint' = [mint EXCEPT ![slot] = Outcome[q.kind]]
    BY <1>2 DEF MintProcess
  <2>2. q.role \in Role /\ q.kind \in Kind /\ slot \in Slot /\ mint \in [Slot -> LegState]
    BY DEF Request, RequestSlot, KindSlot, OtherSlot, OwnSlot, Slot, TypeInv, TypeOK
  <2>3. /\ mint[slot] = IF q.kind = "lock" THEN "unlocked" ELSE "locked"
        /\ mint'[slot] \in {"locked", "claimed", "refunded"}
        /\ \A other \in Slot \ {slot} : mint'[other] = mint[other]
    BY <1>2, <2>1, <2>2 DEF MintAccepts, Outcome, Kind
  <2>4. \A any \in Slot : /\ mint[any] # "unlocked" => mint'[any] # "unlocked"
                          /\ mint[any] \in {"claimed", "refunded"} => mint'[any] = mint[any]
    BY <2>3
  <2>5. ASSUME NEW p \in Role PROVE Backed(p, session[p])'
    <3>1. Backed(p, session[p]) /\ session[p].token \subseteq Slot /\ OwnSlot(p) \in Slot
      BY DEF SafeInv, TypeInv, TypeOK, Session, OwnSlot, Slot
    <3> QED BY <2>1, <2>4, <3>1 DEF Backed, Claimed, BothClaimed
  <2>6. "quote" \in Slot /\ "base" \in Slot BY DEF Slot
  <2>7. TakerFollows(session["taker"])' /\ MakerFollows(session["maker"])'
    BY <2>1, <2>4, <2>6 DEF SafeInv, TakerFollows, MakerFollows, Claimed
  <2>8. SentBacked' BY <2>1, <2>4, <2>6 DEF SafeInv, SentBacked, Claimed
  <2>9. PublicationBackedByMint'
    BY <2>1, <2>4, <2>6 DEF SafeInv, PublicationBackedByMint, BothClaimed, Claimed
  <2>10. OfferOnlyAfterPayment'
    <3>1. Claimed("base")' /\ ~Claimed("base") => q = [role |-> "taker", kind |-> "claim"]
      BY <2>1, <2>2, <2>3, <2>6
         DEF Claimed, Outcome, Kind, Role, Request, RequestSlot, KindSlot, OtherSlot, OwnSlot
    <3> QED BY <2>1, <2>4, <2>6, <3>1 DEF SafeInv, SentBacked, OfferOnlyAfterPayment, Claimed
  <2>11. PaymentOnlyAfterOffer'
    <3>1. mint["quote"] = "unlocked" /\ mint'["quote"] # "unlocked" =>
              q = [role |-> "taker", kind |-> "lock"]
      BY <2>1, <2>2, <2>3, <2>6 DEF Kind, Role, Request, RequestSlot, KindSlot, OtherSlot, OwnSlot
    <3>2. mint'["quote"] # "unlocked" => "base" \in session["taker"].token
      BY <2>1, <2>4, <2>6, <3>1 DEF SafeInv, SentBacked, PaymentOnlyAfterOffer
    <3>3. "base" \in session["taker"].token => mint["base"] # "unlocked"
      BY DEF SafeInv, Backed, Role
    <3> QED BY <2>1, <2>4, <2>6, <3>2, <3>3 DEF PaymentOnlyAfterOffer
  <2>12. ClaimLeavesTakerAble'
    <3>1. Claimed("quote")' /\ ~Claimed("quote") => q = [role |-> "maker", kind |-> "claim"]
      BY <2>1, <2>2, <2>3, <2>6
         DEF Claimed, Outcome, Kind, Role, Request, RequestSlot, KindSlot, OtherSlot, OwnSlot
    <3> QED BY <2>1, <3>1 DEF SafeInv, SentBacked, ClaimLeavesTakerAble
  <2> QED BY <2>5, <2>7, <2>8, <2>9, <2>10, <2>11, <2>12 DEF SafeInv
<1> QED BY <1>1, <1>2

\* Every step the plan can order keeps the invariant.
LEMMA SafeStep == TypeInv /\ SafeInv /\ TypeInv' /\ [Next]_vars => SafeInv'
<1> SUFFICES ASSUME TypeInv, SafeInv, TypeInv', [Next]_vars PROVE SafeInv' OBVIOUS
<1> DEFINE S(r) == session[r]
<1>0. ASSUME NEW r \in Role
      PROVE  /\ S(r) \in Session /\ Safe(r, S(r)) /\ OwnSlot(r) \in Slot
             /\ S(r).token \subseteq Slot
  BY DEF TypeInv, TypeOK, SafeInv, Safe, OwnSlot, Slot, Session
<1>1. ASSUME NEW r \in Role, StageInbox(r) PROVE SafeInv'
  <2> DEFINE s == [S(r) EXCEPT !.inbox = "staged"]
  <2>1. s \in Session /\ Safe(r, s)
    BY <1>0 DEF Safe, Backed, TakerFollows, MakerFollows, Spent, Session
  <2> QED BY <1>1, <2>1, LocalSafe DEF StageInbox, Session
<1>2. ASSUME NEW r \in Role, EnterRecovery(r) PROVE SafeInv'
  <2>1. PICK choreography \in {"refunding", "failed"},
             phase \in {"waiting_base_refund", "waiting_quote_refund", "frozen"} :
            LocalStep(r, [S(r) EXCEPT !.choreography = choreography, !.phase = phase])
    BY <1>2 DEF EnterRecovery
  <2> DEFINE s == [S(r) EXCEPT !.choreography = choreography, !.phase = phase]
  <2>2. s \in Session
    BY <1>0, MovedTypes DEF Choreography, Phase
  <2>3. Backed(r, s)
    BY <1>0 DEF Safe, Backed, Spent, Session
  <2>4. (r = "taker" => TakerFollows(s)) /\ (r = "maker" => MakerFollows(s))
    BY <1>0 DEF Safe, TakerFollows, MakerFollows, Session
  <2>5. Safe(r, s) /\ s.token = S(r).token
    BY <1>0, <2>3, <2>4 DEF Safe, Session
  <2> QED BY <2>1, <2>2, <2>5, LocalSafe
<1>3. ASSUME NEW r \in Role, CompleteSettlement(r) PROVE SafeInv'
  <2> DEFINE s == [S(r) EXCEPT !.choreography = "settled", !.phase = "filled"]
  <2>1. BothClaimed
    BY <1>0, <1>3 DEF CompleteSettlement, BothLegsSpent, BothClaimed, Safe, Backed
  <2>2. s \in Session
    BY <1>0, MovedTypes DEF Choreography, Phase
  <2>3. Backed(r, s)
    BY <1>0, <2>1 DEF Safe, Backed, Spent, Session
  <2>4. (r = "taker" => TakerFollows(s)) /\ (r = "maker" => MakerFollows(s))
    BY <1>0, <2>1 DEF Safe, TakerFollows, MakerFollows, Session
  <2>5. Safe(r, s) /\ s.token = S(r).token
    BY <1>0, <2>3, <2>4 DEF Safe, Session
  <2>6. LocalStep(r, s) BY <1>3 DEF CompleteSettlement
  <2> QED BY <2>2, <2>5, <2>6, LocalSafe
<1>4. ASSUME NEW r \in Role, ClearCashuOperation(r) PROVE SafeInv'
  <2> DEFINE s == [S(r) EXCEPT !.cashu = NoCashu]
  <2>1. s \in Session
    <3>1. NoCashu \in Cashu BY DEF Cashu
    <3> QED BY <1>0, <3>1 DEF Session
  <2>2. s.cashu.kind = "none" /\ s.token = S(r).token BY <1>0 DEF Session, NoCashu
  <2>3. Backed(r, s)
    BY <1>0, <2>2 DEF Safe, Backed, Spent, Session
  <2>4. (r = "taker" => TakerFollows(s)) /\ (r = "maker" => MakerFollows(s))
    BY <1>0, <2>2 DEF Safe, TakerFollows, MakerFollows, Session
  <2>5. LocalStep(r, s) BY <1>4 DEF ClearCashuOperation
  <2> HIDE DEF s
  <2> QED BY <2>1, <2>2, <2>3, <2>4, <2>5, LocalSafe DEF Safe
<1>5. ASSUME NEW r \in Role, StageOutgoing(r) PROVE SafeInv'
  <2>1. PICK action \in DOMAIN StagedMessage :
            /\ Ready(r, action)
            /\ LocalStep(r, [S(r) EXCEPT !.outbox = StagedMessage[action]])
    BY <1>5 DEF StageOutgoing
  <2> DEFINE s == [S(r) EXCEPT !.outbox = StagedMessage[action]]
  <2>2. /\ StagedMessage[action] \in Message
        /\ StagedMessage[action] = "reserve_accept" => action = "stage_reserve_accept"
        /\ StagedMessage[action] = "quote_lock" => action = "stage_quote_lock"
    BY DEF StagedMessage, Message
  <2>3. r = "taker" => StagedMessage[action] # "reserve_accept"
    BY <2>1, <2>2, PlanLock DEF Ready
  <2>4. StagedMessage[action] = "quote_lock" => r # "maker" /\ S(r).token = Slot
    BY <1>0, <2>1, <2>2, PlanShow DEF Ready, Role, Safe, TakerFollows, Slot
  <2>5. s \in Session BY <1>0, <2>2 DEF Session
  <2>6. Safe(r, s)
    BY <1>0, <2>3, <2>4 DEF Safe, Backed, TakerFollows, MakerFollows, Spent, Session
  <2> QED BY <2>1, <2>5, <2>6, LocalSafe DEF Session
<1>6. ASSUME NEW r \in Role, DeliverOutbox(r) PROVE SafeInv'
  <2> DEFINE message == S(r).outbox
             s == [Advanced(S(r), message) EXCEPT !.outbox = "none"]
  <2>1. message \in Message BY <1>0, <1>6, PlanCashu DEF DeliverOutbox, Ready, Session
  <2>2. /\ r = "taker" => NextChoreography[message] # "awaiting_quote_lock"
        /\ RootPhase[NextChoreography[message]] # "filled"
    BY <1>0, <2>1 DEF Message, NextChoreography, RootPhase, Safe, TakerFollows
  <2>3. Safe(r, s)
    BY <1>0, <2>2 DEF Advanced, Safe, Backed, TakerFollows, MakerFollows, Spent, Session
  <2>4. s.token = S(r).token BY <1>0 DEF Advanced, Session
  <2>5. "quote_lock" \in relay' => "quote_lock" \in relay \/ session["taker"].token = Slot
    BY <1>0, <1>6 DEF DeliverOutbox, Safe, TakerFollows, MakerFollows, Role
  <2>6. /\ session' = session \/ session' = [session EXCEPT ![r] = s]
        /\ UNCHANGED <<wire, mint, order>>
    BY <1>6 DEF DeliverOutbox, Checkpoint, Save
  <2>7. PublicationBackedByMint' BY <2>6 DEF SafeInv, PublicationBackedByMint, BothClaimed, Claimed
  <2> QED BY <1>0, <2>3, <2>4, <2>5, <2>6, <2>7, OneSessionSafe
<1>7. ASSUME NEW r \in Role, PollInbox(r) PROVE SafeInv'
  <2>1. PICK message \in relay \cap Expected(r) :
            LocalStep(r, [S(r) EXCEPT !.incoming = message])
    BY <1>7 DEF PollInbox
  <2> DEFINE s == [S(r) EXCEPT !.incoming = message]
  <2>2. s \in Session
    <3>1. message \in Message BY <2>1 DEF TypeInv, TypeOK
    <3> QED BY <1>0, <3>1, HeardTypes
  <2>3. Safe(r, s)
    BY <1>0, <2>1 DEF SafeInv, SentBacked, Safe, Backed, TakerFollows, MakerFollows, Spent, Session
  <2> QED BY <2>1, <2>2, <2>3, LocalSafe DEF Session
<1>8. ASSUME NEW r \in Role, ValidateIncoming(r) PROVE SafeInv'
  <2> DEFINE message == S(r).incoming
             slot == OtherSlot(OwnSlot(r))
             accepted == [Advanced(S(r), message) EXCEPT !.incoming = "none"]
             stored == [accepted EXCEPT !.token = @ \cup {slot}, !.seen[slot] = "unspent",
                                        !.reserve = @ \/ message = "reserve_accept"]
  <2>1. message \in Expected(r) /\ Expected(r) \subseteq Message
    BY <1>0, <1>8, PlanCashu
       DEF ValidateIncoming, Ready, Safe, Backed, Expected, Message
  <2>2. /\ RootPhase[NextChoreography[message]] # "filled"
        /\ NextChoreography[message] = "awaiting_quote_lock" => message = "reserve_accept"
        /\ message # "error" /\ r = "maker" => message = "quote_lock"
    BY <2>1 DEF Message, NextChoreography, RootPhase, Expected, Role
  <2>3. slot \in Slot /\ (r = "taker" => slot = "base") /\ (r = "maker" => slot = "quote")
    BY DEF OtherSlot, OwnSlot, Slot, Role
  <2>4. accepted \in Session BY <1>0, <2>1, AdvancedTypes DEF Session
  <2>5. CASE message = "error" /\ LocalStep(r, accepted)
    <3>1. Safe(r, accepted)
      BY <1>0, <2>2, <2>5 DEF Advanced, Safe, Backed, TakerFollows, MakerFollows, Spent, Session
    <3>2. accepted.token = S(r).token BY <1>0 DEF Advanced, Session
    <3> QED BY <2>4, <2>5, <3>1, <3>2, LocalSafe
  <2>6. CASE message # "error" /\ mint[slot] = "locked" /\ LocalStep(r, stored)
    <3>1. stored \in Session /\ stored.token = S(r).token \cup {slot}
      <4> DEFINE reserve == accepted.reserve \/ message = "reserve_accept"
      <4>1. stored = [accepted EXCEPT !.token = @ \cup {slot}, !.seen[slot] = "unspent",
                                      !.reserve = reserve]
        BY <2>4 DEF Session
      <4>2. accepted.token = S(r).token BY <1>0 DEF Advanced, Session
      <4>3. reserve \in BOOLEAN OBVIOUS
      <4> HIDE DEF accepted, stored, slot, reserve
      <4> QED BY <2>3, <2>4, <4>1, <4>2, <4>3, StoredTypes
    <3>2. Backed(r, stored)
      BY <1>0, <2>2, <2>3, <2>6 DEF Advanced, Safe, Backed, Spent, Session
    <3>3. r = "taker" => TakerFollows(stored)
      BY <1>0, <2>3 DEF Advanced, Safe, TakerFollows, Session, Slot
    <3>4. r = "maker" => MakerFollows(stored)
      BY <1>0, <2>2, <2>3, <2>6 DEF Advanced, Safe, MakerFollows, Session
    <3> QED BY <2>6, <3>1, <3>2, <3>3, <3>4, LocalSafe DEF Safe
  <2> QED BY <1>8, <2>5, <2>6 DEF ValidateIncoming
<1>9. ASSUME NEW r \in Role, PrepareCashu(r) PROVE SafeInv'
  <2>1. PICK action \in DOMAIN PlannedKind :
            /\ Ready(r, action) /\ Preparable(r, PlannedKind[action])
            /\ LocalStep(r, [S(r) EXCEPT
                   !.cashu = [kind |-> PlannedKind[action], status |-> "prepared",
                              reserved |-> FALSE],
                   !.claimed = @ \/ PlannedKind[action] = "claim"])
    BY <1>9 DEF PrepareCashu
  <2> DEFINE kind == PlannedKind[action]
             op == [kind |-> kind, status |-> "prepared", reserved |-> FALSE]
             s == [S(r) EXCEPT !.cashu = op, !.claimed = @ \/ kind = "claim"]
  <2>2. kind \in Kind /\ (kind = "lock" => action = "prepare_lock") BY DEF PlannedKind, Kind
  <2>3. op \in Cashu BY <2>2 DEF Cashu
  <2>4. s \in Session
    <3> HIDE DEF op
    <3> QED BY <1>0, <2>3, PreparedTypes
  <2>5. r = "taker" /\ kind = "lock" => "base" \in S(r).token
    BY <1>0, <2>1, <2>2, PlanLock DEF Ready, Safe, TakerFollows
  <2>6. kind = "claim" => S(r).preimage /\ (r = "maker" => "quote" \in S(r).token)
    BY <2>1 DEF Preparable, KindSlot, OtherSlot, OwnSlot
  <2>7. Safe(r, s)
    BY <1>0, <2>5, <2>6 DEF Safe, Backed, TakerFollows, MakerFollows, Spent, Session
  <2>8. s.token = S(r).token BY <1>0 DEF Session
  <2> QED BY <2>1, <2>4, <2>7, <2>8, LocalSafe
<1>10. ASSUME NEW r \in Role, ReserveCashuInputs(r) PROVE SafeInv'
  <2>1. S(r).cashu \in Cashu /\ S(r).cashu.status = "prepared"
    BY <1>0, <1>10, PlanCashu DEF ReserveCashuInputs, Ready, Session
  <2> DEFINE s == [S(r) EXCEPT !.cashu.reserved = TRUE]
  <2>2. s \in Session BY <1>0, <2>1, CashuTypes, OperationTypes
  <2>3. s.cashu.kind = S(r).cashu.kind /\ s.cashu.status = "prepared"
    BY <1>0, <2>1 DEF Session, Cashu, NoCashu
  <2>4. s.token = S(r).token /\ Safe(r, s)
    BY <1>0, <2>3 DEF Safe, Backed, TakerFollows, MakerFollows, Spent, Session
  <2> QED BY <1>10, <2>2, <2>4, LocalSafe DEF ReserveCashuInputs
<1>11. ASSUME NEW r \in Role, ReconcileWallet(r) PROVE SafeInv'
  <2>1. S(r).cashu \in Cashu /\ S(r).cashu.status = "completed"
    BY <1>0, <1>11, PlanCashu DEF ReconcileWallet, Ready, Session
  <2> DEFINE s == [S(r) EXCEPT !.cashu.status = "wallet_applied"]
  <2>2. s \in Session BY <1>0, <2>1, CashuTypes, OperationTypes
  <2>3. s.cashu.kind = S(r).cashu.kind BY <1>0, <2>1 DEF Session, Cashu, NoCashu
  <2>4. s.token = S(r).token /\ Safe(r, s)
    BY <1>0, <2>1, <2>3 DEF Safe, Backed, TakerFollows, MakerFollows, Spent, Session
  <2> QED BY <1>11, <2>2, <2>4, LocalSafe DEF ReconcileWallet
<1>12. ASSUME NEW r \in Role, NEW slot \in Slot, Observe(r, slot) PROVE SafeInv'
  <2> DEFINE learns == r = "taker" /\ slot = "quote" /\ mint[slot] = "claimed"
             s == [S(r) EXCEPT !.seen[slot] = Observed(slot), !.preimage = @ \/ learns]
  <2>1. Observed(slot) \in Seen /\ (Observed(slot) = "spent" => Claimed(slot))
    BY DEF Observed, Seen, Claimed
  <2>2. s \in Session /\ s.token = S(r).token BY <1>0, <2>1 DEF Session
  <2>3. Backed(r, s) BY <1>0, <2>1 DEF Safe, Backed, Spent, Session
  <2>4. r = "taker" => TakerFollows(s) BY <1>0 DEF Safe, TakerFollows, Session, Claimed
  <2>5. r = "maker" => MakerFollows(s) BY <1>0 DEF Safe, MakerFollows, Session
  <2> QED BY <1>12, <2>2, <2>3, <2>4, <2>5, LocalSafe DEF Observe, Safe
<1>13. ASSUME NEW r \in Role, ExecuteCashu(r) PROVE SafeInv'
  <2> DEFINE q == CashuRequest(r)
  <2>1. wire' \subseteq wire \cup {q} /\ UNCHANGED <<session, mint, relay, order>>
    BY <1>13 DEF ExecuteCashu
  <2>2. /\ q = [role |-> "maker", kind |-> "claim"] => session["taker"].token = Slot
        /\ q = [role |-> "taker", kind |-> "lock"] => "base" \in session["taker"].token
        /\ q = [role |-> "taker", kind |-> "claim"] => Claimed("quote")
    BY DEF CashuRequest, SafeInv, TakerFollows, MakerFollows
  <2>3. SentBacked' BY <2>1, <2>2 DEF SafeInv, SentBacked, Claimed
  <2>4. (\A p \in Role : Backed(p, session[p]))' BY <2>1 DEF SafeInv, Backed, Claimed, BothClaimed
  <2>5. TakerFollows(session["taker"])' /\ MakerFollows(session["maker"])'
    BY <2>1 DEF SafeInv, TakerFollows, MakerFollows, Claimed
  <2> QED BY <2>1, <2>3, <2>4, <2>5 DEF SafeInv, OfferOnlyAfterPayment, PaymentOnlyAfterOffer,
              PublicationBackedByMint, ClaimLeavesTakerAble, Claimed, BothClaimed
<1>14. ASSUME NEW r \in Role, ExecuteReturn(r) PROVE SafeInv'
  <2> DEFINE q == CashuRequest(r)
             completed == [S(r) EXCEPT !.cashu.status = "completed"]
             locked == [completed EXCEPT !.token = @ \cup {OwnSlot(r)},
                                         !.seen[OwnSlot(r)] = "unspent"]
  <2>1. S(r).cashu \in Cashu /\ S(r).cashu.status = "prepared"
    BY <1>0, <1>14 DEF ExecuteReturn, TypeInv, WaitingIsPrepared, Session
  <2>2. /\ completed \in Session /\ completed.token = S(r).token
        /\ completed.cashu.kind = S(r).cashu.kind /\ completed.cashu.status = "completed"
    <3>1. completed \in Session BY <1>0, <2>1, CashuTypes, OperationTypes
    <3>2. completed.token = S(r).token BY <1>0 DEF Session
    <3>3. completed.cashu.kind = S(r).cashu.kind /\ completed.cashu.status = "completed"
      BY <1>0, <2>1 DEF Session, Cashu, NoCashu
    <3> QED BY <3>1, <3>2, <3>3
  <2>3. S(r).cashu.kind = "refund" => mint[OwnSlot(r)] = "refunded"
    BY <1>14 DEF ExecuteReturn, Done, CashuRequest, RequestSlot, KindSlot, Outcome
  <2>4. S(r).cashu.kind = "lock" => mint[OwnSlot(r)] # "unlocked"
    BY <1>14 DEF ExecuteReturn, Done, CashuRequest, RequestSlot, KindSlot
  <2>5. CASE S(r).cashu.kind = "lock"
    <3>1. Save(r, locked) BY <1>14, <2>5 DEF ExecuteReturn, CashuRequest
    <3>2. locked.token = S(r).token \cup {OwnSlot(r)} /\ locked.token \subseteq Slot
      BY <1>0, <2>2 DEF Session
    <3>3. Backed(r, locked) BY <1>0, <2>1, <2>2, <2>4, <2>5 DEF Safe, Backed, Spent, Session
    <3>4. r = "taker" => TakerFollows(locked)
      BY <1>0, <2>1, <2>2, <2>5 DEF Safe, TakerFollows, Session, Slot
    <3>5. r = "maker" => MakerFollows(locked)
      BY <1>0, <2>1, <2>2, <2>5 DEF Safe, MakerFollows, Session, OwnSlot
    <3>6. session' = [session EXCEPT ![r] = locked] /\ UNCHANGED <<wire, mint, relay, order>>
      BY <1>14, <3>1 DEF ExecuteReturn, Save
    <3>7. PublicationBackedByMint' BY <3>6 DEF SafeInv, PublicationBackedByMint, BothClaimed, Claimed
    <3> QED BY <3>2, <3>3, <3>4, <3>5, <3>6, <3>7, OneSessionSafe DEF Safe
  <2>6. CASE S(r).cashu.kind # "lock"
    <3>1. Save(r, completed) BY <1>14, <2>6 DEF ExecuteReturn, CashuRequest
    <3>2. Safe(r, completed)
      BY <1>0, <2>1, <2>2, <2>3 DEF Safe, Backed, TakerFollows, MakerFollows, Spent, Session
    <3>3. session' = [session EXCEPT ![r] = completed] /\ UNCHANGED <<wire, mint, relay, order>>
      BY <1>14, <3>1 DEF ExecuteReturn, Save
    <3>4. PublicationBackedByMint' BY <3>3 DEF SafeInv, PublicationBackedByMint, BothClaimed, Claimed
    <3> QED BY <1>0, <2>2, <3>2, <3>3, <3>4, OneSessionSafe
  <2> QED BY <2>5, <2>6
<1>15. CASE \/ \E r \in Role : ExecuteError(r) \/ Crash(r)
            \/ RejectProposal \/ (\E q \in Request : LoseRequest(q)) \/ Tick \/ UNCHANGED vars
  <2>1. /\ UNCHANGED <<session, mint, order>> /\ wire' \subseteq wire
        /\ relay' \subseteq relay \cup {"error"}
    BY <1>15 DEF ExecuteError, Crash, RejectProposal, LoseRequest, Tick, vars
  <2>2. SentBacked' BY <2>1 DEF SafeInv, SentBacked, Claimed
  <2>3. (\A p \in Role : Backed(p, session[p]))' BY <2>1 DEF SafeInv, Backed, Claimed, BothClaimed
  <2>4. TakerFollows(session["taker"])' /\ MakerFollows(session["maker"])'
    BY <2>1 DEF SafeInv, TakerFollows, MakerFollows, Claimed
  <2> QED BY <2>1, <2>2, <2>3, <2>4 DEF SafeInv, OfferOnlyAfterPayment, PaymentOnlyAfterOffer,
              PublicationBackedByMint, ClaimLeavesTakerAble, Claimed, BothClaimed
<1>16. ASSUME NEW r \in Role, StageOrder(r) PROVE SafeInv'
  <2>1. PICK action \in DOMAIN StagedOperation : LET
            operation == StagedOperation[action]
            published == order.operation = operation /\ order.published
        IN  /\ Ready(r, action)
            /\ order' = [operation |-> operation, published |-> published]
            /\ Checkpoint(r, [S(r) EXCEPT
                   !.publication = [operation |-> operation,
                                    status |-> IF published THEN "committed" ELSE "staged"],
                   !.reserve = @ \/ operation = "reserve",
                   !.fill = @ \/ operation = "fill"])
            /\ UNCHANGED <<waiting, wire, mint, relay, now>>
    BY <1>16 DEF StageOrder
  <2> DEFINE operation == StagedOperation[action]
             published == order.operation = operation /\ order.published
             s == [S(r) EXCEPT
                   !.publication = [operation |-> operation,
                                    status |-> IF published THEN "committed" ELSE "staged"],
                   !.reserve = @ \/ operation = "reserve",
                   !.fill = @ \/ operation = "fill"]
  <2>2. s.token = S(r).token /\ Safe(r, s)
    BY <1>0 DEF Safe, Backed, TakerFollows, MakerFollows, Spent, Session
  <2>3. operation = "fill" => BothClaimed
    <3>1. operation = "fill" => Plan(r) = "stage_order_fill"
      BY <2>1 DEF Ready, StagedOperation
    <3> QED BY <1>0, <3>1, PlanSettled DEF BothClaimed, Safe, Backed, Slot
  <2>4. operation = "release" => mint["base"] = "refunded"
    <3>1. operation = "release" => Plan(r) = "stage_order_release"
      BY <2>1 DEF Ready, StagedOperation
    <3> QED BY <1>0, <3>1, PlanRelease DEF Safe, Backed, OwnSlot
  <2>5. PublicationBackedByMint'
    BY <2>1, <2>3, <2>4 DEF PublicationBackedByMint, BothClaimed, Claimed
  <2>6. session' = session \/ session' = [session EXCEPT ![r] = s]
    BY <2>1 DEF Checkpoint, Save
  <2> QED BY <1>0, <2>1, <2>2, <2>5, <2>6, OneSessionSafe
<1>17. ASSUME NEW r \in Role, PublishRelease(r) \/ AnnounceOrder(r) PROVE SafeInv'
  <2> DEFINE released == [Published(r) EXCEPT !.phase = "released"]
  <2>1. PICK s \in {released, Published(r)} :
            session' = session \/ session' = [session EXCEPT ![r] = s]
    BY <1>17 DEF PublishRelease, AnnounceOrder, Checkpoint, Save
  <2>2. s.token = S(r).token /\ Safe(r, s)
    <3>1. /\ s.token = S(r).token /\ s.seen = S(r).seen /\ s.cashu = S(r).cashu
          /\ s.phase \in {S(r).phase, "released"} /\ s.incoming = S(r).incoming
      BY <1>0 DEF Published, Session
    <3>2. /\ s.preimage = S(r).preimage /\ s.choreography = S(r).choreography
          /\ s.outbox = S(r).outbox
      BY <1>0 DEF Published, Session
    <3> HIDE DEF released
    <3>3. Backed(r, s) BY <1>0, <3>1 DEF Safe, Backed, Spent
    <3>4. (r = "taker" => TakerFollows(s)) /\ (r = "maker" => MakerFollows(s))
      BY <1>0, <3>1, <3>2 DEF Safe, TakerFollows, MakerFollows
    <3> QED BY <3>1, <3>3, <3>4 DEF Safe
  <2>3. UNCHANGED <<wire, mint, relay>> /\ order'.operation = order.operation
    BY <1>17 DEF PublishRelease, AnnounceOrder, TypeInv, TypeOK
  <2>4. PublicationBackedByMint' BY <2>3 DEF SafeInv, PublicationBackedByMint, BothClaimed, Claimed
  <2> QED BY <1>0, <2>1, <2>2, <2>3, <2>4, OneSessionSafe
<1>18. CASE MakerAccepts
  <2> DEFINE s == NewSession("awaiting_reserve_accept", TRUE)
  <2>1. Safe("maker", s) BY DEF NewSession, NoCashu, Safe, Backed, MakerFollows, Spent
  <2>2. PublicationBackedByMint'
    BY <1>18 DEF MakerAccepts, SafeInv, PublicationBackedByMint, BothClaimed, Claimed
  <2> QED BY <1>18, <2>1, <2>2, OneSessionSafe DEF MakerAccepts, Role
<1> QED
  BY <1>1, <1>2, <1>3, <1>4, <1>5, <1>6, <1>7, <1>8, <1>9, <1>10, <1>11, <1>12, <1>13,
     <1>14, <1>15, <1>16, <1>17, <1>18, MintSafe
     DEF Next, SessionStep, MakerInboxStep

LEMMA Safety == Spec => [](TypeInv /\ SafeInv)
<1>1. Init => TypeInv /\ SafeInv BY TypeInit, SafeInit
<1>2. TypeInv /\ SafeInv /\ [Next]_vars => (TypeInv /\ SafeInv)' BY TypeStep, SafeStep
<1> QED BY <1>1, <1>2, PTL DEF Spec

\* The maker's offer can only be claimed once the taker's payment is, whatever
\* either party's clock, restarts or lost answers do.
THEOREM OfferSafe == Spec => []OfferOnlyAfterPayment
<1>1. SafeInv => OfferOnlyAfterPayment BY DEF SafeInv
<1> QED BY <1>1, Safety, PTL

\* The taker pays only on top of an offer that is locked and that it stored.
THEOREM PaymentSafe == Spec => []PaymentOnlyAfterOffer
<1>1. SafeInv => PaymentOnlyAfterOffer BY DEF SafeInv
<1> QED BY <1>1, Safety, PTL

\* A session in phase "filled" reports a trade both mints have paid out.
THEOREM FilledSafe == Spec => []FilledMeansBothClaimed
<1>1. SafeInv => FilledMeansBothClaimed BY DEF SafeInv, Backed, FilledMeansBothClaimed
<1> QED BY <1>1, Safety, PTL

\* The order book hears "fill" only of a settled trade and "release" only of a
\* refunded offer.
THEOREM PublicationSafe == Spec => []PublicationBackedByMint
<1>1. SafeInv => PublicationBackedByMint BY DEF SafeInv
<1> QED BY <1>1, Safety, PTL

\* When the maker has the payment, the taker holds both tokens and can collect
\* the offer without the maker's help.
THEOREM TakerAble == Spec => []ClaimLeavesTakerAble
<1>1. SafeInv => ClaimLeavesTakerAble BY DEF SafeInv
<1> QED BY <1>1, Safety, PTL

-----------------------------------------------------------------------------
(* Requests leave inside their window *)

\* A call of the mint is made only for an operation that is still safe.
LEMMA PlanExecute ==
    ASSUME NEW r, Plan(r) = "execute_cashu_operation"
    PROVE  ~UnsafePreparedOperation(r)
<1>1. PreparedDue(r) = Plan(r)
  BY LayerSteps DEF Plan, ??, Pass
<1> QED BY <1>1 DEF PreparedDue, Pass

\* No other step sends a request.
LEMMA OnlyExecuteSends ==
    ASSUME [Next]_vars, wire' \ wire # {}
    PROVE  \E r \in Role : ExecuteCashu(r)
<1> SUFFICES ASSUME \A r \in Role : ~ExecuteCashu(r) PROVE FALSE OBVIOUS
<1>1. ASSUME NEW r \in Role, SessionStep(r) \/ Crash(r) PROVE UNCHANGED wire
  BY <1>1 DEF SessionStep, Crash, StageInbox, EnterRecovery, CompleteSettlement,
     ClearCashuOperation, StageOutgoing, DeliverOutbox, PollInbox, ValidateIncoming,
     PrepareCashu, ReserveCashuInputs, ExecuteReturn, ExecuteError, ReconcileWallet,
     Observe, StageOrder, PublishRelease, AnnounceOrder, LocalStep
<1>2. ASSUME NEW q \in Request, MintProcess(q) \/ LoseRequest(q) PROVE wire' \subseteq wire
  BY <1>2 DEF MintProcess, LoseRequest
<1>3. MakerInboxStep \/ Tick \/ UNCHANGED vars => UNCHANGED wire
  BY DEF MakerInboxStep, MakerAccepts, RejectProposal, Tick, vars
<1> QED BY <1>1, <1>2, <1>3 DEF Next

\* The deadlines a window is made of are times.
LEMMA DeadlinesAreTimes ==
    /\ MakerClaimCutoff \in Nat /\ TakerClaimCutoff \in Nat
    /\ \A slot \in Slot : RefundableAfter(slot) \in Nat
<1>1. /\ MakerClaimCutoff \in Nat /\ TakerClaimCutoff \in Nat
      /\ ShortLocktime \in Nat /\ LongLocktime \in Nat /\ RefundGuard \in Nat
  BY PlanAssumption
<1>2. ASSUME NEW slot \in Slot PROVE RefundableAfter(slot) \in Nat
  <2>1. Locktime(slot) \in Nat BY <1>1 DEF Locktime
  <2> QED BY <1>1, <2>1 DEF RefundableAfter
<1> QED BY <1>1, <1>2

\* Every request that leaves is inside its window.
LEMMA SendsInWindow == TypeInv /\ [Next]_vars => \A q \in wire' \ wire : InWindow(q)
<1> SUFFICES ASSUME TypeInv, [Next]_vars, NEW q \in wire' \ wire PROVE InWindow(q)
  OBVIOUS
<1>1. PICK r \in Role : ExecuteCashu(r) BY OnlyExecuteSends
<1> DEFINE kind == session[r].cashu.kind
           slot == KindSlot(r, kind)
<1>2. q = [role |-> r, kind |-> kind] /\ ~UnsafePreparedOperation(r)
  BY <1>1, PlanExecute DEF ExecuteCashu, Ready, CashuRequest
<1>3. q.kind = kind /\ RequestSlot(q) = slot
  BY <1>2 DEF RequestSlot
<1>4. now \in Nat BY PlanAssumption DEF TypeInv, TypeOK
<1>5. slot \in Slot BY DEF KindSlot, OtherSlot, OwnSlot, Slot
<1>6. CASE kind = "refund"
  <2>1. now > RefundableAfter(slot)
    BY <1>2, <1>4, <1>5, <1>6, DeadlinesAreTimes DEF UnsafePreparedOperation
  <2>2. q.kind = "refund" /\ q # [role |-> "taker", kind |-> "claim"]
    BY <1>2, <1>6
  <2> QED BY <1>3, <2>1, <2>2 DEF InWindow
<1>7. CASE kind = "claim" /\ r = "taker"
  <2>1. slot = "base" BY <1>7 DEF KindSlot, OtherSlot, OwnSlot
  <2>2. now < TakerClaimCutoff
    BY <1>2, <1>4, <1>7, <2>1, DeadlinesAreTimes DEF UnsafePreparedOperation
  <2>3. q = [role |-> "taker", kind |-> "claim"] /\ q.kind # "refund"
    BY <1>2, <1>7
  <2> QED BY <2>2, <2>3 DEF InWindow
<1>8. CASE kind # "refund" /\ ~(kind = "claim" /\ r = "taker")
  <2>1. ~(kind = "claim" /\ slot = "base")
    BY <1>8 DEF KindSlot, OtherSlot, OwnSlot, Role
  <2>2. now < MakerClaimCutoff
    BY <1>2, <1>4, <1>8, <2>1, DeadlinesAreTimes DEF UnsafePreparedOperation
  <2>3. q # [role |-> "taker", kind |-> "claim"] /\ q.kind # "refund"
    BY <1>2, <1>8
  <2> QED BY <2>2, <2>3 DEF InWindow
<1> QED BY <1>6, <1>7, <1>8

\* However often an operation is retried, its request leaves the session only
\* inside its window, for any deadlines in the assumed order.
THEOREM RequestsAreInTime == Spec => RequestsInWindow
<1>1. TypeInv /\ [Next]_vars => [\A q \in wire' \ wire : InWindow(q)]_vars
  BY SendsInWindow
<1> QED BY <1>1, TypeInit, TypeStep, PTL DEF Spec, RequestsInWindow

-----------------------------------------------------------------------------
(* What the mints did is in the journal *)

PendingLock == [kind |-> "lock", status |-> "prepared", reserved |-> TRUE]
Sent(r, kind) == [role |-> r, kind |-> kind] \in wire
Underway(s, kind) == s.cashu.kind = kind /\ s.cashu.status = "prepared"
Expired(r, s) == OwnSlot(r) \in s.token /\ s.seen[OwnSlot(r)] = "expired"

\* What a session has written down of its own requests.  A lock is prepared only
\* while its token is not stored, so its completion overwrites no evidence; a
\* refund under way keeps the evidence that allowed it.
Journaled(r, s) ==
    /\ mint[OwnSlot(r)] # "unlocked" \/ Sent(r, "lock") =>
           OwnSlot(r) \in s.token \/ s.cashu = PendingLock
    /\ Underway(s, "lock") => OwnSlot(r) \notin s.token
    /\ Claimed(OtherSlot(OwnSlot(r))) \/ Sent(r, "claim") \/ s.cashu.kind = "claim" => s.claimed
    /\ Sent(r, "refund") => Underway(s, "refund") /\ mint[OwnSlot(r)] # "refunded"
    /\ Underway(s, "refund") \/ mint[OwnSlot(r)] = "refunded" => Expired(r, s)
    /\ s.choreography = "absent" => s.token = {} /\ s.cashu = NoCashu /\ ~s.claimed

Journal == \A r \in Role : Journaled(r, session[r])

\* A role's two slots differ.
LEMMA SlotsDiffer ==
    ASSUME NEW r \in Role
    PROVE  /\ OwnSlot(r) \in Slot /\ OtherSlot(OwnSlot(r)) \in Slot
           /\ OtherSlot(OwnSlot(r)) # OwnSlot(r)
BY DEF OwnSlot, OtherSlot, Slot, Role

\* Nothing is sent before the proposal.
LEMMA JournalInit == Init => Journal
<1> SUFFICES ASSUME Init, NEW r \in Role PROVE Journaled(r, session[r]) BY DEF Journal
<1>1. /\ session[r].token = {} /\ session[r].cashu = NoCashu /\ ~session[r].claimed
      /\ wire = {}
  BY DEF Init, NewSession
<1>2. \A slot \in Slot : mint[slot] = "unlocked" BY DEF Init
<1> QED BY <1>1, <1>2, SlotsDiffer DEF Journaled, NoCashu, Sent, Underway, Claimed

\* Only an operation that is not prepared is replaced, cleared or outrun by an
\* observation, and what is prepared next is what the session lacks or saw.
LEMMA PlanIdle ==
    ASSUME NEW r \in Role
    PROVE  /\ Plan(r) \in {"prepare_lock", "prepare_claim", "prepare_refund", "observe_base",
                           "observe_quote", "clear_cashu_operation"}
                  => session[r].cashu.status # "prepared"
           /\ Plan(r) = "prepare_lock" => OwnSlot(r) \notin session[r].token
           /\ Plan(r) = "prepare_refund" => Expired(r, session[r])
<1>1. Plan(r) \in {"prepare_lock", "prepare_claim", "prepare_refund", "observe_base",
                   "observe_quote"} => PreparedDue(r) = Pass
  BY LayerSteps DEF Plan, ??, Pass
<1>2. Plan(r) = "clear_cashu_operation" => CashuDue(r) = Plan(r)
  BY LayerSteps DEF Plan, ??, Pass
<1>3. Plan(r) = "prepare_lock" => LockingDue(r) = Plan(r)
  BY LayerSteps DEF Plan, ??, Pass
<1>4. Plan(r) = "prepare_refund" => RefundDue(r) = Plan(r)
  BY LayerSteps DEF Plan, ??, Pass
<1>5. PreparedDue(r) = Pass => session[r].cashu.status # "prepared"
  BY DEF PreparedDue, Pass
<1>6. CashuDue(r) = "clear_cashu_operation" => session[r].cashu.status # "prepared"
  BY DEF CashuDue, Pass
<1>7. LockingDue(r) = "prepare_lock" => OwnSlot(r) \notin session[r].token
  BY DEF LockingDue, OwnSlot, Pass, Role
<1>8. RefundDue(r) = "prepare_refund" => Expired(r, session[r])
  BY DEF RefundDue, Expired, Pass, ??
<1> QED BY <1>1, <1>2, <1>3, <1>4, <1>5, <1>6, <1>7, <1>8

\* A step of one session that reaches no mint.
LEMMA OneSessionJournaled ==
    ASSUME TypeInv, Journal, NEW r \in Role, NEW s, Journaled(r, s),
           session' = session \/ session' = [session EXCEPT ![r] = s],
           UNCHANGED <<wire, mint>>
    PROVE  Journal'
<1> SUFFICES ASSUME NEW p \in Role PROVE Journaled(p, session[p])'
  BY DEF Journal
<1>1. session'[p] = session[p] \/ (p = r /\ session'[p] = s)
  BY DEF TypeInv, TypeOK
<1>2. Journaled(p, session'[p]) BY <1>1 DEF Journal
<1> QED BY <1>2 DEF Journaled, Sent, Claimed, Underway, Expired

\* What a session keeps in most steps: tokens, operation, claim and evidence.
SameFunds(s, t) ==
    /\ t.token = s.token /\ t.cashu = s.cashu /\ t.claimed = s.claimed /\ t.seen = s.seen
    /\ t.choreography = "absent" => s.choreography = "absent"

\* ... and then the journal is kept.
LEMMA SameFundsJournaled ==
    ASSUME NEW r \in Role, NEW s, NEW t, Journaled(r, s), SameFunds(s, t)
    PROVE  Journaled(r, t)
BY DEF Journaled, SameFunds, Underway, Expired

\* The mint did what its client had written down.
LEMMA MintJournaled ==
    ASSUME TypeInv, Journal, NEW q \in Request, MintProcess(q)
    PROVE  Journal'
<1> SUFFICES ASSUME NEW p \in Role PROVE Journaled(p, session[p])'
  BY DEF Journal
<1> DEFINE own == OwnSlot(p)
           other == OtherSlot(own)
<1>0. /\ own \in Slot /\ other \in Slot /\ own # other
      /\ Journaled(p, session[p])
  BY SlotsDiffer DEF Journal
<1>1. UNCHANGED session /\ q \in wire /\ wire' = wire \ {q} BY DEF MintProcess
<1>2. CASE mint' = mint
  BY <1>0, <1>1, <1>2 DEF Journaled, Sent, Claimed, Underway, Expired
<1>3. CASE mint' # mint
  <2>1. /\ MintAccepts(q) /\ mint' = [mint EXCEPT ![RequestSlot(q)] = Outcome[q.kind]]
    BY <1>3 DEF MintProcess
  <2>2. /\ q.role \in Role /\ q.kind \in Kind
        /\ q = [role |-> q.role, kind |-> q.kind]
    BY DEF Request
  <2>3. CASE q.role = p
    <3>1. CASE q.kind = "lock"
      <4>1. RequestSlot(q) = own BY <2>3, <3>1 DEF RequestSlot, KindSlot
      <4>2. mint'[other] = mint[other] /\ mint'[own] = "locked" /\ mint[own] = "unlocked"
        BY <1>0, <2>1, <3>1, <4>1 DEF TypeInv, TypeOK, Outcome, MintAccepts
      <4>3. Sent(p, "lock") BY <1>1, <2>2, <2>3, <3>1 DEF Sent
      <4>4. /\ Sent(p, "claim")' => Sent(p, "claim")
            /\ Sent(p, "refund")' => Sent(p, "refund")
        BY <1>1 DEF Sent
      <4> QED BY <1>0, <1>1, <4>2, <4>3, <4>4 DEF Journaled, Claimed, Underway, Expired
    <3>2. CASE q.kind = "claim"
      <4>1. RequestSlot(q) = other BY <2>3, <3>2 DEF RequestSlot, KindSlot
      <4>2. mint'[own] = mint[own] BY <1>0, <2>1, <4>1 DEF TypeInv, TypeOK
      <4>3. Sent(p, "claim") BY <1>1, <2>2, <2>3, <3>2 DEF Sent
      <4>4. /\ Sent(p, "lock")' => Sent(p, "lock")
            /\ Sent(p, "refund")' => Sent(p, "refund")
        BY <1>1 DEF Sent
      <4> QED BY <1>0, <1>1, <4>2, <4>3, <4>4 DEF Journaled, Claimed, Underway, Expired
    <3>3. CASE q.kind = "refund"
      <4>1. RequestSlot(q) = own BY <2>3, <3>3 DEF RequestSlot, KindSlot
      <4>2. mint'[other] = mint[other] /\ mint'[own] = "refunded"
            /\ mint[own] = "locked"
        BY <1>0, <2>1, <3>3, <4>1 DEF TypeInv, TypeOK, Outcome, MintAccepts
      <4>3. Sent(p, "refund") /\ ~Sent(p, "refund")' BY <1>1, <2>2, <2>3, <3>3 DEF Sent
      <4>4. /\ Sent(p, "lock")' => Sent(p, "lock")
            /\ Sent(p, "claim")' => Sent(p, "claim")
        BY <1>1 DEF Sent
      <4> QED BY <1>0, <1>1, <4>2, <4>3, <4>4 DEF Journaled, Claimed, Underway, Expired
    <3> QED BY <2>2, <3>1, <3>2, <3>3 DEF Kind
  <2>4. CASE q.role # p
    <3>1. \A kind \in Kind : Sent(p, kind)' => Sent(p, kind) BY <1>1 DEF Sent
    <3>2. OwnSlot(q.role) = other /\ OtherSlot(OwnSlot(q.role)) = own
      BY <2>2, <2>4 DEF Role, OwnSlot, OtherSlot
    <3>3. CASE q.kind = "claim"
      <4>1. RequestSlot(q) = own BY <3>2, <3>3 DEF RequestSlot, KindSlot
      <4>2. mint'[other] = mint[other] /\ mint'[own] = "claimed" /\ mint[own] = "locked"
        BY <1>0, <2>1, <3>3, <4>1 DEF TypeInv, TypeOK, Outcome, MintAccepts
      <4> QED BY <1>0, <1>1, <3>1, <4>2 DEF Journaled, Claimed, Underway, Expired, Kind
    <3>4. CASE q.kind # "claim"
      <4>1. RequestSlot(q) = other BY <3>2, <3>4 DEF RequestSlot, KindSlot
      <4>2. mint'[own] = mint[own] /\ mint'[other] # "claimed"
        BY <1>0, <2>1, <2>2, <3>4, <4>1 DEF TypeInv, TypeOK, Outcome, Kind
      <4> QED BY <1>0, <1>1, <3>1, <4>2 DEF Journaled, Claimed, Underway, Expired, Kind
    <3> QED BY <3>3, <3>4
  <2> QED BY <2>3, <2>4
<1> QED BY <1>2, <1>3

\* Every step keeps the journal.
LEMMA JournalStep == TypeInv /\ Journal /\ [Next]_vars => Journal'
<1> SUFFICES ASSUME TypeInv, Journal, [Next]_vars PROVE Journal' OBVIOUS
<1> DEFINE S(r) == session[r]
<1>0. ASSUME NEW r \in Role
      PROVE  /\ S(r) \in Session /\ Journaled(r, S(r))
             /\ OwnSlot(r) \in Slot /\ OtherSlot(OwnSlot(r)) # OwnSlot(r)
  BY SlotsDiffer DEF TypeInv, TypeOK, Journal
<1>1. ASSUME NEW r \in Role, NEW s, SameFunds(S(r), s),
             session' = session \/ session' = [session EXCEPT ![r] = s],
             UNCHANGED <<wire, mint>>
      PROVE  Journal'
  BY <1>0, <1>1, SameFundsJournaled, OneSessionJournaled
<1>2. ASSUME NEW r \in Role, StageInbox(r) PROVE Journal'
  <2> DEFINE s == [S(r) EXCEPT !.inbox = "staged"]
  <2>1. SameFunds(S(r), s) BY <1>0 DEF SameFunds, Session
  <2> QED BY <1>1, <1>2, <2>1 DEF StageInbox, LocalStep, Save
<1>3. ASSUME NEW r \in Role, EnterRecovery(r) PROVE Journal'
  <2>1. PICK choreography \in {"refunding", "failed"},
             phase \in {"waiting_base_refund", "waiting_quote_refund", "frozen"} :
            LocalStep(r, [S(r) EXCEPT !.choreography = choreography, !.phase = phase])
    BY <1>3, RecoveryMoves
  <2> DEFINE s == [S(r) EXCEPT !.choreography = choreography, !.phase = phase]
  <2>2. SameFunds(S(r), s) BY <1>0 DEF SameFunds, Session
  <2> QED BY <1>1, <2>1, <2>2 DEF LocalStep, Save
<1>4. ASSUME NEW r \in Role, CompleteSettlement(r) PROVE Journal'
  <2> DEFINE s == [S(r) EXCEPT !.choreography = "settled", !.phase = "filled"]
  <2>1. SameFunds(S(r), s) BY <1>0 DEF SameFunds, Session
  <2> QED BY <1>1, <1>4, <2>1 DEF CompleteSettlement, LocalStep, Save
<1>5. ASSUME NEW r \in Role, StageOutgoing(r) PROVE Journal'
  <2>1. PICK action \in DOMAIN StagedMessage :
            LocalStep(r, [S(r) EXCEPT !.outbox = StagedMessage[action]])
    BY <1>5 DEF StageOutgoing
  <2> DEFINE s == [S(r) EXCEPT !.outbox = StagedMessage[action]]
  <2>2. SameFunds(S(r), s) BY <1>0 DEF SameFunds, Session
  <2> QED BY <1>1, <2>1, <2>2 DEF LocalStep, Save
<1>6. ASSUME NEW r \in Role, DeliverOutbox(r) PROVE Journal'
  <2> DEFINE message == S(r).outbox
             s == [Advanced(S(r), message) EXCEPT !.outbox = "none"]
  <2>1. message \in Message BY <1>0, <1>6, PlanCashu DEF DeliverOutbox, Ready, Session
  <2>2. NextChoreography[message] # "absent" BY <2>1 DEF Message, NextChoreography
  <2>3. SameFunds(S(r), s) BY <1>0, <2>2 DEF Advanced, SameFunds, Session
  <2> QED BY <1>1, <1>6, <2>3 DEF DeliverOutbox, Checkpoint, Save
<1>7. ASSUME NEW r \in Role, PollInbox(r) PROVE Journal'
  <2>1. PICK message \in relay \cap Expected(r) :
            LocalStep(r, [S(r) EXCEPT !.incoming = message])
    BY <1>7 DEF PollInbox
  <2> DEFINE s == [S(r) EXCEPT !.incoming = message]
  <2>2. SameFunds(S(r), s) BY <1>0 DEF SameFunds, Session
  <2> QED BY <1>1, <2>1, <2>2 DEF LocalStep, Save
<1>8. ASSUME NEW r \in Role, ValidateIncoming(r) PROVE Journal'
  <2> DEFINE message == S(r).incoming
             slot == OtherSlot(OwnSlot(r))
             accepted == [Advanced(S(r), message) EXCEPT !.incoming = "none"]
             stored == [accepted EXCEPT !.token = @ \cup {slot}, !.seen[slot] = "unspent",
                                        !.reserve = @ \/ message = "reserve_accept"]
  <2>1. message \in Message
    BY <1>0, <1>8, PlanCashu DEF ValidateIncoming, Ready, Session
  <2>2. NextChoreography[message] # "absent" BY <2>1 DEF Message, NextChoreography
  <2>3. SameFunds(S(r), accepted) BY <1>0, <2>2 DEF Advanced, SameFunds, Session
  <2>4. CASE LocalStep(r, accepted)
    BY <1>1, <2>3, <2>4 DEF LocalStep, Save
  <2>5. CASE LocalStep(r, stored)
    <3>1. /\ stored.token = S(r).token \cup {slot}
          /\ stored.cashu = S(r).cashu /\ stored.claimed = S(r).claimed
      BY <1>0 DEF Advanced, Session
    <3>2. stored.choreography # "absent" BY <1>0, <2>2 DEF Advanced, Session
    <3>3. stored.seen[OwnSlot(r)] = S(r).seen[OwnSlot(r)] BY <1>0 DEF Advanced, Session
    <3>4. Journaled(r, stored)
      <4> HIDE DEF stored
      <4> QED BY <1>0, <3>1, <3>2, <3>3 DEF Journaled, Underway, Expired
    <3> QED BY <2>5, <3>4, OneSessionJournaled DEF LocalStep, Save
  <2> QED BY <1>8, <2>4, <2>5 DEF ValidateIncoming
<1>9. ASSUME NEW r \in Role, PrepareCashu(r) PROVE Journal'
  <2>1. PICK action \in DOMAIN PlannedKind :
            /\ Ready(r, action)
            /\ LocalStep(r, [S(r) EXCEPT
                   !.cashu = [kind |-> PlannedKind[action], status |-> "prepared",
                              reserved |-> FALSE],
                   !.claimed = @ \/ PlannedKind[action] = "claim"])
    BY <1>9 DEF PrepareCashu
  <2> DEFINE kind == PlannedKind[action]
             s == [S(r) EXCEPT
                   !.cashu = [kind |-> kind, status |-> "prepared", reserved |-> FALSE],
                   !.claimed = @ \/ kind = "claim"]
  <2>2. /\ kind \in Kind /\ action \in {"prepare_lock", "prepare_claim", "prepare_refund"}
        /\ kind = "lock" => action = "prepare_lock"
        /\ kind = "refund" => action = "prepare_refund"
    BY DEF PlannedKind, Kind
  <2>3. /\ S(r).cashu.status # "prepared" /\ S(r).choreography # "absent"
        /\ kind = "lock" => OwnSlot(r) \notin S(r).token
        /\ kind = "refund" => Expired(r, S(r))
    BY <2>1, <2>2, PlanIdle DEF Ready
  <2>4. /\ s.cashu.kind = kind /\ s.cashu.status = "prepared"
        /\ s.token = S(r).token /\ s.seen = S(r).seen
        /\ s.choreography = S(r).choreography
    BY <1>0 DEF Session
  <2>5. s.claimed <=> S(r).claimed \/ kind = "claim" BY <1>0 DEF Session
  <2>6. Journaled(r, s)
    <3>1. S(r).cashu # PendingLock BY <2>3 DEF PendingLock
    <3> HIDE DEF s, kind
    <3> QED BY <1>0, <2>2, <2>3, <2>4, <2>5, <3>1 DEF Journaled, Underway, Expired, Kind
  <2> QED BY <2>1, <2>6, OneSessionJournaled DEF LocalStep, Save
<1>10. ASSUME NEW r \in Role, ClearCashuOperation(r) PROVE Journal'
  <2> DEFINE s == [S(r) EXCEPT !.cashu = NoCashu]
  <2>1. S(r).cashu.status # "prepared" /\ S(r).choreography # "absent"
    BY <1>10, PlanIdle DEF ClearCashuOperation, Ready
  <2>2. /\ s.cashu = NoCashu /\ s.token = S(r).token /\ s.seen = S(r).seen
        /\ s.claimed = S(r).claimed /\ s.choreography = S(r).choreography
    BY <1>0 DEF Session
  <2>3. Journaled(r, s)
    <3>1. S(r).cashu # PendingLock BY <2>1 DEF PendingLock
    <3> HIDE DEF s
    <3> QED BY <1>0, <2>1, <2>2, <3>1 DEF Journaled, Underway, Expired, NoCashu
  <2> QED BY <1>10, <2>3, OneSessionJournaled DEF ClearCashuOperation, LocalStep, Save
<1>11. ASSUME NEW r \in Role, ReserveCashuInputs(r) PROVE Journal'
  <2> DEFINE s == [S(r) EXCEPT !.cashu.reserved = TRUE]
  <2>1. /\ S(r).cashu \in Cashu /\ S(r).cashu.status = "prepared"
        /\ S(r).choreography # "absent"
    BY <1>0, <1>11, PlanCashu DEF ReserveCashuInputs, Ready, Session
  <2>2. s.cashu.kind = S(r).cashu.kind /\ s.cashu.status = "prepared"
    BY <1>0, <2>1 DEF Session, Cashu, NoCashu
  <2>3. /\ s.token = S(r).token /\ s.seen = S(r).seen
        /\ s.claimed = S(r).claimed /\ s.choreography = S(r).choreography
    BY <1>0 DEF Session
  <2>4. S(r).cashu = PendingLock => s.cashu = PendingLock
    <3> DEFINE op == [S(r).cashu EXCEPT !.reserved = TRUE]
    <3>1. ASSUME S(r).cashu = PendingLock PROVE op = PendingLock
      <4>1. PendingLock \in [kind: {"lock"}, status: {"prepared"}, reserved: {TRUE}]
        BY DEF PendingLock
      <4>2. op \in [kind: {"lock"}, status: {"prepared"}, reserved: {TRUE}] BY <3>1, <4>1
      <4> QED BY <4>1, <4>2
    <3>2. s = [S(r) EXCEPT !.cashu = op] BY <1>0 DEF Session
    <3> HIDE DEF op
    <3>3. s.cashu = op BY <1>0, <3>2 DEF Session
    <3> QED BY <3>1, <3>3
  <2>5. Journaled(r, s)
    <3> HIDE DEF s
    <3> QED BY <1>0, <2>1, <2>2, <2>3, <2>4 DEF Journaled, Underway, Expired
  <2> QED BY <1>11, <2>5, OneSessionJournaled DEF ReserveCashuInputs, LocalStep, Save
<1>12. ASSUME NEW r \in Role, ReconcileWallet(r) PROVE Journal'
  <2> DEFINE s == [S(r) EXCEPT !.cashu.status = "wallet_applied"]
  <2>1. /\ S(r).cashu \in Cashu /\ S(r).cashu.status = "completed"
        /\ S(r).choreography # "absent"
    BY <1>0, <1>12, PlanCashu DEF ReconcileWallet, Ready, Session
  <2>2. s.cashu.kind = S(r).cashu.kind /\ s.cashu.status = "wallet_applied"
    BY <1>0, <2>1 DEF Session, Cashu, NoCashu
  <2>3. /\ s.token = S(r).token /\ s.seen = S(r).seen
        /\ s.claimed = S(r).claimed /\ s.choreography = S(r).choreography
    BY <1>0 DEF Session
  <2>4. Journaled(r, s)
    <3>1. S(r).cashu # PendingLock BY <2>1 DEF PendingLock
    <3> HIDE DEF s
    <3> QED BY <1>0, <2>1, <2>2, <2>3, <3>1 DEF Journaled, Underway, Expired
  <2> QED BY <1>12, <2>4, OneSessionJournaled DEF ReconcileWallet, LocalStep, Save
<1>13. ASSUME NEW r \in Role, NEW slot \in Slot, Observe(r, slot) PROVE Journal'
  <2> DEFINE learns == r = "taker" /\ slot = "quote" /\ mint[slot] = "claimed"
             s == [S(r) EXCEPT !.seen[slot] = Observed(slot), !.preimage = @ \/ learns]
  <2>1. /\ S(r).cashu.status # "prepared" /\ S(r).choreography # "absent"
        /\ mint[slot] # "refunded"
    BY <1>13, PlanIdle DEF Observe, Ready
  <2>2. /\ s.token = S(r).token /\ s.cashu = S(r).cashu
        /\ s.claimed = S(r).claimed /\ s.choreography = S(r).choreography
    BY <1>0 DEF Session
  <2>3. slot # OwnSlot(r) => s.seen[OwnSlot(r)] = S(r).seen[OwnSlot(r)]
    BY <1>0 DEF Session
  <2>4. Journaled(r, s)
    <3> HIDE DEF s
    <3> QED BY <1>0, <2>1, <2>2, <2>3 DEF Journaled, Underway, Expired
  <2> QED BY <1>13, <2>4, OneSessionJournaled DEF Observe, LocalStep, Save
<1>14. ASSUME NEW r \in Role, ExecuteCashu(r) PROVE Journal'
  <2> DEFINE q == CashuRequest(r)
  <2>1. /\ wire' \subseteq wire \cup {q} /\ UNCHANGED <<session, mint>>
        /\ Done(q) => wire' = wire
    BY <1>14 DEF ExecuteCashu
  <2>2. /\ S(r).cashu \in Cashu /\ S(r).cashu.status = "prepared" /\ S(r).cashu.reserved
    BY <1>0, <1>14, PlanCashu DEF ExecuteCashu, Ready, Session
  <2>3. S(r).cashu.kind = "lock" => S(r).cashu = PendingLock
    <3>1. S(r).cashu # NoCashu BY <2>2 DEF NoCashu
    <3>2. S(r).cashu \in [kind: Kind, status: {"prepared", "completed", "wallet_applied"},
                          reserved: BOOLEAN]
      BY <2>2, <3>1 DEF Cashu
    <3> QED BY <2>2, <3>2 DEF PendingLock
  <2>4. S(r).cashu.kind = "refund" /\ mint[OwnSlot(r)] = "refunded" => Done(q)
    BY DEF Done, CashuRequest, RequestSlot, KindSlot, Outcome
  <2>5. ASSUME NEW p \in Role PROVE Journaled(p, S(p))'
    <3>1. ASSUME NEW kind \in Kind, Sent(p, kind)', ~Sent(p, kind)
          PROVE  p = r /\ kind = S(r).cashu.kind /\ ~Done(q)
      BY <2>1, <3>1 DEF Sent, CashuRequest
    <3> QED BY <1>0, <2>1, <2>2, <2>3, <2>4, <3>1 DEF Journaled, Claimed, Underway, Expired, Kind
  <2> QED BY <2>5 DEF Journal
<1>15. ASSUME NEW r \in Role, ExecuteReturn(r) PROVE Journal'
  <2> DEFINE completed == [S(r) EXCEPT !.cashu.status = "completed"]
             locked == [completed EXCEPT !.token = @ \cup {OwnSlot(r)},
                                         !.seen[OwnSlot(r)] = "unspent"]
  <2>1. /\ S(r).cashu \in Cashu /\ S(r).cashu.status = "prepared"
        /\ S(r).choreography # "absent"
    BY <1>0, <1>15 DEF ExecuteReturn, TypeInv, WaitingIsPrepared, Session
  <2>2. /\ completed.token = S(r).token /\ completed.seen = S(r).seen
        /\ completed.claimed = S(r).claimed /\ completed.choreography = S(r).choreography
    BY <1>0 DEF Session
  <2>3. completed.cashu.kind = S(r).cashu.kind /\ completed.cashu.status = "completed"
    BY <1>0, <2>1 DEF Session, Cashu, NoCashu
  <2>4. /\ Done(CashuRequest(r)) /\ UNCHANGED <<wire, mint>>
    BY <1>15 DEF ExecuteReturn
  <2>5. CASE S(r).cashu.kind = "lock"
    <3>1. Save(r, locked) BY <1>15, <2>5 DEF ExecuteReturn, CashuRequest
    <3>2. /\ locked.token = S(r).token \cup {OwnSlot(r)}
          /\ locked.claimed = S(r).claimed /\ locked.choreography # "absent"
      BY <1>0, <2>1 DEF Session
    <3>3. locked.cashu.kind = "lock" /\ locked.cashu.status = "completed"
      BY <1>0, <2>3, <2>5 DEF Session
    <3>4. Journaled(r, locked)
      <4> HIDE DEF locked, completed
      <4> QED BY <1>0, <2>1, <2>5, <3>2, <3>3 DEF Journaled, Underway, Expired
    <3> QED BY <2>4, <3>1, <3>4, OneSessionJournaled DEF Save
  <2>6. CASE S(r).cashu.kind # "lock"
    <3>1. Save(r, completed) BY <1>15, <2>6 DEF ExecuteReturn, CashuRequest
    <3>2. S(r).cashu.kind = "refund" => mint[OwnSlot(r)] = "refunded"
      BY <2>4 DEF Done, CashuRequest, RequestSlot, KindSlot, Outcome
    <3>3. S(r).cashu # PendingLock BY <2>6 DEF PendingLock
    <3>4. Journaled(r, completed)
      <4> HIDE DEF completed
      <4> QED BY <1>0, <2>1, <2>2, <2>3, <2>6, <3>2, <3>3 DEF Journaled, Underway, Expired
    <3> QED BY <2>4, <3>1, <3>4, OneSessionJournaled DEF Save
  <2> QED BY <2>5, <2>6
<1>16. CASE \/ \E r \in Role : ExecuteError(r) \/ Crash(r)
            \/ RejectProposal \/ (\E q \in Request : LoseRequest(q)) \/ Tick \/ UNCHANGED vars
  <2>1. UNCHANGED <<session, mint>> /\ wire' \subseteq wire
    BY <1>16 DEF ExecuteError, Crash, RejectProposal, LoseRequest, Tick, vars
  <2>2. ASSUME NEW p \in Role PROVE Journaled(p, S(p))'
    BY <1>0, <2>1 DEF Journaled, Sent, Claimed, Underway, Expired
  <2> QED BY <2>2 DEF Journal
<1>17. ASSUME NEW r \in Role, StageOrder(r) PROVE Journal'
  <2>1. PICK action \in DOMAIN StagedOperation : LET
            operation == StagedOperation[action]
            published == order.operation = operation /\ order.published
        IN  /\ Checkpoint(r, [S(r) EXCEPT
                   !.publication = [operation |-> operation,
                                    status |-> IF published THEN "committed" ELSE "staged"],
                   !.reserve = @ \/ operation = "reserve",
                   !.fill = @ \/ operation = "fill"])
            /\ UNCHANGED <<waiting, wire, mint, relay, now>>
    BY <1>17 DEF StageOrder
  <2> DEFINE operation == StagedOperation[action]
             published == order.operation = operation /\ order.published
             s == [S(r) EXCEPT
                   !.publication = [operation |-> operation,
                                    status |-> IF published THEN "committed" ELSE "staged"],
                   !.reserve = @ \/ operation = "reserve",
                   !.fill = @ \/ operation = "fill"]
  <2>2. SameFunds(S(r), s) BY <1>0 DEF SameFunds, Session
  <2>3. session' = session \/ session' = [session EXCEPT ![r] = s]
    BY <2>1 DEF Checkpoint, Save
  <2> QED BY <1>1, <2>1, <2>2, <2>3
<1>18. ASSUME NEW r \in Role, PublishRelease(r) \/ AnnounceOrder(r) PROVE Journal'
  <2> DEFINE released == [Published(r) EXCEPT !.phase = "released"]
  <2>1. PICK s \in {released, Published(r)} :
            session' = session \/ session' = [session EXCEPT ![r] = s]
    BY <1>18 DEF PublishRelease, AnnounceOrder, Checkpoint, Save
  <2>2. SameFunds(S(r), s) BY <1>0 DEF Published, SameFunds, Session
  <2>3. UNCHANGED <<wire, mint>> BY <1>18 DEF PublishRelease, AnnounceOrder
  <2> QED BY <1>1, <2>1, <2>2, <2>3
<1>19. CASE MakerAccepts
  <2> DEFINE s == NewSession("awaiting_reserve_accept", TRUE)
  <2>1. S("maker").choreography = "absent" /\ "maker" \in Role BY <1>19 DEF MakerAccepts, Role
  <2>2. /\ s.token = {} /\ s.cashu = NoCashu /\ s.claimed = FALSE
    BY DEF NewSession
  <2>3. Journaled("maker", s)
    <3> HIDE DEF s
    <3> QED BY <1>0, <2>1, <2>2 DEF Journaled, Underway, Expired, NoCashu
  <2> QED BY <1>19, <2>1, <2>3, OneSessionJournaled DEF MakerAccepts
<1> QED
  BY <1>2, <1>3, <1>4, <1>5, <1>6, <1>7, <1>8, <1>9, <1>10, <1>11, <1>12, <1>13,
     <1>14, <1>15, <1>16, <1>17, <1>18, <1>19, MintJournaled
     DEF Next, SessionStep, MakerInboxStep

\* Whatever is lost and however often it is retried, what a mint did for a party
\* is in that party's session: the lock as a token or as an operation that can
\* still restore it, the claim and the refund with what allowed them.
THEOREM EffectsAreJournaled == Spec => []MintEffectsAreJournaled
<1>1. Journal => MintEffectsAreJournaled
  BY DEF Journal, Journaled, Expired, PendingLock, MintEffectsAreJournaled
<1> QED BY <1>1, TypeInit, TypeStep, JournalInit, JournalStep, PTL DEF Spec

-----------------------------------------------------------------------------
(* The trade implements the atomic swap *)

\* A session that reports the trade as filled has nothing left to say or to do.
Finished(s) ==
    s.phase = "filled" =>
        /\ s.choreography = "settled" /\ BothLegsSpent(s)
        /\ s.outbox = "none" /\ s.incoming = "none"
        /\ s.cashu.status \notin {"prepared", "completed"}

FinishInv == \A r \in Role : Finished(session[r])

\* A settlement is completed only when every layer before it passes.
LEMMA PlanComplete ==
    ASSUME NEW r, Plan(r) = "complete_settlement"
    PROVE  /\ session[r].outbox = "none" /\ session[r].incoming = "none"
           /\ session[r].cashu.status \notin {"prepared", "completed"}
<1>1. /\ CashuDue(r) = Pass /\ OutboxDue(r) = Pass /\ PreparedDue(r) = Pass
      /\ IncomingDue(r) = Pass
  BY LayerSteps DEF Plan, ??, Pass
<1>2. CashuDue(r) = Pass => session[r].cashu.status # "completed" BY DEF CashuDue, Pass
<1>3. OutboxDue(r) = Pass => session[r].outbox = "none" BY DEF OutboxDue, Pass
<1>4. PreparedDue(r) = Pass => session[r].cashu.status # "prepared" BY DEF PreparedDue, Pass
<1>5. IncomingDue(r) = Pass => session[r].incoming = "none" BY DEF IncomingDue, Pass
<1> QED BY <1>1, <1>2, <1>3, <1>4, <1>5

\* From then on only its inbox and a publication are planned: a refund of its own
\* leg would contradict what it reports.
LEMMA PlanFinished ==
    ASSUME NEW r \in Role, Backed(r, session[r]), Finished(session[r]),
           session[r].phase = "filled"
    PROVE  Plan(r) \in {"publish_order_projection", "stage_inbox_registration", "none"}
<1>1. /\ session[r].outbox = "none" /\ session[r].incoming = "none"
      /\ session[r].cashu.status \notin {"prepared", "completed"}
      /\ BothLegsSpent(session[r])
  BY DEF Finished
<1>2. mint[OwnSlot(r)] = "claimed"
  BY DEF Backed, BothClaimed, Claimed, OwnSlot, Slot
<1>3. ~(session[r].cashu.status = "wallet_applied" /\ session[r].cashu.kind = "refund")
  BY <1>2 DEF Backed
<1>4. CashuDue(r) = Pass BY <1>1, <1>3 DEF CashuDue
<1>5. OutboxDue(r) = Pass BY <1>1 DEF OutboxDue
<1>6. PreparedDue(r) = Pass BY <1>1 DEF PreparedDue
<1>7. IncomingDue(r) = Pass BY <1>1 DEF IncomingDue
<1>8. TerminalDue(r) = "none" BY <1>1 DEF TerminalDue
<1> QED BY <1>4, <1>5, <1>6, <1>7, <1>8, LayerSteps DEF Plan, ??, Pass

\* A step of one session that reports nothing new, and takes no report back.
LEMMA OneSessionFinished ==
    ASSUME TypeInv, FinishInv, NEW r \in Role, NEW s,
           session' = session \/ session' = [session EXCEPT ![r] = s],
           \/ session[r].phase # "filled" /\ s.phase # "filled"
           \/ s.phase = session[r].phase /\ Finished(s)
    PROVE  /\ FinishInv'
           /\ \A p \in Role : session'[p].phase = "filled" <=> session[p].phase = "filled"
<1> SUFFICES ASSUME NEW p \in Role
             PROVE  /\ Finished(session'[p])
                    /\ session'[p].phase = "filled" <=> session[p].phase = "filled"
  BY DEF FinishInv, Finished, BothLegsSpent, Spent
<1>1. session'[p] = session[p] \/ (p = r /\ session'[p] = s)
  BY DEF TypeInv, TypeOK
<1>2. CASE session'[p] = session[p] BY <1>2 DEF FinishInv
<1>3. CASE p = r /\ session'[p] = s BY <1>3 DEF Finished
<1> QED BY <1>1, <1>2, <1>3

\* What the swap sees of a step that leaves the mints and the clock alone.
LEMMA SwapSees ==
    ASSUME UNCHANGED <<mint, now>>,
           \A p \in Role : session'[p].phase = "filled" <=> session[p].phase = "filled",
           \/ order'.operation = order.operation
           \/ {order.operation, order'.operation} \subseteq {"create", "reserve"}
    PROVE  UNCHANGED Swap!vars
<1>1. {p \in Role : session'[p].phase = "filled"} = {p \in Role : session[p].phase = "filled"}
  OBVIOUS
<1>2. (IF order'.operation \in {"fill", "release"} THEN order'.operation ELSE "open")
      = (IF order.operation \in {"fill", "release"} THEN order.operation ELSE "open")
  OBVIOUS
<1> QED BY <1>1, <1>2 DEF Swap!vars

\* The mint's legs are the swap's, and what the mint accepts is its next step.
LEMMA MintSwaps ==
    ASSUME TypeInv, SafeInv, FinishInv, NEW q \in Request, MintProcess(q)
    PROVE  FinishInv' /\ [Swap!Next]_(Swap!vars)
<1>1. /\ UNCHANGED <<session, waiting, relay, order, now, faults>>
      /\ q \in wire /\ q.role \in Role /\ q.kind \in Kind
      /\ q = [role |-> q.role, kind |-> q.kind]
  BY DEF MintProcess, Request
<1>2. FinishInv' BY <1>1 DEF FinishInv, Finished, BothLegsSpent, Spent
<1>3. CASE mint' = mint
  BY <1>1, <1>2, <1>3, SwapSees
<1>4. CASE mint' # mint
  <2>1. /\ MintAccepts(q) /\ mint' = [mint EXCEPT ![RequestSlot(q)] = Outcome[q.kind]]
    BY <1>4 DEF MintProcess
  <2>2. mint \in [Slot -> LegState] BY DEF TypeInv, TypeOK
  <2>3. CASE q.role = "maker" /\ q.kind = "lock"
    <3>1. RequestSlot(q) = "base" BY <2>3 DEF RequestSlot, KindSlot, OwnSlot
    <3>2. mint["base"] = "unlocked" /\ mint'["base"] = "locked" /\ mint'["quote"] = mint["quote"]
      BY <2>1, <2>2, <2>3, <3>1 DEF MintAccepts, Outcome, Slot
    <3> QED BY <1>1, <1>2, <3>2 DEF Swap!Next, Swap!LockOffer
  <2>4. CASE q.role = "taker" /\ q.kind = "lock"
    <3>1. RequestSlot(q) = "quote" BY <2>4 DEF RequestSlot, KindSlot, OwnSlot
    <3>2. mint["quote"] = "unlocked" /\ mint'["quote"] = "locked" /\ mint'["base"] = mint["base"]
      BY <2>1, <2>2, <2>4, <3>1 DEF MintAccepts, Outcome, Slot
    <3>3. mint["base"] # "unlocked"
      BY <1>1, <2>4 DEF SafeInv, SentBacked, Backed, Role
    <3> QED BY <1>1, <1>2, <3>2, <3>3 DEF Swap!Next, Swap!LockPayment
  <2>5. CASE q.role = "maker" /\ q.kind = "claim"
    <3>1. RequestSlot(q) = "quote" BY <2>5 DEF RequestSlot, KindSlot, OwnSlot, OtherSlot
    <3>2. mint["quote"] = "locked" /\ mint'["quote"] = "claimed" /\ mint'["base"] = mint["base"]
      BY <2>1, <2>2, <2>5, <3>1 DEF MintAccepts, Outcome, Slot
    <3> QED BY <1>1, <1>2, <3>2 DEF Swap!Next, Swap!ClaimPayment
  <2>6. CASE q.role = "taker" /\ q.kind = "claim"
    <3>1. RequestSlot(q) = "base" BY <2>6 DEF RequestSlot, KindSlot, OwnSlot, OtherSlot
    <3>2. mint["base"] = "locked" /\ mint'["base"] = "claimed" /\ mint'["quote"] = mint["quote"]
      BY <2>1, <2>2, <2>6, <3>1 DEF MintAccepts, Outcome, Slot
    <3>3. mint["quote"] = "claimed" BY <1>1, <2>6 DEF SafeInv, SentBacked, Claimed
    <3> QED BY <1>1, <1>2, <3>2, <3>3 DEF Swap!Next, Swap!ClaimOffer
  <2>7. CASE q.role = "maker" /\ q.kind = "refund"
    <3>1. RequestSlot(q) = "base" BY <2>7 DEF RequestSlot, KindSlot, OwnSlot
    <3>2. /\ mint["base"] = "locked" /\ mint'["base"] = "refunded"
          /\ mint'["quote"] = mint["quote"] /\ now > LongLocktime
      BY <2>1, <2>2, <2>7, <3>1 DEF MintAccepts, Outcome, Slot, Locktime
    <3> QED BY <1>1, <1>2, <3>2 DEF Swap!Next, Swap!RefundOffer
  <2>8. CASE q.role = "taker" /\ q.kind = "refund"
    <3>1. RequestSlot(q) = "quote" BY <2>8 DEF RequestSlot, KindSlot, OwnSlot
    <3>2. /\ mint["quote"] = "locked" /\ mint'["quote"] = "refunded"
          /\ mint'["base"] = mint["base"] /\ now > ShortLocktime
      BY <2>1, <2>2, <2>8, <3>1 DEF MintAccepts, Outcome, Slot, Locktime
    <3> QED BY <1>1, <1>2, <3>2 DEF Swap!Next, Swap!RefundPayment
  <2> QED BY <1>1, <2>3, <2>4, <2>5, <2>6, <2>7, <2>8 DEF Role, Kind
<1> QED BY <1>2, <1>3, <1>4

\* Every step of the trade is a step of the swap, or none.
LEMMA SwapStep ==
    TypeInv /\ SafeInv /\ FinishInv /\ [Next]_vars => FinishInv' /\ [Swap!Next]_(Swap!vars)
<1> SUFFICES ASSUME TypeInv, SafeInv, FinishInv, [Next]_vars
             PROVE  FinishInv' /\ [Swap!Next]_(Swap!vars)
  OBVIOUS
<1> DEFINE S(r) == session[r]
           Goal == FinishInv' /\ [Swap!Next]_(Swap!vars)
<1>0. ASSUME NEW r \in Role
      PROVE  S(r) \in Session /\ Backed(r, S(r)) /\ Finished(S(r))
  BY DEF TypeInv, TypeOK, SafeInv, FinishInv
<1>1. ASSUME NEW r \in Role, NEW s, UNCHANGED <<mint, now, order>>,
             session' = session \/ session' = [session EXCEPT ![r] = s],
             \/ S(r).phase # "filled" /\ s.phase # "filled"
             \/ s.phase = S(r).phase /\ Finished(s)
      PROVE  Goal
  BY <1>1, OneSessionFinished, SwapSees
<1>2. ASSUME NEW r \in Role, NEW action, Ready(r, action),
             action \notin {"publish_order_projection", "stage_inbox_registration", "none"}
      PROVE  S(r).phase # "filled"
  BY <1>0, <1>2, PlanFinished DEF Ready
<1>3. ASSUME NEW r \in Role, StageInbox(r) PROVE Goal
  <2> DEFINE s == [S(r) EXCEPT !.inbox = "staged"]
  <2>1. s.phase = S(r).phase /\ Finished(s)
    BY <1>0 DEF Finished, BothLegsSpent, Spent, Session
  <2> QED BY <1>1, <1>3, <2>1 DEF StageInbox, LocalStep, Save
<1>4. ASSUME NEW r \in Role, EnterRecovery(r) PROVE Goal
  <2>1. PICK choreography \in {"refunding", "failed"},
             phase \in {"waiting_base_refund", "waiting_quote_refund", "frozen"} :
            LocalStep(r, [S(r) EXCEPT !.choreography = choreography, !.phase = phase])
    BY <1>4, RecoveryMoves
  <2> DEFINE s == [S(r) EXCEPT !.choreography = choreography, !.phase = phase]
  <2>2. S(r).phase # "filled" BY <1>2, <1>4 DEF EnterRecovery
  <2>3. s.phase # "filled" BY <1>0 DEF Session
  <2> QED BY <1>1, <2>1, <2>2, <2>3 DEF LocalStep, Save
<1>5. ASSUME NEW r \in Role, CompleteSettlement(r) PROVE Goal
  <2> DEFINE s == [S(r) EXCEPT !.choreography = "settled", !.phase = "filled"]
  <2>1. /\ session' = [session EXCEPT ![r] = s] /\ UNCHANGED <<mint, order, now>>
        /\ BothLegsSpent(S(r)) /\ Plan(r) = "complete_settlement"
    BY <1>5 DEF CompleteSettlement, Ready, LocalStep, Save
  <2>2. BothClaimed BY <1>0, <2>1 DEF BothLegsSpent, BothClaimed, Backed
  <2>3. Finished(s) /\ s.phase = "filled"
    BY <1>0, <2>1, PlanComplete DEF Finished, BothLegsSpent, Spent, Session
  <2>4. \A p \in Role : session'[p] = IF p = r THEN s ELSE session[p]
    BY <2>1 DEF TypeInv, TypeOK
  <2>5. FinishInv'
    <3>1. \A p \in Role : Finished(session'[p]) BY <1>0, <2>3, <2>4
    <3> QED BY <3>1 DEF FinishInv, Finished, BothLegsSpent, Spent
  <2>6. {p \in Role : session'[p].phase = "filled"}
        = {p \in Role : session[p].phase = "filled"} \cup {r}
    <3> HIDE DEF s
    <3> QED BY <2>3, <2>4
  <2>7. Swap!Report(r)
    BY <2>1, <2>2, <2>6 DEF Swap!Report, Swap!Settled, BothClaimed, Claimed, Slot
  <2> QED BY <2>5, <2>7 DEF Swap!Next
<1>6. ASSUME NEW r \in Role, ClearCashuOperation(r) PROVE Goal
  <2> DEFINE s == [S(r) EXCEPT !.cashu = NoCashu]
  <2>1. S(r).phase # "filled" BY <1>2, <1>6 DEF ClearCashuOperation
  <2>2. s.phase # "filled" BY <1>0, <2>1 DEF Session
  <2> QED BY <1>1, <1>6, <2>1, <2>2 DEF ClearCashuOperation, LocalStep, Save
<1>7. ASSUME NEW r \in Role, StageOutgoing(r) PROVE Goal
  <2>1. PICK action \in DOMAIN StagedMessage :
            /\ Ready(r, action)
            /\ LocalStep(r, [S(r) EXCEPT !.outbox = StagedMessage[action]])
    BY <1>7 DEF StageOutgoing
  <2> DEFINE s == [S(r) EXCEPT !.outbox = StagedMessage[action]]
  <2>2. S(r).phase # "filled" BY <1>2, <2>1 DEF StagedMessage
  <2>3. s.phase # "filled" BY <1>0, <2>2 DEF Session
  <2> QED BY <1>1, <2>1, <2>2, <2>3 DEF LocalStep, Save
<1>8. ASSUME NEW r \in Role, DeliverOutbox(r) PROVE Goal
  <2> DEFINE message == S(r).outbox
             s == [Advanced(S(r), message) EXCEPT !.outbox = "none"]
  <2>1. message \in Message BY <1>0, <1>8, PlanCashu DEF DeliverOutbox, Ready, Session
  <2>2. RootPhase[NextChoreography[message]] # "filled"
    BY <2>1 DEF Message, NextChoreography, RootPhase
  <2>3. S(r).phase # "filled" BY <1>2, <1>8 DEF DeliverOutbox
  <2>4. s.phase # "filled" BY <1>0, <2>2 DEF Advanced, Session
  <2> QED BY <1>1, <1>8, <2>3, <2>4 DEF DeliverOutbox, Checkpoint, Save
<1>9. ASSUME NEW r \in Role, PollInbox(r) PROVE Goal
  <2>1. PICK message \in relay \cap Expected(r) :
            LocalStep(r, [S(r) EXCEPT !.incoming = message])
    BY <1>9 DEF PollInbox
  <2> DEFINE s == [S(r) EXCEPT !.incoming = message]
  <2>2. S(r).phase # "filled" BY <1>2, <1>9 DEF PollInbox
  <2>3. s.phase # "filled" BY <1>0, <2>2 DEF Session
  <2> QED BY <1>1, <2>1, <2>2, <2>3 DEF LocalStep, Save
<1>10. ASSUME NEW r \in Role, ValidateIncoming(r) PROVE Goal
  <2> DEFINE message == S(r).incoming
             slot == OtherSlot(OwnSlot(r))
             accepted == [Advanced(S(r), message) EXCEPT !.incoming = "none"]
             stored == [accepted EXCEPT !.token = @ \cup {slot}, !.seen[slot] = "unspent",
                                        !.reserve = @ \/ message = "reserve_accept"]
  <2>1. message \in Message
    BY <1>0, <1>10, PlanCashu DEF ValidateIncoming, Ready, Session
  <2>2. RootPhase[NextChoreography[message]] # "filled"
    BY <2>1 DEF Message, NextChoreography, RootPhase
  <2>3. S(r).phase # "filled" BY <1>2, <1>10 DEF ValidateIncoming
  <2>4. accepted.phase # "filled" /\ stored.phase # "filled"
    BY <1>0, <2>2 DEF Advanced, Session
  <2>5. PICK s \in {accepted, stored} : LocalStep(r, s) BY <1>10 DEF ValidateIncoming
  <2> QED BY <1>1, <2>3, <2>4, <2>5 DEF LocalStep, Save
<1>11. ASSUME NEW r \in Role, PrepareCashu(r) PROVE Goal
  <2>1. PICK action \in DOMAIN PlannedKind :
            /\ Ready(r, action)
            /\ LocalStep(r, [S(r) EXCEPT
                   !.cashu = [kind |-> PlannedKind[action], status |-> "prepared",
                              reserved |-> FALSE],
                   !.claimed = @ \/ PlannedKind[action] = "claim"])
    BY <1>11 DEF PrepareCashu
  <2> DEFINE s == [S(r) EXCEPT
                   !.cashu = [kind |-> PlannedKind[action], status |-> "prepared",
                              reserved |-> FALSE],
                   !.claimed = @ \/ PlannedKind[action] = "claim"]
  <2>2. S(r).phase # "filled" BY <1>2, <2>1 DEF PlannedKind
  <2>3. s.phase # "filled" BY <1>0, <2>2 DEF Session
  <2> QED BY <1>1, <2>1, <2>2, <2>3 DEF LocalStep, Save
<1>12. ASSUME NEW r \in Role, ReserveCashuInputs(r) PROVE Goal
  <2> DEFINE s == [S(r) EXCEPT !.cashu.reserved = TRUE]
  <2>1. S(r).phase # "filled" BY <1>2, <1>12 DEF ReserveCashuInputs
  <2>2. s.phase # "filled" BY <1>0, <2>1 DEF Session
  <2> QED BY <1>1, <1>12, <2>1, <2>2 DEF ReserveCashuInputs, LocalStep, Save
<1>13. ASSUME NEW r \in Role, ReconcileWallet(r) PROVE Goal
  <2> DEFINE s == [S(r) EXCEPT !.cashu.status = "wallet_applied"]
  <2>1. S(r).phase # "filled" BY <1>2, <1>13 DEF ReconcileWallet
  <2>2. s.phase # "filled" BY <1>0, <2>1 DEF Session
  <2> QED BY <1>1, <1>13, <2>1, <2>2 DEF ReconcileWallet, LocalStep, Save
<1>14. ASSUME NEW r \in Role, NEW slot \in Slot, Observe(r, slot) PROVE Goal
  <2> DEFINE learns == r = "taker" /\ slot = "quote" /\ mint[slot] = "claimed"
             s == [S(r) EXCEPT !.seen[slot] = Observed(slot), !.preimage = @ \/ learns]
  <2>1. S(r).phase # "filled" BY <1>2, <1>14 DEF Observe
  <2>2. s.phase # "filled" BY <1>0, <2>1 DEF Session
  <2> QED BY <1>1, <1>14, <2>1, <2>2 DEF Observe, LocalStep, Save
<1>15. ASSUME NEW r \in Role, ExecuteReturn(r) PROVE Goal
  <2> DEFINE completed == [S(r) EXCEPT !.cashu.status = "completed"]
             locked == [completed EXCEPT !.token = @ \cup {OwnSlot(r)},
                                         !.seen[OwnSlot(r)] = "unspent"]
  <2>1. PICK s \in {completed, locked} : Save(r, s) BY <1>15 DEF ExecuteReturn
  <2>2. S(r).phase # "filled"
    BY <1>0, <1>15 DEF ExecuteReturn, TypeInv, WaitingIsPrepared, Finished
  <2>3. completed.phase # "filled" /\ locked.phase # "filled"
    BY <1>0, <2>2 DEF Session
  <2>4. UNCHANGED <<mint, now, order>> BY <1>15 DEF ExecuteReturn
  <2> QED BY <1>1, <2>1, <2>2, <2>3, <2>4 DEF Save
<1>16. ASSUME NEW r \in Role, StageOrder(r) PROVE Goal
  <2>1. PICK action \in DOMAIN StagedOperation : LET
            operation == StagedOperation[action]
            published == order.operation = operation /\ order.published
        IN  /\ Ready(r, action)
            /\ order.operation \in Succeeds(operation)
            /\ order' = [operation |-> operation, published |-> published]
            /\ Checkpoint(r, [S(r) EXCEPT
                   !.publication = [operation |-> operation,
                                    status |-> IF published THEN "committed" ELSE "staged"],
                   !.reserve = @ \/ operation = "reserve",
                   !.fill = @ \/ operation = "fill"])
            /\ UNCHANGED <<waiting, wire, mint, relay, now>>
    BY <1>16 DEF StageOrder
  <2> DEFINE operation == StagedOperation[action]
             published == order.operation = operation /\ order.published
             s == [S(r) EXCEPT
                   !.publication = [operation |-> operation,
                                    status |-> IF published THEN "committed" ELSE "staged"],
                   !.reserve = @ \/ operation = "reserve",
                   !.fill = @ \/ operation = "fill"]
  <2>2. S(r).phase # "filled" BY <1>2, <2>1 DEF StagedOperation
  <2>3. s.phase # "filled" BY <1>0, <2>2 DEF Session
  <2>4. session' = session \/ session' = [session EXCEPT ![r] = s]
    BY <2>1 DEF Checkpoint, Save
  <2>5. /\ FinishInv'
        /\ \A p \in Role : session'[p].phase = "filled" <=> session[p].phase = "filled"
    <3> HIDE DEF s
    <3> QED BY <2>2, <2>3, <2>4, OneSessionFinished
  <2>6. order'.operation = operation /\ order.operation \in Succeeds(operation)
        /\ UNCHANGED <<mint, now>>
    BY <2>1
  <2>7. CASE order.operation = operation \/ operation = "reserve"
    BY <2>5, <2>6, <2>7, SwapSees DEF Succeeds
  <2>8. CASE order.operation # operation /\ operation # "reserve"
    <3>1. /\ order.operation = "reserve"
          /\ \/ operation = "fill" /\ action = "stage_order_fill"
             \/ operation = "release" /\ action = "stage_order_release"
      BY <2>6, <2>8 DEF Succeeds, StagedOperation
    <3>2. operation = "fill" => BothClaimed
      BY <1>0, <2>1, <3>1, PlanSettled DEF Ready, BothClaimed, Backed, Slot
    <3>3. operation = "release" => mint["base"] = "refunded"
      BY <1>0, <2>1, <3>1, PlanRelease DEF Ready, Backed, OwnSlot
    <3>4. {p \in Role : session'[p].phase = "filled"} = {p \in Role : session[p].phase = "filled"}
      BY <2>5
    <3>5. Swap!Close
      <4> HIDE DEF operation
      <4> QED BY <2>6, <3>1, <3>2, <3>3, <3>4
              DEF Swap!Close, Swap!Settled, BothClaimed, Claimed, Slot
    <3> QED BY <2>5, <3>5 DEF Swap!Next
  <2> QED BY <2>7, <2>8
<1>17. ASSUME NEW r \in Role, PublishRelease(r) \/ AnnounceOrder(r) PROVE Goal
  <2> DEFINE released == [Published(r) EXCEPT !.phase = "released"]
  <2>1. order'.operation = order.operation /\ UNCHANGED <<mint, now>>
    BY <1>17 DEF PublishRelease, AnnounceOrder, TypeInv, TypeOK
  <2>2. CASE session' = session
    <3>1. FinishInv' BY <2>2 DEF FinishInv, Finished, BothLegsSpent, Spent
    <3> QED BY <2>1, <2>2, <3>1, SwapSees
  <2>3. CASE session' # session /\ AnnounceOrder(r)
    <3>1. session' = [session EXCEPT ![r] = Published(r)]
      BY <2>3 DEF AnnounceOrder, Checkpoint, Save
    <3>2. Published(r).phase = S(r).phase /\ Finished(Published(r))
      BY <1>0 DEF Published, Finished, BothLegsSpent, Spent, Session
    <3> QED BY <2>1, <3>1, <3>2, OneSessionFinished, SwapSees
  <2>4. CASE session' # session /\ PublishRelease(r)
    <3>1. /\ session' = [session EXCEPT ![r] = released]
          /\ PhaseAllowed(S(r).phase, released.phase)
      BY <2>4 DEF PublishRelease, Checkpoint, Save
    <3>2. released.phase = "released" BY <1>0 DEF Published, Session
    <3>3. S(r).phase # "filled"
      BY <3>1, <3>2 DEF PhaseAllowed, HappyPathPhases
    <3> QED BY <2>1, <3>1, <3>2, <3>3, OneSessionFinished, SwapSees
  <2> QED BY <1>17, <2>2, <2>3, <2>4
<1>18. CASE MakerAccepts
  <2> DEFINE s == NewSession("awaiting_reserve_accept", TRUE)
  <2>1. "maker" \in Role /\ S("maker").choreography = "absent"
    BY <1>18 DEF MakerAccepts, Role
  <2>2. S("maker").phase # "filled" BY <1>0, <2>1 DEF Finished
  <2>3. s.phase # "filled" BY DEF NewSession
  <2> QED BY <1>1, <1>18, <2>1, <2>2, <2>3 DEF MakerAccepts
<1>19. CASE \/ \E r \in Role : ExecuteCashu(r) \/ ExecuteError(r) \/ Crash(r)
            \/ RejectProposal \/ (\E q \in Request : LoseRequest(q)) \/ UNCHANGED vars
  <2>1. UNCHANGED <<session, mint, order, now>>
    BY <1>19 DEF ExecuteCashu, ExecuteError, Crash, RejectProposal, LoseRequest, vars
  <2>2. FinishInv' BY <2>1 DEF FinishInv, Finished, BothLegsSpent, Spent
  <2> QED BY <2>1, <2>2, SwapSees
<1>20. CASE Tick
  <2>1. UNCHANGED <<session, mint, order>> /\ now' = now + 1 BY <1>20 DEF Tick
  <2>2. FinishInv' BY <2>1 DEF FinishInv, Finished, BothLegsSpent, Spent
  <2>3. Swap!Elapse BY <2>1 DEF Swap!Elapse
  <2> QED BY <2>2, <2>3 DEF Swap!Next
<1> QED
  BY <1>3, <1>4, <1>5, <1>6, <1>7, <1>8, <1>9, <1>10, <1>11, <1>12, <1>13, <1>14, <1>15,
     <1>16, <1>17, <1>18, <1>19, <1>20, MintSwaps
     DEF Next, SessionStep, MakerInboxStep

\* A trade begins where the swap does.
LEMMA SwapInit == Init => FinishInv /\ Swap!Init
<1> SUFFICES ASSUME Init PROVE FinishInv /\ Swap!Init OBVIOUS
<1>1. \A r \in Role : session[r].phase = "negotiating" BY DEF Init, NewSession
<1>2. FinishInv BY <1>1 DEF FinishInv, Finished
<1>3. /\ mint["base"] = "unlocked" /\ mint["quote"] = "unlocked"
      /\ order.operation = "create" /\ now = 0
  BY DEF Init, Slot
<1> QED BY <1>1, <1>2, <1>3 DEF Swap!Init

\* The trade implements the swap of AtomicSwap: whatever the sessions, their
\* messages, their restarts and lost answers do, the legs move, the parties
\* report and the order closes only as the abstract swap allows.
THEOREM SwapImplemented == Spec => ImplementsAtomicSwap
<1>1. FinishInv /\ TypeInv /\ SafeInv /\ [Next]_vars => FinishInv' /\ [Swap!Next]_(Swap!vars)
  BY SwapStep
<1> QED BY <1>1, SwapInit, Safety, PTL DEF Spec, ImplementsAtomicSwap, Swap!Spec

-----------------------------------------------------------------------------
(***************************************************************************)
(* The assumption about deadlines, from the plans the code makes.          *)
(***************************************************************************)

Terms == INSTANCE TradeTerms

\* PlanAssumption's order, of the plan a session holds.
InOrder(plan) ==
    /\ plan.makerClaimCutoff < plan.shortLocktime
    /\ plan.shortLocktime + Terms!Guard < plan.takerClaimCutoff
    /\ plan.takerClaimCutoff < plan.longLocktime
    /\ plan.longLocktime + Terms!Guard < plan.reservationExpiresAt

\* Where a mint's clock differs from the local one by the skew that is tolerated, what
\* is claimed before a cutoff reaches the mint before the locktime, and what is refunded
\* after the guard reaches it after the locktime: one clock stands for the three.
SkewIsCovered(plan) ==
    \A local, mintTime \in Nat : Terms!Agree(local, mintTime) =>
        /\ local < plan.makerClaimCutoff => mintTime < plan.shortLocktime
        /\ local < plan.takerClaimCutoff => mintTime < plan.longLocktime
        /\ local > plan.shortLocktime + Terms!Guard => mintTime > plan.shortLocktime
        /\ local > plan.longLocktime + Terms!Guard => mintTime > plan.longLocktime

\* A profile with the code's margins is in order, whatever its anchor.
LEMMA ProfileInOrder ==
    ASSUME NEW plan,
           plan.shortLocktime \in Nat, plan.longLocktime \in Nat,
           plan.reservationExpiresAt \in Nat,
           plan.makerClaimCutoff = plan.shortLocktime - Terms!ClaimMargin,
           plan.takerClaimCutoff = plan.longLocktime - Terms!ClaimMargin,
           plan.longLocktime - plan.shortLocktime \in Terms!Gaps,
           plan.reservationExpiresAt >= plan.longLocktime + 600
    PROVE  InOrder(plan) /\ SkewIsCovered(plan)
<1>1. plan.longLocktime >= plan.shortLocktime + 600
  BY DEF Terms!Gaps
<1>2. InOrder(plan)
  BY <1>1 DEF InOrder, Terms!Guard, Terms!ClaimMargin
<1>3. ASSUME NEW local \in Nat, NEW mintTime \in Nat, Terms!Agree(local, mintTime)
      PROVE  mintTime - local \in Int /\ mintTime <= local + 30 /\ mintTime >= local - 30
  BY <1>3 DEF Terms!Agree, Terms!Skew
<1>4. SkewIsCovered(plan)
  BY <1>3 DEF SkewIsCovered, Terms!Guard, Terms!ClaimMargin
<1> QED BY <1>2, <1>4

\* What a maker plans is in order, covers the clocks' skew, and ends before its order
\* does: the assumption the settlement is proved under holds of every plan that
\* createSettlementPlan returns.
THEOREM CreatedPlansAreInOrder ==
    ASSUME NEW clocks \in Terms!Clocks, NEW orderExpiresAt \in Nat,
           Terms!MayPlan(clocks, orderExpiresAt)
    PROVE  LET plan == Terms!PlanFrom(Terms!Anchor(clocks))
           IN  /\ InOrder(plan) /\ SkewIsCovered(plan)
               /\ plan.reservationExpiresAt <= orderExpiresAt
<1> DEFINE anchor == Terms!Anchor(clocks)
           plan == Terms!PlanFrom(anchor)
<1>1. anchor \in Nat
  BY DEF Terms!Anchor, Terms!Later, Terms!Clocks
<1>2. plan.reservationExpiresAt <= orderExpiresAt
  BY DEF Terms!MayPlan, Terms!PlanFrom
<1> HIDE DEF anchor
<1>3. /\ plan.shortLocktime = anchor + 600 /\ plan.longLocktime = anchor + 1200
      /\ plan.reservationExpiresAt = anchor + 1800
      /\ plan.makerClaimCutoff = anchor + 480 /\ plan.takerClaimCutoff = anchor + 1080
  BY <1>1 DEF Terms!PlanFrom, Terms!ShortLock, Terms!LongLock, Terms!Reservation,
              Terms!ClaimMargin
<1> HIDE DEF plan
<1>4. /\ plan.shortLocktime \in Nat /\ plan.longLocktime \in Nat
      /\ plan.reservationExpiresAt \in Nat
      /\ plan.makerClaimCutoff = plan.shortLocktime - Terms!ClaimMargin
      /\ plan.takerClaimCutoff = plan.longLocktime - Terms!ClaimMargin
      /\ plan.longLocktime - plan.shortLocktime \in Terms!Gaps
      /\ plan.reservationExpiresAt >= plan.longLocktime + 600
  BY <1>1, <1>3 DEF Terms!Gaps, Terms!ClaimMargin
<1>5. InOrder(plan) /\ SkewIsCovered(plan)
  BY <1>4, ProfileInOrder
<1> QED BY <1>2, <1>5 DEF plan, anchor

\* What a taker adopts from an acceptance it found valid is in order too, whichever of
\* the two profiles the maker has, and its store takes it unless it begins before time.
THEOREM AdoptedPlansAreInOrder ==
    ASSUME NEW body \in Terms!Body, Terms!ValidAcceptance(body)
    PROVE  LET plan == Terms!Adopted(body)
           IN  /\ InOrder(plan) /\ SkewIsCovered(plan) /\ Terms!Lockable(plan)
               /\ plan.anchor \in Nat => Terms!Storable(plan)
<1> DEFINE plan == Terms!Adopted(body)
<1>1. /\ plan.shortLocktime = body.short_locktime /\ plan.longLocktime = body.long_locktime
      /\ plan.makerClaimCutoff = body.maker_claim_cutoff
      /\ plan.takerClaimCutoff = body.taker_claim_cutoff
      /\ plan.reservationExpiresAt = body.reservation_expires_at
  BY DEF Terms!Adopted
<1> HIDE DEF plan
<1>2. /\ plan.shortLocktime \in Nat /\ plan.longLocktime \in Nat
      /\ plan.reservationExpiresAt \in Nat
      /\ plan.makerClaimCutoff = plan.shortLocktime - Terms!ClaimMargin
      /\ plan.takerClaimCutoff = plan.longLocktime - Terms!ClaimMargin
      /\ plan.longLocktime - plan.shortLocktime \in Terms!Gaps
      /\ plan.reservationExpiresAt >= plan.longLocktime + 600
  BY <1>1 DEF Terms!Body, Terms!ValidAcceptance
<1>3. InOrder(plan) /\ SkewIsCovered(plan)
  BY <1>2, ProfileInOrder
<1>4. Terms!Lockable(plan)
  BY <1>2 DEF Terms!Lockable, Terms!Gaps
<1>5. plan.anchor \in Nat => Terms!Storable(plan)
  <2>1. plan.makerClaimCutoff \in Nat /\ plan.takerClaimCutoff \in Nat
    BY <1>1 DEF Terms!Body
  <2> QED BY <1>2, <2>1 DEF Terms!Storable
<1> QED BY <1>3, <1>4, <1>5 DEF plan

\* The taker ends with the maker's plan: the acceptance of a plan the maker made is
\* valid, and the anchor worked out from it is the one the plan was made from.
THEOREM SidesShareThePlan ==
    ASSUME NEW clocks \in Terms!Clocks, NEW orderExpiresAt \in Nat,
           Terms!MayPlan(clocks, orderExpiresAt)
    PROVE  LET plan == Terms!PlanFrom(Terms!Anchor(clocks))
               body == Terms!Acceptance(plan)
           IN  /\ body \in Terms!Body /\ Terms!ValidAcceptance(body)
               /\ Terms!Adopted(body) = plan
               /\ Terms!Storable(plan)
<1> DEFINE anchor == Terms!Anchor(clocks)
           plan == Terms!PlanFrom(anchor)
           body == Terms!Acceptance(plan)
<1>1. anchor \in Nat
  BY DEF Terms!Anchor, Terms!Later, Terms!Clocks
<1> HIDE DEF anchor
<1>2. plan = [anchor |-> anchor, shortLocktime |-> anchor + 600,
              makerClaimCutoff |-> anchor + 480, longLocktime |-> anchor + 1200,
              takerClaimCutoff |-> anchor + 1080, reservationExpiresAt |-> anchor + 1800]
  BY <1>1 DEF Terms!PlanFrom, Terms!ShortLock, Terms!LongLock, Terms!Reservation,
              Terms!ClaimMargin
<1> HIDE DEF plan
<1>3. body = [short_locktime |-> anchor + 600, maker_claim_cutoff |-> anchor + 480,
              long_locktime |-> anchor + 1200, taker_claim_cutoff |-> anchor + 1080,
              reservation_expires_at |-> anchor + 1800]
  BY <1>2 DEF Terms!Acceptance
<1> HIDE DEF body
<1>4. body \in Terms!Body
  BY <1>1, <1>3 DEF Terms!Body
<1>5. Terms!ValidAcceptance(body)
  BY <1>1, <1>3 DEF Terms!ValidAcceptance, Terms!ClaimMargin, Terms!Gaps
<1>6. Terms!Adopted(body) = plan
  <2>1. (anchor + 1200) - (anchor + 600) # 3 * 86400 /\ (anchor + 600) - 600 = anchor
    BY <1>1
  <2> QED BY <1>1, <1>2, <1>3, <2>1 DEF Terms!Adopted
<1>7. Terms!Storable(plan)
  BY <1>1, <1>2 DEF Terms!Storable, Terms!ClaimMargin, Terms!Gaps
<1> QED BY <1>4, <1>5, <1>6, <1>7 DEF body, plan, anchor

=============================================================================
