--------------------------- MODULE TradeCoordinator ---------------------------
(***************************************************************************)
(* How the pages of one profile advance one maker's trade session          *)
(* (trade/coordinator.ts).  A page plans a step from the stored session,   *)
(* performs its effect while others may write, and merges the result into  *)
(* what is stored by then.  Beside it every page announces the session's   *)
(* inbox and its reserve or fill in loops of their own, which save nothing *)
(* but receipts.                                                           *)
(*                                                                         *)
(* Two locks are shared by the pages: one is held for a whole step of the  *)
(* settlement, one for each reading-and-saving of the session; the latter  *)
(* is the atomicity of the actions below.  The settlement's own steps are  *)
(* a position here (TradeSettlement has them); what is modelled is who     *)
(* plans, performs and saves them.  Direct routing only.                   *)
(***************************************************************************)
EXTENDS Naturals

CONSTANTS
    Pages,       \* open pages of the profile
    MaxFaults    \* bound: failed calls and closed pages

ASSUME FaultAssumption == MaxFaults \in Nat

VARIABLES
    session,     \* the stored session
    outbox,      \* the entry of the order's outbox
    public,      \* the artifacts relays have acknowledged
    step,        \* [Pages -> Step], the step of the settlement a page performs
    loop,        \* [Pages -> [Announced -> ...]], where each announcement stands
    late,        \* the offer's deadline passed
    performed,   \* history: the effects that were performed
    repeated,    \* history: how many were performed again
    faults

history == <<performed, repeated>>
vars == <<session, outbox, public, step, loop, late, history, faults>>

-----------------------------------------------------------------------------
(* The stored session *)

Progress == {"proposed", "reserved", "locked", "paid", "filling", "filled",
             "refunded", "released", "closed", "cleared", "frozen"}

Operation == {"reserve", "fill", "release"}
Status == {"staged", "acknowledged", "committed"}
NoPublication == [operation |-> "none", status |-> "staged"]
Publication == {NoPublication} \cup
               [operation : Operation, status : Status]

Session == [progress : Progress, inbox : {"unregistered", "staged", "registered"},
            publication : Publication]

NewSession == [progress |-> "proposed", inbox |-> "unregistered",
               publication |-> NoPublication]

\* Mutant: a release is announced like a fill.
AnnouncesRelease == {"inbox", "reserve", "fill", "release"}

\* A release is published by the settlement itself.
Announced == {"inbox", "reserve", "fill"}

\* Mutant: nothing is announced for a settlement that is complete.
PendingWhileOpen(s, a) ==
    /\ s.progress # "filled"
    /\ IF a = "inbox" THEN s.inbox = "staged"
       ELSE s.publication.operation = a /\ s.publication.status # "committed"

\* What startAnnouncements and the loops look at.
Pending(s, a) ==
    IF a = "inbox" THEN s.inbox = "staged"
    ELSE s.publication.operation = a /\ s.publication.status # "committed"

\* settlementSnapshot: the session without its receipts.
WithoutReceipts(s) ==
    [s EXCEPT !.inbox = IF @ = "registered" THEN "staged" ELSE @,
              !.publication.status = "staged"]

-----------------------------------------------------------------------------
(* nextCoordinatorAction, as far as receipts and publications decide it. *)

Pass == "pass"
a ?? b == IF a = Pass THEN b ELSE a

\* A refund that reopens the order is kept until the release is published.
CashuDue(s) ==
    IF s.progress \notin {"refunded", "released"} THEN Pass
    ELSE IF s.publication.operation # "release" THEN "stage_order_release"
    ELSE IF s.publication.status = "committed" THEN "clear_cashu_operation"
    ELSE Pass

\* Mutant: every publication is the settlement's own to publish.
PublishesAll(s) ==
    IF s.publication = NoPublication \/ s.publication.status = "committed" THEN Pass
    ELSE IF s.publication.status = "staged" THEN "publish_order_projection"
    ELSE "commit_order_publication"

PublicationDue(s) ==
    IF s.publication.operation # "release" \/ s.publication.status = "committed" THEN Pass
    ELSE IF s.publication.status = "staged" THEN "publish_order_projection"
    ELSE "commit_order_publication"

InboxDue(s) == IF s.inbox = "unregistered" THEN "stage_inbox_registration" ELSE Pass

SettlementDue(s, isLate) ==
    CASE s.progress = "proposed" -> IF isLate THEN "enter_recovery" ELSE "stage_order_reserve"
      [] s.progress = "reserved" -> IF isLate THEN "enter_recovery" ELSE "lock"
      [] s.progress = "locked"   -> IF isLate THEN "refund" ELSE "settle"
      [] s.progress = "paid"     -> "stage_order_fill"
      [] s.progress = "filling"  -> "complete_settlement"
      [] s.progress = "cleared"  -> "prepare_refund"
      [] OTHER                   -> "none"

Plan(s, isLate) ==
    CashuDue(s) ?? PublicationDue(s) ?? InboxDue(s) ?? SettlementDue(s, isLate)

Local == {"stage_inbox_registration", "enter_recovery", "complete_settlement",
          "clear_cashu_operation"}
StagedBy == [stage_order_reserve |-> "reserve", stage_order_fill |-> "fill",
             stage_order_release |-> "release"]
External == DOMAIN StagedBy \cup
            {"publish_order_projection", "commit_order_publication",
             "lock", "settle", "refund", "prepare_refund"}

-----------------------------------------------------------------------------
(* Effects: what a step makes of the session it was given. *)

\* applyLocal
LocalResult(s, action) ==
    CASE action = "stage_inbox_registration" -> [s EXCEPT !.inbox = "staged"]
      [] action = "enter_recovery"           -> [s EXCEPT !.progress = "frozen"]
      [] action = "complete_settlement"      -> [s EXCEPT !.progress = "filled"]
      [] action = "clear_cashu_operation"    ->
            [s EXCEPT !.progress = IF @ = "released" THEN "closed" ELSE "cleared"]

\* Where an external step leads; staging a release moves nothing yet.
Reached == [stage_order_reserve |-> "reserved", lock |-> "locked", settle |-> "paid",
            stage_order_fill |-> "filling", refund |-> "refunded",
            stage_order_release |-> "refunded", publish_order_projection |-> "released",
            commit_order_publication |-> "released"]
MintSteps == {"lock", "settle", "refund"}

\* performExternal, given the entry the effect leaves in the outbox.
EffectResult(s, action, entry) ==
    [s EXCEPT !.progress = Reached[action],
              !.publication = IF action \in MintSteps THEN @ ELSE entry]

\* stageOrder: staging again finds its own entry.
StagedEntry(operation) ==
    IF outbox.operation = operation THEN outbox
    ELSE [operation |-> operation, status |-> "staged"]

Predecessor == [reserve |-> "create", fill |-> "reserve", release |-> "reserve"]

\* Mutant: staging is not idempotent.
StageableOnce(operation) == outbox.operation = Predecessor[operation]

Stageable(operation) == outbox.operation \in {operation, Predecessor[operation]}

\* publishNextStage and clearAcknowledged: the relays' answer, and its commit.
Sent(entry) == IF entry.status = "staged" THEN [entry EXCEPT !.status = "acknowledged"] ELSE entry
Cleared(entry) == [entry EXCEPT !.status = "committed"]

\* assertMonotonicUpdate, of what a merge could take back.
InboxRank == [unregistered |-> 0, staged |-> 1, registered |-> 2]
StatusRank == [staged |-> 0, acknowledged |-> 1, committed |-> 2]
Monotonic(old, new) ==
    /\ InboxRank[new.inbox] \in {InboxRank[old.inbox], InboxRank[old.inbox] + 1}
    /\ new.publication.operation = old.publication.operation =>
           StatusRank[new.publication.status] >= StatusRank[old.publication.status]
    /\ new.publication = NoPublication =>
           old.publication = NoPublication \/ old.publication.status = "committed"

-----------------------------------------------------------------------------
(* Steps of the settlement. *)

NoStep == [pc |-> "idle", action |-> "none", snapshot |-> NewSession,
           late |-> FALSE, result |-> NewSession]
Step == [pc : {"idle", "perform", "save"}, action : External \cup {"none"},
         snapshot : Session, late : BOOLEAN, result : Session]

Idle(p) == step[p].pc = "idle"
EndStep(p) == step' = [step EXCEPT ![p] = NoStep]
Fault == faults < MaxFaults /\ faults' = faults + 1

\* A turn of an announcement loop starts with the session it reads.
FirstStep(s, a) ==
    IF a # "inbox" /\ s.publication.status = "acknowledged" THEN "commit" ELSE "publish"

\* startAnnouncements: a loop for each artifact that is pending, if none runs.
Started(p, s) ==
    [loop EXCEPT ![p] = [a \in Announced |->
        IF loop[p][a] = "off" /\ Pending(s, a) THEN FirstStep(s, a) ELSE loop[p][a]]]

\* Mutant: each page only waits for itself.
StepFreeInPage(p) == Idle(p)

\* runAdvanceExclusive: no page has a step under way.
StepFree(p) == \A q \in Pages : Idle(q)

\* The first half of advanceOnce: plan under the session lock; a local step is
\* saved at once.
Begin(p) ==
    LET action == Plan(session, late)
    IN  /\ StepFree(p)
        /\ session' = IF action \in Local THEN LocalResult(session, action) ELSE session
        /\ step' = IF action \notin External THEN step
                   ELSE [step EXCEPT ![p] = [NoStep EXCEPT !.pc = "perform", !.action = action,
                                                          !.snapshot = session, !.late = late]]
        /\ loop' = Started(p, session')
        /\ UNCHANGED <<outbox, public, late, history, faults>>

\* The effect and its answer; the page holds the step but no session lock.
Performed(p, entry) ==
    LET action == step[p].action
    IN  /\ step' = [step EXCEPT ![p].pc = "save",
                                ![p].result = EffectResult(step[p].snapshot, action, entry)]
        /\ performed' = performed \cup {action}
        /\ repeated' = IF action \in performed THEN repeated + 1 ELSE repeated
        /\ outbox' = entry

PerformAtMint(p) ==
    /\ step[p].pc = "perform" /\ step[p].action \in MintSteps
    /\ Performed(p, outbox)
    /\ UNCHANGED <<session, public, loop, late, faults>>

PerformStaging(p) ==
    /\ step[p].pc = "perform" /\ step[p].action \in DOMAIN StagedBy
    /\ Stageable(StagedBy[step[p].action])
    /\ Performed(p, StagedEntry(StagedBy[step[p].action]))
    /\ UNCHANGED <<session, public, loop, late, faults>>

\* Publish the release, or commit what was acknowledged before.
PerformRelease(p) ==
    /\ step[p].pc = "perform"
    /\ step[p].action \in {"publish_order_projection", "commit_order_publication"}
    /\ outbox.operation = "release"
    /\ step[p].action = "commit_order_publication" => outbox.status # "staged"
    /\ Performed(p, Cleared(outbox))
    /\ public' = public \cup {"release"}
    /\ UNCHANGED <<session, loop, late, faults>>

\* An effect that cannot be performed fails the step: the order moved on, or
\* the refund's proofs are spent already.
Refuse(p) ==
    /\ step[p].pc = "perform"
    /\ LET action == step[p].action
       IN  \/ action = "prepare_refund"
           \/ action \in DOMAIN StagedBy /\ ~Stageable(StagedBy[action])
           \/ action = "publish_order_projection" /\ outbox.operation # "release"
           \/ action = "commit_order_publication" /\ outbox.operation # "release"
    /\ EndStep(p)
    /\ UNCHANGED <<session, outbox, public, loop, late, history, faults>>

\* Mutant: the result is saved over the receipts that came meanwhile.
NotMerged(old, snapshot, result) == result

\* What the effect left alone is taken from the session as it is by now.
Merged(old, snapshot, result) ==
    [result EXCEPT
        !.inbox = IF result.inbox = snapshot.inbox THEN old.inbox ELSE @,
        !.publication = IF result.publication = snapshot.publication
                        THEN old.publication ELSE @]

\* The second half of advanceOnce, under the session lock again.  Fingerprints
\* add nothing to the first conjunct, except that a preparation's holds the
\* wallet's revision: it may be refused, and is made again, it had no effect.
Welcome(p) ==
    LET w == step[p]
    IN  /\ WithoutReceipts(session) = WithoutReceipts(w.snapshot)
        /\ Plan(session, w.late) = w.action
        /\ Monotonic(session, Merged(session, w.snapshot, w.result))

Finish(p) ==
    /\ step[p].pc = "save"
    /\ session' = IF Welcome(p) THEN Merged(session, step[p].snapshot, step[p].result)
                  ELSE session
    /\ loop' = IF Welcome(p) THEN Started(p, session') ELSE loop
    /\ EndStep(p)
    /\ UNCHANGED <<outbox, public, late, history, faults>>

-----------------------------------------------------------------------------
(* Announcement loops. *)

Goto(p, a, pc) == loop' = [loop EXCEPT ![p][a] = pc]

\* A loop reads the session anew five seconds after a failed turn; a page that
\* is opened or refreshed (list) starts the loops that are missing.
Turn(p, a) ==
    /\ loop[p][a] = "off" /\ Pending(session, a)
    /\ Goto(p, a, FirstStep(session, a))
    /\ UNCHANGED <<session, outbox, public, step, late, history, faults>>

AnnounceInbox(p) ==
    /\ loop[p]["inbox"] = "publish"
    /\ public' = public \cup {"inbox"}
    /\ Goto(p, "inbox", "save")
    /\ UNCHANGED <<session, outbox, step, late, history, faults>>

\* publishOrderStage sends whatever entry the outbox holds by now; the entry of
\* another projection is left acknowledged, and the loop tries again later.
Announce(p, a) ==
    LET sent == IF loop[p][a] = "publish" THEN Sent(outbox) ELSE outbox
        own == sent.operation = a /\ sent.status # "staged"
    IN  /\ a # "inbox" /\ loop[p][a] \in {"publish", "commit"}
        /\ outbox' = IF (loop[p][a] = "commit" /\ sent.status # "staged") \/ own
                     THEN Cleared(sent) ELSE sent
        /\ public' = IF sent # outbox THEN public \cup {outbox.operation} ELSE public
        /\ Goto(p, a, IF own THEN "save" ELSE "off")
        /\ UNCHANGED <<session, step, late, history, faults>>

\* No relay answers in time, whether or not one has the event.
Unanswered(p, a) ==
    /\ loop[p][a] \in {"publish", "commit"}
    /\ Goto(p, a, "off")
    /\ UNCHANGED <<session, outbox, public, step, late, history, faults>>

\* Only the receipt is merged, and only of the artifact that is still there.
WithReceipt(s, a) ==
    IF ~Pending(s, a) THEN s
    ELSE IF a = "inbox" THEN [s EXCEPT !.inbox = "registered"]
    ELSE [s EXCEPT !.publication.status = "committed"]

SaveReceipt(p, a) ==
    /\ loop[p][a] = "save"
    /\ session' = WithReceipt(session, a)
    /\ Goto(p, a, "off")
    /\ UNCHANGED <<outbox, public, step, late, history, faults>>

-----------------------------------------------------------------------------
(* Around the coordinator. *)

\* A call of the settlement fails, before its effect or after it.
Fail(p) ==
    /\ ~Idle(p) /\ Fault /\ EndStep(p)
    /\ UNCHANGED <<session, outbox, public, loop, late, history>>

\* A page closes: its step and its loops are gone, its locks are free.
Close(p) ==
    /\ ~Idle(p) \/ \E a \in Announced : loop[p][a] # "off"
    /\ Fault /\ EndStep(p)
    /\ loop' = [loop EXCEPT ![p] = [a \in Announced |-> "off"]]
    /\ UNCHANGED <<session, outbox, public, late, history>>

\* The user's retry button: retryOrderPublication.
Retry ==
    /\ outbox.status # "committed"
    /\ outbox' = IF outbox.status = "staged" THEN Sent(outbox) ELSE Cleared(outbox)
    /\ public' = public \cup {outbox.operation}
    /\ UNCHANGED <<session, step, loop, late, history, faults>>

\* The order moves on without this session: cancelled before the reserve, or
\* changed or taken again after the fill or the release.  What is published
\* then is another session's.
MoveOn ==
    /\ outbox.status = "committed" /\ outbox.operation \in {"create", "fill", "release"}
    /\ outbox' = [operation |-> "other", status |-> "committed"]
    /\ UNCHANGED <<session, public, step, loop, late, history, faults>>

\* The cutoff decides nothing any more once the payment is claimed.
Expire ==
    /\ session.progress \in {"proposed", "reserved", "locked"}
    /\ ~late /\ late' = TRUE
    /\ UNCHANGED <<session, outbox, public, step, loop, history, faults>>

Init ==
    /\ session = NewSession
    /\ outbox = [operation |-> "create", status |-> "committed"]
    /\ public = {"create"}
    /\ step = [p \in Pages |-> NoStep]
    /\ loop = [p \in Pages |-> [a \in Announced |-> "off"]]
    /\ late = FALSE
    /\ performed = {}
    /\ repeated = 0
    /\ faults = 0

Perform(p) == PerformAtMint(p) \/ PerformStaging(p) \/ PerformRelease(p)
SettlementStep(p) == Begin(p) \/ Perform(p) \/ Refuse(p) \/ Finish(p)
Answered(p, a) == (a = "inbox" /\ AnnounceInbox(p)) \/ Announce(p, a)
LoopStep(p, a) == Turn(p, a) \/ Answered(p, a) \/ Unanswered(p, a) \/ SaveReceipt(p, a)

Next ==
    \/ \E p \in Pages : SettlementStep(p) \/ Fail(p) \/ Close(p)
    \/ \E p \in Pages, a \in Announced : LoopStep(p, a)
    \/ Retry \/ MoveOn \/ Expire

Spec == Init /\ [][Next]_vars

\* A session is driven again by some page, a loop takes its next turn, and a
\* relay that is asked again and again answers in the end.
Driving ==
    /\ WF_vars(\E p \in Pages : SettlementStep(p))
    /\ \A a \in Announced :
        /\ WF_vars(\E p \in Pages : Turn(p, a))
        /\ SF_vars(\E p \in Pages : Answered(p, a))
        /\ WF_vars(\E p \in Pages : SaveReceipt(p, a))

DrivenSpec == Spec /\ Driving

-----------------------------------------------------------------------------
(* Properties *)

TypeOK ==
    /\ session \in Session
    /\ outbox \in [operation : Operation \cup {"create", "other"}, status : Status]
    /\ public \subseteq Operation \cup {"inbox", "create", "other"}
    /\ step \in [Pages -> Step]
    /\ loop \in [Pages -> [Announced -> {"off", "publish", "commit", "save"}]]
    /\ late \in BOOLEAN
    /\ performed \subseteq External
    /\ repeated \in Nat
    /\ faults \in 0 .. MaxFaults

\* The result of an effect that was performed is never refused when it is
\* saved, whatever the announcements and the other pages saved meanwhile.
ResultsAreWelcome == \A p \in Pages : step[p].pc = "save" => Welcome(p)

\* No effect is performed again unless a call failed or a page was closed.
EffectsAreNotRepeated == repeated <= faults

\* A receipt in the session is of an artifact that relays acknowledged.
ReceiptsAreTrue ==
    /\ session.inbox = "registered" => "inbox" \in public
    /\ session.publication.status # "staged" => session.publication.operation \in public

\* A fill that is staged becomes public and the session learns it, though the
\* settlement ends without waiting for it, unless the order moved on first.
FillIsAnnounced ==
    session.publication.operation = "fill" ~>
        "fill" \in public /\ (session.publication.status = "committed" \/ outbox.operation = "other")

\* The settlement reaches an end whatever is saved beside it, unless the order
\* moved on without it.
Ended == session.progress \in {"filled", "closed", "cleared", "frozen"}
SessionEnds == <>(Ended \/ outbox.operation = "other")

\* The session changes as one record that nobody overwrites.
Record == INSTANCE SessionRecord WITH
    Start <- "proposed",
    Moves <- {<<"reserved", "locked">>, <<"locked", "paid">>, <<"locked", "refunded">>,
              <<"filling", "filled">>, <<"proposed", "frozen">>, <<"reserved", "frozen">>,
              <<"released", "closed">>, <<"refunded", "cleared">>},
    Stages <- {<<"proposed", "reserved", "reserve">>, <<"paid", "filling", "fill">>,
               <<"refunded", "refunded", "release">>},
    Closes <- {<<"refunded", "released", "release">>},
    progress <- session.progress, inbox <- session.inbox,
    operation <- session.publication.operation,
    receipt <- session.publication.status = "committed"
ImplementsSessionRecord == Record!Spec

================================================================================
