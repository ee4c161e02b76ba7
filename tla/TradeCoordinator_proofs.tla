------------------------ MODULE TradeCoordinator_proofs ------------------------
(***************************************************************************)
(* Proofs about TradeCoordinator, for any number of pages and of failures: *)
(* what a step was planned from is still what is stored when it is saved,  *)
(* up to the receipts that were announced beside it.                       *)
(***************************************************************************)
EXTENDS TradeCoordinator, TLAPS

(***************************************************************************)
(* Lemmas about the plan and the merge.                                    *)
(***************************************************************************)
USE DEF Pass

\* What a position of the settlement says of the publication beside it.
Shape(s) ==
    LET op == s.publication.operation
    IN  /\ s.progress = "proposed" => s.publication = NoPublication
        /\ s.progress \in {"reserved", "locked", "paid"} => op = "reserve"
        /\ s.progress \in {"filling", "filled"} => op = "fill"
        /\ s.progress = "refunded" => op \in {"reserve", "release"}
        /\ s.progress \in {"released", "closed", "cleared"} =>
               op = "release" /\ s.publication.status = "committed"
        /\ s.progress = "frozen" => op \in {"none", "reserve"}

Releasing == {"publish_order_projection", "commit_order_publication"}

\* The plan names a known action, and each action its position.
LEMMA PlanAtPosition ==
    ASSUME NEW s \in Session, NEW l \in BOOLEAN, Shape(s)
    PROVE  LET a == Plan(s, l)
           IN  /\ a \in Local \cup External \cup {"none"}
               /\ a = "stage_inbox_registration" => s.inbox = "unregistered"
               /\ a = "enter_recovery" => s.progress \in {"proposed", "reserved"}
               /\ a = "complete_settlement" => s.progress = "filling"
               /\ a = "clear_cashu_operation" =>
                      /\ s.progress \in {"refunded", "released"}
                      /\ s.publication = [operation |-> "release", status |-> "committed"]
               /\ a = "stage_order_reserve" => s.progress = "proposed"
               /\ a = "stage_order_fill" => s.progress = "paid"
               /\ a = "stage_order_release" =>
                      s.progress = "refunded" /\ s.publication.operation = "reserve"
               /\ a = "lock" => s.progress = "reserved"
               /\ a \in {"settle", "refund"} => s.progress = "locked"
               /\ a \in Releasing =>
                      /\ s.progress = "refunded" /\ s.publication.operation = "release"
                      /\ s.publication.status # "committed"
<1> DEFINE op == s.publication.operation
           st == s.publication.status
<1>1. /\ s.progress \in Progress /\ s.inbox \in {"unregistered", "staged", "registered"}
      /\ s.publication \in Publication
      /\ op \in Operation \cup {"none"} /\ st \in Status
    BY DEF Session, Publication, NoPublication, Status
<1>2. s.publication = [operation |-> op, status |-> st]
    BY <1>1 DEF Publication, NoPublication
<1>3. CASE s.progress = "refunded"
    BY <1>1, <1>2, <1>3 DEF Plan, CashuDue, PublicationDue, InboxDue, SettlementDue, ??,
       Shape, Releasing, Local, External, StagedBy, Status
<1>4. CASE s.progress # "refunded"
    BY <1>1, <1>2, <1>4 DEF Plan, CashuDue, PublicationDue, InboxDue, SettlementDue, ??,
       Shape, Releasing, Local, External, StagedBy, Status, Progress, NoPublication
<1> QED BY <1>3, <1>4

\* A receipt changes neither the plan nor what a step compares.
LEMMA PlanIgnoresReceipts ==
    ASSUME NEW s \in Session, NEW l \in BOOLEAN, NEW a \in Announced
    PROVE  /\ WithReceipt(s, a) \in Session
           /\ Plan(WithReceipt(s, a), l) = Plan(s, l)
           /\ WithoutReceipts(WithReceipt(s, a)) = WithoutReceipts(s)
           /\ Shape(s) => Shape(WithReceipt(s, a))
<1> DEFINE t == WithReceipt(s, a)
<1>1. CASE ~Pending(s, a)
    BY <1>1 DEF WithReceipt
<1>2. CASE Pending(s, a) /\ a = "inbox"
  <2>1. s.inbox = "staged" /\ t = [s EXCEPT !.inbox = "registered"]
      BY <1>2 DEF WithReceipt, Pending
  <2>2. t \in Session /\ t.progress = s.progress /\ t.publication = s.publication
        /\ t.inbox = "registered"
      BY <2>1 DEF Session
  <2>3. WithoutReceipts(t) = WithoutReceipts(s)
      BY <2>1, <2>2 DEF WithoutReceipts, Session
  <2> QED BY <2>1, <2>2, <2>3
      DEF Plan, CashuDue, PublicationDue, InboxDue, SettlementDue, ??, Shape
<1>3. CASE Pending(s, a) /\ a \in {"reserve", "fill"}
  <2>1. /\ s.publication.operation = a /\ s.publication.status # "committed"
        /\ t = [s EXCEPT !.publication.status = "committed"]
      BY <1>3 DEF WithReceipt, Pending
  <2>2. /\ s.publication \in [operation : Operation, status : Status]
        /\ s.progress \in Progress
      BY <1>3, <2>1 DEF Session, Publication, NoPublication
  <2>3. /\ t \in Session /\ t.progress = s.progress /\ t.inbox = s.inbox
        /\ t.publication = [operation |-> a, status |-> "committed"]
      BY <2>1, <2>2 DEF Session, Publication, Status
  <2>4. WithoutReceipts(t) = WithoutReceipts(s)
      BY <2>1, <2>2, <2>3, ZenonT(60) DEF WithoutReceipts, Session
  <2>5. Plan(t, l) = Plan(s, l)
      BY <1>3, <2>1, <2>3 DEF Plan, CashuDue, PublicationDue, InboxDue, SettlementDue, ??
  <2>6. Shape(s) => Shape(t)
      BY <1>3, <2>1, <2>3 DEF Shape, NoPublication
  <2> QED BY <2>3, <2>4, <2>5, <2>6
<1> QED BY <1>1, <1>2, <1>3 DEF Announced

(***************************************************************************)
(* Types.                                                                  *)
(***************************************************************************)
Entry == [operation : Operation \cup {"create", "other"}, status : Status]

LEMMA StagedIsEntry ==
    ASSUME TypeOK, NEW o \in Operation
    PROVE  StagedEntry(o) \in Entry /\ StagedEntry(o).operation = o
  BY DEF StagedEntry, TypeOK, Entry, Operation, Status

LEMMA SentIsEntry ==
    ASSUME NEW e \in Entry
    PROVE  /\ Sent(e) \in Entry /\ Sent(e).operation = e.operation
           /\ Cleared(e) = [operation |-> e.operation, status |-> "committed"]
           /\ Cleared(e) \in Entry
           /\ Sent(e).status # "staged"
           /\ Sent(e) # e => e.status = "staged"
  BY DEF Sent, Cleared, Entry, Status

LEMMA LocalKeepsType ==
    ASSUME NEW s \in Session, NEW a \in Local, Shape(s),
           a = "stage_inbox_registration" => s.inbox = "unregistered",
           a = "enter_recovery" => s.progress \in {"proposed", "reserved"},
           a = "complete_settlement" => s.progress = "filling",
           a = "clear_cashu_operation" =>
               /\ s.progress \in {"refunded", "released"}
               /\ s.publication = [operation |-> "release", status |-> "committed"]
    PROVE  LocalResult(s, a) \in Session /\ Shape(LocalResult(s, a))
<1>1. CASE a = "stage_inbox_registration"
    BY <1>1 DEF LocalResult, Session, Shape
<1>2. CASE a = "enter_recovery"
    BY <1>2 DEF LocalResult, Session, Progress, Shape, NoPublication
<1>3. CASE a = "complete_settlement"
    BY <1>3 DEF LocalResult, Session, Progress, Shape
<1>4. CASE a = "clear_cashu_operation"
    BY <1>4 DEF LocalResult, Session, Progress, Shape
<1> QED BY <1>1, <1>2, <1>3, <1>4 DEF Local

(***************************************************************************)
(* The invariant: at most one step is under way, what it was planned from  *)
(* is still stored, and receipts are earned before they are saved.         *)
(***************************************************************************)
OneStep == \A p, q \in Pages : Idle(p) \/ Idle(q) \/ p = q

StillPlanned(p) ==
    ~Idle(p) =>
        /\ step[p].action \in External
        /\ WithoutReceipts(session) = WithoutReceipts(step[p].snapshot)
        /\ Plan(session, step[p].late) = step[p].action
        /\ Shape(step[p].snapshot)
        /\ Plan(step[p].snapshot, step[p].late) = step[p].action

ResultFits(p) ==
    LET w == step[p]
    IN  w.pc = "save" =>
            /\ w.action \in DOMAIN Reached
            /\ w.result.progress = Reached[w.action]
            /\ w.result.inbox = w.snapshot.inbox
            /\ w.action \in MintSteps => w.result.publication = w.snapshot.publication
            /\ w.action \in DOMAIN StagedBy =>
                   /\ w.result.publication.operation = StagedBy[w.action]
                   /\ w.result.publication.status # "staged" => StagedBy[w.action] \in public
            /\ w.action \in Releasing =>
                   /\ w.result.publication = [operation |-> "release", status |-> "committed"]
                   /\ "release" \in public

ReceiptsEarned ==
    /\ \A p \in Pages, a \in Announced : loop[p][a] = "save" => a \in public
    /\ outbox.status # "staged" /\ outbox.operation \in Operation => outbox.operation \in public
    /\ ReceiptsAreTrue

IInv ==
    /\ TypeOK /\ Shape(session) /\ OneStep /\ ReceiptsEarned
    /\ \A p \in Pages : StillPlanned(p) /\ ResultFits(p)

THEOREM InitIsSound == Init => IInv
<1> SUFFICES ASSUME Init PROVE IInv
    OBVIOUS
<1>1. NewSession \in Session /\ Shape(NewSession)
    BY DEF NewSession, Session, Progress, Publication, NoPublication, Shape
<1>2. NoStep \in Step /\ NoStep.pc = "idle"
    BY <1>1 DEF NoStep, Step
<1>3. TypeOK
  <2>1. step \in [Pages -> Step]
      BY <1>2 DEF Init
  <2>2. loop \in [Pages -> [Announced -> {"off", "publish", "commit", "save"}]]
      BY DEF Init
  <2>3. performed \subseteq External /\ repeated \in Nat /\ faults \in 0 .. MaxFaults
      BY FaultAssumption DEF Init
  <2>4. outbox \in Entry /\ public \subseteq Operation \cup {"inbox", "create", "other"}
      BY DEF Init, Entry, Operation, Status
  <2> QED BY <1>1, <2>1, <2>2, <2>3, <2>4 DEF Init, TypeOK, Entry
<1>4. \A p \in Pages : Idle(p)
    BY <1>2 DEF Init, Idle
<1>5. ReceiptsEarned
    BY DEF Init, ReceiptsEarned, ReceiptsAreTrue, NewSession, NoPublication, Operation, Announced
<1>6. \A p \in Pages : StillPlanned(p) /\ ResultFits(p)
    BY <1>4 DEF StillPlanned, ResultFits, Idle
<1> QED BY <1>1, <1>3, <1>4, <1>5, <1>6 DEF Init, IInv, OneStep

(***************************************************************************)
(* What the actions have in common.                                        *)
(***************************************************************************)
StepsSound == OneStep /\ \A p \in Pages : StillPlanned(p) /\ ResultFits(p)

LEMMA StepsStand ==
    ASSUME StepsSound, UNCHANGED <<session, step>>, public \subseteq public'
    PROVE  StepsSound'
  BY DEF StepsSound, OneStep, StillPlanned, ResultFits, Idle

LEMMA StepEnds ==
    ASSUME TypeOK, StepsSound, UNCHANGED <<session, public>>, NEW p \in Pages, EndStep(p)
    PROVE  StepsSound' /\ step' \in [Pages -> Step]
<1>1. NoStep \in Step /\ NoStep.pc = "idle"
    BY DEF NoStep, Step, NewSession, Session, Progress, Publication, NoPublication
<1>2. /\ step' \in [Pages -> Step] /\ step'[p] = NoStep
      /\ \A q \in Pages : q # p => step'[q] = step[q]
    BY <1>1 DEF EndStep, TypeOK
<1> QED BY <1>1, <1>2 DEF StepsSound, OneStep, StillPlanned, ResultFits, Idle

LoopState == {"off", "publish", "commit", "save"}

LEMMA GotoType ==
    ASSUME TypeOK, NEW p \in Pages, NEW a \in Announced, NEW pc \in LoopState, Goto(p, a, pc)
    PROVE  /\ loop' \in [Pages -> [Announced -> LoopState]]
           /\ \A q \in Pages, b \in Announced :
                  loop'[q][b] = IF q = p /\ b = a THEN pc ELSE loop[q][b]
  BY DEF Goto, TypeOK, LoopState

LEMMA StartedType ==
    ASSUME TypeOK, NEW p \in Pages, NEW s, loop' = Started(p, s)
    PROVE  /\ loop' \in [Pages -> [Announced -> LoopState]]
           /\ \A q \in Pages, b \in Announced :
                  loop'[q][b] = "save" => loop[q][b] = "save"
<1> DEFINE row == [a \in Announced |->
        IF loop[p][a] = "off" /\ Pending(s, a) THEN FirstStep(s, a) ELSE loop[p][a]]
<1>1. loop' = [loop EXCEPT ![p] = row]
    BY DEF Started
<1>2. \A a \in Announced : row[a] \in {FirstStep(s, a), loop[p][a]}
    OBVIOUS
<1>3. \A a \in Announced : FirstStep(s, a) \in {"publish", "commit"}
    BY DEF FirstStep
<1>4. row \in [Announced -> LoopState] /\ \A b \in Announced : row[b] = "save" => loop[p][b] = "save"
    BY <1>2, <1>3 DEF TypeOK, LoopState
<1>5. loop \in [Pages -> [Announced -> LoopState]]
    BY DEF TypeOK, LoopState
<1> HIDE DEF row
<1> QED BY <1>1, <1>4, <1>5

(***************************************************************************)
(* Steps of the settlement.                                                *)
(***************************************************************************)
LEMMA BeginIsSound ==
    ASSUME IInv, NEW p \in Pages, Begin(p)
    PROVE  IInv'
<1> DEFINE action == Plan(session, late)
<1>1. TypeOK /\ Shape(session) /\ StepsSound /\ ReceiptsEarned
    BY DEF IInv, StepsSound
<1>2. session \in Session /\ late \in BOOLEAN
    BY <1>1 DEF TypeOK
<1>3. \A q \in Pages : Idle(q)
    BY DEF Begin, StepFree
<1>4. /\ loop' \in [Pages -> [Announced -> LoopState]]
      /\ \A q \in Pages, b \in Announced : loop'[q][b] = "save" => loop[q][b] = "save"
    BY <1>1, StartedType DEF Begin
<1>5. CASE action \in Local
  <2>1. /\ session' = LocalResult(session, action) /\ step' = step
        /\ UNCHANGED <<outbox, public, late, history, faults>>
      BY <1>5 DEF Begin, Local, External, StagedBy
  <2>2. session' \in Session /\ Shape(session')
      BY <1>1, <1>2, <1>5, <2>1, PlanAtPosition, LocalKeepsType
  <2>3. StepsSound'
      BY <1>3, <2>1 DEF StepsSound, OneStep, StillPlanned, ResultFits, Idle
  <2>4. /\ session'.inbox = "registered" => session.inbox = "registered"
        /\ session'.publication = session.publication
      BY <1>2, <1>5, <2>1 DEF LocalResult, Local, Session
  <2>5. ReceiptsEarned'
      BY <1>1, <1>4, <2>1, <2>4 DEF ReceiptsEarned, ReceiptsAreTrue
  <2>6. TypeOK'
      BY <1>1, <1>4, <2>1, <2>2 DEF TypeOK, LoopState, history
  <2> QED BY <2>2, <2>3, <2>5, <2>6 DEF IInv, StepsSound
<1>6. CASE action \notin Local
  <2> DEFINE begun == [NoStep EXCEPT !.pc = "perform", !.action = action,
                                     !.snapshot = session, !.late = late]
  <2>1. /\ session' = session
        /\ step' = IF action \notin External THEN step ELSE [step EXCEPT ![p] = begun]
        /\ UNCHANGED <<outbox, public, late, history, faults>>
      BY <1>6 DEF Begin
  <2>2. action \in External =>
            /\ begun \in Step /\ begun.pc = "perform" /\ begun.action = action
            /\ begun.snapshot = session /\ begun.late = late
      BY <1>2 DEF NoStep, Step, NewSession, Session, Progress, Publication, NoPublication
  <2> HIDE DEF begun
  <2>3. /\ step' \in [Pages -> Step]
        /\ \A q \in Pages : q # p => step'[q] = step[q]
        /\ step'[p] = step[p] \/ (action \in External /\ step'[p] = begun)
      BY <1>1, <2>1, <2>2 DEF TypeOK
  <2>4. OneStep' /\ \A q \in Pages : q # p => step'[q].pc = "idle"
      BY <1>3, <2>3 DEF OneStep, Idle
  <2>5. step'[p].pc = "idle" \/
            /\ step'[p].pc = "perform" /\ step'[p].action = action /\ action \in External
            /\ step'[p].snapshot = session /\ step'[p].late = late
      BY <1>3, <2>2, <2>3 DEF Idle
  <2>6. StepsSound'
      BY <1>1, <2>1, <2>4, <2>5 DEF StepsSound, StillPlanned, ResultFits, Idle
  <2>7. ReceiptsEarned'
      BY <1>1, <1>4, <2>1 DEF ReceiptsEarned, ReceiptsAreTrue
  <2>8. TypeOK'
      BY <1>1, <1>4, <2>1, <2>3 DEF TypeOK, LoopState, history
  <2> QED BY <1>1, <2>1, <2>6, <2>7, <2>8 DEF IInv, StepsSound
<1> QED BY <1>5, <1>6

\* What Perform adds to a step, whatever the effect.
LEMMA PerformedStep ==
    ASSUME IInv, NEW p \in Pages, step[p].pc = "perform", step[p].action \in DOMAIN Reached,
           NEW entry \in Entry, Performed(p, entry),
           step[p].action \notin MintSteps => entry \in Publication
    PROVE  LET w == step'[p]
           IN  /\ step' \in [Pages -> Step]
               /\ \A q \in Pages : q # p => step'[q] = step[q]
               /\ w.pc = "save" /\ w.action = step[p].action
               /\ w.snapshot = step[p].snapshot /\ w.late = step[p].late
               /\ w.result = EffectResult(step[p].snapshot, w.action, entry)
               /\ w.result.progress = Reached[w.action]
               /\ w.result.inbox = w.snapshot.inbox
               /\ w.result.publication =
                      IF w.action \in MintSteps THEN w.snapshot.publication ELSE entry
               /\ performed' \subseteq External /\ repeated' \in Nat /\ outbox' = entry
<1> DEFINE a == step[p].action
           s == step[p].snapshot
           r == EffectResult(s, a, entry)
<1>1. step \in [Pages -> Step] /\ s \in Session /\ a \in External
    BY DEF IInv, TypeOK, Step, Reached, External, StagedBy
<1>2. Reached[a] \in Progress
    BY DEF Reached, Progress
<1>3. /\ r \in Session /\ r.progress = Reached[a] /\ r.inbox = s.inbox
      /\ r.publication = IF a \in MintSteps THEN s.publication ELSE entry
    BY <1>1, <1>2 DEF EffectResult, Session
<1>4. step' = [step EXCEPT ![p].pc = "save", ![p].result = r]
    BY DEF Performed
<1> HIDE DEF r
<1>5. /\ step'[p] \in Step /\ step'[p].pc = "save" /\ step'[p].action = a
      /\ step'[p].snapshot = s /\ step'[p].late = step[p].late /\ step'[p].result = r
      /\ \A q \in Pages : q # p => step'[q] = step[q]
    BY <1>1, <1>3, <1>4 DEF Step
<1>6. step' \in [Pages -> Step]
    BY <1>1, <1>4, <1>5
<1>7. performed' \subseteq External /\ repeated' \in Nat /\ outbox' = entry
    BY <1>1 DEF Performed, IInv, TypeOK
<1> QED BY <1>3, <1>5, <1>6, <1>7 DEF r

\* An effect that was performed waits to be saved; the other steps are idle.
LEMMA PerformIsSound ==
    ASSUME IInv, NEW p \in Pages, Perform(p)
    PROVE  IInv'
<1> DEFINE w == step[p]
<1>1. /\ TypeOK /\ Shape(session) /\ OneStep /\ ReceiptsEarned /\ StillPlanned(p)
      /\ w.pc = "perform" /\ UNCHANGED <<session, loop, late, faults>>
    BY DEF IInv, Perform, PerformAtMint, PerformStaging, PerformRelease
<1>2. \A q \in Pages : q # p => step[q].pc = "idle"
    BY <1>1 DEF OneStep, Idle
<1> DEFINE After(entry) ==
        /\ step' \in [Pages -> Step] /\ \A q \in Pages : q # p => step'[q] = step[q]
        /\ step'[p].pc = "save" /\ step'[p].action = w.action
        /\ step'[p].snapshot = w.snapshot /\ step'[p].late = w.late
        /\ step'[p].result.progress = Reached[w.action]
        /\ step'[p].result.inbox = w.snapshot.inbox
        /\ step'[p].result.publication =
               IF w.action \in MintSteps THEN w.snapshot.publication ELSE entry
        /\ performed' \subseteq External /\ repeated' \in Nat /\ outbox' = entry
        /\ w.action \in DOMAIN Reached
<1>3. ASSUME NEW entry \in Entry, After(entry), public \subseteq public',
             public' \subseteq public \cup {"release"},
             entry.status # "staged" /\ entry.operation \in Operation => entry.operation \in public',
             w.action \in DOMAIN StagedBy => entry.operation = StagedBy[w.action],
             w.action \in Releasing =>
                 entry = [operation |-> "release", status |-> "committed"]
      PROVE  IInv'
  <2>1. TypeOK'
      BY <1>1, <1>3 DEF TypeOK, Entry, Operation
  <2>2. OneStep' /\ \A q \in Pages : q # p => step'[q].pc = "idle"
      BY <1>1, <1>2, <1>3 DEF OneStep, Idle
  <2>3. StillPlanned(p)'
      BY <1>1, <1>3 DEF StillPlanned, Idle
  <2>4. \A o \in DOMAIN StagedBy : StagedBy[o] \in Operation /\ o \notin MintSteps /\ o \notin Releasing
      BY DEF StagedBy, Operation, MintSteps, Releasing
  <2>5. w.action \in Releasing => w.action \notin MintSteps
      BY DEF MintSteps, Releasing
  <2>6. ResultFits(p)'
      BY <1>3, <2>4, <2>5 DEF ResultFits, Operation
  <2>7. ReceiptsEarned'
      BY <1>1, <1>3 DEF ReceiptsEarned, ReceiptsAreTrue
  <2> QED BY <1>1, <2>1, <2>2, <2>3, <2>6, <2>7 DEF IInv, StillPlanned, ResultFits, Idle
<1>4. CASE PerformAtMint(p)
  <2>1. outbox \in Entry /\ w.action \in MintSteps /\ Performed(p, outbox) /\ public' = public
      BY <1>1, <1>4 DEF PerformAtMint, TypeOK, Entry
  <2>2. w.action \in DOMAIN Reached /\ w.action \notin DOMAIN StagedBy /\ w.action \notin Releasing
      BY <2>1 DEF MintSteps, Reached, StagedBy, Releasing
  <2>3. After(outbox)
      BY <1>1, <2>1, <2>2, PerformedStep
  <2> QED BY <1>1, <1>3, <2>1, <2>2, <2>3 DEF ReceiptsEarned
<1>5. CASE PerformStaging(p)
  <2> DEFINE o == StagedBy[w.action]
             e == StagedEntry(o)
  <2>1. w.action \in DOMAIN StagedBy /\ Performed(p, e) /\ public' = public
      BY <1>5 DEF PerformStaging
  <2>2. o \in Operation /\ w.action \in DOMAIN Reached /\ w.action \notin Releasing
      BY <2>1 DEF StagedBy, Operation, Reached, Releasing
  <2>3. e \in Entry /\ e.operation = o
      BY <1>1, <2>2, StagedIsEntry
  <2>4. e \in Publication
      BY <2>2, <2>3 DEF Entry, Publication
  <2>5. e.status # "staged" => e.operation \in public
      BY <1>1, <2>2, <2>3 DEF StagedEntry, ReceiptsEarned
  <2> HIDE DEF e
  <2>6. After(e)
      BY <1>1, <2>1, <2>2, <2>3, <2>4, PerformedStep
  <2> QED BY <1>3, <2>1, <2>2, <2>3, <2>5, <2>6
<1>6. CASE PerformRelease(p)
  <2> DEFINE e == Cleared(outbox)
  <2>1. /\ w.action \in Releasing /\ outbox.operation = "release"
        /\ Performed(p, e) /\ public' = public \cup {"release"}
      BY <1>6 DEF PerformRelease, Releasing
  <2>2. outbox \in Entry
      BY <1>1 DEF TypeOK, Entry
  <2>3. e \in Entry /\ e = [operation |-> "release", status |-> "committed"]
      BY <2>1, <2>2, SentIsEntry
  <2>4. /\ w.action \in DOMAIN Reached /\ w.action \notin DOMAIN StagedBy
        /\ e \in Publication
      BY <2>1, <2>3 DEF Releasing, Reached, StagedBy, Publication, Operation, Status
  <2> HIDE DEF e
  <2>5. After(e)
      BY <1>1, <2>1, <2>3, <2>4, PerformedStep
  <2> QED BY <1>3, <2>1, <2>3, <2>4, <2>5
<1> QED BY <1>4, <1>5, <1>6 DEF Perform

(***************************************************************************)
(* Saving: the plan still holds, so the merge takes nothing back.          *)
(***************************************************************************)
MergedOf(p) == Merged(session, step[p].snapshot, step[p].result)

\* The merge is the stored session, moved on by the effect alone.
LEMMA MergeMovesOn ==
    ASSUME IInv, NEW p \in Pages, step[p].pc = "save"
    PROVE  LET w == step[p]
               m == MergedOf(p)
           IN  /\ m \in Session
               /\ m.progress = Reached[w.action] /\ m.inbox = session.inbox
               /\ m.publication = IF w.action \in MintSteps THEN session.publication
                                  ELSE w.result.publication
               /\ w.action \in DOMAIN StagedBy =>
                      session.publication.operation # StagedBy[w.action]
<1> DEFINE w == step[p]
           m == MergedOf(p)
<1>1. /\ TypeOK /\ Shape(session) /\ StillPlanned(p) /\ ResultFits(p)
    BY DEF IInv
<1>2. /\ session \in Session /\ w.snapshot \in Session /\ w.result \in Session
      /\ w.late \in BOOLEAN
    BY <1>1 DEF TypeOK, Step
<1>3. /\ w.action \in DOMAIN Reached /\ w.result.progress = Reached[w.action]
      /\ w.result.inbox = w.snapshot.inbox
      /\ w.action \in MintSteps => w.result.publication = w.snapshot.publication
      /\ w.action \in DOMAIN StagedBy => w.result.publication.operation = StagedBy[w.action]
      /\ w.action \in Releasing =>
             w.result.publication = [operation |-> "release", status |-> "committed"]
    BY <1>1 DEF ResultFits
<1>4. /\ WithoutReceipts(session) = WithoutReceipts(w.snapshot)
      /\ Plan(session, w.late) = w.action
    BY <1>1 DEF StillPlanned, Idle
<1>5. session.publication.operation = w.snapshot.publication.operation
  <2>1. \A s \in Session : WithoutReceipts(s).publication.operation = s.publication.operation
      BY DEF WithoutReceipts, Session, Publication, NoPublication
  <2> QED BY <1>2, <1>4, <2>1
<1>6. w.action \in DOMAIN StagedBy => session.publication.operation # StagedBy[w.action]
  <2>1. CASE w.action = "stage_order_reserve"
      BY <1>1, <1>2, <1>4, <2>1, PlanAtPosition DEF Shape, StagedBy, NoPublication
  <2>2. CASE w.action = "stage_order_fill"
      BY <1>1, <1>2, <1>4, <2>2, PlanAtPosition DEF Shape, StagedBy
  <2>3. CASE w.action = "stage_order_release"
      BY <1>1, <1>2, <1>4, <2>3, PlanAtPosition DEF Shape, StagedBy
  <2> QED BY <2>1, <2>2, <2>3 DEF StagedBy
<1>7. w.action \in Releasing => w.result.publication # w.snapshot.publication
  <2>1. Shape(w.snapshot) /\ Plan(w.snapshot, w.late) = w.action
      BY <1>1 DEF StillPlanned, Idle
  <2>2. w.action \in Releasing => w.snapshot.publication.status # "committed"
      BY <1>2, <2>1, PlanAtPosition
  <2> QED BY <1>3, <2>2
<1>8. w.action \in DOMAIN StagedBy => w.result.publication # w.snapshot.publication
    BY <1>3, <1>5, <1>6
<1>9. w.action \in MintSteps \/ w.action \in DOMAIN StagedBy \/ w.action \in Releasing
    BY <1>3 DEF Reached, MintSteps, StagedBy, Releasing
<1>10. w.action \in DOMAIN StagedBy \/ w.action \in Releasing => w.action \notin MintSteps
    BY DEF MintSteps, StagedBy, Releasing
<1>11. m = [w.result EXCEPT !.inbox = session.inbox,
                !.publication = IF w.action \in MintSteps THEN session.publication
                                ELSE w.result.publication]
    BY <1>2, <1>3, <1>7, <1>8, <1>9, <1>10 DEF MergedOf, Merged, Session
<1>12. /\ m \in Session /\ m.progress = w.result.progress /\ m.inbox = session.inbox
       /\ m.publication = IF w.action \in MintSteps THEN session.publication
                          ELSE w.result.publication
    BY <1>2, <1>11 DEF Session
<1> QED BY <1>3, <1>6, <1>12

\* A result is welcome when it is saved.
LEMMA ResultIsWelcome ==
    ASSUME IInv, NEW p \in Pages, step[p].pc = "save"
    PROVE  Welcome(p)
<1> DEFINE w == step[p]
           m == MergedOf(p)
<1>1. /\ TypeOK /\ Shape(session) /\ StillPlanned(p) /\ ResultFits(p)
    BY DEF IInv
<1>2. /\ WithoutReceipts(session) = WithoutReceipts(w.snapshot)
      /\ Plan(session, w.late) = w.action
    BY <1>1 DEF StillPlanned, Idle
<1>3. /\ m \in Session /\ m.inbox = session.inbox
      /\ m.publication = IF w.action \in MintSteps THEN session.publication
                         ELSE w.result.publication
      /\ w.action \in DOMAIN StagedBy => session.publication.operation # StagedBy[w.action]
    BY MergeMovesOn
<1>4. session \in Session /\ session.publication \in Publication
    BY <1>1 DEF TypeOK, Session
<1>5. InboxRank[m.inbox] \in {InboxRank[session.inbox], InboxRank[session.inbox] + 1}
    BY <1>3
<1>6. StatusRank[session.publication.status] \in 0 .. 2
    BY <1>4 DEF StatusRank, Publication, NoPublication, Status
<1>7. m.publication.operation = session.publication.operation =>
          StatusRank[m.publication.status] >= StatusRank[session.publication.status]
  <2>1. CASE w.action \in MintSteps
      BY <1>3, <1>6, <2>1
  <2>2. CASE w.action \in DOMAIN StagedBy
      BY <1>1, <1>3, <2>2 DEF ResultFits, MintSteps, StagedBy
  <2>3. CASE w.action \in Releasing
    <3>1. m.publication.status = "committed"
        BY <1>1, <1>3, <2>3 DEF ResultFits, MintSteps, Releasing
    <3> QED BY <1>6, <3>1 DEF StatusRank
  <2>4. w.action \in MintSteps \/ w.action \in DOMAIN StagedBy \/ w.action \in Releasing
      BY <1>1 DEF ResultFits, Reached, MintSteps, StagedBy, Releasing
  <2> QED BY <2>1, <2>2, <2>3, <2>4
<1>8. m.publication = NoPublication => session.publication = NoPublication
    BY <1>1, <1>3 DEF ResultFits, Reached, MintSteps, StagedBy, Releasing, NoPublication
<1>9. Monotonic(session, m)
    BY <1>5, <1>7, <1>8 DEF Monotonic
<1> QED BY <1>2, <1>9 DEF Welcome, MergedOf

LEMMA FinishIsSound ==
    ASSUME IInv, NEW p \in Pages, Finish(p)
    PROVE  IInv'
<1> DEFINE w == step[p]
           m == MergedOf(p)
<1>1. /\ TypeOK /\ Shape(session) /\ StepsSound /\ ReceiptsEarned
      /\ StillPlanned(p) /\ ResultFits(p) /\ w.pc = "save" /\ Welcome(p)
    BY ResultIsWelcome DEF IInv, StepsSound, Finish
<1>2. /\ session' = m /\ loop' = Started(p, session') /\ EndStep(p)
      /\ UNCHANGED <<outbox, public, late, history, faults>>
    BY <1>1 DEF Finish, MergedOf
<1>3. /\ m \in Session /\ m.progress = Reached[w.action] /\ m.inbox = session.inbox
      /\ m.publication = IF w.action \in MintSteps THEN session.publication
                         ELSE w.result.publication
    BY <1>1, MergeMovesOn
<1>4. /\ w.action \in DOMAIN Reached /\ session \in Session /\ w.late \in BOOLEAN
      /\ Plan(session, w.late) = w.action
    BY <1>1 DEF ResultFits, StillPlanned, Idle, TypeOK, Step
<1>5. Shape(m)
  <2>1. CASE w.action \in {"lock", "settle", "refund"}
      BY <1>1, <1>3, <1>4, <2>1, PlanAtPosition DEF Shape, MintSteps, Reached
  <2>2. CASE w.action \in DOMAIN StagedBy
      BY <1>1, <1>3, <2>2 DEF Shape, ResultFits, MintSteps, Reached, StagedBy
  <2>3. CASE w.action \in Releasing
      BY <1>1, <1>3, <2>3 DEF Shape, ResultFits, MintSteps, Reached, Releasing
  <2> QED BY <1>4, <2>1, <2>2, <2>3 DEF Reached, StagedBy, Releasing
<1>6. NoStep \in Step /\ NoStep.pc = "idle"
    BY DEF NoStep, Step, NewSession, Session, Progress, Publication, NoPublication
<1>7. step' \in [Pages -> Step] /\ \A q \in Pages : step'[q].pc = "idle"
    BY <1>1, <1>2, <1>6 DEF EndStep, TypeOK, StepsSound, OneStep, Idle
<1>8. /\ loop' \in [Pages -> [Announced -> LoopState]]
      /\ \A q \in Pages, b \in Announced : loop'[q][b] = "save" => loop[q][b] = "save"
    BY <1>1, <1>2, StartedType
<1>9. TypeOK'
    BY <1>1, <1>2, <1>3, <1>7, <1>8 DEF TypeOK, LoopState, history
<1>10. m.publication.status # "staged" => m.publication.operation \in public
    BY <1>1, <1>3, <1>4 DEF ResultFits, ReceiptsEarned, ReceiptsAreTrue,
       Reached, MintSteps, StagedBy, Releasing
<1>11. ReceiptsEarned'
    BY <1>1, <1>2, <1>3, <1>8, <1>10 DEF ReceiptsEarned, ReceiptsAreTrue
<1> QED BY <1>2, <1>3, <1>5, <1>7, <1>9, <1>11
    DEF IInv, OneStep, StillPlanned, ResultFits, Idle

LEMMA EndingIsSound ==
    ASSUME IInv, NEW p \in Pages, Refuse(p) \/ Fail(p) \/ Close(p)
    PROVE  IInv'
<1>1. TypeOK /\ Shape(session) /\ StepsSound /\ ReceiptsEarned
    BY DEF IInv, StepsSound
<1>2. EndStep(p) /\ UNCHANGED <<session, outbox, public, late, history>>
    BY DEF Refuse, Fail, Close, history
<1>3. StepsSound' /\ step' \in [Pages -> Step]
    BY <1>1, <1>2, StepEnds
<1>4. faults' \in 0 .. MaxFaults
    BY <1>1, FaultAssumption DEF Refuse, Fail, Close, Fault, TypeOK, history
<1>5. /\ loop' \in [Pages -> [Announced -> LoopState]]
      /\ \A q \in Pages, b \in Announced : loop'[q][b] = "save" => loop[q][b] = "save"
    BY <1>1 DEF Refuse, Fail, Close, TypeOK, LoopState
<1>6. TypeOK'
    BY <1>1, <1>2, <1>3, <1>4, <1>5 DEF TypeOK, LoopState, history
<1>7. ReceiptsEarned'
    BY <1>1, <1>2, <1>5 DEF ReceiptsEarned, ReceiptsAreTrue
<1> QED BY <1>1, <1>2, <1>3, <1>6, <1>7 DEF IInv, StepsSound

(***************************************************************************)
(* Announcements, and what happens around the coordinator.                 *)
(***************************************************************************)
LEMMA LoopStepIsSound ==
    ASSUME IInv, NEW p \in Pages, NEW a \in Announced, LoopStep(p, a)
    PROVE  IInv'
<1>1. TypeOK /\ Shape(session) /\ StepsSound /\ ReceiptsEarned /\ outbox \in Entry
    BY DEF IInv, StepsSound, TypeOK, Entry
<1>2. CASE Turn(p, a) \/ Unanswered(p, a)
  <2>1. PICK pc \in LoopState \ {"save"} : Goto(p, a, pc)
      BY <1>2 DEF Turn, Unanswered, FirstStep, LoopState
  <2>2. UNCHANGED <<session, outbox, public, step, late, history, faults>>
      BY <1>2 DEF Turn, Unanswered, history
  <2>3. TypeOK' /\ ReceiptsEarned'
      BY <1>1, <2>1, <2>2, GotoType DEF TypeOK, LoopState, ReceiptsEarned, ReceiptsAreTrue, history
  <2> QED BY <1>1, <2>2, <2>3, StepsStand DEF IInv, StepsSound
<1>3. CASE a = "inbox" /\ AnnounceInbox(p)
  <2>1. /\ Goto(p, a, "save") /\ public' = public \cup {"inbox"}
        /\ UNCHANGED <<session, outbox, step, late, history, faults>>
      BY <1>3 DEF AnnounceInbox, history
  <2>2. TypeOK' /\ ReceiptsEarned'
      BY <1>1, <1>3, <2>1, GotoType DEF TypeOK, LoopState, ReceiptsEarned, ReceiptsAreTrue, history
  <2> QED BY <1>1, <2>1, <2>2, StepsStand DEF IInv, StepsSound
<1>4. CASE Announce(p, a)
  <2> DEFINE sent == IF loop[p][a] = "publish" THEN Sent(outbox) ELSE outbox
             own == sent.operation = a /\ sent.status # "staged"
  <2>1. /\ a # "inbox" /\ outbox' \in {sent, Cleared(sent)}
        /\ public' = IF sent # outbox THEN public \cup {outbox.operation} ELSE public
        /\ Goto(p, a, IF own THEN "save" ELSE "off")
        /\ UNCHANGED <<session, step, late, history, faults>>
        /\ (sent.status = "staged" => outbox' = sent)
      BY <1>4 DEF Announce, history
  <2>2. /\ sent \in Entry /\ sent.operation = outbox.operation /\ Cleared(sent) \in Entry
        /\ Cleared(sent).operation = outbox.operation
        /\ sent # outbox => outbox.status = "staged"
      BY <1>1, SentIsEntry
  <2>3. sent.status # "staged" /\ sent.operation \in Operation => outbox.operation \in public'
      BY <1>1, <2>1, <2>2 DEF ReceiptsEarned
  <2>4. a \in Operation
      BY <2>1 DEF Announced, Operation
  <2>5. own => a \in public'
      BY <2>2, <2>3, <2>4
  <2>6. outbox' \in Entry /\ outbox'.operation = outbox.operation
      BY <2>1, <2>2
  <2>7. outbox'.status # "staged" /\ outbox'.operation \in Operation => outbox'.operation \in public'
      BY <2>1, <2>2, <2>3
  <2>8. public \subseteq public' /\ public' \subseteq public \cup {outbox.operation}
      BY <2>1
  <2> DEFINE pc == IF own THEN "save" ELSE "off"
  <2>9. pc \in LoopState /\ (pc = "save" => a \in public')
      BY <2>5 DEF LoopState
  <2> HIDE DEF sent, own, pc
  <2>10. TypeOK'
      BY <1>1, <2>1, <2>6, <2>8, <2>9, GotoType DEF TypeOK, LoopState, Entry, history, pc
  <2>11. \A q \in Pages, b \in Announced : loop'[q][b] = "save" => b \in public'
      BY <1>1, <2>1, <2>8, <2>9, GotoType DEF ReceiptsEarned, pc
  <2>12. ReceiptsEarned'
      BY <1>1, <2>1, <2>7, <2>8, <2>11 DEF ReceiptsEarned, ReceiptsAreTrue
  <2> QED BY <1>1, <2>1, <2>8, <2>10, <2>12, StepsStand DEF IInv, StepsSound
<1>5. CASE SaveReceipt(p, a)
  <2>1. /\ session' = WithReceipt(session, a) /\ Goto(p, a, "off") /\ a \in public
        /\ UNCHANGED <<outbox, public, step, late, history, faults>>
      BY <1>1, <1>5 DEF SaveReceipt, ReceiptsEarned, history
  <2>2. session \in Session /\ \A q \in Pages : step[q].late \in BOOLEAN
      BY <1>1 DEF TypeOK, Step
  <2>3. session' \in Session /\ Shape(session')
      BY <1>1, <2>1, <2>2, PlanIgnoresReceipts
  <2>4. StepsSound'
    <3>1. \A q \in Pages : /\ Plan(session', step[q].late) = Plan(session, step[q].late)
                           /\ WithoutReceipts(session') = WithoutReceipts(session)
        BY <2>1, <2>2, PlanIgnoresReceipts
    <3> QED BY <1>1, <2>1, <3>1 DEF StepsSound, OneStep, StillPlanned, ResultFits, Idle
  <2>5. TypeOK'
      BY <1>1, <2>1, <2>3, GotoType DEF TypeOK, LoopState, history
  <2>6. ReceiptsAreTrue'
      BY <1>1, <2>1, <2>2 DEF ReceiptsEarned, ReceiptsAreTrue, WithReceipt, Pending, Session, Publication, NoPublication
  <2>7. \A q \in Pages, b \in Announced : loop'[q][b] = "save" => b \in public'
      BY <1>1, <2>1, GotoType DEF ReceiptsEarned, LoopState
  <2>8. ReceiptsEarned'
      BY <1>1, <2>1, <2>6, <2>7 DEF ReceiptsEarned
  <2> QED BY <2>3, <2>4, <2>5, <2>8 DEF IInv, StepsSound
<1> QED BY <1>2, <1>3, <1>4, <1>5 DEF LoopStep, Answered

LEMMA AroundIsSound ==
    ASSUME IInv, Retry \/ MoveOn \/ Expire
    PROVE  IInv'
<1>1. TypeOK /\ Shape(session) /\ StepsSound /\ ReceiptsEarned /\ outbox \in Entry
    BY DEF IInv, StepsSound, TypeOK, Entry
<1>2. UNCHANGED <<session, step, loop, history, faults>> /\ public \subseteq public'
    BY DEF Retry, MoveOn, Expire, history
<1>3. StepsSound'
    BY <1>1, <1>2, StepsStand
<1>4. CASE Retry
  <2>1. /\ outbox' \in {Sent(outbox), Cleared(outbox)} /\ late' = late
        /\ public' = public \cup {outbox.operation}
      BY <1>4 DEF Retry
  <2>2. outbox' \in Entry /\ outbox'.operation = outbox.operation
      BY <1>1, <2>1, SentIsEntry
  <2>3. public' \subseteq Operation \cup {"inbox", "create", "other"}
      BY <1>1, <2>1 DEF TypeOK, Entry
  <2>4. TypeOK' /\ ReceiptsEarned'
      BY <1>1, <1>2, <2>1, <2>2, <2>3 DEF TypeOK, Entry, ReceiptsEarned, ReceiptsAreTrue, history
  <2> QED BY <1>1, <1>2, <1>3, <2>4 DEF IInv, StepsSound
<1>5. CASE MoveOn
  <2>1. TypeOK' /\ ReceiptsEarned'
      BY <1>1, <1>2, <1>5 DEF MoveOn, TypeOK, Operation, Status, ReceiptsEarned, ReceiptsAreTrue, history
  <2> QED BY <1>1, <1>2, <1>3, <2>1 DEF IInv, StepsSound
<1>6. CASE Expire
  <2>1. TypeOK' /\ ReceiptsEarned'
      BY <1>1, <1>2, <1>6 DEF Expire, TypeOK, ReceiptsEarned, ReceiptsAreTrue, history
  <2> QED BY <1>1, <1>2, <1>3, <2>1 DEF IInv, StepsSound
<1> QED BY <1>4, <1>5, <1>6

(***************************************************************************)
(* Theorems.                                                               *)
(***************************************************************************)
THEOREM InductiveInvariant == Spec => []IInv
<1>1. IInv /\ [Next]_vars => IInv'
  <2> SUFFICES ASSUME IInv, [Next]_vars PROVE IInv'
      OBVIOUS
  <2>1. ASSUME NEW p \in Pages, SettlementStep(p) \/ Fail(p) \/ Close(p) PROVE IInv'
      BY <2>1, BeginIsSound, PerformIsSound, FinishIsSound, EndingIsSound DEF SettlementStep
  <2>2. ASSUME NEW p \in Pages, NEW a \in Announced, LoopStep(p, a) PROVE IInv'
      BY <2>2, LoopStepIsSound
  <2>3. CASE Retry \/ MoveOn \/ Expire
      BY <2>3, AroundIsSound
  <2>4. CASE UNCHANGED vars
      BY <2>4 DEF vars, history, IInv, TypeOK, OneStep, StillPlanned, ResultFits, Idle,
         ReceiptsEarned, ReceiptsAreTrue
  <2> QED BY <2>1, <2>2, <2>3, <2>4 DEF Next
<1> QED BY <1>1, InitIsSound, PTL DEF Spec

\* Every variable keeps its type, whatever pages and loops do.
THEOREM TypeCorrect == Spec => []TypeOK
<1>1. IInv => TypeOK
    BY DEF IInv
<1> QED BY <1>1, InductiveInvariant, PTL

\* A receipt is in the session only when relays acknowledged the artifact.
THEOREM ReceiptsTrue == Spec => []ReceiptsAreTrue
<1>1. IInv => ReceiptsAreTrue
    BY DEF IInv, ReceiptsEarned
<1> QED BY <1>1, InductiveInvariant, PTL

\* The checks of advanceOnce before its save never refuse a result: whatever
\* announcements and other pages saved since, the step is still the plan's.
THEOREM ResultsWelcome == Spec => []ResultsAreWelcome
<1>1. IInv => ResultsAreWelcome
    BY ResultIsWelcome DEF ResultsAreWelcome
<1> QED BY <1>1, InductiveInvariant, PTL

(***************************************************************************)
(* The session changes as SessionRecord says.                              *)
(***************************************************************************)
LEMMA BeginMapped ==
    ASSUME IInv, NEW p \in Pages, Begin(p)
    PROVE  [Record!Next]_(Record!vars)
<1> DEFINE action == Plan(session, late)
<1>1. session \in Session /\ late \in BOOLEAN /\ Shape(session)
    BY DEF IInv, TypeOK
<1>2. CASE action \notin Local
    BY <1>2 DEF Begin, Record!vars
<1>3. CASE action = "stage_inbox_registration"
  <2>1. /\ session.inbox = "unregistered" /\ session' = [session EXCEPT !.inbox = "staged"]
      BY <1>1, <1>3, PlanAtPosition DEF Begin, Local, LocalResult
  <2> QED BY <1>1, <2>1 DEF Session, Record!Next, Record!StageInbox
<1>4. CASE action = "enter_recovery"
  <2>1. /\ session.progress \in {"proposed", "reserved"}
        /\ session' = [session EXCEPT !.progress = "frozen"]
      BY <1>1, <1>4, PlanAtPosition DEF Begin, Local, LocalResult
  <2> QED BY <1>1, <2>1 DEF Session, Record!Next, Record!Settle
<1>5. CASE action = "complete_settlement"
  <2>1. /\ session.progress = "filling"
        /\ session' = [session EXCEPT !.progress = "filled"]
      BY <1>1, <1>5, PlanAtPosition DEF Begin, Local, LocalResult
  <2> QED BY <1>1, <2>1 DEF Session, Record!Next, Record!Settle
<1>6. CASE action = "clear_cashu_operation"
  <2>1. /\ session.progress \in {"refunded", "released"}
        /\ session' = [session EXCEPT !.progress =
                           IF session.progress = "released" THEN "closed" ELSE "cleared"]
      BY <1>1, <1>6, PlanAtPosition DEF Begin, Local, LocalResult
  <2> QED BY <1>1, <2>1 DEF Session, Record!Next, Record!Settle
<1> QED BY <1>2, <1>3, <1>4, <1>5, <1>6 DEF Local

LEMMA FinishMapped ==
    ASSUME IInv, NEW p \in Pages, Finish(p)
    PROVE  [Record!Next]_(Record!vars)
<1> DEFINE w == step[p]
           m == MergedOf(p)
<1>1. /\ Shape(session) /\ StillPlanned(p) /\ ResultFits(p) /\ w.pc = "save" /\ Welcome(p)
      /\ session \in Session /\ w.late \in BOOLEAN
    BY ResultIsWelcome DEF IInv, Finish, TypeOK, Step
<1>2. session' = m
    BY <1>1 DEF Finish, MergedOf
<1>3. /\ m \in Session /\ m.progress = Reached[w.action] /\ m.inbox = session.inbox
      /\ m.publication = IF w.action \in MintSteps THEN session.publication
                         ELSE w.result.publication
      /\ w.action \in DOMAIN StagedBy => session.publication.operation # StagedBy[w.action]
    BY <1>1, MergeMovesOn
<1>4. w.action \in DOMAIN Reached /\ Plan(session, w.late) = w.action
    BY <1>1 DEF ResultFits, StillPlanned, Idle
<1>5. CASE w.action \in {"lock", "settle", "refund"}
  <2>1. /\ session.progress = IF w.action = "lock" THEN "reserved" ELSE "locked"
        /\ m.progress = CASE w.action = "lock" -> "locked"
                          [] w.action = "settle" -> "paid"
                          [] w.action = "refund" -> "refunded"
        /\ m.publication = session.publication
      BY <1>1, <1>3, <1>4, <1>5, PlanAtPosition DEF Reached, MintSteps
  <2> QED BY <1>2, <1>3, <1>5, <2>1 DEF Record!Next, Record!Settle
<1>6. CASE w.action \in DOMAIN StagedBy
  <2>1. /\ m.publication.operation = StagedBy[w.action]
        /\ session.publication.operation # StagedBy[w.action]
      BY <1>1, <1>3, <1>6 DEF ResultFits, MintSteps, StagedBy
  <2>2. <<session.progress, m.progress, m.publication.operation>> \in
            {<<"proposed", "reserved", "reserve">>, <<"paid", "filling", "fill">>,
             <<"refunded", "refunded", "release">>}
      BY <1>1, <1>3, <1>4, <1>6, <2>1, PlanAtPosition DEF Reached, StagedBy
  <2> QED BY <1>2, <1>3, <2>1, <2>2 DEF Record!Next, Record!StageOrder
<1>7. CASE w.action \in Releasing
  <2>1. /\ session.progress = "refunded" /\ session.publication.operation = "release"
        /\ session.publication.status # "committed"
        /\ m.progress = "released"
        /\ m.publication = [operation |-> "release", status |-> "committed"]
      BY <1>1, <1>3, <1>4, <1>7, PlanAtPosition
         DEF ResultFits, Reached, MintSteps, Releasing
  <2> QED BY <1>2, <1>3, <2>1 DEF Record!Next, Record!OrderReceipt
<1> QED BY <1>4, <1>5, <1>6, <1>7 DEF Reached, StagedBy, Releasing

LEMMA SaveReceiptMapped ==
    ASSUME IInv, NEW p \in Pages, NEW a \in Announced, SaveReceipt(p, a)
    PROVE  [Record!Next]_(Record!vars)
<1>1. session \in Session /\ session' = WithReceipt(session, a)
    BY DEF IInv, TypeOK, SaveReceipt
<1>2. CASE ~Pending(session, a)
    BY <1>1, <1>2 DEF WithReceipt, Record!vars
<1>3. CASE Pending(session, a) /\ a = "inbox"
  <2>1. session.inbox = "staged" /\ session' = [session EXCEPT !.inbox = "registered"]
      BY <1>1, <1>3 DEF WithReceipt, Pending
  <2> QED BY <1>1, <2>1 DEF Session, Record!Next, Record!InboxReceipt
<1>4. CASE Pending(session, a) /\ a \in {"reserve", "fill"}
  <2>1. /\ session.publication.operation = a /\ session.publication.status # "committed"
        /\ session' = [session EXCEPT !.publication.status = "committed"]
      BY <1>1, <1>4 DEF WithReceipt, Pending
  <2>2. /\ session'.progress = session.progress /\ session'.inbox = session.inbox
        /\ session'.publication = [operation |-> a, status |-> "committed"]
      BY <1>1, <1>4, <2>1 DEF Session, Publication, NoPublication
  <2> QED BY <1>4, <2>1, <2>2 DEF Record!Next, Record!OrderReceipt
<1> QED BY <1>2, <1>3, <1>4 DEF Announced

\* The stored session is the record SessionRecord describes: settlement and
\* receipts both move forward, and neither save takes back the other's.
THEOREM RecordImplemented == Spec => ImplementsSessionRecord
<1>1. Init => Record!Init
    BY DEF Init, NewSession, NoPublication, Record!Init
<1>2. IInv /\ [Next]_vars => [Record!Next]_(Record!vars)
  <2> SUFFICES ASSUME IInv, [Next]_vars PROVE [Record!Next]_(Record!vars)
      OBVIOUS
  <2>1. CASE session' = session
      BY <2>1 DEF Record!vars
  <2>2. CASE \E p \in Pages : Begin(p)
      BY <2>2, BeginMapped
  <2>3. CASE \E p \in Pages : Finish(p)
      BY <2>3, FinishMapped
  <2>4. CASE \E p \in Pages, a \in Announced : SaveReceipt(p, a)
      BY <2>4, SaveReceiptMapped
  <2> QED BY <2>1, <2>2, <2>3, <2>4 DEF Next, SettlementStep, Perform, PerformAtMint,
      PerformStaging, PerformRelease, Refuse, Fail, Close, LoopStep, Turn, Answered,
      AnnounceInbox, Announce, Unanswered, Retry, MoveOn, Expire, vars
<1> QED BY <1>1, <1>2, InductiveInvariant, PTL DEF Spec, ImplementsSessionRecord, Record!Spec

(***************************************************************************)
(* No effect is performed again unless a call failed or a page was closed. *)
(***************************************************************************)

\* How many effects a session has saved before it performs this one ...
EffectRank ==
    [stage_order_reserve |-> 1, lock |-> 2, settle |-> 3, refund |-> 3,
     stage_order_fill |-> 4, stage_order_release |-> 4,
     publish_order_projection |-> 5, commit_order_publication |-> 5]

\* ... and how many it has saved in a position (5: it performs no more).
Stage(s) ==
    CASE s.progress = "proposed" -> 0
      [] s.progress = "reserved" -> 1
      [] s.progress = "locked" -> 2
      [] s.progress = "paid" -> 3
      [] s.progress = "filling" -> 4
      [] s.progress = "refunded" -> IF s.publication.operation = "release" THEN 4 ELSE 3
      [] OTHER -> 5

\* An effect that was performed already is planned again.
AtRisk ==
    \/ \E p \in Pages : step[p].pc = "perform" /\ step[p].action \in performed
    \/ (\A p \in Pages : Idle(p)) /\ Plan(session, late) \in performed

\* What was performed is behind the session, or is its next effect, whose result
\* is still to be saved or was lost with a fault.
Effort ==
    /\ \A a \in performed : a \in DOMAIN EffectRank /\ EffectRank[a] <= Stage(session) + 1
    /\ session.inbox = "unregistered" => session.progress = "proposed" /\ performed = {}
    /\ "refund" \in performed => late
    /\ \A p \in Pages : step[p].late => late
    /\ repeated <= faults
    /\ AtRisk => repeated < faults

\* Where each position stands.
LEMMA StageOf ==
    ASSUME NEW s \in Session
    PROVE  /\ Stage(s) \in 0 .. 5
           /\ s.progress = "proposed" => Stage(s) = 0
           /\ s.progress = "reserved" => Stage(s) = 1
           /\ s.progress = "locked" => Stage(s) = 2
           /\ s.progress = "paid" => Stage(s) = 3
           /\ s.progress = "filling" => Stage(s) = 4
           /\ s.progress = "refunded" =>
                  Stage(s) = IF s.publication.operation = "release" THEN 4 ELSE 3
           /\ s.progress \in {"filled", "released", "closed", "cleared", "frozen"} => Stage(s) = 5
<1>1. s.progress \in Progress BY DEF Session
<1> QED BY <1>1 DEF Stage, Progress

\* The plan names the effect that comes next.
LEMMA PlanIsNext ==
    ASSUME NEW s \in Session, NEW l \in BOOLEAN, Shape(s), Plan(s, l) \in DOMAIN EffectRank
    PROVE  EffectRank[Plan(s, l)] = Stage(s) + 1
<1> DEFINE a == Plan(s, l)
<1>1. a \in {"stage_order_reserve", "lock", "settle", "refund", "stage_order_fill",
             "stage_order_release"} \cup Releasing
  BY DEF EffectRank, Releasing
<1>2. /\ a = "stage_order_reserve" => s.progress = "proposed"
      /\ a = "stage_order_fill" => s.progress = "paid"
      /\ a = "stage_order_release" => s.progress = "refunded" /\ s.publication.operation = "reserve"
      /\ a = "lock" => s.progress = "reserved"
      /\ a \in {"settle", "refund"} => s.progress = "locked"
      /\ a \in Releasing => s.progress = "refunded" /\ s.publication.operation = "release"
  BY PlanAtPosition
<1> HIDE DEF a
<1>3. EffectRank[a] = Stage(s) + 1
  BY <1>1, <1>2, StageOf DEF EffectRank, Releasing
<1> QED BY <1>3 DEF a

\* What the cutoff changes: where nothing is locked there is nothing to perform
\* any more, and a lock is refunded instead of settled.
LEMMA PlanWhenLate ==
    ASSUME NEW s \in Session
    PROVE  /\ Plan(s, FALSE) # "refund"
           /\ \/ Plan(s, TRUE) = Plan(s, FALSE)
              \/ Plan(s, TRUE) = "enter_recovery"
              \/ Plan(s, TRUE) = "refund" /\ Plan(s, FALSE) = "settle"
           /\ s.inbox = "unregistered" /\ s.progress = "proposed" /\ Shape(s) =>
                  \A l \in BOOLEAN : Plan(s, l) = "stage_inbox_registration"
<1>1. s.progress \in Progress BY DEF Session
<1>2. CashuDue(s) \in {Pass, "stage_order_release", "clear_cashu_operation"} BY DEF CashuDue
<1>3. PublicationDue(s) \in {Pass, "publish_order_projection", "commit_order_publication"}
  BY DEF PublicationDue
<1>4. InboxDue(s) \in {Pass, "stage_inbox_registration"} BY DEF InboxDue
<1>5. /\ SettlementDue(s, FALSE) # "refund"
      /\ \/ SettlementDue(s, TRUE) = SettlementDue(s, FALSE)
         \/ SettlementDue(s, TRUE) = "enter_recovery"
         \/ SettlementDue(s, TRUE) = "refund" /\ SettlementDue(s, FALSE) = "settle"
  BY <1>1 DEF SettlementDue, Progress
<1>6. Plan(s, FALSE) # "refund" BY <1>2, <1>3, <1>4, <1>5 DEF Plan, ??
<1>7. \/ Plan(s, TRUE) = Plan(s, FALSE)
      \/ Plan(s, TRUE) = "enter_recovery"
      \/ Plan(s, TRUE) = "refund" /\ Plan(s, FALSE) = "settle"
  BY <1>5 DEF Plan, ??
<1>8. ASSUME s.inbox = "unregistered", s.progress = "proposed", Shape(s), NEW l \in BOOLEAN
      PROVE  Plan(s, l) = "stage_inbox_registration"
  <2>1. CashuDue(s) = Pass BY <1>8 DEF CashuDue
  <2>2. PublicationDue(s) = Pass BY <1>8 DEF PublicationDue, Shape, NoPublication
  <2>3. InboxDue(s) = "stage_inbox_registration" BY <1>8 DEF InboxDue
  <2> QED BY <2>1, <2>2, <2>3 DEF Plan, ??
<1> QED BY <1>6, <1>7, <1>8

\* Nothing is performed at first.
LEMMA EffortInit == Init => Effort
BY DEF Init, Effort, AtRisk, NoStep, NewSession, NoPublication

\* A step that changes neither plans nor effects.
LEMMA EffortStands ==
    ASSUME Effort, UNCHANGED <<session, step, late, performed, repeated, faults>>
    PROVE  Effort'
BY DEF Effort, AtRisk, Idle

\* A fault pays for what may be performed again.
LEMMA FaultPays ==
    ASSUME IInv, Effort, NEW p \in Pages, Fail(p) \/ Close(p)
    PROVE  Effort'
<1>1. /\ EndStep(p) /\ faults' = faults + 1 /\ faults \in Nat /\ repeated \in Nat
      /\ UNCHANGED <<session, late, performed, repeated>>
  BY FaultAssumption DEF Fail, Close, Fault, history, IInv, TypeOK
<1>2. \A q \in Pages : step'[q] \in {step[q], NoStep}
  BY <1>1 DEF EndStep, IInv, TypeOK
<1>3. \A q \in Pages : step'[q].late => late BY <1>2 DEF Effort, NoStep
<1> QED BY <1>1, <1>3 DEF Effort

\* A step that is refused is refused again, or is not planned any more.
LEMMA RefusalRisksNothing ==
    ASSUME IInv, Effort, NEW p \in Pages, Refuse(p)
    PROVE  Effort'
<1> DEFINE w == step[p]
<1>1. /\ EndStep(p) /\ w.pc = "perform"
      /\ UNCHANGED <<session, late, performed, repeated, faults>>
      /\ w.action # "settle"
  BY DEF Refuse, history, StagedBy
<1>2. \A q \in Pages : step'[q] = IF q = p THEN NoStep ELSE step[q]
  BY <1>1 DEF EndStep, IInv, TypeOK
<1>3. /\ session \in Session /\ late \in BOOLEAN /\ w.late \in BOOLEAN
      /\ Plan(session, w.late) = w.action
  BY <1>1 DEF IInv, TypeOK, Step, StillPlanned, Idle
<1>4. w.late => late BY DEF Effort
<1>5. Plan(session, late) \in {w.action, "enter_recovery"}
  BY <1>1, <1>3, <1>4, PlanWhenLate
<1>6. "enter_recovery" \notin performed BY DEF Effort, EffectRank
<1>7. AtRisk' => AtRisk
  <2>1. CASE \E q \in Pages : step'[q].pc = "perform" /\ step'[q].action \in performed'
    BY <1>1, <1>2, <2>1 DEF AtRisk, NoStep
  <2>2. CASE Plan(session', late') \in performed'
    BY <1>1, <1>5, <1>6, <2>2 DEF AtRisk
  <2> QED BY <2>1, <2>2 DEF AtRisk
<1>8. \A q \in Pages : step'[q].late => late BY <1>2 DEF Effort, NoStep
<1> QED BY <1>1, <1>7, <1>8 DEF Effort

\* An effect is performed once for each time it is at risk.
LEMMA PerformedOnce ==
    ASSUME IInv, Effort, NEW p \in Pages, Perform(p)
    PROVE  Effort'
<1> DEFINE w == step[p]
<1>1. /\ w.pc = "perform" /\ UNCHANGED <<session, late, faults>>
      /\ w.action \in DOMAIN EffectRank
      /\ performed' = performed \cup {w.action}
      /\ repeated' = IF w.action \in performed THEN repeated + 1 ELSE repeated
      /\ \E r : step' = [step EXCEPT ![p].pc = "save", ![p].result = r]
  BY DEF Perform, PerformAtMint, PerformStaging, PerformRelease, Performed, MintSteps, StagedBy,
     EffectRank
<1>2. /\ session \in Session /\ late \in BOOLEAN /\ w.late \in BOOLEAN /\ Shape(session)
      /\ Plan(session, w.late) = w.action /\ repeated \in Nat /\ faults \in Nat
      /\ step \in [Pages -> Step]
  BY <1>1, FaultAssumption DEF IInv, TypeOK, Step, StillPlanned, Idle
<1>3. \A q \in Pages : /\ step'[q].late = step[q].late
                       /\ q = p => step'[q].pc = "save"
                       /\ q # p => step'[q] = step[q] /\ Idle(q)
  BY <1>1, <1>2 DEF Step, IInv, OneStep, Idle
<1>4. EffectRank[w.action] = Stage(session) + 1 BY <1>1, <1>2, PlanIsNext
<1>5. \A a \in performed' : a \in DOMAIN EffectRank /\ EffectRank[a] <= Stage(session') + 1
  <2>1. Stage(session) \in Nat BY <1>2, StageOf
  <2> QED BY <1>1, <1>4, <2>1 DEF Effort
<1>6. session.inbox # "unregistered"
  BY <1>1, <1>2, PlanWhenLate DEF Effort, EffectRank
<1>7. "refund" \in performed' => late'
  BY <1>1, <1>2, PlanWhenLate DEF Effort
<1>8. repeated' <= faults'
  <2>1. w.action \in performed => AtRisk BY <1>1 DEF AtRisk
  <2> QED BY <1>1, <1>2, <2>1 DEF Effort
<1>9. ~AtRisk' BY <1>3 DEF AtRisk, Idle
<1>10. \A q \in Pages : step'[q].late => late' BY <1>1, <1>3 DEF Effort
<1> QED BY <1>1, <1>5, <1>6, <1>7, <1>8, <1>9, <1>10 DEF Effort

\* A plan that begins changes nothing, or moves to a position without effects.
LEMMA BeginRisksNothing ==
    ASSUME IInv, Effort, NEW p \in Pages, Begin(p)
    PROVE  Effort'
<1> DEFINE action == Plan(session, late)
<1>1. /\ session \in Session /\ late \in BOOLEAN /\ Shape(session)
      /\ UNCHANGED <<late, performed, repeated, faults>> /\ \A q \in Pages : Idle(q)
  BY DEF IInv, TypeOK, Begin, StepFree, history
<1>2. CASE action \notin Local
  <2>1. session' = session BY <1>2 DEF Begin
  <2>2. \A q \in Pages : \/ step'[q] = step[q]
                         \/ q = p /\ step'[q].action = action /\ step'[q].late = late
    BY DEF Begin, IInv, TypeOK, NoStep
  <2>3. AtRisk' => AtRisk
    <3>1. CASE \E q \in Pages : step'[q].pc = "perform" /\ step'[q].action \in performed'
      BY <1>1, <2>2, <3>1 DEF AtRisk, Idle
    <3>2. CASE Plan(session', late') \in performed'
      BY <1>1, <2>1, <3>2 DEF AtRisk
    <3> QED BY <3>1, <3>2 DEF AtRisk
  <2>4. \A q \in Pages : step'[q].late => late' BY <1>1, <2>2 DEF Effort
  <2> QED BY <1>1, <2>1, <2>3, <2>4 DEF Effort
<1>3. CASE action \in Local
  <2>1. session' = LocalResult(session, action) /\ step' = step
    BY <1>3 DEF Begin, Local, External, StagedBy
  <2>2. session' \in Session /\ Shape(session')
    BY BeginIsSound DEF IInv, TypeOK
  <2>3. CASE action = "stage_inbox_registration"
    <3>1. /\ session.inbox = "unregistered" BY <1>1, <2>3, PlanAtPosition
    <3>2. performed = {} BY <3>1 DEF Effort
    <3>3. session'.inbox = "staged" BY <1>1, <2>1, <2>3 DEF LocalResult, Session
    <3>4. ~AtRisk' BY <1>1, <3>2 DEF AtRisk
    <3> QED BY <1>1, <2>1, <3>2, <3>3, <3>4 DEF Effort
  <2>4. CASE action # "stage_inbox_registration"
    <3>1. session.inbox # "unregistered"
      BY <1>1, <2>4, PlanWhenLate DEF Effort
    <3>2. /\ session'.progress \in {"filled", "closed", "cleared", "frozen"}
          /\ session'.inbox = session.inbox
      BY <1>1, <1>3, <2>1, <2>4 DEF LocalResult, Session, Local
    <3>3. Stage(session') = 5 BY <2>2, <3>2, StageOf
    <3>4. \A a \in DOMAIN EffectRank : EffectRank[a] \in 1 .. 5 BY DEF EffectRank
    <3>5. Plan(session', late') \notin DOMAIN EffectRank
      BY <1>1, <2>2, <3>3, <3>4, PlanIsNext
    <3>6. ~AtRisk' BY <1>1, <2>1, <3>5 DEF AtRisk, Idle, Effort
    <3> QED BY <1>1, <2>1, <3>1, <3>2, <3>3, <3>4, <3>6 DEF Effort
  <2> QED BY <2>3, <2>4
<1> QED BY <1>2, <1>3

\* A result that is saved leaves what was performed behind.
LEMMA FinishRisksNothing ==
    ASSUME IInv, Effort, NEW p \in Pages, Finish(p)
    PROVE  Effort'
<1> DEFINE w == step[p]
<1>1. /\ w.pc = "save" /\ EndStep(p) /\ session' = MergedOf(p)
      /\ UNCHANGED <<late, performed, repeated, faults>>
  BY ResultIsWelcome DEF Finish, MergedOf, history
<1>2. /\ session \in Session /\ late \in BOOLEAN /\ w.late \in BOOLEAN /\ Shape(session)
      /\ Plan(session, w.late) = w.action /\ ResultFits(p)
  BY <1>1 DEF IInv, TypeOK, Step, StillPlanned, Idle
<1>3. session' \in Session /\ Shape(session') BY FinishIsSound DEF IInv, TypeOK
<1>4. /\ session'.progress = Reached[w.action] /\ session'.inbox = session.inbox
      /\ session'.publication = IF w.action \in MintSteps THEN session.publication
                                ELSE w.result.publication
  BY <1>1, MergeMovesOn
<1>5. w.action \in DOMAIN Reached /\ DOMAIN Reached = DOMAIN EffectRank
  BY <1>1, <1>2 DEF ResultFits, Reached, EffectRank
<1>6. EffectRank[w.action] = Stage(session) + 1 BY <1>2, <1>5, PlanIsNext
<1>7. Stage(session') = EffectRank[w.action]
  <2>1. CASE w.action \in MintSteps
    <3>1. w.action = "refund" => session.publication.operation = "reserve"
      BY <1>2, PlanAtPosition DEF Shape
    <3> QED BY <1>3, <1>4, <2>1, <3>1, StageOf DEF Reached, EffectRank, MintSteps
  <2>2. CASE w.action \in DOMAIN StagedBy
    BY <1>1, <1>2, <1>3, <1>4, <2>2, StageOf
       DEF ResultFits, Reached, EffectRank, MintSteps, StagedBy
  <2>3. CASE w.action \in Releasing
    BY <1>3, <1>4, <2>3, StageOf DEF Reached, EffectRank, Releasing
  <2> QED BY <1>5, <2>1, <2>2, <2>3 DEF Reached, MintSteps, StagedBy, Releasing
<1>8. Stage(session) \in Nat /\ Stage(session') \in Nat BY <1>2, <1>3, StageOf
<1>9. \A a \in performed : /\ a \in DOMAIN EffectRank
                           /\ EffectRank[a] <= Stage(session')
                           /\ EffectRank[a] \in Nat
  BY <1>6, <1>7, <1>8 DEF Effort, EffectRank
<1>10. Plan(session', late) \notin performed
  <2> SUFFICES ASSUME Plan(session', late) \in performed PROVE FALSE OBVIOUS
  <2>1. EffectRank[Plan(session', late)] = Stage(session') + 1
    BY <1>2, <1>3, <1>9, PlanIsNext
  <2> QED BY <1>8, <1>9, <2>1
<1>11. \A q \in Pages : step'[q] = NoStep \/ (step'[q] = step[q] /\ step[q].pc = "idle")
  BY <1>1 DEF EndStep, IInv, TypeOK, OneStep, Idle
<1>12. ~AtRisk' BY <1>1, <1>10, <1>11 DEF AtRisk, NoStep
<1>13. \A q \in Pages : step'[q].late => late' BY <1>1, <1>11 DEF Effort, NoStep
<1>14. session.inbox # "unregistered"
  BY <1>2, <1>5, PlanWhenLate DEF Effort, EffectRank
<1> QED BY <1>1, <1>4, <1>8, <1>9, <1>12, <1>13, <1>14 DEF Effort

\* Receipts change no plan.
LEMMA ReceiptRisksNothing ==
    ASSUME IInv, Effort, NEW p \in Pages, NEW a \in Announced, SaveReceipt(p, a)
    PROVE  Effort'
<1>1. /\ session \in Session /\ late \in BOOLEAN /\ session' = WithReceipt(session, a)
      /\ UNCHANGED <<step, late, performed, repeated, faults>>
  BY DEF IInv, TypeOK, SaveReceipt, history
<1>2. Plan(session', late) = Plan(session, late) /\ session' \in Session
  BY <1>1, PlanIgnoresReceipts
<1>3. /\ session'.progress = session.progress
      /\ session'.publication.operation = session.publication.operation
      /\ session'.inbox = "unregistered" => session.inbox = "unregistered"
  BY <1>1 DEF WithReceipt, Pending, Session, Publication, NoPublication
<1>4. Stage(session') = Stage(session) BY <1>3 DEF Stage
<1>5. AtRisk' => AtRisk BY <1>1, <1>2 DEF AtRisk, Idle
<1> QED BY <1>1, <1>3, <1>4, <1>5 DEF Effort

\* The cutoff plans nothing that was performed.
LEMMA ExpiryRisksNothing ==
    ASSUME IInv, Effort, Expire
    PROVE  Effort'
<1>1. /\ session \in Session /\ late = FALSE /\ late' = TRUE
      /\ UNCHANGED <<session, step, performed, repeated, faults>>
  BY DEF IInv, TypeOK, Expire, history
<1>2. "enter_recovery" \notin performed /\ "refund" \notin performed
  BY <1>1 DEF Effort, EffectRank
<1>3. Plan(session, TRUE) \in performed => Plan(session, FALSE) \in performed
  BY <1>1, <1>2, PlanWhenLate
<1>4. AtRisk' => AtRisk BY <1>1, <1>3 DEF AtRisk, Idle
<1> QED BY <1>1, <1>4 DEF Effort

\* An effect is performed again only when a call failed or a page was closed,
\* and at most once for each, however many pages drive the session.
THEOREM EffectsNotRepeated == Spec => []EffectsAreNotRepeated
<1>1. IInv /\ Effort /\ [Next]_vars => Effort'
  <2> SUFFICES ASSUME IInv, Effort, [Next]_vars PROVE Effort'
    OBVIOUS
  <2>1. ASSUME NEW p \in Pages, SettlementStep(p) \/ Fail(p) \/ Close(p) PROVE Effort'
    BY <2>1, BeginRisksNothing, PerformedOnce, RefusalRisksNothing, FinishRisksNothing, FaultPays
       DEF SettlementStep
  <2>2. ASSUME NEW p \in Pages, NEW a \in Announced, LoopStep(p, a) PROVE Effort'
    <3>1. CASE SaveReceipt(p, a) BY <3>1, ReceiptRisksNothing
    <3>2. CASE ~SaveReceipt(p, a)
      BY <2>2, <3>2, EffortStands
         DEF LoopStep, Turn, Answered, AnnounceInbox, Announce, Unanswered, history
    <3> QED BY <3>1, <3>2
  <2>3. CASE Retry \/ MoveOn \/ UNCHANGED vars
    BY <2>3, EffortStands DEF Retry, MoveOn, vars, history
  <2>4. CASE Expire BY <2>4, ExpiryRisksNothing
  <2> QED BY <2>1, <2>2, <2>3, <2>4 DEF Next
<1>2. Effort => EffectsAreNotRepeated BY DEF Effort, EffectsAreNotRepeated
<1> QED BY <1>1, <1>2, EffortInit, InductiveInvariant, PTL DEF Spec

================================================================================
