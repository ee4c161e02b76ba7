-------------------------- MODULE OrderPublication --------------------------
(***************************************************************************)
(* One maker's order as it is published: the durable outbox entry that     *)
(* holds its latest signed projection (storage/order-outbox.ts), the calls *)
(* of the order API that stage a successor or publish the entry            *)
(* (api/order-api.ts), the position check before a publication             *)
(* (order/service.ts), and the public relays, which keep the newest        *)
(* timestamp of an addressable event.                                      *)
(*                                                                         *)
(* A call runs in a tab.  The successor queue serialises staging within a  *)
(* tab and nothing across tabs; network I/O never holds that queue, so a   *)
(* publication works on the entry it read while a successor is staged.     *)
(***************************************************************************)
EXTENDS Integers, FiniteSets

CONSTANTS
    Callers,              \* concurrent calls of the order API
    Tabs,                 \* open pages of the maker's profile
    TabOf,                \* the page each call runs in
    Relays,               \* configured public relays
    ReservationIds,       \* reservation IDs the takers' proposals carry
    OrderAmount,          \* original amount of the order
    MinimumFill,          \* minimum_fill_amount
    ReservationExpiresAt, \* expiry every reservation asks for
    OrderExpiresAt,       \* expiry of the order
    MaxTime,              \* bound of the clock
    MaxRevision,          \* bound of the revisions staged
    MaxRestarts,          \* bound of page restarts
    NoProjection, NoReservation, NoEntry, NoCall

ASSUME TabAssumption == TabOf \in [Callers -> Tabs]
ASSUME AmountAssumption ==
    /\ OrderAmount \in Nat \ {0}
    /\ MinimumFill \in 1 .. OrderAmount
ASSUME TimeAssumption ==
    /\ MaxTime \in Nat /\ MaxRevision \in Nat /\ MaxRestarts \in Nat
    /\ OrderExpiresAt \in Nat \ {0}
    /\ ReservationExpiresAt \in 1 .. OrderExpiresAt

VARIABLES
    clock,     \* wall clock of the maker's machine
    key,       \* whether the order's Nostr key is stored
    outbox,    \* the order's entry of the durable outbox
    got,       \* got[r]: every projection that reached relay r
    call,      \* call[c]: what call c has read and where it stands
    restarts

vars == <<clock, key, outbox, got, call, restarts>>

(***************************************************************************)
(* Data.                                                                   *)
(***************************************************************************)
Statuses == {"open", "reserved", "partially_filled", "filled", "canceled", "expired"}
Terminal == {"filled", "canceled", "expired"}
Reservation == [id : ReservationIds, amount : 1 .. OrderAmount]

Projection ==
    [rev : 0 .. MaxRevision, status : Statuses, remaining : 0 .. OrderAmount,
     reservation : Reservation \cup {NoReservation}, at : Nat]

\* What a caller asks for; two calls are compatible when it is the same.
Request ==
    [op : {"create", "reserve", "fill", "release", "cancel", "expire"},
     base : Projection \cup {NoProjection},
     reservation : Reservation \cup {NoReservation},
     reason : {"none", "expired", "abort"}]

ASSUME AbsentAssumption ==
    NoProjection \notin Projection /\ NoReservation \notin Reservation

Entry == [request : Request, proj : Projection, acks : SUBSET Relays, committed : BOOLEAN]

ASSUME NoEntryAssumption == NoEntry \notin Entry

Staged(e) == ~e.committed /\ e.acks = {}
Acknowledged(e) == ~e.committed /\ e.acks # {}

\* The newest timestamp wins at a relay.
Heads(r) == {p \in got[r] : \A q \in got[r] : q.at <= p.at}
Public == UNION {got[r] : r \in Relays}

\* replaceableOrder: the greatest revision, then the greatest timestamp.
Selected(P) ==
    CHOOSE p \in P : \A q \in P : q.rev < p.rev \/ (q.rev = p.rev /\ q.at <= p.at)

\* Mutant: the timestamp is the clock's alone.
ClockOnly(a, b) == a

Later(a, b) == IF a > b THEN a ELSE b

(***************************************************************************)
(* The state machine of an order (order/model.ts): when an operation is    *)
(* allowed on a projection, and the projection it leads to.                *)
(***************************************************************************)
FillShape(remaining, amount) ==
    /\ amount <= remaining
    /\ amount >= MinimumFill \/ amount = remaining
    /\ remaining - amount >= MinimumFill \/ amount = remaining

MayReserve(p, q, at) ==
    /\ p.status \notin Terminal
    /\ p.reservation = NoReservation
    /\ at < ReservationExpiresAt
    /\ FillShape(p.remaining, q.reservation.amount)
Live(p) == p.status = "reserved" /\ p.reservation # NoReservation
MayFill(p, q) ==
    /\ Live(p) /\ p.reservation = q.reservation
    /\ FillShape(p.remaining, q.reservation.amount)
MayRelease(p, q, at) ==
    /\ Live(p) /\ p.reservation = q.reservation
    /\ q.reason = "expired" => at >= ReservationExpiresAt
MayCancel(p) == p.status \notin Terminal /\ p.reservation = NoReservation
MayExpire(p, at) ==
    p.status \notin Terminal /\ p.reservation = NoReservation /\ at >= OrderExpiresAt

Allowed(p, q, at) ==
    CASE q.op = "reserve" -> MayReserve(p, q, at)
      [] q.op = "fill"    -> MayFill(p, q)
      [] q.op = "release" -> MayRelease(p, q, at)
      [] q.op = "cancel"  -> MayCancel(p)
      [] q.op = "expire"  -> MayExpire(p, at)
      [] OTHER -> FALSE

Released(p) ==
    [p EXCEPT !.reservation = NoReservation,
              !.status = IF p.remaining = OrderAmount THEN "open" ELSE "partially_filled"]

Successor(p, q, at) ==
    LET next == [p EXCEPT !.rev = p.rev + 1, !.at = at]
    IN CASE q.op = "reserve" -> [next EXCEPT !.status = "reserved", !.reservation = q.reservation]
         [] q.op = "fill" ->
              LET left == p.remaining - q.reservation.amount
              IN [next EXCEPT !.remaining = left, !.reservation = NoReservation,
                              !.status = IF left = 0 THEN "filled" ELSE "partially_filled"]
         [] q.op = "release" -> Released(next)
         [] q.op = "cancel" -> [next EXCEPT !.status = "canceled"]
         [] OTHER -> [next EXCEPT !.status = "expired"]

Created(at) ==
    [rev |-> 0, status |-> "open", remaining |-> OrderAmount,
     reservation |-> NoReservation, at |-> at]

\* Requests name a projection the caller has seen: the local head or a public one.
Ask(op, p, r, why) == [op |-> op, base |-> p, reservation |-> r, reason |-> why]
Requests ==
    LET bases == Public \cup {outbox.proj}
        reserved == {p \in bases : p.reservation # NoReservation}
    IN {Ask(op, p, NoReservation, "none") : op \in {"cancel", "expire"}, p \in bases}
       \cup {Ask("reserve", p, r, "none") : p \in bases, r \in Reservation}
       \cup {Ask("fill", p, p.reservation, "none") : p \in reserved}
       \cup {Ask("release", p, p.reservation, why) : p \in reserved, why \in {"expired", "abort"}}

(***************************************************************************)
(* Where a call stands.  A publication carries the entry it read.          *)
(***************************************************************************)
Idle == [pc |-> "idle", request |-> NoCall, entry |-> NoEntry]
Loading(q) == [pc |-> "load", request |-> q, entry |-> NoEntry]
Signing(e) == [pc |-> "stage", request |-> NoCall, entry |-> e]
Publishing(pc, e) == [pc |-> pc, request |-> NoCall, entry |-> e]
Destroying == [pc |-> "destroy", request |-> NoCall, entry |-> NoEntry]

Goto(c, state) == call' = [call EXCEPT ![c] = state]

Init ==
    /\ clock = 0
    /\ key = FALSE
    /\ outbox = NoEntry
    /\ got = [r \in Relays |-> {}]
    /\ call = [c \in Callers |-> Idle]
    /\ restarts = 0

(***************************************************************************)
(* Staging.                                                                *)
(***************************************************************************)

\* publishOrder: a fresh key and order ID, staged under the outbox lock.
Create(c) ==
    /\ call[c].pc = "idle" /\ outbox = NoEntry
    /\ key' = TRUE
    /\ outbox' = [request |-> Ask("create", NoProjection, NoReservation, "none"),
                  proj |-> Created(clock), acks |-> {}, committed |-> FALSE]
    /\ UNCHANGED <<clock, got, call, restarts>>

\* Mutant: staging calls of a page are not serialised.
NoQueue(c) == TRUE

\* serializeSuccessor: one staging call at a time in a page.
QueueFree(c) == \A d \in Callers :
    d # c /\ TabOf[d] = TabOf[c] => call[d].pc \notin {"load", "stage"}

\* A staged reserve may be overtaken by its own fill or release.
Overtakes(q, e) ==
    /\ e.request.op = "reserve"
    /\ q.op \in {"fill", "release"}
    /\ q.base = e.proj

\* existingCompatible.  An acknowledged create is committed on the way; the
\* same request returns the entry; a conflict fails the call.
StageCheck(c) == \E q \in (IF outbox = NoEntry THEN {} ELSE Requests) :
    LET e == IF Acknowledged(outbox) /\ outbox.request.op = "create"
             THEN [outbox EXCEPT !.committed = TRUE] ELSE outbox
    IN /\ call[c].pc = "idle" /\ QueueFree(c)
       /\ q.base.rev < MaxRevision
       /\ outbox' = e
       /\ Goto(c, IF e.request # q /\ (e.committed \/ Overtakes(q, e))
                  THEN Loading(q) ELSE Idle)
       /\ UNCHANGED <<clock, key, got, restarts>>

\* Mutant: the binding is not compared with the local head.
StageLoadAnyBase(c) ==
    LET q == call[c].request
        at == Later(clock, q.base.at + 1)
        ok == /\ key
              /\ outbox.committed \/ outbox.request.op = "reserve"
              /\ Allowed(q.base, q, at)
    IN /\ call[c].pc = "load"
       /\ Goto(c, IF ok
                  THEN Signing([request |-> q, proj |-> Successor(q.base, q, at),
                                acks |-> {}, committed |-> FALSE])
                  ELSE Idle)
       /\ UNCHANGED <<clock, key, outbox, got, restarts>>

\* loadMakerProjection: the binding must name the durable local head, the
\* order's key must still exist and nothing but a reserve may be pending.
StageLoad(c) ==
    LET q == call[c].request
        at == Later(clock, q.base.at + 1)
        ok == /\ outbox.proj = q.base
              /\ key
              /\ outbox.committed \/ outbox.request.op = "reserve"
              /\ Allowed(q.base, q, at)
    IN /\ call[c].pc = "load"
       /\ Goto(c, IF ok
                  THEN Signing([request |-> q, proj |-> Successor(q.base, q, at),
                                acks |-> {}, committed |-> FALSE])
                  ELSE Idle)
       /\ UNCHANGED <<clock, key, outbox, got, restarts>>

\* ensureStaged: under the lock shared by all pages, sign and write unless the
\* entry found there is the same intent or stands in the way.  A committed
\* entry never stands in the way.
SameIntent(e, f) == e.request = f.request /\ e.proj = f.proj

MayReplace(e) ==
    /\ ~SameIntent(e, outbox)
    /\ \/ outbox.committed
       \/ /\ Overtakes(e.request, outbox)
          /\ e.proj.rev = outbox.proj.rev + 1
          /\ e.proj.at > outbox.proj.at

StageWrite(c) ==
    LET e == call[c].entry
    IN /\ call[c].pc = "stage"
       /\ outbox' = IF MayReplace(e) /\ key THEN e ELSE outbox
       /\ Goto(c, Idle)
       /\ UNCHANGED <<clock, key, got, restarts>>

(***************************************************************************)
(* Publication.                                                            *)
(***************************************************************************)

\* publishNextStage reads the entry; an acknowledged one is not sent again.
PublishRead(c) ==
    /\ call[c].pc = "idle"
    /\ outbox # NoEntry
    /\ ~outbox.committed
    /\ Goto(c, Publishing(IF Staged(outbox) THEN "position" ELSE "record", outbox))
    /\ UNCHANGED <<clock, key, outbox, got, restarts>>

\* Mutant: the public head must be the direct predecessor.
OutOfSequence(head, e) == head # e.proj /\ head.rev + 1 # e.proj.rev

\* assertPublishPosition: whether the public head a query finds rules out e.
OutOfPosition(head, e) ==
    /\ head # e.proj
    /\ \/ e.request.base # NoProjection
          /\ head.rev = e.request.base.rev /\ head # e.request.base
       \/ head.rev >= e.proj.rev
       \/ head.at >= e.proj.at

\* The query unites what the relays that answered serve.  (The head the
\* service remembers from an earlier query is one more answer; every property
\* below holds of any public projection an answer may contain.)
Answer(A) == UNION {Heads(r) : r \in A}

PublishPosition(c) == \E A \in SUBSET Relays :
    LET e == call[c].entry
        found == Answer(A)
        stale == found # {} /\ OutOfPosition(Selected(found), e)
    IN /\ call[c].pc = "position"
       /\ Goto(c, IF stale THEN Idle ELSE Publishing("send", e))
       /\ UNCHANGED <<clock, key, outbox, got, restarts>>

\* The relays in A receive the event; those in R of them acknowledge in time.
PublishSend(c, A, R) ==
    LET e == call[c].entry
    IN /\ call[c].pc = "send"
       /\ R \subseteq A
       /\ got' = [r \in Relays |-> IF r \in A THEN got[r] \cup {e.proj} ELSE got[r]]
       /\ Goto(c, Publishing("record", [e EXCEPT !.acks = @ \cup R]))
       /\ UNCHANGED <<clock, key, outbox, restarts>>

\* Mutant: receipts are merged into whatever the order's entry is.
RecordedAlways(e) == [outbox EXCEPT !.acks = @ \cup e.acks, !.committed = FALSE]

\* recordProgress under the outbox lock: a delayed acknowledgement leaves a
\* newer head alone and is merged into the same one.  A merge sets the status
\* from the receipts, whatever it was.
Recorded(e) ==
    IF e.proj # outbox.proj /\ outbox.proj.rev > e.proj.rev
    THEN outbox
    ELSE [outbox EXCEPT !.acks = @ \cup e.acks, !.committed = FALSE]

\* Mutant: a terminal order loses its key whether a relay acknowledged or not.
PublishRecordAndForget(c) ==
    LET e == call[c].entry
        newer == e.proj # outbox.proj /\ outbox.proj.rev > e.proj.rev
        saved == Recorded(e)
    IN /\ call[c].pc = "record"
       /\ IF newer \/ SameIntent(e, outbox)
          THEN /\ outbox' = saved
               /\ Goto(c, IF saved.proj.status \in Terminal THEN Destroying ELSE Idle)
          ELSE UNCHANGED outbox /\ Goto(c, Idle)
       /\ UNCHANGED <<clock, key, got, restarts>>

PublishRecord(c) ==
    LET e == call[c].entry
        newer == e.proj # outbox.proj /\ outbox.proj.rev > e.proj.rev
        saved == Recorded(e)
    IN /\ call[c].pc = "record"
       /\ IF newer \/ SameIntent(e, outbox)
          THEN /\ outbox' = saved
               /\ Goto(c, IF Acknowledged(saved) /\ saved.proj.status \in Terminal
                          THEN Destroying ELSE Idle)
          ELSE UNCHANGED outbox /\ Goto(c, Idle)
       /\ UNCHANGED <<clock, key, got, restarts>>

\* clearAcknowledgedOrderPublication: the local commit.  A call that published
\* a create makes it under a lock of its own, as the retry button and the
\* coordinator do for any acknowledged entry.
Clear(c) ==
    /\ call[c].pc = "idle"
    /\ outbox # NoEntry
    /\ outbox.committed \/ Acknowledged(outbox)
    /\ outbox' = [outbox EXCEPT !.committed = TRUE]
    /\ Goto(c, IF outbox.proj.status \in Terminal THEN Destroying ELSE Idle)
    /\ UNCHANGED <<clock, key, got, restarts>>

\* The key of a terminal order is erased.
Destroy(c) ==
    /\ call[c].pc = "destroy"
    /\ key' = FALSE
    /\ Goto(c, Idle)
    /\ UNCHANGED <<clock, outbox, got, restarts>>

(***************************************************************************)
(* The clock and restarts.                                                 *)
(***************************************************************************)

Tick ==
    /\ clock < MaxTime
    /\ clock' = clock + 1
    /\ UNCHANGED <<key, outbox, got, call, restarts>>

\* A page dies with its calls; the outbox stays.
Restart(t) ==
    /\ restarts < MaxRestarts
    /\ restarts' = restarts + 1
    /\ call' = [c \in Callers |-> IF TabOf[c] = t THEN Idle ELSE call[c]]
    /\ UNCHANGED <<clock, key, outbox, got>>

Stage(c) == Create(c) \/ StageCheck(c) \/ StageLoad(c) \/ StageWrite(c)
SomeSend(c) == \E A, R \in SUBSET Relays : PublishSend(c, A, R)
Publish(c) == PublishRead(c) \/ PublishPosition(c) \/ SomeSend(c) \/ PublishRecord(c)

Next ==
    \/ \E c \in Callers : Stage(c) \/ Publish(c) \/ Clear(c) \/ Destroy(c)
    \/ \E t \in Tabs : Restart(t)
    \/ Tick

Spec == Init /\ [][Next]_vars

\* A pending entry is retried, by the announcement loop or the retry button,
\* and a relay that is asked again and again acknowledges in the end.
AckedSend(c) == \E A \in SUBSET Relays : PublishSend(c, A, Relays)
Retrying ==
    \A c \in Callers :
        /\ WF_vars(StageLoad(c)) /\ WF_vars(StageWrite(c)) /\ WF_vars(Destroy(c))
        /\ SF_vars(PublishRead(c)) /\ WF_vars(PublishPosition(c))
        /\ WF_vars(SomeSend(c)) /\ SF_vars(AckedSend(c)) /\ WF_vars(PublishRecord(c))
RetriedSpec == Spec /\ Retrying

(***************************************************************************)
(* Properties.                                                             *)
(***************************************************************************)
TypeOK ==
    /\ clock \in 0 .. MaxTime
    /\ key \in BOOLEAN
    /\ outbox = NoEntry \/ outbox \in Entry
    /\ got \in [Relays -> SUBSET Projection]
    /\ \A c \in Callers :
        /\ call[c].pc \in {"idle", "load", "stage", "position", "send", "record", "destroy"}
        /\ call[c].entry = NoEntry \/ call[c].entry \in Entry
        /\ call[c].request = NoCall \/ call[c].request \in Request
    /\ restarts \in 0 .. MaxRestarts

\* No two different signed projections of the order with one revision ever
\* reach the relays: a taker who binds to a revision binds to one state.
OneProjectionPerRevision ==
    \A p, q \in Public : p.rev = q.rev => p = q

\* The durable head is replaced by its own direct successor only: no staging
\* call built on an older head overwrites a newer one (ensureStaged).
HeadAdvances ==
    [][outbox # NoEntry /\ outbox'.proj # outbox.proj =>
        /\ outbox'.request.base = outbox.proj
        /\ outbox'.proj.rev = outbox.proj.rev + 1]_vars

\* Whatever overlaps, is retried or delayed, the durable head is one order that is
\* sold in parts: each revision is made from the one before by an operation that is
\* allowed on it, and no part is sold that was not held.
Life == INSTANCE OrderLife WITH
    Amount <- OrderAmount,
    Minimum <- MinimumFill,
    Reservation <- Reservation,
    None <- NoReservation,
    status <- IF outbox = NoEntry THEN "private" ELSE outbox.proj.status,
    revision <- IF outbox = NoEntry THEN 0 ELSE outbox.proj.rev,
    left <- IF outbox = NoEntry THEN OrderAmount ELSE outbox.proj.remaining,
    held <- IF outbox = NoEntry THEN NoReservation ELSE outbox.proj.reservation
ImplementsOrderLife == Life!Spec

\* A receipt the outbox holds is of the projection it holds: an answer to an
\* older publication is never counted for the successor (recordProgress).
ReceiptsAreOfTheHead ==
    outbox # NoEntry => \A r \in outbox.acks : outbox.proj \in got[r]

\* Whatever is public when an entry is staged, nothing rules out publishing
\* it: a pending entry is never stuck behind the order's own projections.
StagedHeadIsPublishable ==
    outbox # NoEntry /\ Staged(outbox) =>
        \A p \in Public : ~OutOfPosition(p, outbox)

\* Relays keep the newest timestamp and readers the greatest revision; the
\* two never disagree, in whatever order delayed publications arrive.
NewestIsGreatest ==
    \A r \in Relays : \A h \in Heads(r), p \in got[r] : p.rev <= h.rev

\* The order's key is erased only once its terminal projection was received.
KeyOutlivesTheOrder ==
    outbox # NoEntry /\ ~key =>
        outbox.proj.status \in Terminal /\ outbox.proj \in Public

\* A pending projection is acknowledged in the end, or overtaken.
PublicationCompletes ==
    (outbox # NoEntry /\ Staged(outbox)) ~> (outbox # NoEntry /\ ~Staged(outbox))

=============================================================================
