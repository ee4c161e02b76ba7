----------------------- MODULE OrderPublication_proofs -----------------------
(***************************************************************************)
(* Proofs about OrderPublication, for any number of concurrent calls and   *)
(* relays: the typing of every variable, and, when the calls share a page, *)
(* that the projections anyone holds are totally ordered and the head      *)
(* implements OrderLife.                                                   *)
(***************************************************************************)
EXTENDS OrderPublication, Integers, TLAPS

(***************************************************************************)
(* Types.                                                                  *)
(***************************************************************************)
Sending == {"position", "send", "record"}
InQueue == {"load", "stage"}

\* A reserved projection carries its reservation, which fits the remainder.
WellFormed(p) ==
    /\ p.status = "reserved" <=> p.reservation # NoReservation
    /\ p.status = "reserved" => p.reservation.amount <= p.remaining

Wanted(q) ==
    /\ q \in Request
    /\ q.op # "create"
    /\ q.base \in Projection
    /\ q.base.rev < MaxRevision
    /\ q.op = "reserve" => q.reservation \in Reservation

CallType(c) ==
    /\ call[c].pc \in {"idle", "load", "stage", "position", "send", "record", "destroy"}
    /\ call[c].entry = NoEntry \/ call[c].entry \in Entry
    /\ call[c].request = NoCall \/ call[c].request \in Request
    /\ call[c].pc # "idle" => outbox # NoEntry
    /\ call[c].pc = "load" => Wanted(call[c].request)
    /\ call[c].pc = "stage" => call[c].entry \in Entry /\ WellFormed(call[c].entry.proj)
    /\ call[c].pc \in Sending => call[c].entry \in Entry

StoreType ==
    /\ clock \in 0 .. MaxTime
    /\ key \in BOOLEAN
    /\ outbox = NoEntry \/ outbox \in Entry
    /\ outbox # NoEntry => WellFormed(outbox.proj)
    /\ got \in [Relays -> SUBSET Projection]
    /\ restarts \in 0 .. MaxRestarts

TypeInv ==
    /\ StoreType
    /\ DOMAIN call = Callers
    /\ call = [c \in Callers |-> call[c]]
    /\ \A c \in Callers : CallType(c)

(***************************************************************************)
(* Order: the projections that are public, staged or in the hands of a     *)
(* publishing call, and the one the staged head replaced.                  *)
(***************************************************************************)
SentBy(c) == IF call[c].pc \in Sending THEN {call[c].entry.proj} ELSE {}
HeadAndBase ==
    IF outbox = NoEntry THEN {} ELSE {outbox.proj} \cup ({outbox.request.base} \ {NoProjection})
Known == Public \cup HeadAndBase \cup UNION {SentBy(c) : c \in Callers}

Before(p, q) == p.rev < q.rev /\ p.at < q.at
Chain == \A p, q \in Known : p = q \/ Before(p, q) \/ Before(q, p)
HeadIsLast == outbox # NoEntry => \A p \in Known : p = outbox.proj \/ Before(p, outbox.proj)
NothingYet == outbox = NoEntry => Public = {}

\* A staging call extends the head it will find, and is alone in its page.
Extends(e) ==
    /\ e.request.base = outbox.proj
    /\ e.proj.rev = outbox.proj.rev + 1
    /\ e.proj.at > outbox.proj.at
    /\ e.acks = {} /\ ~e.committed
    /\ outbox.proj.status \notin Terminal
StagingExtends == \A c \in Callers : call[c].pc = "stage" => Extends(call[c].entry)
QueueOfOne ==
    \A c, d \in Callers : call[c].pc \in InQueue /\ call[d].pc \in InQueue => c = d

\* Receipts are real, a commit has one, and only a finished order loses its key.
Received(e) == \A r \in e.acks : e.proj \in got[r]
ReceiptsReal ==
    /\ outbox # NoEntry => Received(outbox) /\ (outbox.committed => outbox.acks # {})
    /\ \A c \in Callers : call[c].pc \in Sending => Received(call[c].entry)
Finished == outbox # NoEntry /\ outbox.proj.status \in Terminal /\ outbox.acks # {}
KeyGoesLast ==
    /\ outbox # NoEntry /\ ~key => Finished
    /\ \A c \in Callers : call[c].pc = "destroy" => Finished

OrderInv ==
    /\ NothingYet /\ Chain /\ HeadIsLast
    /\ StagingExtends /\ QueueOfOne
    /\ ReceiptsReal /\ KeyGoesLast

(***************************************************************************)
(* Type correctness.                                                       *)
(***************************************************************************)

\* Every operation the order model allows leads to a well-formed projection,
\* one revision further, and never starts from a terminal one.
LEMMA SuccessorType ==
    ASSUME NEW p \in Projection, p.rev < MaxRevision, WellFormed(p),
           NEW q \in Request, q.op = "reserve" => q.reservation \in Reservation,
           NEW at \in Nat, Allowed(p, q, at)
    PROVE  /\ Successor(p, q, at) \in Projection
           /\ WellFormed(Successor(p, q, at))
           /\ Successor(p, q, at).rev = p.rev + 1
           /\ Successor(p, q, at).at = at
           /\ p.status \notin Terminal
<1> DEFINE Next5(st, rem, res) ==
      [rev |-> p.rev + 1, status |-> st, remaining |-> rem, reservation |-> res, at |-> at]
<1>1. ASSUME NEW st \in Statuses, NEW rem \in 0 .. OrderAmount,
             NEW res \in Reservation \cup {NoReservation}
      PROVE  Next5(st, rem, res) \in Projection
  BY TimeAssumption DEF Projection
<1>2. /\ p.status \in Statuses /\ p.remaining \in 0 .. OrderAmount
      /\ p.reservation \in Reservation \cup {NoReservation}
      /\ NoReservation \notin Reservation
  BY AbsentAssumption DEF Projection
<1>3. p = [rev |-> p.rev, status |-> p.status, remaining |-> p.remaining,
           reservation |-> p.reservation, at |-> p.at]
  BY DEF Projection
<1>4. q.op \in {"reserve", "fill", "release", "cancel", "expire"}
  BY DEF Allowed, Request
<1>5. CASE q.op = "reserve"
  <2>1. MayReserve(p, q, at)
    BY <1>5 DEF Allowed
  <2>2. Successor(p, q, at) = Next5("reserved", p.remaining, q.reservation)
    BY <1>3, <1>5 DEF Successor
  <2>3. q.reservation \in Reservation /\ q.reservation.amount <= p.remaining
    BY <1>5, <2>1 DEF MayReserve, FillShape
  <2>4. Successor(p, q, at) \in Projection
    BY <1>1, <1>2, <2>2, <2>3 DEF Statuses
  <2> QED BY <1>2, <2>1, <2>2, <2>3, <2>4 DEF MayReserve, WellFormed
<1>6. CASE q.op = "fill"
  <2>1. Live(p) /\ p.reservation = q.reservation
    BY <1>6 DEF Allowed, MayFill
  <2> DEFINE left == p.remaining - q.reservation.amount
             st == IF left = 0 THEN "filled" ELSE "partially_filled"
  <2>2. Successor(p, q, at) = Next5(st, left, NoReservation)
    BY <1>3, <1>6 DEF Successor
  <2>3. left \in 0 .. OrderAmount
    BY <1>2, <2>1, AmountAssumption DEF Live, WellFormed, Reservation
  <2>4. st \in Statuses /\ st # "reserved"
    BY DEF Statuses
  <2>5. Successor(p, q, at) \in Projection
    BY <1>1, <2>2, <2>3, <2>4
  <2> QED BY <2>1, <2>2, <2>4, <2>5 DEF Live, Terminal, WellFormed
<1>7. CASE q.op = "release"
  <2>1. Live(p)
    BY <1>7 DEF Allowed, MayRelease
  <2> DEFINE st == IF p.remaining = OrderAmount THEN "open" ELSE "partially_filled"
  <2>2. Successor(p, q, at) = Next5(st, p.remaining, NoReservation)
    BY <1>3, <1>7 DEF Successor, Released
  <2>3. st \in Statuses /\ st # "reserved"
    BY DEF Statuses
  <2>4. Successor(p, q, at) \in Projection
    BY <1>1, <1>2, <2>2, <2>3
  <2> QED BY <2>1, <2>2, <2>3, <2>4 DEF Live, Terminal, WellFormed
<1>8. CASE q.op \in {"cancel", "expire"}
  <2>1. p.status \notin Terminal /\ p.reservation = NoReservation
    BY <1>8 DEF Allowed, MayCancel, MayExpire
  <2> DEFINE st == IF q.op = "cancel" THEN "canceled" ELSE "expired"
  <2>2. Successor(p, q, at) = Next5(st, p.remaining, NoReservation)
    BY <1>3, <1>8, <2>1 DEF Successor
  <2>3. st \in Statuses /\ st # "reserved"
    BY DEF Statuses
  <2>4. Successor(p, q, at) \in Projection
    BY <1>1, <1>2, <2>2, <2>3
  <2> QED BY <2>1, <2>2, <2>3, <2>4 DEF WellFormed
<1> QED BY <1>4, <1>5, <1>6, <1>7, <1>8

\* The requests of the model are requests of the API on known projections.
LEMMA RequestsWanted ==
    ASSUME StoreType, outbox # NoEntry,
           NEW q \in Requests, q.base.rev < MaxRevision
    PROVE  Wanted(q)
<1>1. \A p \in Public \cup {outbox.proj} : p \in Projection
  BY DEF Public, StoreType, Entry
<1> DEFINE bases == Public \cup {outbox.proj}
<1>2. PICK p \in bases :
        \/ \E op \in {"cancel", "expire"} : q = Ask(op, p, NoReservation, "none")
        \/ \E r \in Reservation : q = Ask("reserve", p, r, "none")
        \/ q = Ask("fill", p, p.reservation, "none")
        \/ \E why \in {"expired", "abort"} : q = Ask("release", p, p.reservation, why)
  BY DEF Requests
<1>3. p \in Projection /\ p.reservation \in Reservation \cup {NoReservation}
  BY <1>1 DEF Projection
<1> QED BY <1>2, <1>3 DEF Ask, Wanted, Request

\* What one call does leaves the typing of the others alone.
LEMMA OneCallMoves ==
    ASSUME TypeInv, StoreType', NEW c \in Callers, NEW state, Goto(c, state),
           outbox # NoEntry => outbox' # NoEntry,
           CallType(c)'
    PROVE  TypeInv'
<1>1. call' = [call EXCEPT ![c] = state] /\ call = [d \in Callers |-> call[d]]
  BY DEF Goto, TypeInv
<1>2. call' = [d \in Callers |-> IF d = c THEN state ELSE call[d]]
  BY <1>1
<1>3. DOMAIN call' = Callers /\ call' = [d \in Callers |-> call'[d]]
  BY <1>2
<1>4. ASSUME NEW d \in Callers, d # c PROVE CallType(d)'
  <2>1. call'[d] = call[d]
    BY <1>2, <1>4
  <2>2. CallType(d)
    BY DEF TypeInv
  <2> QED BY <2>1, <2>2 DEF CallType
<1> QED BY <1>3, <1>4 DEF TypeInv

LEMMA MovedCall ==
    ASSUME TypeInv, NEW c \in Callers, NEW state, Goto(c, state)
    PROVE  call'[c] = state
BY DEF TypeInv, Goto

LEMMA TypeInit == Init => TypeInv
<1> SUFFICES ASSUME Init PROVE TypeInv
  OBVIOUS
<1>1. StoreType
  <2>1. clock \in 0 .. MaxTime /\ restarts \in 0 .. MaxRestarts
    BY TimeAssumption DEF Init
  <2>2. got \in [Relays -> SUBSET Projection]
    BY DEF Init
  <2> QED BY <2>1, <2>2 DEF Init, StoreType
<1>2. DOMAIN call = Callers /\ call = [c \in Callers |-> call[c]]
  BY DEF Init
<1>3. ASSUME NEW c \in Callers PROVE CallType(c)
  <2>1. call[c] = Idle
    BY DEF Init
  <2> QED BY <2>1 DEF CallType, Idle, Sending
<1> QED BY <1>1, <1>2, <1>3 DEF TypeInv

LEMMA TypeStep == TypeInv /\ [Next]_vars => TypeInv'
<1> SUFFICES ASSUME TypeInv, [Next]_vars PROVE TypeInv'
  OBVIOUS
<1> USE NoEntryAssumption, TimeAssumption
<1>0. StoreType
  BY DEF TypeInv
<1>1. ASSUME NEW c \in Callers, Create(c) PROVE TypeInv'
  <2>1. outbox' \in Entry /\ WellFormed(outbox'.proj)
    <3>1. Created(clock) \in Projection /\ WellFormed(Created(clock))
      BY <1>0, AmountAssumption, AbsentAssumption
      DEF StoreType, Created, Projection, WellFormed, Statuses
    <3>2. Ask("create", NoProjection, NoReservation, "none") \in Request
      BY DEF Ask, Request
    <3> QED BY <1>1, <3>1, <3>2 DEF Create, Entry
  <2>2. StoreType'
    BY <1>0, <1>1, <2>1 DEF Create, StoreType
  <2>3. ASSUME NEW d \in Callers PROVE CallType(d)'
    BY <1>1, <2>1 DEF Create, TypeInv, CallType
  <2> QED BY <1>1, <2>2, <2>3 DEF Create, TypeInv
<1>2. ASSUME NEW c \in Callers, StageCheck(c) PROVE TypeInv'
  <2>1. outbox # NoEntry
    BY <1>2 DEF StageCheck
  <2>2. PICK q \in Requests :
          LET e == IF Acknowledged(outbox) /\ outbox.request.op = "create"
                   THEN [outbox EXCEPT !.committed = TRUE] ELSE outbox
          IN /\ q.base.rev < MaxRevision
             /\ outbox' = e
             /\ Goto(c, IF e.request # q /\ (e.committed \/ Overtakes(q, e))
                        THEN Loading(q) ELSE Idle)
             /\ UNCHANGED <<clock, key, got, restarts>>
    BY <1>2, <2>1 DEF StageCheck
  <2>3. outbox' \in Entry /\ outbox'.proj = outbox.proj /\ outbox' # NoEntry
    BY <1>0, <2>1, <2>2 DEF StoreType, Entry
  <2>4. StoreType'
    BY <1>0, <2>1, <2>2, <2>3 DEF StoreType
  <2>5. Wanted(q)
    BY <1>0, <2>1, <2>2, RequestsWanted
  <2>6. PICK state \in {Loading(q), Idle} : Goto(c, state)
    BY <2>2
  <2>7. call'[c] = state
    BY <2>6, MovedCall
  <2>8. CallType(c)'
    BY <2>3, <2>5, <2>7 DEF CallType, Loading, Idle, Wanted, Sending
  <2> QED BY <2>3, <2>4, <2>6, <2>8, OneCallMoves
<1>3. ASSUME NEW c \in Callers, StageLoad(c) PROVE TypeInv'
  <2> DEFINE q == call[c].request
             at == Later(clock, q.base.at + 1)
             e == [request |-> q, proj |-> Successor(q.base, q, at),
                   acks |-> {}, committed |-> FALSE]
             ok == /\ outbox.proj = q.base
                   /\ key
                   /\ outbox.committed \/ outbox.request.op = "reserve"
                   /\ Allowed(q.base, q, at)
  <2>1. CallType(c) /\ call[c].pc = "load" /\ outbox # NoEntry /\ Wanted(q)
    BY <1>3 DEF StageLoad, TypeInv, CallType
  <2>2. Goto(c, IF ok THEN Signing(e) ELSE Idle) /\ UNCHANGED <<clock, key, outbox, got, restarts>>
    BY <1>3 DEF StageLoad
  <2>3. ok => e \in Entry /\ WellFormed(e.proj)
    <3>1. at \in Nat
      BY <1>0, <2>1 DEF StoreType, Wanted, Projection, Later
    <3>2. ok => WellFormed(q.base)
      BY <1>0, <2>1 DEF StoreType
    <3>3. ok => Successor(q.base, q, at) \in Projection /\ WellFormed(Successor(q.base, q, at))
      BY <2>1, <3>1, <3>2, SuccessorType DEF Wanted
    <3> HIDE DEF ok, at
    <3> QED BY <2>1, <3>3 DEF Wanted, Entry
  <2> HIDE DEF ok, e
  <2>4. StoreType'
    BY <1>0, <2>2 DEF StoreType
  <2>5. CallType(c)'
    <3>1. call'[c] = IF ok THEN Signing(e) ELSE Idle
      BY <2>2, MovedCall
    <3> QED BY <2>1, <2>2, <2>3, <3>1 DEF CallType, Signing, Idle, Sending
  <2> QED BY <2>1, <2>2, <2>4, <2>5, OneCallMoves
<1>4. ASSUME NEW c \in Callers, StageWrite(c) PROVE TypeInv'
  <2>1. CallType(c) /\ call[c].pc = "stage" /\ outbox # NoEntry
        /\ call[c].entry \in Entry /\ WellFormed(call[c].entry.proj)
    BY <1>4 DEF StageWrite, TypeInv, CallType
  <2>2. outbox' \in {call[c].entry, outbox} /\ Goto(c, Idle)
        /\ UNCHANGED <<clock, key, got, restarts>>
    BY <1>4 DEF StageWrite
  <2>3. StoreType' /\ outbox' # NoEntry
    BY <1>0, <2>1, <2>2 DEF StoreType
  <2>4. CallType(c)'
    <3>1. call'[c] = Idle
      BY <2>2, MovedCall
    <3> QED BY <3>1 DEF CallType, Idle, Sending
  <2> QED BY <2>2, <2>3, <2>4, OneCallMoves
<1>5. ASSUME NEW c \in Callers, PublishRead(c) PROVE TypeInv'
  <2>1. outbox \in Entry /\ UNCHANGED <<clock, key, outbox, got, restarts>>
    BY <1>0, <1>5 DEF PublishRead, StoreType
  <2>2. PICK pc \in {"position", "record"} : Goto(c, Publishing(pc, outbox))
    BY <1>5 DEF PublishRead
  <2>3. CallType(c)'
    <3>1. call'[c] = Publishing(pc, outbox)
      BY <2>2, MovedCall
    <3> QED BY <2>1, <3>1 DEF CallType, Publishing, Sending
  <2>4. StoreType'
    BY <1>0, <2>1 DEF StoreType
  <2> QED BY <2>1, <2>2, <2>3, <2>4, OneCallMoves
<1>6. ASSUME NEW c \in Callers, PublishPosition(c) PROVE TypeInv'
  <2>1. call[c].pc = "position" /\ call[c].entry \in Entry /\ outbox # NoEntry
    BY <1>6 DEF PublishPosition, TypeInv, CallType, Sending
  <2>2. PICK state \in {Idle, Publishing("send", call[c].entry)} :
          Goto(c, state) /\ UNCHANGED <<clock, key, outbox, got, restarts>>
    BY <1>6 DEF PublishPosition
  <2>3. CallType(c)'
    <3>1. call'[c] = state
      BY <2>2, MovedCall
    <3> QED BY <2>1, <2>2, <3>1 DEF CallType, Publishing, Idle, Sending
  <2>4. StoreType'
    BY <1>0, <2>2 DEF StoreType
  <2> QED BY <2>2, <2>3, <2>4, OneCallMoves
<1>7. ASSUME NEW c \in Callers, NEW A \in SUBSET Relays, NEW R \in SUBSET Relays, PublishSend(c, A, R)
      PROVE  TypeInv'
  <2> DEFINE e == call[c].entry
             sent == [e EXCEPT !.acks = @ \cup R]
  <2>1. call[c].pc = "send" /\ e \in Entry /\ outbox # NoEntry
    BY <1>7 DEF PublishSend, TypeInv, CallType, Sending
  <2>2. sent \in Entry
    BY <2>1 DEF Entry
  <2>3. /\ got' = [r \in Relays |-> IF r \in A THEN got[r] \cup {e.proj} ELSE got[r]]
        /\ Goto(c, Publishing("record", sent)) /\ UNCHANGED <<clock, key, outbox, restarts>>
    BY <1>7 DEF PublishSend
  <2>4. StoreType'
    BY <1>0, <2>1, <2>3 DEF StoreType, Entry
  <2>5. CallType(c)'
    <3>1. call'[c] = Publishing("record", sent)
      BY <2>3, MovedCall
    <3> HIDE DEF sent
    <3> QED BY <2>1, <2>2, <2>3, <3>1 DEF CallType, Publishing, Sending
  <2> HIDE DEF sent
  <2> QED BY <2>3, <2>4, <2>5, OneCallMoves
<1>8. ASSUME NEW c \in Callers, PublishRecord(c) PROVE TypeInv'
  <2>1. call[c].pc = "record" /\ call[c].entry \in Entry /\ outbox \in Entry
    BY <1>0, <1>8 DEF PublishRecord, TypeInv, CallType, Sending, StoreType
  <2>2. outbox' \in {outbox, Recorded(call[c].entry)} /\ UNCHANGED <<clock, key, got, restarts>>
    BY <1>8 DEF PublishRecord
  <2>3. outbox' \in Entry /\ outbox'.proj = outbox.proj
    <3>1. Recorded(call[c].entry) \in Entry BY <2>1 DEF Recorded, Entry
    <3>2. Recorded(call[c].entry).proj = outbox.proj BY <2>1, <2>2 DEF Recorded, Entry
    <3> QED BY <2>1, <2>2, <3>1, <3>2
  <2>4. StoreType' /\ outbox' # NoEntry
    BY <1>0, <2>1, <2>2, <2>3 DEF StoreType
  <2>5. PICK state \in {Idle, Destroying} : Goto(c, state)
    BY <1>8 DEF PublishRecord
  <2>6. CallType(c)'
    <3>1. call'[c] = state
      BY <2>5, MovedCall
    <3> QED BY <2>4, <2>5, <3>1 DEF CallType, Destroying, Idle, Sending
  <2> QED BY <2>4, <2>5, <2>6, OneCallMoves
<1>9. ASSUME NEW c \in Callers, Clear(c) PROVE TypeInv'
  <2>1. outbox \in Entry /\ outbox' = [outbox EXCEPT !.committed = TRUE]
        /\ UNCHANGED <<clock, key, got, restarts>>
    BY <1>0, <1>9 DEF Clear, StoreType
  <2>2. outbox' \in Entry /\ outbox'.proj = outbox.proj
    BY <2>1 DEF Entry
  <2>3. StoreType' /\ outbox' # NoEntry
    BY <1>0, <2>1, <2>2 DEF StoreType
  <2>4. PICK state \in {Idle, Destroying} : Goto(c, state)
    BY <1>9 DEF Clear
  <2>5. CallType(c)'
    <3>1. call'[c] = state
      BY <2>4, MovedCall
    <3> QED BY <2>3, <2>4, <3>1 DEF CallType, Destroying, Idle, Sending
  <2> QED BY <2>3, <2>4, <2>5, OneCallMoves
<1>10. ASSUME NEW c \in Callers, Destroy(c) PROVE TypeInv'
  <2>1. key' = FALSE /\ Goto(c, Idle) /\ UNCHANGED <<clock, outbox, got, restarts>>
    BY <1>10 DEF Destroy
  <2>2. StoreType'
    BY <1>0, <2>1 DEF StoreType
  <2>3. CallType(c)'
    <3>1. call'[c] = Idle
      BY <2>1, MovedCall
    <3> QED BY <3>1 DEF CallType, Idle, Sending
  <2> QED BY <2>1, <2>2, <2>3, OneCallMoves
<1>11. ASSUME NEW t \in Tabs, Restart(t) PROVE TypeInv'
  <2>1. StoreType'
    BY <1>0, <1>11 DEF Restart, StoreType
  <2>2. ASSUME NEW c \in Callers PROVE CallType(c)'
    <3>1. call'[c] = Idle \/ call'[c] = call[c]
      BY <1>11 DEF Restart
    <3>2. CallType(c)
      BY DEF TypeInv
    <3> QED BY <1>11, <3>1, <3>2 DEF Restart, CallType, Idle, Sending
  <2> QED BY <1>11, <2>1, <2>2 DEF Restart, TypeInv
<1>12. CASE Tick
  <2>1. StoreType'
    BY <1>0, <1>12 DEF Tick, StoreType
  <2> QED BY <1>12, <2>1 DEF Tick, TypeInv, CallType
<1>13. CASE UNCHANGED vars
  BY <1>13 DEF vars, TypeInv, StoreType, CallType, WellFormed, Wanted
<1> QED BY <1>1, <1>2, <1>3, <1>4, <1>5, <1>6, <1>7, <1>8, <1>9, <1>10, <1>11, <1>12, <1>13
        DEF Next, Stage, Publish, SomeSend

\* The clock, the key, the outbox, the relays and the calls keep their types.
THEOREM TypeCorrect == Spec => []TypeOK
<1>1. TypeInv => TypeOK
  BY DEF TypeInv, TypeOK, StoreType, CallType
<1> QED BY <1>1, TypeInit, TypeStep, PTL DEF Spec
(***************************************************************************)
(* Receipts, whatever pages the calls are in.                              *)
(***************************************************************************)

\* What a call staged has no receipt yet.
Unpublished(e) == e.acks = {} /\ ~e.committed
StagingUnpublished == \A c \in Callers : call[c].pc = "stage" => Unpublished(call[c].entry)

ReceiptInv == ReceiptsReal /\ StagingUnpublished

\* A call moves: what is left to show.
LEMMA ReceiptMove ==
    ASSUME TypeInv, ReceiptInv, NEW c \in Callers, NEW state, Goto(c, state),
           \A r \in Relays : got[r] \subseteq got'[r],
           outbox' # NoEntry => Received(outbox)' /\ (outbox'.committed => outbox'.acks # {}),
           state.pc = "stage" => Unpublished(state.entry),
           state.pc \in Sending => Received(state.entry)'
    PROVE  ReceiptInv'
<1>1. \A d \in Callers : call'[d] = IF d = c THEN state ELSE call[d]
  BY DEF TypeInv, Goto
<1>2. StagingUnpublished'
  BY <1>1 DEF ReceiptInv, StagingUnpublished, Unpublished
<1>3. ASSUME NEW d \in Callers, call'[d].pc \in Sending PROVE Received(call[d].entry)'
  <2>1. CASE d = c
    BY <1>1, <1>3, <2>1 DEF Received
  <2>2. CASE d # c
    <3>1. call[d].entry \in Entry /\ Received(call[d].entry) /\ call'[d] = call[d]
      BY <1>1, <1>3, <2>2 DEF ReceiptInv, ReceiptsReal, TypeInv, CallType
    <3> QED BY <3>1 DEF Received, Entry
  <2> QED BY <2>1, <2>2
<1> QED BY <1>2, <1>3 DEF ReceiptInv, ReceiptsReal

LEMMA ReceiptStep == TypeInv /\ TypeInv' /\ ReceiptInv /\ [Next]_vars => ReceiptInv'
<1> SUFFICES ASSUME TypeInv, TypeInv', ReceiptInv, [Next]_vars PROVE ReceiptInv'
  OBVIOUS
<1> USE NoEntryAssumption
<1>0. outbox # NoEntry =>
        outbox \in Entry /\ Received(outbox) /\ (outbox.committed => outbox.acks # {})
  BY DEF TypeInv, StoreType, ReceiptInv, ReceiptsReal
<1>1. ASSUME NEW c \in Callers, Create(c) PROVE ReceiptInv'
  BY <1>1 DEF Create, ReceiptInv, ReceiptsReal, StagingUnpublished, Received
<1>2. ASSUME NEW c \in Callers, StageCheck(c) PROVE ReceiptInv'
  <2>1. outbox # NoEntry /\ UNCHANGED got
    BY <1>2 DEF StageCheck
  <2>2. Received(outbox)' /\ (outbox'.committed => outbox'.acks # {})
    BY <1>0, <1>2, <2>1 DEF StageCheck, Acknowledged, Entry, Received
  <2>3. PICK q : \E state \in {Loading(q), Idle} : Goto(c, state)
    BY <1>2 DEF StageCheck
  <2>4. PICK state \in {Loading(q), Idle} : Goto(c, state)
    BY <2>3
  <2>5. state.pc \in {"load", "idle"}
    BY <2>4 DEF Loading, Idle
  <2> QED BY <2>1, <2>2, <2>4, <2>5, ReceiptMove DEF Sending
<1>3. ASSUME NEW c \in Callers, StageLoad(c) PROVE ReceiptInv'
  <2>1. UNCHANGED <<outbox, got>>
    BY <1>3 DEF StageLoad
  <2>2. PICK state : /\ Goto(c, state) /\ state.pc \in {"stage", "idle"}
                     /\ state.pc = "stage" => Unpublished(state.entry)
    BY <1>3 DEF StageLoad, Signing, Idle, Unpublished
  <2> QED BY <1>0, <2>1, <2>2, ReceiptMove DEF Sending, Received
<1>4. ASSUME NEW c \in Callers, StageWrite(c) PROVE ReceiptInv'
  <2>1. UNCHANGED got /\ Goto(c, Idle)
    BY <1>4 DEF StageWrite
  <2>2. \/ outbox' = outbox
        \/ outbox' = call[c].entry /\ Unpublished(call[c].entry)
    BY <1>4 DEF StageWrite, ReceiptInv, StagingUnpublished
  <2>3. outbox' # NoEntry => Received(outbox)' /\ (outbox'.committed => outbox'.acks # {})
    BY <1>0, <2>1, <2>2 DEF Received, Unpublished
  <2> QED BY <2>1, <2>3, ReceiptMove DEF Idle, Sending
<1>5. ASSUME NEW c \in Callers, PublishRead(c) \/ PublishPosition(c) PROVE ReceiptInv'
  <2>1. UNCHANGED <<outbox, got>>
    BY <1>5 DEF PublishRead, PublishPosition
  <2>2. PICK state : /\ Goto(c, state) /\ state.pc # "stage"
                     /\ state.pc \in Sending => Received(state.entry)
    <3>1. CASE PublishRead(c)
      BY <1>0, <3>1 DEF PublishRead, Publishing
    <3>2. CASE PublishPosition(c)
      <4>1. Received(call[c].entry)
        BY <3>2 DEF PublishPosition, ReceiptInv, ReceiptsReal, Sending
      <4> QED BY <3>2, <4>1 DEF PublishPosition, Publishing, Idle, Sending
    <3> QED BY <1>5, <3>1, <3>2
  <2>3. \A e : Received(e) => Received(e)'
    BY <2>1 DEF Received
  <2> QED BY <1>0, <2>1, <2>2, <2>3, ReceiptMove DEF Received
<1>6. ASSUME NEW c \in Callers, SomeSend(c) PROVE ReceiptInv'
  <2>0. PICK e : e = call[c].entry
    OBVIOUS
  <2>1. PICK A \in SUBSET Relays, R \in SUBSET Relays : PublishSend(c, A, R)
    BY <1>6 DEF SomeSend
  <2> DEFINE sent == [e EXCEPT !.acks = @ \cup R]
  <2>2. /\ e \in Entry /\ Received(e) /\ R \subseteq A /\ outbox' = outbox
        /\ Goto(c, Publishing("record", sent))
    BY <2>0, <2>1 DEF PublishSend, TypeInv, CallType, Sending, ReceiptInv, ReceiptsReal
  <2>3. \A r \in Relays : got'[r] = IF r \in A THEN got[r] \cup {e.proj} ELSE got[r]
    BY <2>0, <2>1 DEF PublishSend
  <2>4. sent.proj = e.proj /\ sent.acks = e.acks \cup R /\ e.acks \subseteq Relays
    BY <2>2 DEF Entry
  <2> HIDE DEF sent
  <2>5. Received(sent)'
    BY <2>2, <2>3, <2>4 DEF Received
  <2>6. outbox' # NoEntry => Received(outbox)' /\ (outbox'.committed => outbox'.acks # {})
    BY <1>0, <2>2, <2>3 DEF Received, Entry
  <2>7. \A r \in Relays : got[r] \subseteq got'[r]
    BY <2>3
  <2>8. /\ Publishing("record", sent).pc = "record"
        /\ Publishing("record", sent).entry = sent
    BY DEF Publishing
  <2>9. Received(Publishing("record", sent).entry)'
    BY <2>5, <2>8 DEF Received
  <2> QED BY <2>2, <2>6, <2>7, <2>8, <2>9, ReceiptMove
<1>7. ASSUME NEW c \in Callers, PublishRecord(c) PROVE ReceiptInv'
  <2>0. PICK e : e = call[c].entry
    OBVIOUS
  <2>1. /\ e \in Entry /\ Received(e) /\ UNCHANGED got
        /\ Goto(c, Idle) \/ Goto(c, Destroying)
    BY <1>7, <2>0 DEF PublishRecord, TypeInv, CallType, Sending, ReceiptInv, ReceiptsReal
  <2>2. \/ outbox' = outbox
        \/ /\ outbox' = [outbox EXCEPT !.acks = @ \cup e.acks, !.committed = FALSE]
           /\ e.proj = outbox.proj
    BY <1>7, <2>0 DEF PublishRecord, Recorded, SameIntent
  <2>3. outbox # NoEntry
    BY <1>7 DEF PublishRecord, TypeInv, CallType, Sending
  <2>4. Received(outbox)' /\ (outbox'.committed => outbox'.acks # {})
    <3>1. CASE outbox' = outbox
      BY <1>0, <2>1, <2>3, <3>1 DEF Received
    <3>2. CASE /\ outbox' = [outbox EXCEPT !.acks = @ \cup e.acks, !.committed = FALSE]
               /\ e.proj = outbox.proj
      <4>1. /\ outbox'.proj = outbox.proj /\ outbox'.acks = outbox.acks \cup e.acks
            /\ ~outbox'.committed
        BY <1>0, <2>3, <3>2 DEF Entry
      <4> QED BY <1>0, <2>1, <2>3, <3>2, <4>1 DEF Received
    <3> QED BY <2>2, <3>1, <3>2
  <2>5. Idle.pc = "idle" /\ Destroying.pc = "destroy"
    BY DEF Idle, Destroying
  <2>6. \A r \in Relays : got[r] \subseteq got'[r]
    BY <2>1
  <2>7. PICK state \in {Idle, Destroying} : Goto(c, state)
    BY <2>1
  <2> QED BY <2>4, <2>5, <2>6, <2>7, ReceiptMove DEF Sending
<1>8. ASSUME NEW c \in Callers, Clear(c) PROVE ReceiptInv'
  <2>1. /\ outbox # NoEntry /\ UNCHANGED got
        /\ outbox' = [outbox EXCEPT !.committed = TRUE]
        /\ outbox.committed \/ outbox.acks # {}
    BY <1>8 DEF Clear, Acknowledged
  <2>2. Received(outbox)' /\ outbox'.acks # {}
    BY <1>0, <2>1 DEF Received, Entry
  <2>3. PICK state \in {Idle, Destroying} : Goto(c, state)
    BY <1>8 DEF Clear
  <2>4. Idle.pc = "idle" /\ Destroying.pc = "destroy"
    BY DEF Idle, Destroying
  <2> QED BY <2>1, <2>2, <2>3, <2>4, ReceiptMove DEF Sending
<1>9. ASSUME NEW c \in Callers, Destroy(c) PROVE ReceiptInv'
  <2>1. UNCHANGED <<outbox, got>> /\ Goto(c, Idle)
    BY <1>9 DEF Destroy
  <2> QED BY <1>0, <2>1, ReceiptMove DEF Received, Idle, Sending
<1>10. ASSUME NEW t \in Tabs, Restart(t) PROVE ReceiptInv'
  BY <1>10 DEF Restart, Idle, Sending, ReceiptInv, ReceiptsReal, Received, StagingUnpublished,
               Unpublished
<1>11. CASE UNCHANGED <<outbox, got, call>>
  BY <1>11 DEF ReceiptInv, ReceiptsReal, Received, StagingUnpublished, Unpublished
<1> QED BY <1>1, <1>2, <1>3, <1>4, <1>5, <1>6, <1>7, <1>8, <1>9, <1>10, <1>11
        DEF Next, Stage, Publish, Tick, vars

\* A receipt the outbox holds is of the projection it holds, in any number of pages:
\* neither a late answer nor the successor of an older head, which another page may
\* write over the entry, brings a receipt of anything else.
THEOREM ReceiptsMatch == Spec => []ReceiptsAreOfTheHead
<1>1. Init => ReceiptInv
  BY DEF Init, Idle, Sending, ReceiptInv, ReceiptsReal, StagingUnpublished
<1>2. TypeInv /\ ReceiptInv => ReceiptsAreOfTheHead
  BY DEF ReceiptInv, ReceiptsReal, Received, ReceiptsAreOfTheHead
<1> QED BY <1>1, <1>2, ReceiptStep, TypeInit, TypeStep, PTL DEF Spec

(***************************************************************************)
(* The order of the known projections, when the calls share a page.        *)
(***************************************************************************)
SinglePage == \A c, d \in Callers : TabOf[c] = TabOf[d]

LEMMA KnownAreProjections ==
    ASSUME TypeInv
    PROVE  Known \subseteq Projection
<1>1. Public \subseteq Projection
  BY DEF Public, TypeInv, StoreType
<1>2. HeadAndBase \subseteq Projection
  BY DEF HeadAndBase, TypeInv, StoreType, Entry, Request
<1>3. ASSUME NEW c \in Callers PROVE SentBy(c) \subseteq Projection
  BY DEF SentBy, TypeInv, CallType, Entry
<1> QED BY <1>1, <1>2, <1>3 DEF Known

\* While the head stays, what is known may only grow fewer.
LEMMA SameHead ==
    ASSUME TypeInv, OrderInv, outbox # NoEntry, outbox' # NoEntry,
           outbox'.proj = outbox.proj, outbox'.request = outbox.request,
           Public' \subseteq Known,
           \A d \in Callers : SentBy(d)' \subseteq Known
    PROVE  Chain' /\ HeadIsLast' /\ NothingYet'
<1>1. HeadAndBase' = HeadAndBase
  BY DEF HeadAndBase
<1>2. HeadAndBase \subseteq Known
  BY DEF Known
<1>3. Known' \subseteq Known
  BY <1>1, <1>2 DEF Known
<1>4. Chain' /\ HeadIsLast'
  BY <1>3 DEF OrderInv, Chain, HeadIsLast, Before
<1> QED BY <1>4 DEF NothingYet

\* A call moves and the head stays: what is left to show of the invariant.
LEMMA HeadStays ==
    ASSUME TypeInv, OrderInv, NEW c \in Callers, NEW state, Goto(c, state),
           outbox # NoEntry, outbox' # NoEntry,
           outbox'.proj = outbox.proj, outbox'.request = outbox.request,
           outbox.acks \subseteq outbox'.acks,
           Received(outbox)', outbox'.committed => outbox'.acks # {},
           \A r \in Relays : got[r] \subseteq got'[r],
           Public' \subseteq Known,
           key' = key \/ Finished',
           state.pc = "stage" => Extends(state.entry)',
           state.pc \in InQueue => \A d \in Callers \ {c} : call[d].pc \notin InQueue,
           state.pc \in Sending => state.entry.proj \in Known /\ Received(state.entry)',
           state.pc = "destroy" => Finished'
    PROVE  OrderInv'
<1>1. call'[c] = state /\ \A d \in Callers \ {c} : call'[d] = call[d]
  BY DEF TypeInv, Goto
<1>2. ASSUME NEW d \in Callers PROVE SentBy(d)' \subseteq Known
  <2>1. CASE d = c
    BY <1>1, <2>1 DEF SentBy
  <2>2. CASE d # c
    BY <1>1, <2>2 DEF SentBy, Known
  <2> QED BY <2>1, <2>2
<1>3. Chain' /\ HeadIsLast' /\ NothingYet'
  BY <1>2, SameHead
<1>4. StagingExtends'
  <2> SUFFICES ASSUME NEW d \in Callers, call'[d].pc = "stage" PROVE Extends(call[d].entry)'
    BY DEF StagingExtends
  <2>1. CASE d = c
    BY <1>1, <2>1
  <2>2. CASE d # c
    BY <1>1, <2>2 DEF OrderInv, StagingExtends, Extends
  <2> QED BY <2>1, <2>2
<1>5. QueueOfOne'
  BY <1>1 DEF OrderInv, QueueOfOne
<1>6. ReceiptsReal'
  <2> SUFFICES ASSUME NEW d \in Callers, call'[d].pc \in Sending PROVE Received(call[d].entry)'
    BY DEF ReceiptsReal
  <2>1. CASE d = c
    BY <1>1, <2>1
  <2>2. CASE d # c
    <3>1. call[d].entry \in Entry /\ Received(call[d].entry) /\ call'[d] = call[d]
      BY <1>1, <2>2 DEF OrderInv, ReceiptsReal, TypeInv, CallType
    <3> QED BY <3>1 DEF Received, Entry
  <2> QED BY <2>1, <2>2
<1>7. KeyGoesLast'
  <2>1. Finished => Finished'
    BY DEF Finished
  <2>2. ASSUME NEW d \in Callers, call'[d].pc = "destroy" PROVE Finished'
    BY <1>1, <2>1, <2>2 DEF OrderInv, KeyGoesLast
  <2> QED BY <2>1, <2>2 DEF OrderInv, KeyGoesLast
<1> QED BY <1>3, <1>4, <1>5, <1>6, <1>7 DEF OrderInv
LEMMA OrderInit == Init => OrderInv
<1> SUFFICES ASSUME Init PROVE OrderInv
  OBVIOUS
<1>1. \A c \in Callers : call[c].pc = "idle"
  BY DEF Init, Idle
<1>2. Public = {} /\ HeadAndBase = {} /\ outbox = NoEntry
  BY DEF Init, Public, HeadAndBase
<1>3. Known = {}
  BY <1>1, <1>2 DEF Known, SentBy, Sending
<1> QED BY <1>1, <1>2, <1>3
        DEF OrderInv, NothingYet, Chain, HeadIsLast, StagingExtends, QueueOfOne,
            ReceiptsReal, KeyGoesLast, InQueue, Sending

\* The first projection.
LEMMA CreateStep ==
    ASSUME TypeInv, TypeInv', OrderInv, NEW c \in Callers, Create(c)
    PROVE  OrderInv'
<1>1. \A d \in Callers : call[d].pc = "idle" /\ call'[d].pc = "idle"
  BY DEF Create, TypeInv, CallType
<1>2. Public' = {}
  BY DEF Create, OrderInv, NothingYet, Public
<1>3. outbox'.request.base = NoProjection /\ outbox' # NoEntry
      /\ outbox'.acks = {} /\ outbox'.committed = FALSE /\ key'
  <2>1. outbox' \in Entry
    <3>1. Ask("create", NoProjection, NoReservation, "none") \in Request
      BY DEF Ask, Request
    <3>2. Created(clock) \in Projection
      BY AmountAssumption, TimeAssumption DEF TypeInv, StoreType, Created, Projection, Statuses
    <3> QED BY <3>1, <3>2 DEF Create, Entry
  <2> QED BY <2>1, NoEntryAssumption DEF Create, Ask
<1>4. Known' = {outbox'.proj}
  BY <1>1, <1>2, <1>3 DEF Known, HeadAndBase, SentBy, Sending
<1> QED BY <1>1, <1>3, <1>4
        DEF OrderInv, NothingYet, Chain, HeadIsLast, StagingExtends, QueueOfOne,
            ReceiptsReal, Received, KeyGoesLast, InQueue, Sending

\* A staged successor becomes the head: it comes after all that is known.
LEMMA ReplaceStep ==
    ASSUME TypeInv, TypeInv', OrderInv, NEW c \in Callers, StageWrite(c),
           MayReplace(call[c].entry), key
    PROVE  OrderInv'
<1> DEFINE e == call[c].entry
<1>1. call[c].pc = "stage" /\ outbox' = e /\ Goto(c, Idle) /\ UNCHANGED <<clock, key, got, restarts>>
  BY DEF StageWrite
<1>2. Extends(e) /\ e \in Entry /\ outbox # NoEntry /\ outbox \in Entry /\ outbox' # NoEntry
  BY <1>1, NoEntryAssumption DEF OrderInv, StagingExtends, TypeInv, CallType, StoreType
<1>3. call'[c] = Idle /\ \A d \in Callers \ {c} : call'[d] = call[d]
  BY <1>1 DEF TypeInv, Goto
<1>4. Known' \subseteq Known \cup {e.proj}
  <2>1. Public' = Public /\ \A d \in Callers : SentBy(d)' \subseteq SentBy(d)
    BY <1>1, <1>3 DEF Public, SentBy, Idle, Sending
  <2>2. HeadAndBase' \subseteq {e.proj, outbox.proj} /\ outbox.proj \in Known
    BY <1>1, <1>2 DEF HeadAndBase, Extends, Known
  <2> QED BY <2>1, <2>2 DEF Known
<1>5. \A p \in Known : Before(p, e.proj)
  <2>1. \A p \in Known : p.rev \in Nat /\ p.at \in Nat
    BY KnownAreProjections, TimeAssumption DEF Projection
  <2>2. outbox.proj.rev \in Nat /\ outbox.proj.at \in Nat /\ e.proj.at \in Nat
    BY <1>2, TimeAssumption DEF Entry, Projection
  <2> QED BY <1>2, <2>1, <2>2 DEF OrderInv, HeadIsLast, Before, Extends
<1>6. Chain' /\ HeadIsLast' /\ NothingYet'
  BY <1>1, <1>2, <1>4, <1>5 DEF OrderInv, Chain, HeadIsLast, NothingYet, Before
<1>7. \A d \in Callers : call'[d].pc \notin InQueue
  BY <1>1, <1>3 DEF OrderInv, QueueOfOne, InQueue, Idle
<1>8. StagingExtends' /\ QueueOfOne'
  BY <1>7 DEF StagingExtends, QueueOfOne, InQueue
<1>9. ReceiptsReal'
  <2>1. Received(outbox)' /\ (outbox'.committed => outbox'.acks # {})
    BY <1>1, <1>2 DEF Extends, Received
  <2>2. ASSUME NEW d \in Callers, call'[d].pc \in Sending PROVE Received(call[d].entry)'
    BY <1>1, <1>3, <2>2 DEF OrderInv, ReceiptsReal, Received, Idle, Sending
  <2> QED BY <2>1, <2>2 DEF ReceiptsReal
<1>10. KeyGoesLast'
  <2>1. ~Finished
    BY <1>2 DEF Extends, Finished
  <2>2. key' /\ \A d \in Callers : call'[d].pc # "destroy"
    BY <1>1, <1>3, <2>1 DEF OrderInv, KeyGoesLast, Idle
  <2> QED BY <2>2 DEF KeyGoesLast
<1> QED BY <1>6, <1>8, <1>9, <1>10 DEF OrderInv
LEMMA OrderStep == SinglePage /\ TypeInv /\ TypeInv' /\ OrderInv /\ [Next]_vars => OrderInv'
<1> SUFFICES ASSUME SinglePage, TypeInv, TypeInv', OrderInv, [Next]_vars PROVE OrderInv'
  OBVIOUS
<1> USE NoEntryAssumption
<1>0. /\ outbox # NoEntry =>
            /\ outbox \in Entry /\ outbox.proj \in Known /\ Received(outbox)
            /\ outbox.committed => outbox.acks # {}
      /\ Public \subseteq Known
  BY DEF TypeInv, StoreType, Known, HeadAndBase, OrderInv, ReceiptsReal
<1>1. ASSUME NEW c \in Callers, Create(c) PROVE OrderInv'
  BY <1>1, CreateStep
<1>2. ASSUME NEW c \in Callers, StageCheck(c) PROVE OrderInv'
  <2>1. outbox # NoEntry /\ QueueFree(c) /\ UNCHANGED <<clock, key, got, restarts>>
    BY <1>2 DEF StageCheck
  <2>2. /\ outbox' # NoEntry /\ outbox'.proj = outbox.proj /\ outbox'.request = outbox.request
        /\ outbox'.acks = outbox.acks /\ (outbox'.committed => outbox'.acks # {})
    BY <1>0, <1>2, <2>1 DEF StageCheck, Acknowledged, Entry
  <2>3. PICK q : \E state \in {Loading(q), Idle} : Goto(c, state)
    BY <1>2, <2>1 DEF StageCheck
  <2>4. PICK state \in {Loading(q), Idle} : Goto(c, state)
    BY <2>3
  <2>5. state.pc \in {"load", "idle"}
    BY <2>4 DEF Loading, Idle
  <2>6. \A d \in Callers \ {c} : call[d].pc \notin InQueue
    BY <2>1 DEF QueueFree, SinglePage, InQueue
  <2>7. Public' = Public /\ Received(outbox)'
    BY <1>0, <2>1, <2>2 DEF Public, Received
  <2> QED BY <1>0, <2>1, <2>2, <2>4, <2>5, <2>6, <2>7, HeadStays DEF Sending, InQueue
<1>3. ASSUME NEW c \in Callers, StageLoad(c) PROVE OrderInv'
  <2> DEFINE q == call[c].request
             at == Later(clock, q.base.at + 1)
             e == [request |-> q, proj |-> Successor(q.base, q, at),
                   acks |-> {}, committed |-> FALSE]
             ok == /\ outbox.proj = q.base
                   /\ key
                   /\ outbox.committed \/ outbox.request.op = "reserve"
                   /\ Allowed(q.base, q, at)
             state == IF ok THEN Signing(e) ELSE Idle
  <2>1. call[c].pc = "load" /\ outbox # NoEntry /\ Wanted(q)
    BY <1>3 DEF StageLoad, TypeInv, CallType
  <2>2. Goto(c, state) /\ UNCHANGED <<clock, key, outbox, got, restarts>>
    BY <1>3 DEF StageLoad
  <2>3. ok => Extends(e)
    <3>1. at \in Nat /\ at > q.base.at
      BY <2>1, TimeAssumption DEF TypeInv, StoreType, Wanted, Projection, Later
    <3>2. ok => WellFormed(q.base)
      BY <2>1 DEF TypeInv, StoreType
    <3> HIDE DEF at
    <3>3. ok => /\ Successor(q.base, q, at).rev = q.base.rev + 1
                /\ Successor(q.base, q, at).at = at
                /\ q.base.status \notin Terminal
      BY <2>1, <3>1, <3>2, SuccessorType DEF Wanted
    <3> QED BY <3>1, <3>3 DEF Extends
  <2> HIDE DEF ok, e
  <2>4. PICK st : st = state
    OBVIOUS
  <2>5. /\ st.pc \in {"stage", "idle"}
        /\ st.pc = "stage" => Extends(st.entry)'
    <3>1. st.pc = "stage" => Extends(st.entry)
      BY <2>3, <2>4 DEF Signing, Idle
    <3> QED BY <2>2, <2>4, <3>1 DEF Extends, Signing, Idle
  <2>6. \A d \in Callers \ {c} : call[d].pc \notin InQueue
    BY <2>1 DEF OrderInv, QueueOfOne, InQueue
  <2>7. Public' = Public /\ Received(outbox)'
    BY <1>0, <2>1, <2>2 DEF Public, Received
  <2>8. Goto(c, st)
    BY <2>2, <2>4
  <2> HIDE DEF state
  <2> QED BY <1>0, <2>1, <2>2, <2>5, <2>6, <2>7, <2>8, HeadStays DEF Sending
<1>4. ASSUME NEW c \in Callers, StageWrite(c) PROVE OrderInv'
  <2>1. CASE MayReplace(call[c].entry) /\ key
    BY <1>4, <2>1, ReplaceStep
  <2>2. CASE ~(MayReplace(call[c].entry) /\ key)
    <3>1. Goto(c, Idle) /\ outbox # NoEntry /\ UNCHANGED <<clock, key, outbox, got, restarts>>
      BY <1>4, <2>2 DEF StageWrite, TypeInv, CallType
    <3>2. Public' = Public /\ Received(outbox)'
      BY <1>0, <3>1 DEF Public, Received
    <3> QED BY <1>0, <3>1, <3>2, HeadStays DEF Idle, InQueue, Sending
  <2> QED BY <2>1, <2>2
<1>5. ASSUME NEW c \in Callers, PublishRead(c) PROVE OrderInv'
  <2>1. outbox # NoEntry /\ UNCHANGED <<clock, key, outbox, got, restarts>>
    BY <1>5 DEF PublishRead
  <2>2. PICK pc \in {"position", "record"} : Goto(c, Publishing(pc, outbox))
    BY <1>5 DEF PublishRead
  <2>3. Public' = Public /\ Received(outbox)'
    BY <1>0, <2>1 DEF Public, Received
  <2> QED BY <1>0, <2>1, <2>2, <2>3, HeadStays DEF Publishing, InQueue, Sending
<1>6. ASSUME NEW c \in Callers, PublishPosition(c) PROVE OrderInv'
  <2>0. PICK e : e = call[c].entry
    OBVIOUS
  <2>1. call[c].pc \in Sending /\ outbox # NoEntry /\ e.proj \in Known /\ Received(e)
    BY <1>6, <2>0 DEF PublishPosition, TypeInv, CallType, Sending, OrderInv, ReceiptsReal, Known, SentBy
  <2>2. PICK state \in {Idle, Publishing("send", e)} :
          Goto(c, state) /\ UNCHANGED <<clock, key, outbox, got, restarts>>
    BY <1>6, <2>0 DEF PublishPosition
  <2>3. Public' = Public /\ Received(outbox)' /\ Received(e)'
    BY <1>0, <2>1, <2>2 DEF Public, Received
  <2>4. state.pc \in {"idle", "send"} /\ (state.pc = "send" => state.entry = e)
    BY <2>2 DEF Idle, Publishing
  <2>5. state.pc \in Sending => state.entry.proj \in Known /\ Received(state.entry)'
    BY <2>1, <2>2, <2>3, <2>4 DEF Sending, Received
  <2> QED BY <1>0, <2>1, <2>2, <2>3, <2>4, <2>5, HeadStays DEF InQueue
<1>7. ASSUME NEW c \in Callers, NEW A \in SUBSET Relays, NEW R \in SUBSET Relays, PublishSend(c, A, R)
      PROVE  OrderInv'
  <2>0. PICK e : e = call[c].entry
    OBVIOUS
  <2> DEFINE sent == [e EXCEPT !.acks = @ \cup R]
  <2>1. call[c].pc \in Sending /\ outbox # NoEntry /\ e \in Entry /\ e.proj \in Known /\ Received(e)
    BY <1>7, <2>0 DEF PublishSend, TypeInv, CallType, Sending, OrderInv, ReceiptsReal, Known, SentBy
  <2>2. /\ got' = [r \in Relays |-> IF r \in A THEN got[r] \cup {e.proj} ELSE got[r]]
        /\ Goto(c, Publishing("record", sent)) /\ UNCHANGED <<clock, key, outbox, restarts>>
        /\ R \subseteq A
    BY <1>7, <2>0 DEF PublishSend
  <2>3. sent.proj = e.proj /\ sent.acks = e.acks \cup R /\ e.acks \subseteq Relays
    BY <2>1 DEF Entry
  <2>4. \A r \in Relays : got[r] \subseteq got'[r]
    BY <2>2
  <2>5. Received(sent)'
    BY <2>1, <2>2, <2>3, <2>4 DEF Received
  <2>6. Public' \subseteq Known
    BY <1>0, <2>1, <2>2 DEF Public
  <2>7. Received(outbox)'
    BY <1>0, <2>1, <2>2, <2>4 DEF Received, Entry
  <2> HIDE DEF sent
  <2>8. Publishing("record", sent).pc = "record" /\ Publishing("record", sent).entry = sent
    BY DEF Publishing
  <2>9. Publishing("record", sent).pc \in Sending =>
          Publishing("record", sent).entry.proj \in Known /\ Received(Publishing("record", sent).entry)'
    BY <2>1, <2>3, <2>5, <2>8 DEF Received
  <2> QED BY <1>0, <2>1, <2>2, <2>4, <2>6, <2>7, <2>8, <2>9, HeadStays DEF InQueue
<1>8. ASSUME NEW c \in Callers, PublishRecord(c) PROVE OrderInv'
  <2>0. PICK e : e = call[c].entry
    OBVIOUS
  <2>1. call[c].pc \in Sending /\ outbox # NoEntry /\ e \in Entry /\ Received(e)
    BY <1>8, <2>0 DEF PublishRecord, TypeInv, CallType, Sending, OrderInv, ReceiptsReal
  <2>2. UNCHANGED <<clock, key, got, restarts>>
    BY <1>8 DEF PublishRecord
  <2>3. /\ outbox' # NoEntry /\ outbox'.proj = outbox.proj /\ outbox'.request = outbox.request
        /\ outbox.acks \subseteq outbox'.acks
        /\ outbox' = outbox \/ outbox'.committed = FALSE
        /\ outbox'.acks = outbox.acks \/ (outbox'.acks = outbox.acks \cup e.acks /\ e.proj = outbox.proj)
    <3>1. outbox \in Entry /\ NoEntry \notin Entry
      BY <1>0, <2>1, NoEntryAssumption
    <3>2. CASE outbox' = outbox
      BY <3>1, <3>2
    <3>3. CASE /\ outbox' = [outbox EXCEPT !.acks = @ \cup e.acks, !.committed = FALSE]
               /\ e.proj = outbox.proj
      <4>1. outbox' = [request |-> outbox.request, proj |-> outbox.proj,
                       acks |-> outbox.acks \cup e.acks, committed |-> FALSE]
        BY <3>1, <3>3 DEF Entry
      <4>2. outbox' \in Entry
        BY <2>1, <3>1, <4>1 DEF Entry
      <4> QED BY <3>1, <3>3, <4>1, <4>2
    <3>4. outbox' = outbox \/ (/\ outbox' = [outbox EXCEPT !.acks = @ \cup e.acks, !.committed = FALSE]
                              /\ e.proj = outbox.proj)
      BY <1>8, <2>0 DEF PublishRecord, Recorded, SameIntent
    <3> QED BY <3>2, <3>3, <3>4
  <2>4. Received(outbox)' /\ (outbox'.committed => outbox'.acks # {})
    BY <1>0, <2>1, <2>2, <2>3 DEF Received
  <2>5. PICK state \in {Idle, Destroying} :
          /\ Goto(c, state)
          /\ state = Destroying => outbox'.acks # {} /\ outbox'.proj.status \in Terminal
    BY <1>8, <2>1 DEF PublishRecord, Acknowledged, Idle, Destroying
  <2>6. state.pc \in {"idle", "destroy"} /\ (state.pc = "destroy" => Finished')
    BY <2>3, <2>5 DEF Idle, Destroying, Finished
  <2>7. Public' = Public
    BY <2>2 DEF Public
  <2> QED BY <1>0, <2>1, <2>2, <2>3, <2>4, <2>5, <2>6, <2>7, HeadStays DEF InQueue, Sending
<1>9. ASSUME NEW c \in Callers, Clear(c) PROVE OrderInv'
  <2>1. outbox # NoEntry /\ outbox' = [outbox EXCEPT !.committed = TRUE]
        /\ (outbox.committed \/ Acknowledged(outbox)) /\ UNCHANGED <<clock, key, got, restarts>>
    BY <1>9 DEF Clear
  <2>2. /\ outbox' # NoEntry /\ outbox'.proj = outbox.proj /\ outbox'.request = outbox.request
        /\ outbox'.acks = outbox.acks /\ outbox.acks # {}
    BY <1>0, <2>1 DEF Acknowledged, Entry
  <2>3. PICK state \in {Idle, Destroying} :
          Goto(c, state) /\ (state = Destroying => outbox.proj.status \in Terminal)
    BY <1>9 DEF Clear, Idle, Destroying
  <2>4. state.pc \in {"idle", "destroy"} /\ (state.pc = "destroy" => Finished')
    BY <2>2, <2>3 DEF Idle, Destroying, Finished
  <2>5. Public' = Public /\ Received(outbox)'
    BY <1>0, <2>1, <2>2 DEF Public, Received
  <2> QED BY <1>0, <2>1, <2>2, <2>3, <2>4, <2>5, HeadStays DEF InQueue, Sending
<1>10. ASSUME NEW c \in Callers, Destroy(c) PROVE OrderInv'
  <2>1. key' = FALSE /\ Goto(c, Idle) /\ UNCHANGED <<clock, outbox, got, restarts>>
        /\ outbox # NoEntry /\ Finished
    BY <1>10 DEF Destroy, OrderInv, KeyGoesLast, Finished
  <2>2. Public' = Public /\ Received(outbox)' /\ Finished'
    BY <1>0, <2>1 DEF Public, Received, Finished
  <2> QED BY <1>0, <2>1, <2>2, HeadStays DEF Idle, InQueue, Sending
<1>11. ASSUME NEW t \in Tabs, Restart(t) PROVE OrderInv'
  <2>1. \A d \in Callers : call'[d] = Idle \/ call'[d] = call[d]
    BY <1>11 DEF Restart
  <2>2. UNCHANGED <<clock, key, outbox, got>>
    BY <1>11 DEF Restart
  <2>3. Known' \subseteq Known
    <3>1. Public' = Public /\ HeadAndBase' = HeadAndBase
      BY <2>2 DEF Public, HeadAndBase
    <3>2. \A d \in Callers : SentBy(d)' \subseteq SentBy(d)
      BY <2>1 DEF SentBy, Idle, Sending
    <3> QED BY <3>1, <3>2 DEF Known
  <2>4. NothingYet' /\ Chain' /\ HeadIsLast'
    BY <2>2, <2>3 DEF OrderInv, NothingYet, Chain, HeadIsLast, Before, Public
  <2>5. StagingExtends' /\ QueueOfOne'
    BY <2>1, <2>2 DEF OrderInv, StagingExtends, QueueOfOne, Extends, Idle, InQueue
  <2>6. ReceiptsReal' /\ KeyGoesLast'
    BY <2>1, <2>2 DEF OrderInv, ReceiptsReal, Received, KeyGoesLast, Finished, Idle, Sending
  <2> QED BY <2>4, <2>5, <2>6 DEF OrderInv
<1>12. CASE UNCHANGED <<key, outbox, got, call>>
  <2>1. Known' = Known /\ Public' = Public
    BY <1>12 DEF Known, Public, HeadAndBase, SentBy
  <2> QED BY <1>12, <2>1
      DEF OrderInv, NothingYet, Chain, HeadIsLast, Before, StagingExtends, Extends, QueueOfOne,
          ReceiptsReal, Received, KeyGoesLast, Finished
<1> QED BY <1>1, <1>2, <1>3, <1>4, <1>5, <1>6, <1>7, <1>8, <1>9, <1>10, <1>11, <1>12
        DEF Next, Stage, Publish, SomeSend, Tick, vars

LEMMA Ordered ==
    ASSUME SinglePage
    PROVE  Spec => [](TypeInv /\ OrderInv)
<1>1. TypeInv /\ OrderInv /\ [Next]_vars => (TypeInv /\ OrderInv)'
  BY TypeStep, OrderStep
<1> QED BY <1>1, TypeInit, OrderInit, PTL DEF Spec

(***************************************************************************)
(* The properties the runs check.                                          *)
(***************************************************************************)

LEMMA PublicAreProjections ==
    ASSUME TypeInv
    PROVE  Public \subseteq Projection
<1> QED BY DEF Public, TypeInv, StoreType

\* No two different projections of one revision ever reach the relays,
\* whatever is retried, delayed, lost or restarted.
THEOREM PublishedOnce ==
    ASSUME SinglePage
    PROVE  Spec => []OneProjectionPerRevision
<1>1. TypeInv /\ OrderInv => OneProjectionPerRevision
  <2> SUFFICES ASSUME TypeInv, OrderInv, NEW p \in Public, NEW q \in Public, p.rev = q.rev
               PROVE  p = q
    BY DEF OneProjectionPerRevision
  <2>1. p.rev \in Nat /\ q.rev \in Nat
    BY PublicAreProjections DEF Projection
  <2>2. p = q \/ Before(p, q) \/ Before(q, p)
    BY DEF OrderInv, Chain, Known
  <2> QED BY <2>1, <2>2 DEF Before
<1> QED BY <1>1, Ordered, PTL

\* No public projection rules out publishing a staged head
\* (assertPublishPosition), so a pending entry can always be retried.
THEOREM NeverStuck ==
    ASSUME SinglePage
    PROVE  Spec => []StagedHeadIsPublishable
<1>1. TypeInv /\ OrderInv => StagedHeadIsPublishable
  <2> SUFFICES ASSUME TypeInv, OrderInv, outbox # NoEntry, NEW p \in Public
               PROVE  ~OutOfPosition(p, outbox)
    BY DEF StagedHeadIsPublishable
  <2> DEFINE base == outbox.request.base
  <2>1. outbox \in Entry /\ outbox.proj \in Projection /\ p \in Projection
    BY PublicAreProjections DEF TypeInv, StoreType, Entry
  <2>2. base \in Projection \cup {NoProjection}
    BY <2>1 DEF Entry, Request
  <2>3. p \in Known /\ outbox.proj \in Known /\ (base # NoProjection => base \in Known)
    BY DEF Known, HeadAndBase
  <2>4. p = outbox.proj \/ Before(p, outbox.proj)
    BY <2>3 DEF OrderInv, HeadIsLast
  <2>5. base # NoProjection => p = base \/ Before(p, base) \/ Before(base, p)
    BY <2>3 DEF OrderInv, Chain
  <2>6. base # NoProjection /\ p.rev = base.rev => p = base
    BY <2>1, <2>2, <2>5 DEF Before, Projection
  <2>7. p = outbox.proj \/ (p.rev < outbox.proj.rev /\ p.at < outbox.proj.at)
    BY <2>4 DEF Before
  <2> QED BY <2>1, <2>6, <2>7 DEF OutOfPosition, Projection
<1> QED BY <1>1, Ordered, PTL

\* The newest timestamp a relay serves is the greatest revision it received,
\* in whatever order the publications arrived.
THEOREM RelaysServeTheHead ==
    ASSUME SinglePage
    PROVE  Spec => []NewestIsGreatest
<1>1. TypeInv /\ OrderInv => NewestIsGreatest
  <2> SUFFICES ASSUME TypeInv, OrderInv, NEW r \in Relays, NEW h \in Heads(r), NEW p \in got[r]
               PROVE  p.rev <= h.rev
    BY DEF NewestIsGreatest
  <2>1. h \in got[r] /\ p.at <= h.at
    BY DEF Heads
  <2>2. h \in Public /\ p \in Public
    BY <2>1 DEF Public
  <2>3. h \in Projection /\ p \in Projection
    BY <2>2, PublicAreProjections
  <2>4. p = h \/ Before(p, h) \/ Before(h, p)
    BY <2>2 DEF OrderInv, Chain, Known
  <2> QED BY <2>1, <2>3, <2>4 DEF Before, Projection
<1> QED BY <1>1, Ordered, PTL

\* The key of an order is erased only when its terminal projection is public.
THEOREM KeyIsKept ==
    ASSUME SinglePage
    PROVE  Spec => []KeyOutlivesTheOrder
<1>1. TypeInv /\ OrderInv => KeyOutlivesTheOrder
  <2> SUFFICES ASSUME TypeInv, OrderInv, outbox # NoEntry, ~key
               PROVE  outbox.proj.status \in Terminal /\ outbox.proj \in Public
    BY DEF KeyOutlivesTheOrder
  <2>1. outbox.proj.status \in Terminal /\ outbox.acks # {} /\ outbox.acks \subseteq Relays
    BY DEF OrderInv, KeyGoesLast, Finished, TypeInv, StoreType, Entry
  <2>2. PICK r \in Relays : r \in outbox.acks
    BY <2>1
  <2>3. outbox.proj \in got[r]
    BY <2>2 DEF OrderInv, ReceiptsReal, Received
  <2> QED BY <2>1, <2>3 DEF Public
<1> QED BY <1>1, Ordered, PTL

\* The durable head moves only to its own direct successor.
THEOREM HeadMovesForward ==
    ASSUME SinglePage
    PROVE  Spec => HeadAdvances
<1> DEFINE Advance ==
      outbox # NoEntry /\ outbox'.proj # outbox.proj =>
        /\ outbox'.request.base = outbox.proj
        /\ outbox'.proj.rev = outbox.proj.rev + 1
<1>1. TypeInv /\ OrderInv /\ [Next]_vars => [Advance]_vars
  <2> SUFFICES ASSUME TypeInv, OrderInv, Next, outbox # NoEntry, outbox'.proj # outbox.proj
               PROVE  /\ outbox'.request.base = outbox.proj
                      /\ outbox'.proj.rev = outbox.proj.rev + 1
    BY DEF vars
  <2>0. outbox \in Entry
    BY DEF TypeInv, StoreType
  <2>1. ASSUME NEW c \in Callers, StageCheck(c) PROVE outbox'.proj = outbox.proj
    BY <2>0, <2>1 DEF StageCheck, Entry
  <2>2. ASSUME NEW c \in Callers, StageWrite(c)
        PROVE  outbox' = outbox \/ Extends(outbox')
    BY <2>2 DEF StageWrite, OrderInv, StagingExtends
  <2>3. ASSUME NEW c \in Callers, PublishRecord(c) PROVE outbox'.proj = outbox.proj
    BY <2>0, <2>3 DEF PublishRecord, Recorded, Entry
  <2>4. ASSUME NEW c \in Callers, Clear(c) PROVE outbox'.proj = outbox.proj
    BY <2>0, <2>4 DEF Clear, Entry
  <2>5. ASSUME NEW c \in Callers, StageLoad(c) \/ PublishRead(c) \/ PublishPosition(c)
                                  \/ SomeSend(c) \/ Destroy(c)
        PROVE  outbox' = outbox
    BY <2>5 DEF StageLoad, PublishRead, PublishPosition, SomeSend, PublishSend, Destroy
  <2>6. PICK c \in Callers : StageWrite(c)
    BY <2>1, <2>3, <2>4, <2>5 DEF Next, Stage, Publish, Create, Tick, Restart
  <2>7. Extends(outbox')
    BY <2>2, <2>6
  <2> QED BY <2>7 DEF Extends
<1> QED BY <1>1, Ordered, PTL DEF Spec, HeadAdvances

-----------------------------------------------------------------------------
(***************************************************************************)
(* The head is one order that is sold in parts.                            *)
(***************************************************************************)

\* What a call staged is what the order model makes of the base, when it allows it.
Made(e) ==
    /\ Wanted(e.request)
    /\ Allowed(e.request.base, e.request, e.proj.at)
    /\ e.proj = Successor(e.request.base, e.request, e.proj.at)
StagingIsMade == \A c \in Callers : call[c].pc = "stage" => Made(call[c].entry)

LEMMA MadeInit == Init => StagingIsMade
BY DEF Init, Idle, StagingIsMade

LEMMA MadeStep == TypeInv /\ StagingIsMade /\ [Next]_vars => StagingIsMade'
<1> SUFFICES ASSUME TypeInv, StagingIsMade, [Next]_vars PROVE StagingIsMade'
  OBVIOUS
<1>1. ASSUME NEW c \in Callers, NEW state, Goto(c, state),
             state.pc = "stage" => Made(state.entry)
      PROVE  StagingIsMade'
  <2>1. \A d \in Callers : call'[d] = IF d = c THEN state ELSE call[d]
    BY <1>1 DEF TypeInv, Goto
  <2> QED BY <1>1, <2>1 DEF StagingIsMade
<1>2. ASSUME NEW c \in Callers, Create(c) PROVE StagingIsMade'
  BY <1>2 DEF Create, StagingIsMade
<1>3. ASSUME NEW c \in Callers, StageCheck(c) PROVE StagingIsMade'
  <2>1. PICK q : Goto(c, Loading(q)) \/ Goto(c, Idle)
    BY <1>3 DEF StageCheck
  <2> QED BY <1>1, <2>1 DEF Loading, Idle
<1>4. ASSUME NEW c \in Callers, StageLoad(c) PROVE StagingIsMade'
  <2> DEFINE q == call[c].request
             at == Later(clock, q.base.at + 1)
             e == [request |-> q, proj |-> Successor(q.base, q, at),
                   acks |-> {}, committed |-> FALSE]
  <2>1. Wanted(q) /\ outbox # NoEntry
    BY <1>4 DEF StageLoad, TypeInv, CallType
  <2>2. \/ Goto(c, Idle)
        \/ Goto(c, Signing(e)) /\ outbox.proj = q.base /\ Allowed(q.base, q, at)
    BY <1>4 DEF StageLoad
  <2>3. outbox.proj = q.base /\ Allowed(q.base, q, at) => Made(e)
    <3>1. at \in Nat
      BY <2>1, TimeAssumption DEF TypeInv, StoreType, Wanted, Projection, Later
    <3> HIDE DEF at
    <3>2. outbox.proj = q.base => WellFormed(q.base)
      BY <2>1 DEF TypeInv, StoreType
    <3>3. outbox.proj = q.base /\ Allowed(q.base, q, at) => Successor(q.base, q, at).at = at
      BY <2>1, <3>1, <3>2, SuccessorType DEF Wanted
    <3> QED BY <2>1, <3>3 DEF Made
  <2>4. Idle.pc # "stage" /\ Signing(e).entry = e
    BY DEF Idle, Signing
  <2> HIDE DEF e, at
  <2> QED BY <1>1, <2>2, <2>3, <2>4
<1>5. ASSUME NEW c \in Callers, StageWrite(c) \/ Destroy(c) PROVE StagingIsMade'
  <2>1. Goto(c, Idle)
    BY <1>5 DEF StageWrite, Destroy
  <2> QED BY <1>1, <2>1 DEF Idle
<1>6. ASSUME NEW c \in Callers, Publish(c) \/ Clear(c) PROVE StagingIsMade'
  <2>1. \/ \E pc \in {"position", "send", "record"} : \E e : Goto(c, Publishing(pc, e))
        \/ Goto(c, Idle) \/ Goto(c, Destroying)
    <3>1. CASE PublishRead(c)
      BY <3>1 DEF PublishRead
    <3>2. CASE PublishPosition(c)
      BY <3>2 DEF PublishPosition
    <3>3. CASE SomeSend(c)
      BY <3>3 DEF SomeSend, PublishSend
    <3>4. CASE PublishRecord(c)
      BY <3>4 DEF PublishRecord
    <3>5. CASE Clear(c)
      BY <3>5 DEF Clear
    <3> QED BY <1>6, <3>1, <3>2, <3>3, <3>4, <3>5 DEF Publish
  <2> QED BY <1>1, <2>1 DEF Publishing, Idle, Destroying
<1>7. ASSUME NEW t \in Tabs, Restart(t) PROVE StagingIsMade'
  BY <1>7 DEF Restart, Idle, StagingIsMade
<1>8. CASE UNCHANGED call
  BY <1>8 DEF StagingIsMade
<1> QED BY <1>2, <1>3, <1>4, <1>5, <1>6, <1>7, <1>8 DEF Next, Stage, Tick, vars

\* An operation of the order model, made on the head, is a step of the order's life.
LEMMA OperationLives ==
    ASSUME outbox \in Entry, outbox' \in Entry, WellFormed(outbox.proj),
           Made(outbox'), outbox'.request.base = outbox.proj
    PROVE  Life!Next
<1> DEFINE p == outbox.proj
           n == outbox'.proj
           q == outbox'.request
<1> USE AbsentAssumption
<1>1. outbox # NoEntry /\ outbox' # NoEntry
  BY NoEntryAssumption
<1>2. /\ p \in Projection /\ WellFormed(p) /\ Allowed(p, q, n.at) /\ n = Successor(p, q, n.at)
      /\ q.op = "reserve" => q.reservation \in Reservation
  BY DEF Made, Wanted, Entry
<1>3. p.remaining \in 0 .. OrderAmount /\ p.rev \in Nat /\ p.status \in Statuses
      /\ p.reservation \in Reservation \cup {NoReservation}
  BY <1>2 DEF Projection
<1>4. p.reservation = NoReservation /\ p.status \notin Terminal => p.status \in {"open", "partially_filled"}
  BY <1>2, <1>3 DEF WellFormed, Statuses, Terminal
<1>5. q.op \in {"reserve", "fill", "release", "cancel", "expire"}
  BY <1>2 DEF Allowed
<1>6. CASE q.op = "reserve"
  <2>1. MayReserve(p, q, n.at)
    BY <1>2, <1>6 DEF Allowed
  <2>2. /\ n.status = "reserved" /\ n.reservation = q.reservation
        /\ n.rev = p.rev + 1 /\ n.remaining = p.remaining
    BY <1>2, <1>6 DEF Successor, Projection
  <2>3. Life!Fits(q.reservation.amount)
    BY <1>1, <2>1 DEF MayReserve, FillShape, Life!Fits
  <2> HIDE DEF p, n, q
  <2>4. Life!Hold
    BY <1>1, <1>2, <1>4, <1>6, <2>1, <2>2, <2>3 DEF MayReserve, Life!Hold, Life!Resting, p, n
  <2> QED BY <2>4 DEF Life!Next
<1>7. CASE q.op = "fill"
  <2>1. Live(p) /\ p.reservation = q.reservation /\ FillShape(p.remaining, p.reservation.amount)
    BY <1>2, <1>7 DEF Allowed, MayFill
  <2> DEFINE rest == p.remaining - p.reservation.amount
  <2>2. /\ n.remaining = rest /\ n.reservation = NoReservation /\ n.rev = p.rev + 1
        /\ n.status = IF rest = 0 THEN "filled" ELSE "partially_filled"
    BY <1>2, <1>7, <2>1 DEF Successor, Projection
  <2>3. rest \in Nat /\ rest # OrderAmount
    BY <1>3, <2>1, AmountAssumption DEF Live, FillShape, Reservation
  <2>4. Life!Fits(p.reservation.amount)
    BY <1>1, <2>1 DEF FillShape, Life!Fits
  <2>5. n.status = Life!Rest(rest)
    BY <2>2, <2>3 DEF Life!Rest
  <2>6. Life!Sell
    BY <1>1, <2>1, <2>2, <2>4, <2>5 DEF Live, Life!Sell
  <2> QED BY <2>6 DEF Life!Next
<1>8. CASE q.op = "release"
  <2>1. Live(p)
    BY <1>2, <1>8 DEF Allowed, MayRelease
  <2>2. /\ n.remaining = p.remaining /\ n.reservation = NoReservation /\ n.rev = p.rev + 1
        /\ n.status = IF p.remaining = OrderAmount THEN "open" ELSE "partially_filled"
    BY <1>2, <1>8 DEF Successor, Released, Projection
  <2>3. p.remaining # 0
    BY <1>2, <1>3, <2>1, AmountAssumption DEF Live, WellFormed, Reservation
  <2>4. n.status = Life!Rest(p.remaining)
    BY <2>2, <2>3 DEF Life!Rest
  <2>5. Life!GiveBack
    BY <1>1, <2>1, <2>2, <2>4 DEF Live, Life!GiveBack
  <2> QED BY <2>5 DEF Life!Next
<1>9. CASE q.op \in {"cancel", "expire"}
  <2>1. p.status \in {"open", "partially_filled"}
    BY <1>2, <1>4, <1>9 DEF Allowed, MayCancel, MayExpire
  <2>2. /\ n.remaining = p.remaining /\ n.reservation = p.reservation /\ n.rev = p.rev + 1
        /\ n.status \in {"canceled", "expired"}
    BY <1>2, <1>9 DEF Successor, Projection
  <2>3. Life!End
    BY <1>1, <2>1, <2>2 DEF Life!End, Life!Resting
  <2> QED BY <2>3 DEF Life!Next
<1> QED BY <1>5, <1>6, <1>7, <1>8, <1>9

\* Whatever calls overlap, and whatever is retried, delayed, lost or restarted, the
\* durable head is one order sold in parts: each revision is an operation allowed on
\* the one before.
THEOREM OrderLifeImplemented ==
    ASSUME SinglePage
    PROVE  Spec => ImplementsOrderLife
<1> USE NoEntryAssumption
<1>1. Init => Life!Init
  BY DEF Init, Life!Init
<1>2. /\ TypeInv /\ TypeInv' /\ OrderInv /\ StagingIsMade /\ [Next]_vars
      => [Life!Next]_(Life!vars)
  <2> SUFFICES ASSUME TypeInv, TypeInv', OrderInv, StagingIsMade, [Next]_vars
               PROVE  Life!Next \/ UNCHANGED Life!vars
    OBVIOUS
  <2>1. CASE outbox = NoEntry
    <3>1. CASE outbox' = NoEntry
      BY <2>1, <3>1 DEF Life!vars
    <3>2. CASE outbox' # NoEntry
      <4>1. PICK c \in Callers : Create(c)
        BY <2>1, <3>2 DEF Next, Stage, StageCheck, StageLoad, StageWrite, Publish, PublishRead,
                          PublishPosition, SomeSend, PublishSend, PublishRecord, Clear, Destroy,
                          Restart, Tick, vars, TypeInv, CallType
      <4>2. outbox'.proj = Created(clock)
        BY <4>1 DEF Create
      <4>3. Life!Publish
        BY <2>1, <3>2, <4>2 DEF Created, Life!Publish
      <4> QED BY <4>3 DEF Life!Next
    <3> QED BY <3>1, <3>2
  <2>2. CASE outbox # NoEntry
    <3>1. outbox \in Entry /\ WellFormed(outbox.proj)
      BY <2>2 DEF TypeInv, StoreType
    <3>2. CASE outbox'.proj = outbox.proj /\ outbox' # NoEntry
      BY <2>2, <3>2 DEF Life!vars
    <3>3. CASE \E c \in Callers : StageWrite(c) /\ outbox' = call[c].entry
      <4>1. PICK c \in Callers : StageWrite(c) /\ outbox' = call[c].entry
        BY <3>3
      <4>2. Made(outbox') /\ outbox' \in Entry /\ outbox'.request.base = outbox.proj
        BY <4>1 DEF StageWrite, TypeInv, CallType, StagingIsMade, OrderInv, StagingExtends, Extends
      <4>3. Life!Next
        BY <3>1, <4>2, OperationLives
      <4> QED BY <4>3
    <3>4. \/ outbox'.proj = outbox.proj /\ outbox' # NoEntry
          \/ \E c \in Callers : StageWrite(c) /\ outbox' = call[c].entry
      <4>1. ASSUME \/ outbox' = outbox
                   \/ outbox' = [outbox EXCEPT !.committed = TRUE]
                   \/ \E a \in SUBSET Relays : outbox' = [outbox EXCEPT !.acks = a, !.committed = FALSE]
            PROVE  outbox'.proj = outbox.proj /\ outbox' # NoEntry
        <5>1. outbox' \in Entry
          BY <3>1, <4>1 DEF Entry
        <5>2. outbox'.proj = outbox.proj
          BY <3>1, <4>1 DEF Entry
        <5> QED BY <5>1, <5>2
      <4>2. ASSUME NEW c \in Callers, StageCheck(c) \/ Clear(c)
            PROVE  outbox' = outbox \/ outbox' = [outbox EXCEPT !.committed = TRUE]
        BY <2>2, <4>2 DEF StageCheck, Clear
      <4>3. ASSUME NEW c \in Callers, StageWrite(c)
            PROVE  outbox' = outbox \/ outbox' = call[c].entry
        BY <4>3 DEF StageWrite
      <4>4. ASSUME NEW c \in Callers, PublishRecord(c)
            PROVE  \/ outbox' = outbox
                   \/ \E a \in SUBSET Relays :
                        outbox' = [outbox EXCEPT !.acks = a, !.committed = FALSE]
        <5>1. \/ outbox' = outbox
              \/ outbox' = [outbox EXCEPT !.acks = @ \cup call[c].entry.acks, !.committed = FALSE]
          BY <4>4 DEF PublishRecord, Recorded
        <5>2. call[c].entry \in Entry
          BY <4>4 DEF PublishRecord, TypeInv, CallType, Sending
        <5>3. outbox.acks \cup call[c].entry.acks \in SUBSET Relays
          BY <3>1, <5>2 DEF Entry
        <5> QED BY <5>1, <5>3
      <4>5. ASSUME NEW c \in Callers, StageLoad(c) \/ PublishRead(c) \/ PublishPosition(c)
                                      \/ SomeSend(c) \/ Destroy(c)
            PROVE  outbox' = outbox
        BY <4>5 DEF StageLoad, PublishRead, PublishPosition, SomeSend, PublishSend, Destroy
      <4>6. (\E t \in Tabs : Restart(t)) \/ Tick \/ UNCHANGED vars => outbox' = outbox
        BY DEF Restart, Tick, vars
      <4>7. ASSUME NEW c \in Callers PROVE ~Create(c)
        BY <2>2 DEF Create
      <4> QED BY <4>1, <4>2, <4>3, <4>4, <4>5, <4>6, <4>7 DEF Next, Stage, Publish
    <3> QED BY <3>2, <3>3, <3>4
  <2> QED BY <2>1, <2>2
<1> QED BY <1>1, <1>2, TypeInit, TypeStep, Ordered, MadeInit, MadeStep, PTL
        DEF Spec, ImplementsOrderLife, Life!Spec

-----------------------------------------------------------------------------
(***************************************************************************)
(* What may be filled of it.                                               *)
(***************************************************************************)

Terms == INSTANCE TradeTerms

\* What is left is an amount, and no remnant.
LifeInv ==
    /\ (IF outbox = NoEntry THEN OrderAmount ELSE outbox.proj.remaining) \in Nat
    /\ Life!NoRemnant
LEMMA LifeInit == Life!Init => LifeInv
BY AmountAssumption DEF Life!Init, LifeInv, Life!NoRemnant

LEMMA LifeStep == TypeInv' /\ LifeInv /\ [Life!Next]_(Life!vars) => LifeInv'
<1> DEFINE left == IF outbox = NoEntry THEN OrderAmount ELSE outbox.proj.remaining
           held == IF outbox = NoEntry THEN NoReservation ELSE outbox.proj.reservation
<1> SUFFICES ASSUME TypeInv', LifeInv, [Life!Next]_(Life!vars) PROVE LifeInv'
  OBVIOUS
<1>1. left' \in Nat
  BY AmountAssumption DEF TypeInv, StoreType, Entry, Projection
<1>2. left \in Nat /\ (left = 0 \/ left >= MinimumFill)
  BY DEF LifeInv, Life!NoRemnant
<1>3. \/ left' = left
      \/ /\ Life!Fits(held.amount)
         /\ left' = left - held.amount
  BY DEF Life!Next, Life!Publish, Life!Hold, Life!Sell, Life!GiveBack, Life!End, Life!vars
<1>4. Life!Fits(held.amount) =>
        \/ held.amount = left
        \/ left - held.amount >= MinimumFill
  BY DEF Life!Fits
<1> HIDE DEF held
<1>5. left' = 0 \/ left' >= MinimumFill
  <2> HIDE DEF left
  <2> QED BY <1>1, <1>2, <1>3, <1>4
<1> QED BY <1>1, <1>5 DEF LifeInv, Life!NoRemnant

\* What is left of an order is nothing or can be sold as one part: no reachable order is
\* left with a remnant that its own minimum forbids to sell.
THEOREM NoRemnantIsLeft ==
    ASSUME SinglePage
    PROVE  Spec => []Life!NoRemnant
<1>1. LifeInv => Life!NoRemnant
  BY DEF LifeInv
<1> QED BY <1>1, LifeInit, LifeStep, OrderLifeImplemented, TypeInit, TypeStep, PTL
        DEF Spec, ImplementsOrderLife, Life!Spec

\* The amounts of the order that is stored, as the sessions and the order see them.
Selling(execution, price) ==
    [remaining |-> outbox.proj.remaining, minimum |-> MinimumFill,
     execution |-> execution, price |-> price]
SameFills ==
    outbox # NoEntry =>
        \A execution \in {"all_or_none", "partial"}, price \in Nat, fill \in Nat \ {0} :
            (execution = "all_or_none" => MinimumFill = OrderAmount) =>
                LET sold == Selling(execution, price)
                IN  /\ Terms!SessionTakes(sold, fill) <=> Terms!OrderTakes(sold, fill)
                    /\ Terms!OrderTakes(sold, fill) <=>
                          /\ FillShape(outbox.proj.remaining, fill)
                          /\ Terms!Quote(fill, price) # 0

\* Two places decide which fills are allowed, with different conditions: the factory
\* that makes a session for a proposal, and the order when it is reserved and filled.
\* They agree on every order that can be stored, so no session is made for a fill that
\* the order then refuses; and FillShape is both of them, for either execution.
THEOREM SessionsFillWhatOrdersTake ==
    ASSUME SinglePage
    PROVE  Spec => []SameFills
<1>1. TypeInv /\ Life!NoRemnant => SameFills
  <2> SUFFICES ASSUME TypeInv, Life!NoRemnant, outbox # NoEntry,
                      NEW execution \in {"all_or_none", "partial"},
                      NEW price \in Nat, NEW fill \in Nat \ {0},
                      execution = "all_or_none" => MinimumFill = OrderAmount
               PROVE  LET sold == Selling(execution, price)
                      IN  /\ Terms!SessionTakes(sold, fill) <=> Terms!OrderTakes(sold, fill)
                          /\ Terms!OrderTakes(sold, fill) <=>
                                /\ FillShape(outbox.proj.remaining, fill)
                                /\ Terms!Quote(fill, price) # 0
    BY DEF SameFills
  <2> DEFINE sold == Selling(execution, price)
             left == outbox.proj.remaining
             worth == Terms!Quote(fill, price)
  <2>1. left \in 0 .. OrderAmount
    BY DEF TypeInv, StoreType, Entry, Projection
  <2>2. left = 0 \/ left >= MinimumFill
    BY DEF Life!NoRemnant
  <2>3. /\ sold.remaining = left /\ sold.minimum = MinimumFill
        /\ sold.execution = execution /\ sold.price = price
    BY DEF Selling
  <2> HIDE DEF sold, left
  <2>4. /\ OrderAmount \in Nat /\ MinimumFill \in Nat
        /\ 0 < MinimumFill /\ MinimumFill <= OrderAmount
    BY AmountAssumption
  <2>5. Terms!OrderTakes(sold, fill) <=> FillShape(left, fill) /\ worth # 0
    BY <2>1, <2>2, <2>3, <2>4 DEF Terms!OrderTakes, FillShape
  <2>6. Terms!SessionTakes(sold, fill) <=> FillShape(left, fill) /\ worth # 0
    BY <2>1, <2>2, <2>3, <2>4 DEF Terms!SessionTakes, FillShape
  <2> QED BY <2>5, <2>6 DEF sold, left
<1> QED BY <1>1, NoRemnantIsLeft, TypeInit, TypeStep, PTL DEF Spec

\* What the parts of an amount cost is at most what the whole costs, so an order that
\* was funded when it was published is funded however it is split; and a split costs its
\* seller at most a cent in truncation.
THEOREM PartsCostNoMore ==
    ASSUME NEW a \in Nat, NEW b \in Nat, NEW price \in Nat
    PROVE  /\ Terms!Quote(a, price) + Terms!Quote(b, price) <= Terms!Quote(a + b, price)
           /\ Terms!Quote(a + b, price) <= Terms!Quote(a, price) + Terms!Quote(b, price) + 1
<1> DEFINE x == a * price
           y == b * price
<1>1. x \in Nat /\ y \in Nat /\ (a + b) * price = x + y
  OBVIOUS
<1> HIDE DEF x, y
<1>2. /\ (x \div 100000000) + (y \div 100000000) <= (x + y) \div 100000000
      /\ (x + y) \div 100000000 <= (x \div 100000000) + (y \div 100000000) + 1
  BY <1>1
<1> QED BY <1>1, <1>2 DEF Terms!Quote, Terms!Satoshis, x, y

=============================================================================
