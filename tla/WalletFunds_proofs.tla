-------------------------- MODULE WalletFunds_proofs --------------------------
(***************************************************************************)
(* Proofs about WalletFunds, for any number of sessions, coins and lost    *)
(* results: exclusive inputs, and no proof of a session lost.              *)
(***************************************************************************)
EXTENDS WalletFunds, TLAPS

(***************************************************************************)
(* The inductive invariant.                                                *)
(***************************************************************************)
Claimed(s) == <<s, "claimed">>
Refunded(s) == <<s, "refunded">>

\* What each kind of operation spends and keeps.
Shape(s, o) ==
    /\ o \in Operation
    /\ o.kind = "lock" => o.keep \subseteq {Change(s)}
    /\ o.kind = "claim" => o.ins = {Offered(s)} /\ o.keep = {Claimed(s)}
    /\ o.kind = "refund" => o.ins = {Locked(s)} /\ o.keep = {Refunded(s)}

\* What a journaled operation says of the mint, the reservations and the token.
Backed(s, o) ==
    /\ o.ins \subseteq issued
    /\ o.status = "prepared" /\ o.reserved => \A p \in o.ins : reservation[p] = s
    /\ Outputs(s, o) \subseteq issued => o.ins \subseteq spent
    /\ o.status # "prepared" => Outputs(s, o) \subseteq issued
    /\ s \in token \/ (o.kind = "lock" /\ o.status = "prepared")

JournalInv(s) ==
    operation[s] # NoOperation => Shape(s, operation[s]) /\ Backed(s, operation[s])

\* The mint has signed nothing of a session that it has not prepared.
FreshInv(s) ==
    /\ operation[s] = NoOperation =>
           s \notin token /\ {Locked(s), Change(s), Claimed(s), Refunded(s)} \cap issued = {}
    /\ s \in token => Locked(s) \in issued
    /\ operation[s] # NoOperation /\ operation[s].kind = "lock" => Claimed(s) \notin issued
    /\ operation[s] # NoOperation /\ operation[s].kind # "refund" => Refunded(s) \notin issued

\* A result that waits to be saved is the next status of the operation.
ResultInv(s) ==
    result[s] # NoOperation =>
        LET o == operation[s]
        IN  /\ o # NoOperation
            /\ \/ /\ o.status = "prepared" /\ result[s] = [o EXCEPT !.reserved = TRUE]
                  /\ \A p \in o.ins : reservation[p] = s
               \/ /\ o.status = "prepared" /\ result[s] = [o EXCEPT !.status = "completed"]
                  /\ o.reserved /\ Outputs(s, o) \subseteq issued
               \/ /\ o.status = "completed" /\ result[s] = [o EXCEPT !.status = "wallet_applied"]
                  /\ o.keep \subseteq wallet \cup spent

\* FundsAreKept and LockIsKept, of one session.
KeptInv(s) ==
    /\ \A p \in {Change(s), Claimed(s), Refunded(s)} :
           p \in issued \ spent => p \in wallet \/ JournaledFor(s, p)
    /\ Locked(s) \in issued => s \in token \/ JournaledFor(s, Locked(s))

SessionInv(s) == JournalInv(s) /\ FreshInv(s) /\ ResultInv(s) /\ KeptInv(s)

\* The wallet holds what was signed for it, and a coin that was spent only
\* while it is reserved.
StoreInv ==
    /\ wallet \cup spent \subseteq issued
    /\ \A s \in Sessions : Offered(s) \in issued
    /\ \A c \in Coins : c \in wallet /\ c \in spent => reservation[c] # NoSession

FundsInv ==
    /\ TypeOK
    /\ StoreInv
    /\ \A s \in Sessions : SessionInv(s)

-----------------------------------------------------------------------------
(* A step of one session, or of the outside, leaves the others alone. *)

Own(s) == {s} \X Part

\* What a step may change for a session t that does not take it: reservations
\* t holds stay, the mints sign nothing of t's and forget nothing, and what
\* leaves the wallet is spent.
LeavesAlone(t) ==
    /\ operation'[t] = operation[t]
    /\ result'[t] = result[t]
    /\ t \in token' <=> t \in token
    /\ \A p \in Proof : reservation[p] = t => reservation'[p] = t
    /\ issued \subseteq issued'
    /\ issued' \cap Own(t) = issued \cap Own(t)
    /\ spent \subseteq spent'
    /\ wallet \subseteq wallet' \cup spent'

LEMMA Untouched ==
    ASSUME NEW t \in Sessions, TypeOK, SessionInv(t), LeavesAlone(t)
    PROVE  SessionInv(t)'
<1> DEFINE o == operation[t]
<1>1. {Locked(t), Change(t), Claimed(t), Refunded(t), Offered(t)} \subseteq Own(t)
  BY DEF Own, Part, Locked, Change, Claimed, Refunded, Offered
<1>2. o # NoOperation => o \in Operation /\ Outputs(t, o) \subseteq Own(t) /\ o.ins \subseteq Proof
  BY <1>1 DEF SessionInv, JournalInv, Shape, Outputs, Operation, Kind
<1>3. o # NoOperation => (Outputs(t, o) \subseteq issued' <=> Outputs(t, o) \subseteq issued)
  BY <1>2 DEF LeavesAlone
<1>4. JournalInv(t)'
  <2>1. SUFFICES ASSUME o # NoOperation
                 PROVE  Shape(t, o) /\ Backed(t, o)'
    BY DEF JournalInv, LeavesAlone, Shape, Backed
  <2>2. Shape(t, o) /\ Backed(t, o)
    BY <2>1 DEF SessionInv, JournalInv
  <2>3. (Outputs(t, o) \subseteq issued)' <=> Outputs(t, o) \subseteq issued
    BY <1>3, <2>1 DEF LeavesAlone, Outputs, Locked
  <2>. QED
    BY <2>2, <2>3, <1>2, <2>1 DEF Backed, LeavesAlone
<1>5. FreshInv(t)'
  BY <1>1 DEF SessionInv, FreshInv, LeavesAlone, Locked, Change, Claimed, Refunded
<1>6. ResultInv(t)'
  BY <1>2, <1>3 DEF SessionInv, ResultInv, LeavesAlone, Outputs, Locked
<1>7. KeptInv(t)'
  <2>1. \A p : JournaledFor(t, p)' <=> JournaledFor(t, p)
    BY DEF JournaledFor, LeavesAlone, Outputs, Locked
  <2>. QED
    BY <1>1, <2>1 DEF SessionInv, KeptInv, LeavesAlone, Locked, Change, Claimed, Refunded
<1>. QED
  BY <1>4, <1>5, <1>6, <1>7 DEF SessionInv

\* A session's own step preserves the invariant once it preserves the types,
\* the stores and the session's own part.
LEMMA StepKeeps ==
    ASSUME NEW s \in Sessions, FundsInv,
           TypeOK', StoreInv', SessionInv(s)',
           \A t \in Sessions \ {s} : LeavesAlone(t)
    PROVE  FundsInv'
<1>1. ASSUME NEW t \in Sessions \ {s} PROVE SessionInv(t)'
  BY <1>1, Untouched DEF FundsInv
<1>. QED
  BY <1>1 DEF FundsInv

-----------------------------------------------------------------------------
(* The steps of a session. *)

LEMMA OutputsOwned ==
    ASSUME NEW s \in Sessions, NEW o \in Operation, Shape(s, o)
    PROVE  /\ Outputs(s, o) \subseteq Own(s)
           /\ o.keep \subseteq Own(s) \cap {Change(s), Claimed(s), Refunded(s)}
           /\ Outputs(s, o) \subseteq Proof
           /\ Outputs(s, o) \cap Coins = {}
BY ProofAssumption DEF Shape, Outputs, Own, Part, Proof, Locked, Change, Claimed, Refunded, Operation, Kind

LEMMA PrepareLockKeeps ==
    ASSUME NEW s \in Sessions, FundsInv, PrepareLock(s)
    PROVE  FundsInv'
<1>1. PICK ins \in SUBSET UnreservedPocket(Pays[s]) \ {{}}, keep \in {{}, {Change(s)}} :
          operation' = [operation EXCEPT ![s] = Prepared("lock", ins, keep)]
  BY DEF PrepareLock
<1>2. UNCHANGED <<wallet, reservation, token, result, stopped, issued, spent, faults>>
      /\ Free(s) /\ operation[s] = NoOperation
  BY DEF PrepareLock
<1> DEFINE o == Prepared("lock", ins, keep)
<1>3. ins \subseteq wallet /\ ins \subseteq Proof
  BY DEF UnreservedPocket, Unreserved, FundsInv, TypeOK
<1>4. o \in Operation /\ Shape(s, o) /\ o # NoOperation
  <2>1. keep \subseteq Proof
    BY DEF Proof, Part, Change
  <2>2. o \in Operation
    BY <1>3, <2>1 DEF Prepared, Operation, Kind
  <2>. QED
    BY <2>2, NoOperationAssumption DEF Prepared, Shape
<1>5. operation'[s] = o
  BY <1>1 DEF FundsInv, TypeOK
<1>6. TypeOK'
  BY <1>1, <1>2, <1>4 DEF FundsInv, TypeOK
<1>7. StoreInv'
  BY <1>2 DEF FundsInv, StoreInv
<1>8. /\ s \notin token /\ Locked(s) \notin issued
      /\ {Change(s), Claimed(s), Refunded(s)} \cap issued = {}
  BY <1>2 DEF FundsInv, SessionInv, FreshInv
<1>9. SessionInv(s)'
  <2>1. Backed(s, o)'
    BY <1>2, <1>3, <1>8 DEF Backed, Outputs, Prepared, FundsInv, StoreInv, Locked
  <2>2. JournalInv(s)'
    BY <1>4, <1>5, <2>1 DEF JournalInv, Shape
  <2>3. FreshInv(s)'
    BY <1>2, <1>4, <1>5, <1>8 DEF FreshInv
  <2>4. ResultInv(s)' /\ KeptInv(s)'
    BY <1>2, <1>8 DEF ResultInv, KeptInv, Free, Locked, Change, Claimed, Refunded
  <2>. QED
    BY <2>2, <2>3, <2>4 DEF SessionInv
<1>10. \A t \in Sessions \ {s} : LeavesAlone(t)
  BY <1>1, <1>2 DEF LeavesAlone, FundsInv, TypeOK
<1>. QED
  BY <1>6, <1>7, <1>9, <1>10, StepKeeps

LEMMA PrepareSpendKeeps ==
    ASSUME NEW s \in Sessions, FundsInv, PrepareSpend(s)
    PROVE  FundsInv'
<1>1. PICK o \in {Prepared("claim", {Offered(s)}, {Claimed(s)}),
                  Prepared("refund", {Locked(s)}, {Refunded(s)})} :
          /\ operation' = [operation EXCEPT ![s] = o]
          /\ o.kind = "claim" => operation[s].kind = "lock"
  BY DEF PrepareSpend, Prepared, Claimed, Refunded
<1>2. UNCHANGED <<wallet, reservation, token, result, stopped, issued, spent, faults>>
      /\ result[s] = NoOperation /\ s \in token
      /\ operation[s] # NoOperation /\ operation[s].status = "wallet_applied"
      /\ operation[s].kind # "refund"
  BY DEF PrepareSpend, Free, HasStatus
<1>3. /\ o \in Operation /\ Shape(s, o) /\ o # NoOperation
      /\ o.status = "prepared" /\ ~o.reserved /\ o.kind \in {"claim", "refund"}
  <2>1. {Offered(s), Locked(s), Claimed(s), Refunded(s)} \subseteq Proof
    BY DEF Proof, Part, Offered, Locked, Claimed, Refunded
  <2>2. CASE o = Prepared("claim", {Offered(s)}, {Claimed(s)})
    <3>1. o \in Operation
      BY <2>1, <2>2 DEF Prepared, Operation, Kind
    <3>. QED
      BY <2>2, <3>1, NoOperationAssumption DEF Prepared, Shape
  <2>3. CASE o = Prepared("refund", {Locked(s)}, {Refunded(s)})
    <3>1. o \in Operation
      BY <2>1, <2>3 DEF Prepared, Operation, Kind
    <3>. QED
      BY <2>3, <3>1, NoOperationAssumption DEF Prepared, Shape
  <2>. QED
    BY <1>1, <2>2, <2>3
<1>4. operation'[s] = o
  BY <1>1 DEF FundsInv, TypeOK
<1>5. TypeOK'
  BY <1>1, <1>2, <1>3 DEF FundsInv, TypeOK
<1>6. StoreInv'
  BY <1>2 DEF FundsInv, StoreInv
<1>7. SessionInv(s) /\ StoreInv
  BY DEF FundsInv
<1>8. SessionInv(s)'
  <2>1. ~(Outputs(s, o) \subseteq issued)
    <3>1. Outputs(s, o) = o.keep
      BY <1>3 DEF Outputs
    <3>2. o.kind = "claim" => Claimed(s) \notin issued /\ o.keep = {Claimed(s)}
      BY <1>1, <1>2, <1>3, <1>7 DEF SessionInv, FreshInv, Shape
    <3>3. o.kind = "refund" => Refunded(s) \notin issued /\ o.keep = {Refunded(s)}
      BY <1>1, <1>2, <1>3, <1>7 DEF SessionInv, FreshInv, Shape
    <3>. QED
      BY <3>1, <3>2, <3>3, <1>3
  <2>2. o.ins \subseteq issued
    BY <1>2, <1>3, <1>7 DEF Shape, StoreInv, SessionInv, FreshInv
  <2>3. (Outputs(s, o) \subseteq issued)' <=> Outputs(s, o) \subseteq issued
    BY <1>2 DEF Outputs, Locked
  <2>4. Backed(s, o)'
    BY <1>2, <1>3, <2>1, <2>2, <2>3 DEF Backed
  <2>5. JournalInv(s)'
    BY <1>3, <1>4, <2>4 DEF JournalInv, Shape
  <2>6. FreshInv(s)'
    BY <1>1, <1>2, <1>3, <1>4, <1>7 DEF SessionInv, FreshInv
  <2>7. ResultInv(s)' /\ KeptInv(s)'
    BY <1>2, <1>7 DEF SessionInv, ResultInv, KeptInv, JournaledFor, Locked, Change, Claimed, Refunded
  <2>. QED
    BY <2>5, <2>6, <2>7 DEF SessionInv
<1>9. \A t \in Sessions \ {s} : LeavesAlone(t)
  BY <1>1, <1>2 DEF LeavesAlone, FundsInv, TypeOK
<1>. QED
  BY <1>5, <1>6, <1>8, <1>9, StepKeeps

LEMMA ReserveKeeps ==
    ASSUME NEW s \in Sessions, FundsInv, Reserve(s)
    PROVE  FundsInv'
<1> DEFINE o == operation[s]
<1>1. /\ result[s] = NoOperation /\ o # NoOperation /\ o.status = "prepared"
      /\ MayReserve(s, o.ins)
      /\ reservation' = [p \in Proof |-> IF p \in o.ins THEN s ELSE reservation[p]]
      /\ result' = [result EXCEPT ![s] = [o EXCEPT !.reserved = TRUE]]
      /\ UNCHANGED <<wallet, operation, token, stopped, issued, spent, faults>>
  BY DEF Reserve, Free, HasStatus
<1>2. SessionInv(s) /\ StoreInv /\ TypeOK
  BY DEF FundsInv
<1>3. o \in Operation /\ Shape(s, o) /\ Backed(s, o)
  BY <1>1, <1>2 DEF SessionInv, JournalInv, Shape
<1>4. o.ins \subseteq Proof /\ [o EXCEPT !.reserved = TRUE] \in Operation
  BY <1>3 DEF Operation
<1>5. TypeOK'
  BY <1>1, <1>2, <1>4 DEF TypeOK
<1>6. \A p \in o.ins : reservation'[p] = s
  BY <1>1, <1>4
<1>7. \A t \in Sessions \ {s} : LeavesAlone(t)
  BY <1>1, <1>2, ProofAssumption DEF LeavesAlone, TypeOK, MayReserve
<1>8. StoreInv'
  BY <1>1, <1>2, ProofAssumption DEF StoreInv, Proof
<1>9. SessionInv(s)'
  <2>1. (Outputs(s, o) \subseteq issued)' <=> Outputs(s, o) \subseteq issued
    BY <1>1 DEF Outputs, Locked
  <2>2. Backed(s, o)'
    BY <1>1, <1>3, <1>6, <2>1 DEF Backed
  <2>3. JournalInv(s)'
    BY <1>1, <1>3, <2>2 DEF JournalInv, Shape
  <2>4. FreshInv(s)' /\ KeptInv(s)'
    BY <1>1, <1>2 DEF SessionInv, FreshInv, KeptInv, JournaledFor, Outputs, Locked, Change,
         Claimed, Refunded
  <2>5. result'[s] = [o EXCEPT !.reserved = TRUE]
    BY <1>1, <1>2 DEF TypeOK
  <2>6. ResultInv(s)'
    BY <1>1, <1>6, <2>5 DEF ResultInv
  <2>. QED
    BY <2>3, <2>4, <2>6 DEF SessionInv
<1>. QED
  BY <1>5, <1>7, <1>8, <1>9, StepKeeps

LEMMA ExecuteKeeps ==
    ASSUME NEW s \in Sessions, FundsInv, Execute(s)
    PROVE  FundsInv'
<1> DEFINE o == operation[s]
           outputs == Outputs(s, o)
<1>1. /\ o # NoOperation /\ o.status = "prepared" /\ o.reserved
      /\ result' = [result EXCEPT ![s] = [o EXCEPT !.status = "completed"]]
      /\ UNCHANGED <<wallet, reservation, operation, token, stopped, faults>>
  BY DEF Execute, HasStatus
<1>2. SessionInv(s) /\ StoreInv /\ TypeOK
  BY DEF FundsInv
<1>3. o \in Operation /\ Shape(s, o) /\ Backed(s, o)
  BY <1>1, <1>2 DEF SessionInv, JournalInv, Shape
<1>4. /\ issued' = issued \cup outputs
      /\ spent' = spent \cup o.ins
  BY <1>1, <1>3 DEF Execute, Backed
<1>5. o.ins \subseteq Proof /\ o.ins \subseteq issued /\ (\A p \in o.ins : reservation[p] = s)
  BY <1>1, <1>3 DEF Operation, Backed
<1>6. /\ outputs \subseteq Own(s) /\ outputs \subseteq Proof /\ outputs \cap Coins = {}
      /\ o.keep \subseteq {Change(s), Claimed(s), Refunded(s)}
  BY <1>3, OutputsOwned
<1>7. [o EXCEPT !.status = "completed"] \in Operation
  BY <1>3 DEF Operation
<1>8. TypeOK'
  BY <1>1, <1>2, <1>4, <1>5, <1>6, <1>7 DEF TypeOK
<1>9. StoreInv'
  BY <1>1, <1>2, <1>4, <1>5, ProofAssumption DEF StoreInv
<1>10. \A t \in Sessions \ {s} : LeavesAlone(t)
  BY <1>1, <1>2, <1>4, <1>6 DEF LeavesAlone, TypeOK, Own
<1>11. SessionInv(s)'
  <2>1. outputs' = outputs /\ outputs \subseteq issued'
    BY <1>1, <1>4 DEF Outputs, Locked
  <2>2. JournalInv(s)'
    BY <1>1, <1>3, <1>4, <1>5, <2>1 DEF JournalInv, Shape, Backed
  <2>3. /\ o.kind # "refund" => Refunded(s) \notin outputs
        /\ o.kind = "lock" => Claimed(s) \notin outputs
    BY <1>3 DEF Shape, Outputs, Operation, Kind, Locked, Change, Claimed, Refunded
  <2>4. FreshInv(s)'
    BY <1>1, <1>2, <1>4, <2>3 DEF SessionInv, FreshInv, Locked, Claimed, Refunded
  <2>5. result'[s] = [o EXCEPT !.status = "completed"]
    BY <1>1, <1>2 DEF TypeOK
  <2>6. ResultInv(s)'
    BY <1>1, <2>1, <2>5 DEF ResultInv
  <2>7. \A p \in outputs : JournaledFor(s, p)'
    BY <1>1, <2>1 DEF JournaledFor
  <2>8. \A p : JournaledFor(s, p)' <=> JournaledFor(s, p)
    BY <1>1 DEF JournaledFor, Outputs, Locked
  <2>9. KeptInv(s)'
    BY <1>1, <1>2, <1>4, <2>7, <2>8 DEF SessionInv, KeptInv, Locked, Change, Claimed, Refunded
  <2>. QED
    BY <2>2, <2>4, <2>6, <2>9 DEF SessionInv
<1>. QED
  BY <1>8, <1>9, <1>10, <1>11, StepKeeps

LEMMA StopKeeps ==
    ASSUME NEW s \in Sessions, FundsInv, Stop(s)
    PROVE  FundsInv'
<1>1. UNCHANGED <<wallet, reservation, operation, token, result, issued, spent, faults>>
      /\ stopped' = stopped \cup {s}
  BY DEF Stop
<1>2. TypeOK' /\ StoreInv'
  BY <1>1 DEF FundsInv, TypeOK, StoreInv
<1>3. \A t \in Sessions : LeavesAlone(t)
  BY <1>1 DEF LeavesAlone
<1>. QED
  BY <1>2, <1>3, Untouched DEF FundsInv

\* A finished operation: the mint has signed all of it, and its inputs are spent.
LEMMA CompletedFacts ==
    ASSUME NEW s \in Sessions, FundsInv, HasStatus(s, "completed")
    PROVE  LET o == operation[s]
           IN  /\ o # NoOperation /\ Shape(s, o) /\ Backed(s, o) /\ s \in token
               /\ o.ins \subseteq spent /\ o.keep \subseteq issued
               /\ o.ins \subseteq Proof /\ o.keep \subseteq Proof /\ o.keep \cap Coins = {}
               /\ [o EXCEPT !.status = "wallet_applied"] \in Operation
<1> DEFINE o == operation[s]
<1>1. o # NoOperation /\ o.status = "completed" /\ SessionInv(s)
  BY DEF HasStatus, FundsInv
<1>2. o \in Operation /\ Shape(s, o) /\ Backed(s, o)
  BY <1>1 DEF SessionInv, JournalInv, Shape
<1>3. s \in token /\ o.ins \subseteq spent /\ o.keep \subseteq issued
  BY <1>1, <1>2 DEF Backed, Outputs
<1>4. o.keep \subseteq Proof /\ o.keep \cap Coins = {}
  BY <1>2, OutputsOwned DEF Outputs
<1>5. o.ins \subseteq Proof /\ [o EXCEPT !.status = "wallet_applied"] \in Operation
  BY <1>2 DEF Operation
<1>. QED
  BY <1>1, <1>2, <1>3, <1>4, <1>5

LEMMA ReconcileKeeps ==
    ASSUME NEW s \in Sessions, FundsInv, Reconcile(s)
    PROVE  FundsInv'
<1> DEFINE o == operation[s]
           applied == [o EXCEPT !.status = "wallet_applied"]
           released == [p \in Proof |-> IF p \in o.ins THEN NoSession ELSE reservation[p]]
<1>1. /\ HasStatus(s, "completed") /\ Unambiguous(o) /\ result[s] = NoOperation
      /\ wallet' = Reconciled(o)
      /\ UNCHANGED <<operation, token, stopped, issued, spent>>
  BY DEF Reconcile, Free
<1>2. /\ \/ MayRelease(s, o.ins) /\ reservation' = released
         \/ UNCHANGED reservation
      /\ \/ result' = [result EXCEPT ![s] = applied]
         \/ UNCHANGED result
      /\ faults' = faults \/ (faults < MaxFaults /\ faults' = faults + 1)
  BY DEF Reconcile, Fault
<1>3. SessionInv(s) /\ StoreInv /\ TypeOK
  BY DEF FundsInv
<1>4. /\ o # NoOperation /\ Shape(s, o) /\ Backed(s, o) /\ s \in token
      /\ o.ins \subseteq spent /\ o.keep \subseteq issued
      /\ o.ins \subseteq Proof /\ o.keep \subseteq Proof /\ o.keep \cap Coins = {}
      /\ applied \in Operation
  BY <1>1, CompletedFacts
<1>5. o.status = "completed"
  BY <1>1 DEF HasStatus
\* What the wallet becomes.
<1>6. /\ wallet' \subseteq wallet \cup o.keep
      /\ wallet \subseteq wallet' \cup o.ins
      /\ o.keep \subseteq wallet'
      /\ o.kind = "lock" => o.ins \cap wallet' \subseteq o.keep
  <2>1. CASE o.kind # "lock"
    BY <1>1, <2>1 DEF Reconciled
  <2>2. CASE o.kind = "lock" /\ o.ins \subseteq wallet
    BY <1>1, <2>2 DEF Reconciled
  <2>3. CASE o.kind = "lock" /\ ~(o.ins \subseteq wallet)
    BY <1>1, <2>3 DEF Reconciled, Unambiguous
  <2>. QED
    BY <2>1, <2>2, <2>3
\* No coin among the inputs is left in it.
<1>7. o.ins \cap wallet' \cap Coins = {}
  <2>1. CASE o.kind = "lock"
    BY <1>4, <1>6, <2>1
  <2>2. CASE o.kind # "lock"
    <3>1. o.ins \subseteq Sessions \X Part
      BY <1>4, <2>2 DEF Shape, Operation, Kind, Offered, Locked, Part
    <3>. QED
      BY <3>1, ProofAssumption
  <2>. QED
    BY <2>1, <2>2
<1>8. faults' \in 0 .. MaxFaults
  BY <1>2, <1>3, FaultAssumption DEF TypeOK
<1>9. reservation' \in [Proof -> Sessions \cup {NoSession}]
  BY <1>2, <1>3 DEF TypeOK
<1>10. TypeOK'
  BY <1>1, <1>2, <1>3, <1>4, <1>6, <1>8, <1>9 DEF TypeOK
<1>11. StoreInv'
  <2>1. \A c \in Coins : c \in wallet' /\ c \in spent => reservation'[c] # NoSession
    <3>1. SUFFICES ASSUME NEW c \in Coins, c \in wallet', c \in spent
                   PROVE  reservation'[c] # NoSession
      OBVIOUS
    <3>2. c \in wallet /\ c \notin o.ins /\ c \in Proof
      BY <1>4, <1>6, <1>7, <3>1 DEF Proof
    <3>3. reservation[c] # NoSession
      BY <1>3, <3>1, <3>2 DEF StoreInv
    <3>. QED
      BY <1>2, <3>2, <3>3
  <2>. QED
    BY <1>1, <1>3, <1>4, <1>6, <2>1 DEF StoreInv
<1>12. \A t \in Sessions \ {s} : LeavesAlone(t)
  <2>1. SUFFICES ASSUME NEW t \in Sessions \ {s} PROVE LeavesAlone(t)
    OBVIOUS
  <2>2. \A p \in Proof : reservation[p] = t => reservation'[p] = t
    BY <1>2, ProofAssumption DEF MayRelease
  <2>3. result'[t] = result[t]
    BY <1>2, <1>3 DEF TypeOK
  <2>. QED
    BY <1>1, <1>4, <1>6, <2>2, <2>3 DEF LeavesAlone
<1>13. SessionInv(s)'
  <2>1. JournalInv(s)'
    BY <1>1, <1>4, <1>5 DEF JournalInv, Shape, Backed, Outputs, Locked
  <2>2. FreshInv(s)'
    BY <1>1, <1>3 DEF SessionInv, FreshInv, Locked, Change, Claimed, Refunded
  <2>3. result'[s] = NoOperation \/ result'[s] = applied
    BY <1>1, <1>2, <1>3 DEF TypeOK
  <2>4. ResultInv(s)'
    BY <1>1, <1>4, <1>5, <1>6, <2>3 DEF ResultInv
  <2>5. \A p : JournaledFor(s, p)' <=> JournaledFor(s, p)
    BY <1>1 DEF JournaledFor, Outputs, Locked
  <2>6. KeptInv(s)'
    BY <1>1, <1>3, <1>4, <1>6, <2>5 DEF SessionInv, KeptInv, Locked, Change, Claimed, Refunded
  <2>. QED
    BY <2>1, <2>2, <2>4, <2>6 DEF SessionInv
<1>. QED
  BY <1>10, <1>11, <1>12, <1>13, StepKeeps

LEMMA CloseKeeps ==
    ASSUME NEW s \in Sessions, FundsInv, Close(s)
    PROVE  FundsInv'
<1>1. /\ faults < MaxFaults /\ faults' = faults + 1
      /\ result' = [result EXCEPT ![s] = NoOperation]
      /\ UNCHANGED <<wallet, reservation, operation, token, stopped, issued, spent>>
  BY DEF Close, Fault
<1>2. SessionInv(s) /\ StoreInv /\ TypeOK
  BY DEF FundsInv
<1>3. TypeOK' /\ StoreInv'
  BY <1>1, <1>2, FaultAssumption DEF TypeOK, StoreInv
<1>4. \A t \in Sessions \ {s} : LeavesAlone(t)
  BY <1>1, <1>2 DEF LeavesAlone, TypeOK
<1>5. SessionInv(s)'
  BY <1>1, <1>2 DEF SessionInv, TypeOK, JournalInv, Shape, Backed, FreshInv, ResultInv, KeptInv,
       JournaledFor, Outputs, Locked, Change, Claimed, Refunded
<1>. QED
  BY <1>3, <1>4, <1>5, StepKeeps

LEMMA SaveKeeps ==
    ASSUME NEW s \in Sessions, FundsInv, Save(s)
    PROVE  FundsInv'
<1> DEFINE o == operation[s]
           r == result[s]
<1>1. /\ r # NoOperation
      /\ operation' = [operation EXCEPT ![s] = r]
      /\ token' = IF r.kind = "lock" /\ r.status = "completed" THEN token \cup {s} ELSE token
      /\ result' = [result EXCEPT ![s] = NoOperation]
      /\ UNCHANGED <<wallet, reservation, stopped, issued, spent, faults>>
  BY DEF Save
<1>2. SessionInv(s) /\ StoreInv /\ TypeOK
  BY DEF FundsInv
<1>3. o # NoOperation /\ o \in Operation /\ Shape(s, o) /\ Backed(s, o)
  BY <1>1, <1>2 DEF SessionInv, ResultInv, JournalInv, Shape
<1>4. r \in Operation /\ r.kind = o.kind /\ r.ins = o.ins /\ r.keep = o.keep
  BY <1>1, <1>2, <1>3 DEF SessionInv, ResultInv, TypeOK, Operation
\* The three steps a result may come from.
<1>5. \/ r.status = "prepared" /\ o.status = "prepared" /\ \A p \in o.ins : reservation[p] = s
      \/ r.status = "completed" /\ o.status = "prepared" /\ Outputs(s, o) \subseteq issued
      \/ r.status = "wallet_applied" /\ o.status = "completed" /\ o.keep \subseteq wallet \cup spent
  BY <1>1, <1>2, <1>3 DEF SessionInv, ResultInv, Operation
<1>6. operation'[s] = r /\ result'[s] = NoOperation
  BY <1>1, <1>2 DEF TypeOK
<1>7. TypeOK' /\ StoreInv'
  BY <1>1, <1>2, <1>4 DEF TypeOK, StoreInv
<1>8. \A t \in Sessions \ {s} : LeavesAlone(t)
  BY <1>1, <1>2 DEF LeavesAlone, TypeOK
<1>9. SessionInv(s)'
  <2>1. Outputs(s, r) = Outputs(s, o) /\ Outputs(s, o)' = Outputs(s, r)
    BY <1>1, <1>4, <1>6 DEF Outputs, Locked
  <2>2. Shape(s, r)
    BY <1>3, <1>4 DEF Shape
  <2>3. s \in token' \/ (r.kind = "lock" /\ r.status = "prepared")
    BY <1>1, <1>3, <1>4, <1>5 DEF Backed
  <2>4. JournalInv(s)'
    <3>1. r.status # "prepared" => Outputs(s, r) \subseteq issued
      BY <1>3, <1>5, <2>1 DEF Backed
    <3>2. Backed(s, o) /\ (Outputs(s, r) \subseteq issued => r.ins \subseteq spent)
      BY <1>3, <1>4, <2>1 DEF Backed
    <3>3. r.status = "prepared" => \A p \in r.ins : reservation[p] = s
      BY <1>4, <1>5
    <3>4. Outputs(s, operation[s])' = Outputs(s, r) /\ Shape(s, operation[s])'
      BY <1>6, <2>1, <2>2 DEF Shape
    <3>5. r.ins \subseteq issued
      BY <1>3, <1>4 DEF Backed
    <3>6. Backed(s, operation[s])'
      BY <1>1, <1>6, <2>3, <3>1, <3>2, <3>3, <3>4, <3>5 DEF Backed
    <3>. QED
      BY <3>4, <3>6 DEF JournalInv
  <2>5. r.kind = "lock" /\ r.status = "completed" => Locked(s) \in issued
    BY <1>4, <1>5, <2>1 DEF Outputs
  <2>6. FreshInv(s)'
    BY <1>1, <1>2, <1>3, <1>4, <1>6, <2>5 DEF SessionInv, FreshInv, Locked, Claimed, Refunded
  <2>7. ResultInv(s)'
    BY <1>6 DEF ResultInv
  <2>8. KeptInv(s)'
    <3>1. r.status # "wallet_applied" =>
             \A p : JournaledFor(s, p) => JournaledFor(s, p)'
      BY <1>1, <1>5, <1>6, <2>1 DEF JournaledFor
    <3>2. ASSUME NEW p \in {Change(s), Claimed(s), Refunded(s)}, p \in issued \ spent,
                 p \notin wallet
          PROVE  JournaledFor(s, p)'
      <4>1. JournaledFor(s, p)
        BY <1>2, <3>2 DEF SessionInv, KeptInv
      <4>2. p \in o.keep
        BY <3>2, <4>1 DEF JournaledFor, Outputs, Locked, Change, Claimed, Refunded
      <4>. QED
        BY <1>5, <3>1, <3>2, <4>1, <4>2
    <3>3. Locked(s) \in issued => s \in token' \/ JournaledFor(s, Locked(s))'
      <4>1. CASE r.status = "wallet_applied"
        BY <2>3, <4>1
      <4>2. CASE r.status # "wallet_applied"
        <5>1. token \subseteq token'
          BY <1>1
        <5>. QED
          BY <1>2, <3>1, <4>2, <5>1 DEF SessionInv, KeptInv
      <4>. QED
        BY <4>1, <4>2
    <3>. QED
      BY <1>1, <3>2, <3>3 DEF KeptInv, Locked, Change, Claimed, Refunded
  <2>. QED
    BY <2>4, <2>6, <2>7, <2>8 DEF SessionInv
<1>. QED
  BY <1>7, <1>8, <1>9, StepKeeps

-----------------------------------------------------------------------------
(* The steps from outside. *)

LEMMA OutsideKeeps ==
    ASSUME FundsInv, TypeOK', StoreInv', \A t \in Sessions : LeavesAlone(t)
    PROVE  FundsInv'
<1>1. ASSUME NEW t \in Sessions PROVE SessionInv(t)'
  BY <1>1, Untouched DEF FundsInv
<1>. QED
  BY <1>1 DEF FundsInv

LEMMA ReceiveKeeps ==
    ASSUME NEW c \in Coins, FundsInv, Receive(c)
    PROVE  FundsInv'
<1>1. /\ c \notin issued /\ issued' = issued \cup {c}
      /\ wallet' = wallet \/ wallet' = wallet \cup {c}
      /\ faults' = faults \/ (faults < MaxFaults /\ faults' = faults + 1)
      /\ UNCHANGED <<reservation, operation, token, result, stopped, spent>>
  BY DEF Receive, Fault
<1>2. StoreInv /\ TypeOK /\ c \in Proof
  BY DEF FundsInv, Proof
<1>3. TypeOK'
  BY <1>1, <1>2, FaultAssumption DEF TypeOK
<1>4. StoreInv'
  BY <1>1, <1>2 DEF StoreInv
<1>5. \A t \in Sessions : c \notin Own(t)
  BY ProofAssumption DEF Own
<1>6. \A t \in Sessions : LeavesAlone(t)
  BY <1>1, <1>5 DEF LeavesAlone
<1>. QED
  BY <1>3, <1>4, <1>6, OutsideKeeps

LEMMA CounterpartySpendsKeeps ==
    ASSUME NEW s \in Sessions, FundsInv, CounterpartySpends(s)
    PROVE  FundsInv'
<1>1. PICK p \in {Locked(s), Offered(s)} \cap (issued \ spent) : spent' = spent \cup {p}
  BY DEF CounterpartySpends
<1>2. UNCHANGED <<wallet, reservation, operation, token, result, stopped, issued, faults>>
  BY DEF CounterpartySpends
<1>3. p \in Sessions \X Part /\ p \in issued
  BY <1>1 DEF Locked, Offered, Part
<1>4. p \in Proof /\ p \notin Coins
  BY <1>3, ProofAssumption DEF Proof
<1>5. TypeOK' /\ StoreInv'
  BY <1>1, <1>2, <1>3, <1>4 DEF FundsInv, TypeOK, StoreInv
<1>6. \A t \in Sessions : LeavesAlone(t)
  BY <1>1, <1>2 DEF LeavesAlone
<1>. QED
  BY <1>5, <1>6, OutsideKeeps

-----------------------------------------------------------------------------
(* The invariant, and what follows from it. *)

LEMMA InitKeeps == Init => FundsInv
<1> SUFFICES ASSUME Init PROVE FundsInv
  OBVIOUS
<1>1. \A s \in Sessions : Offered(s) \in Proof
  BY DEF Offered, Proof, Part
<1>2. TypeOK
  <2>1. issued \subseteq Proof
    BY <1>1 DEF Init
  <2>2. /\ reservation \in [Proof -> Sessions \cup {NoSession}]
        /\ operation \in [Sessions -> Operation \cup {NoOperation}]
        /\ result \in [Sessions -> Operation \cup {NoOperation}]
    BY DEF Init
  <2>3. wallet = {} /\ token = {} /\ stopped = {} /\ spent = {} /\ faults \in 0 .. MaxFaults
    BY FaultAssumption DEF Init
  <2>. QED
    BY <2>1, <2>2, <2>3 DEF TypeOK
<1>3. StoreInv
  BY DEF Init, StoreInv
<1>4. \A s \in Sessions : {Locked(s), Change(s), Claimed(s), Refunded(s)} \cap issued = {}
  <2>1. \A s, t \in Sessions : Offered(t) \notin {Locked(s), Change(s), Claimed(s), Refunded(s)}
    BY DEF Offered, Locked, Change, Claimed, Refunded
  <2>. QED
    BY <2>1 DEF Init
<1>5. ASSUME NEW s \in Sessions PROVE SessionInv(s)
  <2>1. operation[s] = NoOperation /\ result[s] = NoOperation /\ s \notin token
    BY DEF Init
  <2>. QED
    BY <1>4, <2>1 DEF SessionInv, JournalInv, FreshInv, ResultInv, KeptInv, Locked, Change,
         Claimed, Refunded
<1>. QED
  BY <1>2, <1>3, <1>5 DEF FundsInv

LEMMA NextKeeps == FundsInv /\ [Next]_vars => FundsInv'
<1> SUFFICES ASSUME FundsInv, [Next]_vars PROVE FundsInv'
  OBVIOUS
<1>1. CASE UNCHANGED vars
  <2>1. TypeOK' /\ StoreInv'
    BY <1>1 DEF FundsInv, TypeOK, StoreInv, vars
  <2>2. \A t \in Sessions : LeavesAlone(t)
    BY <1>1 DEF LeavesAlone, vars
  <2>. QED
    BY <2>1, <2>2, OutsideKeeps
<1>2. ASSUME NEW s \in Sessions, SessionStep(s) PROVE FundsInv'
  BY <1>2, PrepareLockKeeps, PrepareSpendKeeps, ReserveKeeps, ExecuteKeeps, ReconcileKeeps,
     SaveKeeps, StopKeeps DEF SessionStep
<1>3. ASSUME NEW s \in Sessions, Close(s) PROVE FundsInv'
  BY <1>3, CloseKeeps
<1>4. ASSUME NEW s \in Sessions, CounterpartySpends(s) PROVE FundsInv'
  BY <1>4, CounterpartySpendsKeeps
<1>5. ASSUME NEW c \in Coins, Receive(c) PROVE FundsInv'
  BY <1>5, ReceiveKeeps
<1>. QED
  BY <1>1, <1>2, <1>3, <1>4, <1>5 DEF Next

LEMMA Invariance == Spec => []FundsInv
BY InitKeeps, NextKeeps, PTL DEF Spec

\* The wallet, the reservations and the journals keep their types: no result
\* is lost or restored into anything else.
THEOREM TypeCorrect == Spec => []TypeOK
<1>1. FundsInv => TypeOK
  BY DEF FundsInv
<1>. QED
  BY <1>1, Invariance, PTL

\* Whatever is lost and retried, the inputs a session may still send to a mint
\* are reserved for that session (core/proof-reservations.ts).
THEOREM InputsExclusive == Spec => []InputsAreExclusive
<1>1. FundsInv => InputsAreExclusive
  BY DEF FundsInv, SessionInv, JournalInv, Backed, InputsAreExclusive, HasStatus
<1>. QED
  BY <1>1, Invariance, PTL

\* No unspent proof of a session is lost between the mint, the journal and the
\* wallet (trade/wallet-reconcile.ts, trade/effects.ts).
THEOREM FundsKept == Spec => []FundsAreKept
<1>1. FundsInv => FundsAreKept
  BY DEF FundsInv, SessionInv, KeptInv, FundsAreKept, Change, Claimed, Refunded
<1>. QED
  BY <1>1, Invariance, PTL

\* The token of an own lock is stored, or its journaled lock restores it
\* (cashu/trade-client.ts completeOutgoingLock).
THEOREM LockKept == Spec => []LockIsKept
<1>1. FundsInv => LockIsKept
  BY DEF FundsInv, SessionInv, KeptInv, LockIsKept
<1>. QED
  BY <1>1, Invariance, PTL

\* A coin the wallet would select again is unspent, after any number of
\* retried reconciliations (trade/wallet-reconcile.ts).
THEOREM CoinsStayOut == Spec => []SpentCoinsStayOut
<1>1. FundsInv => SpentCoinsStayOut
  BY DEF FundsInv, StoreInv, SpentCoinsStayOut, Unreserved
<1>. QED
  BY <1>1, Invariance, PTL

-----------------------------------------------------------------------------
(* Whole reservations: what a session holds is nothing, or the inputs of an *)
(* operation that is not reconciled yet.                                    *)

Held(s) == {p \in Proof : reservation[p] = s}

HeldInv(s) ==
    /\ Held(s) = {} \/ /\ operation[s] # NoOperation
                       /\ Held(s) = operation[s].ins
                       /\ operation[s].status # "wallet_applied"
    /\ result[s] # NoOperation /\ result[s].status = "wallet_applied" => Held(s) = {}

LEMMA HeldByOthers ==
    ASSUME NEW t \in Sessions, HeldInv(t),
           operation'[t] = operation[t], result'[t] = result[t],
           \A p \in Proof : reservation'[p] = t <=> reservation[p] = t
    PROVE  HeldInv(t)'
<1>1. Held(t)' = Held(t)
  BY DEF Held
<1>. QED
  BY <1>1 DEF HeldInv

LEMMA ReserveHolds ==
    ASSUME FundsInv, \A t \in Sessions : HeldInv(t), NEW s \in Sessions, Reserve(s)
    PROVE  \A t \in Sessions : HeldInv(t)'
<1> DEFINE o == operation[s]
<1>1. /\ o # NoOperation /\ o.status = "prepared" /\ MayReserve(s, o.ins)
      /\ reservation' = [p \in Proof |-> IF p \in o.ins THEN s ELSE reservation[p]]
      /\ result' = [result EXCEPT ![s] = [o EXCEPT !.reserved = TRUE]]
      /\ UNCHANGED operation
  BY DEF Reserve, HasStatus
<1>2. TypeOK /\ o \in Operation /\ o.ins \subseteq Proof
  BY <1>1 DEF FundsInv, TypeOK, Operation
<1>3. \A t \in Sessions \ {s} : HeldInv(t)'
  <2>1. SUFFICES ASSUME NEW t \in Sessions \ {s} PROVE HeldInv(t)'
    OBVIOUS
  <2>2. \A p \in Proof : reservation'[p] = t <=> reservation[p] = t
    BY <1>1, ProofAssumption DEF MayReserve
  <2>3. operation'[t] = operation[t] /\ result'[t] = result[t]
    BY <1>1, <1>2 DEF TypeOK
  <2>. QED
    BY <2>2, <2>3, HeldByOthers
<1>4. HeldInv(s)'
  <2>1. Held(s)' = o.ins
    BY <1>1, <1>2 DEF Held, HeldInv
  <2>2. result'[s] = [o EXCEPT !.reserved = TRUE] /\ result'[s].status = "prepared"
    BY <1>1, <1>2 DEF TypeOK, Operation
  <2>. QED
    BY <1>1, <2>1, <2>2 DEF HeldInv
<1>. QED
  BY <1>3, <1>4

LEMMA ReconcileHolds ==
    ASSUME FundsInv, \A t \in Sessions : HeldInv(t), NEW s \in Sessions, Reconcile(s)
    PROVE  \A t \in Sessions : HeldInv(t)'
<1> DEFINE o == operation[s]
           applied == [o EXCEPT !.status = "wallet_applied"]
           released == [p \in Proof |-> IF p \in o.ins THEN NoSession ELSE reservation[p]]
<1>1. /\ o # NoOperation /\ o.status = "completed" /\ result[s] = NoOperation
      /\ UNCHANGED operation
      /\ \/ MayRelease(s, o.ins) /\ reservation' = released
            /\ result' = [result EXCEPT ![s] = applied]
         \/ UNCHANGED <<reservation, result>>
  BY DEF Reconcile, HasStatus, Free
<1>2. TypeOK /\ o \in Operation /\ o.ins \subseteq Proof
  BY <1>1 DEF FundsInv, TypeOK, Operation
<1>3. \A t \in Sessions \ {s} : HeldInv(t)'
  <2>1. SUFFICES ASSUME NEW t \in Sessions \ {s} PROVE HeldInv(t)'
    OBVIOUS
  <2>2. \A p \in Proof : reservation'[p] = t <=> reservation[p] = t
    BY <1>1, ProofAssumption DEF MayRelease
  <2>3. operation'[t] = operation[t] /\ result'[t] = result[t]
    BY <1>1, <1>2 DEF TypeOK
  <2>. QED
    BY <2>2, <2>3, HeldByOthers
<1>4. HeldInv(s)'
  <2>1. CASE UNCHANGED <<reservation, result>>
    BY <1>1, <2>1 DEF HeldInv, Held
  <2>2. CASE reservation' = released
    <3>1. Held(s)' = {}
      BY <2>2, <1>2, ProofAssumption DEF Held, HeldInv
    <3>. QED
      BY <3>1 DEF HeldInv
  <2>. QED
    BY <1>1, <2>1, <2>2
<1>. QED
  BY <1>3, <1>4

\* The other steps of a session change no reservation.
LEMMA OtherStepHolds ==
    ASSUME FundsInv, \A t \in Sessions : HeldInv(t), NEW s \in Sessions,
           PrepareLock(s) \/ PrepareSpend(s) \/ Execute(s) \/ Save(s) \/ Stop(s) \/ Close(s)
    PROVE  \A t \in Sessions : HeldInv(t)'
<1>1. UNCHANGED reservation
  BY DEF PrepareLock, PrepareSpend, Execute, Save, Stop, Close
<1>2. TypeOK /\ SessionInv(s) /\ HeldInv(s)
  BY DEF FundsInv
<1>3. \A t \in Sessions \ {s} : operation'[t] = operation[t] /\ result'[t] = result[t]
  BY <1>2 DEF PrepareLock, PrepareSpend, Execute, Save, Stop, Close, TypeOK
<1>4. \A t \in Sessions \ {s} : HeldInv(t)'
  BY <1>1, <1>3, HeldByOthers
<1>5. Held(s)' = Held(s)
  BY <1>1 DEF Held
<1>6. CASE PrepareLock(s) \/ PrepareSpend(s)
  <2>1. Held(s) = {}
    BY <1>2, <1>6 DEF PrepareLock, PrepareSpend, HasStatus, HeldInv
  <2>. QED
    BY <1>4, <1>5, <2>1 DEF HeldInv
<1>7. CASE Execute(s)
  <2>1. result'[s].status = "completed" /\ UNCHANGED operation
    BY <1>2, <1>7 DEF Execute, HasStatus, TypeOK, Operation
  <2>. QED
    BY <1>2, <1>4, <1>5, <2>1 DEF HeldInv
<1>8. CASE Save(s)
  <2>1. operation'[s] = result[s] /\ result'[s] = NoOperation /\ result[s] # NoOperation
    BY <1>2, <1>8 DEF Save, TypeOK
  <2>2. operation[s] # NoOperation /\ result[s].ins = operation[s].ins
    BY <1>2, <2>1 DEF SessionInv, ResultInv, TypeOK, Operation
  <2>. QED
    BY <1>2, <1>4, <1>5, <2>1, <2>2 DEF HeldInv
<1>9. CASE Stop(s) \/ Close(s)
  <2>1. UNCHANGED operation /\ (result'[s] = result[s] \/ result'[s] = NoOperation)
    BY <1>2, <1>9 DEF Stop, Close, TypeOK
  <2>. QED
    BY <1>2, <1>4, <1>5, <2>1 DEF HeldInv
<1>. QED
  BY <1>6, <1>7, <1>8, <1>9

\* The inputs of an operation are reserved together and released together,
\* through lost results and retries (core/proof-reservations.ts).
THEOREM ReservationsWhole == Spec => []ReservationsAreWhole
<1> DEFINE HoldsInv == \A t \in Sessions : HeldInv(t)
<1>1. Init => HoldsInv
  BY ProofAssumption DEF Init, HeldInv, Held
<1>2. FundsInv /\ HoldsInv /\ [Next]_vars => HoldsInv'
  <2>1. SUFFICES ASSUME FundsInv, HoldsInv, [Next]_vars PROVE HoldsInv'
    OBVIOUS
  <2>2. CASE \E s \in Sessions : SessionStep(s) \/ Close(s)
    BY <2>1, <2>2, ReserveHolds, ReconcileHolds, OtherStepHolds DEF SessionStep
  <2>3. CASE UNCHANGED <<reservation, operation, result>>
    BY <2>1, <2>3, HeldByOthers
  <2>. QED
    BY <2>1, <2>2, <2>3 DEF Next, Receive, CounterpartySpends, vars
<1>3. FundsInv /\ HoldsInv => ReservationsAreWhole
  BY DEF FundsInv, TypeOK, Operation, HeldInv, Held, ReservationsAreWhole
<1>. QED
  BY <1>1, <1>2, <1>3, Invariance, PTL DEF Spec

=============================================================================
