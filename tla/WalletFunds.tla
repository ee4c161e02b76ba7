------------------------------ MODULE WalletFunds ------------------------------
(***************************************************************************)
(* The proofs of one wallet and the trade sessions that share it: which    *)
(* proofs a session may spend (core/proof-reservations.ts), what a mint    *)
(* made of them, and how the result of a lock, a claim or a refund reaches *)
(* the wallet (trade/effects.ts, trade/wallet-reconcile.ts).               *)
(*                                                                         *)
(* A session reserves, executes and reconciles in steps whose effect stays *)
(* when their result is not saved (the page closes).  The wallet and the   *)
(* reservations are two records written under one lock, the session is     *)
(* saved after it.                                                         *)
(*                                                                         *)
(* A preparation is saved only if wallet and reservations have not changed *)
(* since it read them (externalFingerprintMaterial), so it is one step.    *)
(***************************************************************************)
EXTENDS Naturals

CONSTANTS
    Sessions,     \* trade sessions of one profile
    Coins,        \* proofs that come in from outside: minted, or received
    Pockets,      \* a pocket holds the proofs of one mint and unit
    Pays, Gets,   \* [Sessions -> Pockets]: what a session locks, and claims
    CoinPocket,   \* [Coins -> Pockets]
    MaxFaults,    \* bound: pages closed at a bad moment
    NoSession, NoOperation

ASSUME FaultAssumption == MaxFaults \in Nat

VARIABLES
    wallet,       \* the proofs of the wallet record
    reservation,  \* [Proof -> Sessions or NoSession], the reservation record
    operation,    \* [Sessions -> Operation], the journal of each session
    token,        \* sessions whose own lock's token is stored
    result,       \* [Sessions -> Operation], the result of a step, not yet saved
    stopped,      \* sessions past the cutoff of their prepared operation
    issued,       \* proofs the mints have signed
    spent,        \* proofs the mints have seen
    faults

vars == <<wallet, reservation, operation, token, result, stopped, issued, spent, faults>>

-----------------------------------------------------------------------------
(* Proofs and operations.  A session makes at most these: the change and the *)
(* HTLC of its lock, what it claims of the counterparty's HTLC ("offered"),  *)
(* and what it refunds of its own.                                           *)

Part == {"change", "locked", "offered", "claimed", "refunded"}
Change(s) == <<s, "change">>
Locked(s) == <<s, "locked">>
Offered(s) == <<s, "offered">>
Proof == Coins \cup (Sessions \X Part)

ASSUME ProofAssumption ==
    /\ Coins \cap (Sessions \X Part) = {}
    /\ NoSession \notin Sessions
    /\ Pays \in [Sessions -> Pockets] /\ Gets \in [Sessions -> Pockets]
    /\ \A s \in Sessions : Pays[s] # Gets[s]
    /\ CoinPocket \in [Coins -> Pockets]

PocketOf(p) ==
    IF p \in Coins THEN CoinPocket[p]
    ELSE IF p[2] \in {"offered", "claimed"} THEN Gets[p[1]] ELSE Pays[p[1]]

Kind == {"lock", "claim", "refund"}
Operation ==
    [kind : Kind, status : {"prepared", "completed", "wallet_applied"},
     reserved : BOOLEAN, ins : SUBSET Proof, keep : SUBSET Proof]

ASSUME NoOperationAssumption == NoOperation \notin Operation

Prepared(kind, ins, keep) ==
    [kind |-> kind, status |-> "prepared", reserved |-> FALSE, ins |-> ins, keep |-> keep]

\* What the mint signs for an operation: the locked proofs stay in the session.
Outputs(s, o) == IF o.kind = "lock" THEN o.keep \cup {Locked(s)} ELSE o.keep

HasStatus(s, status) == operation[s] # NoOperation /\ operation[s].status = status
Free(s) == result[s] = NoOperation /\ s \notin stopped
Fault == faults < MaxFaults /\ faults' = faults + 1

Init ==
    /\ wallet = {}
    /\ reservation = [p \in Proof |-> NoSession]
    /\ operation = [s \in Sessions |-> NoOperation]
    /\ token = {}
    /\ result = [s \in Sessions |-> NoOperation]
    /\ stopped = {}
    /\ issued = {Offered(s) : s \in Sessions}
    /\ spent = {}
    /\ faults = 0

-----------------------------------------------------------------------------
(* Preparing: which proofs an operation will spend. *)

Unreserved == {p \in wallet : reservation[p] = NoSession}

\* unreservedPocket
UnreservedPocket(pocket) == {p \in Unreserved : PocketOf(p) = pocket}

\* A lock takes some unreserved proofs; the mint returns change or none.
PrepareLock(s) ==
    /\ Free(s) /\ operation[s] = NoOperation
    /\ \E ins \in SUBSET UnreservedPocket(Pays[s]) \ {{}}, keep \in {{}, {Change(s)}} :
           operation' = [operation EXCEPT ![s] = Prepared("lock", ins, keep)]
    /\ UNCHANGED <<wallet, reservation, token, result, stopped, issued, spent, faults>>

\* Mutant: the next operation is prepared over one not reconciled yet.
PrepareSpendEarly(s) ==
    /\ Free(s) /\ s \in token
    /\ operation[s].kind # "refund"
    /\ \/ /\ operation[s].kind = "lock" /\ Offered(s) \notin spent
          /\ operation' = [operation EXCEPT ![s] =
                 Prepared("claim", {Offered(s)}, {<<s, "claimed">>})]
       \/ /\ Locked(s) \notin spent
          /\ operation' = [operation EXCEPT ![s] =
                 Prepared("refund", {Locked(s)}, {<<s, "refunded">>})]
    /\ UNCHANGED <<wallet, reservation, token, result, stopped, issued, spent, faults>>

\* A claim or a refund opens the token at the mint: its proofs are unspent.
PrepareSpend(s) ==
    /\ Free(s) /\ s \in token
    /\ HasStatus(s, "wallet_applied") /\ operation[s].kind # "refund"
    /\ \/ /\ operation[s].kind = "lock" /\ Offered(s) \notin spent
          /\ operation' = [operation EXCEPT ![s] =
                 Prepared("claim", {Offered(s)}, {<<s, "claimed">>})]
       \/ /\ Locked(s) \notin spent
          /\ operation' = [operation EXCEPT ![s] =
                 Prepared("refund", {Locked(s)}, {<<s, "refunded">>})]
    /\ UNCHANGED <<wallet, reservation, token, result, stopped, issued, spent, faults>>

-----------------------------------------------------------------------------
(* The steps of a prepared operation.  Each leaves its result to Save.       *)

\* Mutant: nobody looks at who holds the inputs.
MayReserveAny(s, ins) == TRUE

\* reserveProofs: all of the inputs are free, or all are this session's.
MayReserve(s, ins) ==
    \/ \A p \in ins : reservation[p] = NoSession
    \/ \A p \in ins : reservation[p] = s

Reserve(s) ==
    LET o == operation[s]
    IN  /\ Free(s) /\ HasStatus(s, "prepared") /\ ~o.reserved
        /\ MayReserve(s, o.ins)
        /\ reservation' = [p \in Proof |-> IF p \in o.ins THEN s ELSE reservation[p]]
        /\ result' = [result EXCEPT ![s] = [o EXCEPT !.reserved = TRUE]]
        /\ UNCHANGED <<wallet, operation, token, stopped, issued, spent, faults>>

\* The outputs are restored if the mint has signed them; otherwise it swaps
\* inputs it has not seen.
Execute(s) ==
    LET o == operation[s]
        outputs == Outputs(s, o)
    IN  /\ Free(s) /\ HasStatus(s, "prepared") /\ o.reserved
        /\ \/ outputs \subseteq issued /\ UNCHANGED <<issued, spent>>
           \/ /\ ~(outputs \subseteq issued) /\ o.ins \cap spent = {}
              /\ issued' = issued \cup outputs
              /\ spent' = spent \cup o.ins
        /\ result' = [result EXCEPT ![s] = [o EXCEPT !.status = "completed"]]
        /\ UNCHANGED <<wallet, reservation, operation, token, stopped, faults>>

\* reconcileProofReplacement: all inputs are there and no output, or no input
\* and every output.  reconcileExactProofOutputs: no output or every output.
Unambiguous(o) ==
    o.kind = "lock" =>
        \/ o.ins \subseteq wallet /\ o.keep \cap wallet = {}
        \/ o.ins \cap wallet = {} /\ o.keep \subseteq wallet

Reconciled(o) ==
    IF o.kind # "lock" THEN wallet \cup o.keep
    ELSE IF o.ins \subseteq wallet THEN (wallet \ o.ins) \cup o.keep ELSE wallet

\* releaseProofReservations: all of the inputs are this session's, or none is
\* reserved at all.
MayRelease(s, ins) ==
    \/ \A p \in ins : reservation[p] = s
    \/ \A p \in ins : reservation[p] = NoSession

\* Mutant: the reservations are released before the wallet is saved.
ReconcileReleasedFirst(s) ==
    LET o == operation[s]
        applied == [o EXCEPT !.status = "wallet_applied"]
        released == [p \in Proof |-> IF p \in o.ins THEN NoSession ELSE reservation[p]]
    IN  /\ Free(s) /\ HasStatus(s, "completed") /\ Unambiguous(o)
        /\ MayRelease(s, o.ins)
        /\ reservation' = released
        /\ \/ /\ wallet' = Reconciled(o)
              /\ result' = [result EXCEPT ![s] = applied] /\ UNCHANGED faults
           \/ Fault /\ UNCHANGED <<wallet, result>>
        /\ UNCHANGED <<operation, token, stopped, issued, spent>>

\* The wallet is saved first, then the reservations: the release may fail, and
\* the page may close between the two.
Reconcile(s) ==
    LET o == operation[s]
        applied == [o EXCEPT !.status = "wallet_applied"]
        released == [p \in Proof |-> IF p \in o.ins THEN NoSession ELSE reservation[p]]
    IN  /\ Free(s) /\ HasStatus(s, "completed") /\ Unambiguous(o)
        /\ wallet' = Reconciled(o)
        /\ \/ /\ MayRelease(s, o.ins) /\ reservation' = released
              /\ result' = [result EXCEPT ![s] = applied] /\ UNCHANGED faults
           \/ ~MayRelease(s, o.ins) /\ UNCHANGED <<reservation, result, faults>>
           \/ Fault /\ UNCHANGED <<reservation, result>>
        /\ UNCHANGED <<operation, token, stopped, issued, spent>>

\* Mutant: a lock that leaves no change keeps no token either.
SaveTokenWithChange(s) ==
    /\ result[s] # NoOperation
    /\ operation' = [operation EXCEPT ![s] = result[s]]
    /\ token' = IF result[s].kind = "lock" /\ result[s].status = "completed"
                   /\ result[s].keep # {}
                THEN token \cup {s} ELSE token
    /\ result' = [result EXCEPT ![s] = NoOperation]
    /\ UNCHANGED <<wallet, reservation, stopped, issued, spent, faults>>

\* The checkpoint of a step; a completed lock brings its token along.
Save(s) ==
    /\ result[s] # NoOperation
    /\ operation' = [operation EXCEPT ![s] = result[s]]
    /\ token' = IF result[s].kind = "lock" /\ result[s].status = "completed"
                THEN token \cup {s} ELSE token
    /\ result' = [result EXCEPT ![s] = NoOperation]
    /\ UNCHANGED <<wallet, reservation, stopped, issued, spent, faults>>

\* The page closes after a step's effect and before its checkpoint.
Close(s) ==
    /\ result[s] # NoOperation /\ Fault
    /\ result' = [result EXCEPT ![s] = NoOperation]
    /\ UNCHANGED <<wallet, reservation, operation, token, stopped, issued, spent>>

\* The cutoff of a prepared lock or claim passes: the session enters recovery
\* and never executes it; nothing releases what it reserved.
Stop(s) ==
    /\ Free(s) /\ HasStatus(s, "prepared") /\ operation[s].kind # "refund"
    /\ stopped' = stopped \cup {s}
    /\ UNCHANGED <<wallet, reservation, operation, token, result, issued, spent, faults>>

-----------------------------------------------------------------------------
(* Outside the sessions. *)

\* claimMint and receiveToken: the mint signs first, the wallet is saved then.
\* What is lost in between is not journaled (docs/guides/testnet-wallet.md).
Receive(c) ==
    /\ c \notin issued
    /\ issued' = issued \cup {c}
    /\ \/ wallet' = wallet \cup {c} /\ UNCHANGED faults
       \/ Fault /\ UNCHANGED wallet
    /\ UNCHANGED <<reservation, operation, token, result, stopped, spent>>

\* The counterparty claims this session's HTLC, or refunds its own.
CounterpartySpends(s) ==
    /\ \E p \in {Locked(s), Offered(s)} \cap (issued \ spent) : spent' = spent \cup {p}
    /\ UNCHANGED <<wallet, reservation, operation, token, result, stopped, issued, faults>>

SessionStep(s) ==
    \/ PrepareLock(s) \/ PrepareSpend(s) \/ Reserve(s) \/ Execute(s) \/ Reconcile(s)
    \/ Save(s) \/ Stop(s)

Next ==
    \/ \E s \in Sessions : SessionStep(s) \/ Close(s) \/ CounterpartySpends(s)
    \/ \E c \in Coins : Receive(c)

Spec == Init /\ [][Next]_vars

\* A session with a finished operation is driven again until it is reconciled.
DrivenSpec == Spec /\ \A s \in Sessions : WF_vars(Reconcile(s)) /\ WF_vars(Save(s))

-----------------------------------------------------------------------------
(* Properties. *)

TypeOK ==
    /\ wallet \subseteq Proof
    /\ reservation \in [Proof -> Sessions \cup {NoSession}]
    /\ operation \in [Sessions -> Operation \cup {NoOperation}]
    /\ token \subseteq Sessions
    /\ result \in [Sessions -> Operation \cup {NoOperation}]
    /\ stopped \subseteq Sessions
    /\ issued \subseteq Proof
    /\ spent \subseteq Proof
    /\ faults \in 0 .. MaxFaults

\* While a session may still send its inputs to a mint, all of them are
\* reserved for it and for nobody else, whatever was lost on the way.
InputsAreExclusive ==
    \A s \in Sessions :
        HasStatus(s, "prepared") /\ operation[s].reserved =>
            \A p \in operation[s].ins : reservation[p] = s

\* No proof a mint signed for a session is lost while it is unspent: it is in
\* the wallet, or an operation that restores or reconciles it is journaled.
JournaledFor(s, p) ==
    operation[s] # NoOperation /\ operation[s].status # "wallet_applied"
        /\ p \in Outputs(s, operation[s])

FundsAreKept ==
    \A s \in Sessions, part \in {"change", "claimed", "refunded"} :
        LET p == <<s, part>>
        IN  p \in issued \ spent => p \in wallet \/ JournaledFor(s, p)

\* The HTLC of a session's own lock is never out of its reach.
LockIsKept ==
    \A s \in Sessions : Locked(s) \in issued => s \in token \/ JournaledFor(s, Locked(s))

\* A coin the wallet offers to spend is unspent: the coins of a lock leave the
\* wallet or stay reserved, and no retry brings them back.
SpentCoinsStayOut == Unreserved \cap spent \cap Coins = {}

\* The inputs of an operation are reserved for its session together and
\* released together: a retried reservation or release never finds a part.
ReservationsAreWhole ==
    \A s \in Sessions : operation[s] # NoOperation =>
        \/ \A p \in operation[s].ins : reservation[p] = s
        \/ \A p \in operation[s].ins : reservation[p] # s

\* The proofs of a finished operation reach the wallet, or another session of
\* the same wallet has spent them already.
FundsArrive ==
    \A s \in Sessions : HasStatus(s, "completed") ~>
        \A part \in {"change", "claimed", "refunded"} :
            <<s, part>> \in issued => <<s, part>> \in wallet \cup spent

=============================================================================
