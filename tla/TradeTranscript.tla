---------------------------- MODULE TradeTranscript ----------------------------
(***************************************************************************)
(* The private messages of one trade, and the transcript each side keeps.  *)
(*                                                                         *)
(* A side stages a message in its session, delivers what is staged until a *)
(* relay acknowledges it, and only then counts it as said.  The other side *)
(* polls, stores the first wrapper that opens as its next message, and     *)
(* validates and commits it in a later step.  Each message names all that  *)
(* was said before it (its transcript hash).  By default three messages    *)
(* are exchanged; sessions that an older version stored are resumed at the *)
(* acknowledgements that were exchanged then.                              *)
(*                                                                         *)
(* A step is the one action the plan names, performed and saved under the  *)
(* locks TradeCoordinator models.  A step that fails changes nothing; a    *)
(* page that closes before it saves leaves the effect alone.  The mints    *)
(* are TradeSettlement's; here a lock is a flag.                           *)
(***************************************************************************)
EXTENDS Naturals, SequencesExt

CONSTANTS
    None,           \* no message: a model value
    Resumed,        \* the choreography phases an older pair of sessions is resumed at
    MakerClaimCutoff,    \* the deadlines of a settlement plan, from its anchor
    ShortLocktime,
    TakerClaimCutoff,
    LongLocktime,
    RefundGuard,
    ReservationExpiresAt,
    Life,           \* how long a message is valid
    MaxTime         \* bound on the clock

ASSUME TranscriptAssumption ==
    /\ {MakerClaimCutoff, ShortLocktime, TakerClaimCutoff, LongLocktime, RefundGuard,
        ReservationExpiresAt, Life, MaxTime} \subseteq Nat
    /\ MakerClaimCutoff < ShortLocktime /\ ShortLocktime + RefundGuard <= TakerClaimCutoff
    /\ TakerClaimCutoff < LongLocktime /\ LongLocktime + RefundGuard < ReservationExpiresAt
    /\ 0 < Life
    /\ Resumed \subseteq {"awaiting_session_ack", "awaiting_quote_lock_ack"}

VARIABLES
    clock,
    session,    \* [Role -> Session], the stored sessions
    sent,       \* the messages a relay stores
    issued      \* how many message IDs were drawn

vars == <<clock, session, sent, issued>>

-----------------------------------------------------------------------------
(* Roles, messages and sessions *)

Role == {"maker", "taker"}
Other(r) == IF r = "maker" THEN "taker" ELSE "maker"
Leg == {"base", "quote"}

\* What each phase of the choreography expects, and what comes after it.
Expected == [awaiting_reserve_propose |-> "reserve_propose",
             awaiting_reserve_accept  |-> "reserve_accept",
             awaiting_session_ack     |-> "session_ack",
             awaiting_base_lock       |-> "base_lock",
             awaiting_base_lock_ack   |-> "base_lock_ack",
             awaiting_quote_lock      |-> "quote_lock",
             awaiting_quote_lock_ack  |-> "quote_lock_ack",
             awaiting_claim_notice    |-> "claim_notice",
             awaiting_fill_request    |-> "fill_request",
             awaiting_settlement_ack  |-> "settlement_ack"]
After == [reserve_propose |-> "awaiting_reserve_accept",
          reserve_accept  |-> "awaiting_quote_lock",
          session_ack     |-> "awaiting_base_lock",
          base_lock       |-> "awaiting_base_lock_ack",
          base_lock_ack   |-> "awaiting_quote_lock",
          quote_lock      |-> "settling",
          quote_lock_ack  |-> "awaiting_claim_notice",
          claim_notice    |-> "awaiting_fill_request",
          fill_request    |-> "awaiting_settlement_ack",
          error           |-> "failed"]
Type == DOMAIN After
Phase == DOMAIN Expected \cup {"settling", "refunding", "failed"}

\* The keys: the maker's order key until the session's own takes over.
Author(type) ==
    CASE type \in {"reserve_propose", "session_ack", "base_lock_ack", "quote_lock",
                   "fill_request"} -> "taker"
      [] type \in {"reserve_accept", "error"} -> "order"
      [] OTHER -> "maker"
Recipient(type) ==
    IF type = "reserve_propose" THEN "order"
    ELSE IF Author(type) = "taker" THEN "maker" ELSE "taker"
Writer(type) == IF Author(type) = "taker" THEN "taker" ELSE "maker"

Message == [id : Nat, type : Type, past : Seq(Nat), projection : {"offered", "reserved"},
            tokens : SUBSET Leg, plan : Nat, sentAt : Nat, expires : Nat]
Outbox == [message : Message, route : {"advertised", "listed"}]
Session == [phase : Phase, projection : {"offered", "reserved"}, tokens : SUBSET Leg,
            plan : Nat, accepted : Seq(Nat), reserved : BOOLEAN, locked : BOOLEAN,
            refunded : BOOLEAN, outbox : Outbox \cup {None}, incoming : Message \cup {None}]

\* None stands for the absence of a message.
ASSUME NoneAssumption == None \notin Message /\ None \notin Outbox

TypeOK ==
    /\ clock \in Nat /\ issued \in Nat /\ sent \subseteq Message
    /\ session \in [Role -> Session]

-----------------------------------------------------------------------------
(* The choreography: what a session s takes as its next message *)

\* The body of a lock or an acceptance commits to a token.
Commits(type) == CASE type \in {"reserve_accept", "base_lock"} -> {"base"}
                   [] type = "quote_lock" -> {"quote"}
                   [] OTHER -> {}

\* The tokens a body names, which its receiver compares with those committed to.
Names(type) == CASE type = "base_lock_ack" -> {"base"}
                 [] type \in {"quote_lock_ack", "claim_notice"} -> {"quote"}
                 [] type = "fill_request" -> Leg
                 [] OTHER -> Commits(type)

\* The bound order projection and the predecessor.
Common(s, m) ==
    /\ m.type # "reserve_accept" => m.projection = s.projection
    /\ m.past = s.accepted

\* The only error that is written ends the negotiation, and says so.
ErrorFits(s, m) == s.phase = "awaiting_reserve_accept" /\ Common(s, m)

ProposalFits(s, m) == m.past = <<>> /\ Recipient(m.type) = "order"

\* The acceptance introduces the projection after the proposal's, and deadlines
\* that are safe when it was sent.
AcceptFits(s, m) ==
    /\ Common(s, m)
    /\ m.projection = "reserved" /\ s.projection = "offered"
    /\ m.sentAt < m.plan + MakerClaimCutoff

\* Acknowledgements name the tokens that were locked.
SessionAckFits(s, m) == Common(s, m) /\ s.projection = "reserved"
LockTerms(s, m) ==
    /\ m.plan = s.plan
    /\ m.sentAt < m.plan + (IF m.type = "base_lock" THEN LongLocktime ELSE ShortLocktime)
LockFits(s, m) == Common(s, m) /\ LockTerms(s, m)
LockAckFits(s, m) == Common(s, m) /\ m.tokens \subseteq s.tokens
ClaimFits(s, m) == Common(s, m) /\ m.tokens \subseteq s.tokens /\ m.sentAt < s.plan + MakerClaimCutoff
FillRequestFits(s, m) == Common(s, m) /\ m.tokens = s.tokens

Fits(s, m) ==
    CASE m.type = "error" -> ErrorFits(s, m)
      [] m.type = "reserve_propose" -> ProposalFits(s, m)
      [] m.type = "reserve_accept" -> AcceptFits(s, m)
      [] m.type = "session_ack" -> SessionAckFits(s, m)
      [] m.type \in {"base_lock", "quote_lock"} -> LockFits(s, m)
      [] m.type \in {"base_lock_ack", "quote_lock_ack"} -> LockAckFits(s, m)
      [] m.type = "claim_notice" -> ClaimFits(s, m)
      [] m.type = "fill_request" -> FillRequestFits(s, m)

Welcome(s, m) ==
    /\ m.type = "error" \/ (s.phase \in DOMAIN Expected /\ Expected[s.phase] = m.type)
    /\ Fits(s, m)

\* The next choreography and the committed transcript.
Advance(s, m) ==
    [s EXCEPT !.phase = After[m.type],
              !.projection = m.projection,
              !.tokens = @ \cup Commits(m.type),
              !.accepted = Append(@, m.id)]

-----------------------------------------------------------------------------
(* The plan, as far as messages decide it *)

Late(s, cutoff) == clock >= s.plan + cutoff
OwnDue(r) == (IF r = "maker" THEN LongLocktime ELSE ShortLocktime) + RefundGuard

Unsafe(s) ==
    \/ clock >= s.outbox.message.expires
    \/ s.outbox.message.type \notin {"claim_notice", "fill_request"} /\ Late(s, MakerClaimCutoff)
    \/ s.outbox.message.type = "fill_request" /\ Late(s, TakerClaimCutoff)

\* A refund is due, or waiting for the peer is over.  What a mint answered about the
\* leg is not here: a spent leg, which has no refund, is TradeSettlement's.
RefundDue(r) == session[r].locked /\ ~session[r].refunded /\ Late(session[r], OwnDue(r))
WaitIsOver(r) ==
    LET s == session[r] IN
    \/ r = "maker" /\ s.phase \in {"awaiting_reserve_accept", "settling"} /\ Late(s, MakerClaimCutoff)
    \/ r = "taker" /\ s.phase = "settling" /\ Late(s, TakerClaimCutoff)
    \/ Late(s, ReservationExpiresAt)

\* A phase in which it is too late to go on.
TooLate(r) ==
    LET s == session[r] IN
    \/ /\ s.phase \in {"awaiting_reserve_propose", "awaiting_reserve_accept",
                       "awaiting_session_ack", "awaiting_base_lock", "awaiting_quote_lock"}
       /\ Late(s, MakerClaimCutoff)
    \/ r = "maker" /\ s.phase = "awaiting_claim_notice" /\ Late(s, MakerClaimCutoff)
    \/ r = "taker" /\ s.phase = "awaiting_fill_request" /\ Late(s, TakerClaimCutoff)

\* The phase's own action: the speaker prepares and stages, the other side polls.
PhasePlan(r) ==
    LET s == session[r] IN
    IF s.phase \notin DOMAIN Expected
    THEN [failed |-> "none", refunding |-> "enter_recovery", settling |-> "settle"][s.phase]
    ELSE IF TooLate(r) THEN "enter_recovery"
    ELSE IF r = "maker" /\ s.phase = "awaiting_settlement_ack" THEN "settle"
    ELSE IF Writer(Expected[s.phase]) # r THEN "poll_inbox"
    ELSE IF s.phase = "awaiting_reserve_accept" /\ ~s.reserved THEN "stage_order_reserve"
    ELSE IF s.phase \in {"awaiting_reserve_accept", "awaiting_base_lock", "awaiting_quote_lock"} /\ ~s.locked
    THEN "prepare_lock"
    ELSE "stage_message"

\* Mutant: recovery is planned before a message that was polled.
RecoversFirst(r) ==
    LET s == session[r] IN
    IF s.outbox # None THEN (IF Unsafe(s) THEN "enter_recovery" ELSE "deliver_outbox")
    ELSE IF RefundDue(r) THEN "prepare_refund"
    ELSE IF s.refunded THEN "none"
    ELSE IF WaitIsOver(r) THEN "enter_recovery"
    ELSE IF s.incoming # None THEN "validate_incoming"
    ELSE PhasePlan(r)

\* nextCoordinatorAction.
Plan(r) ==
    LET s == session[r] IN
    IF s.outbox # None THEN (IF Unsafe(s) THEN "enter_recovery" ELSE "deliver_outbox")
    ELSE IF s.incoming # None THEN "validate_incoming"
    ELSE IF RefundDue(r) THEN "prepare_refund"
    ELSE IF s.refunded THEN "none"
    ELSE IF WaitIsOver(r) THEN "enter_recovery"
    ELSE PhasePlan(r)

-----------------------------------------------------------------------------
(* Steps of a session *)

Save(r, s) == session' = [session EXCEPT ![r] = s]

\* stage_order_reserve and the preparation of the side's own lock.
Reserve(r) ==
    /\ Plan(r) = "stage_order_reserve"
    /\ Save(r, [session[r] EXCEPT !.reserved = TRUE])
    /\ UNCHANGED <<clock, sent, issued>>

Lock(r) ==
    /\ Plan(r) = "prepare_lock"
    /\ Save(r, [session[r] EXCEPT !.locked = TRUE])
    /\ UNCHANGED <<clock, sent, issued>>

\* The message a session writes: after all that was said, about the reserved
\* projection once there is one.
Written(s, type) ==
    [id |-> issued + 1, type |-> type, past |-> s.accepted,
     projection |-> IF s.reserved THEN "reserved" ELSE "offered",
     tokens |-> Names(type), plan |-> s.plan, sentAt |-> clock,
     expires |-> Min({clock + Life, s.plan + ReservationExpiresAt})]

\* stageOutgoing: the sender checks its message as the receiver will.
Stage(r) ==
    /\ Plan(r) = "stage_message"
    /\ LET m == Written(session[r], Expected[session[r].phase]) IN
       /\ m.expires > clock
       /\ Welcome(session[r], m)
       /\ Save(r, [session[r] EXCEPT !.outbox = [message |-> m, route |-> "advertised"]])
    /\ issued' = issued + 1
    /\ UNCHANGED <<clock, sent>>

Said(s) == [Advance(s, s.outbox.message) EXCEPT !.outbox = None]

\* Mutant: a retry after a lost result draws a new message.
DeliverAnew(r) ==
    /\ Plan(r) = "deliver_outbox"
    /\ \/ sent' = sent \cup {session[r].outbox.message}
          /\ Save(r, Said(session[r])) /\ UNCHANGED issued
       \/ sent' = sent \cup {session[r].outbox.message}
          /\ Save(r, [session[r] EXCEPT !.outbox.message.id = issued + 1])
          /\ issued' = issued + 1
    /\ UNCHANGED clock

\* Mutant: a failed delivery counts as acknowledged.
DeliverBlindly(r) ==
    /\ Plan(r) = "deliver_outbox"
    /\ \/ sent' = sent \cup {session[r].outbox.message}
       \/ UNCHANGED sent
    /\ Save(r, Said(session[r]))
    /\ UNCHANGED <<clock, issued>>

\* deliverOutbox: a relay stores the message; the acknowledgement and the new
\* transcript are saved in one step, or lost together.
Deliver(r) ==
    /\ Plan(r) = "deliver_outbox"
    /\ sent' = sent \cup {session[r].outbox.message}
    /\ Save(r, Said(session[r])) \/ UNCHANGED session
    /\ UNCHANGED <<clock, issued>>

\* Mutant: a failed delivery keeps the advertised route.
KeepRoute(r) == FALSE /\ UNCHANGED vars

\* The advertised relays fail: the recipient's published list is stored as the
\* route of the same message.
Reroute(r) ==
    /\ Plan(r) = "deliver_outbox" /\ session[r].outbox.route = "advertised"
    /\ Save(r, [session[r] EXCEPT !.outbox.route = "listed"])
    /\ UNCHANGED <<clock, sent, issued>>

\* unwrapTradeMessage: a message for the side that opens it, of the author and about
\* a projection it expects, after all that was said.  Its expiry is compared apart.
Unwraps(r, m, author, projections) ==
    /\ Recipient(m.type) = r /\ Author(m.type) = author
    /\ m.projection \in projections
    /\ m.past = session[r].accepted

\* openIncoming: only the answer to the proposal is of the order key, and introduces
\* its projection; the last message may be about any.
Opens(r, m) ==
    LET s == session[r]
        answer == r = "taker" /\ s.phase = "awaiting_reserve_accept" IN
    Unwraps(r, m, IF answer THEN "order" ELSE Other(r),
            IF answer \/ s.phase = "awaiting_settlement_ack" THEN {"offered", "reserved"}
            ELSE {IF s.reserved THEN "reserved" ELSE "offered"})

\* pollInbox: the first wrapper that opens, of those the relay returned.
Poll(r) ==
    /\ Plan(r) = "poll_inbox"
    /\ \E m \in sent :
         /\ Opens(r, m) /\ clock < m.expires
         /\ m.id \notin ToSet(session[r].accepted)
         /\ Save(r, [session[r] EXCEPT !.incoming = m])
    /\ UNCHANGED <<clock, sent, issued>>

\* validateIncoming, which opens the wrapper again at the current time, and
\* commitIncoming: an acceptance brings the maker's plan and reserve.
Validate(r) ==
    /\ Plan(r) = "validate_incoming"
    /\ LET s == session[r]
           m == s.incoming IN
       /\ Opens(r, m) /\ clock < m.expires
       /\ Welcome(s, m)
       /\ Save(r, [Advance(s, m) EXCEPT
                     !.incoming = None,
                     !.reserved = @ \/ m.type = "reserve_accept",
                     !.plan = IF m.type = "reserve_accept" THEN m.plan ELSE @])
    /\ UNCHANGED <<clock, sent, issued>>

\* The session's own phase, as the store compares it.
Root(r) ==
    LET phase == session[r].phase IN
    CASE phase \in {"awaiting_reserve_propose", "awaiting_reserve_accept"} -> "negotiating"
      [] phase \in {"awaiting_session_ack", "awaiting_base_lock"} -> "reserved"
      [] phase \in {"awaiting_base_lock_ack", "awaiting_quote_lock"} -> "base_locked"
      [] phase \in {"awaiting_quote_lock_ack", "awaiting_claim_notice", "settling"} -> "quote_locked"
      [] phase = "awaiting_fill_request" -> "quote_claimed"
      [] phase = "awaiting_settlement_ack" -> "base_claimed"
      [] phase = "refunding" -> "refunding"
      [] phase = "failed" -> "frozen"

\* HAPPY_PATH_PHASES: from where a session may start to wait for its refund.
MayWait(r) == Root(r) \in {"refunding", IF r = "maker" THEN "base_locked" ELSE "quote_locked"}

\* enter_recovery; the store refuses a change of phase it does not know.
EnterRecovery(r) ==
    /\ Plan(r) = "enter_recovery"
    /\ session[r].locked => MayWait(r)
    /\ Save(r, [session[r] EXCEPT !.phase = IF session[r].locked THEN "refunding" ELSE "failed"])
    /\ UNCHANGED <<clock, sent, issued>>

Refund(r) ==
    /\ Plan(r) = "prepare_refund"
    /\ Save(r, [session[r] EXCEPT !.refunded = TRUE])
    /\ UNCHANGED <<clock, sent, issued>>

-----------------------------------------------------------------------------
(* The order key, and time *)

Proposal == {m \in sent : m.type = "reserve_propose" /\ clock < m.expires}

\* The listener of the order opens a proposal, and stores a session that has
\* accepted it.
MakerStarts ==
    /\ session["maker"].phase = "awaiting_reserve_propose"
    /\ \E m \in Proposal :
         Save("maker", [Advance(session["maker"], m) EXCEPT !.plan = clock])
    /\ UNCHANGED <<clock, sent, issued>>

\* The order key refuses the proposal once, also one whose session exists.
Refuse ==
    /\ \A m \in sent : m.type # "error"
    /\ \E m \in Proposal :
         sent' = sent \cup {[m EXCEPT !.id = issued + 1, !.type = "error", !.past = <<m.id>>,
                                      !.tokens = {}, !.sentAt = clock]}
    /\ issued' = issued + 1
    /\ UNCHANGED <<clock, session>>

Tick == clock < MaxTime /\ clock' = clock + 1 /\ UNCHANGED <<session, sent, issued>>

-----------------------------------------------------------------------------
(* The specification *)

New == [phase |-> "awaiting_reserve_propose", projection |-> "offered", tokens |-> {},
        plan |-> 0, accepted |-> <<>>, reserved |-> FALSE, locked |-> FALSE,
        refunded |-> FALSE, outbox |-> None, incoming |-> None]

\* What an older version stored: one ID stands for the messages before.
Old(phase) ==
    [New EXCEPT !.phase = phase, !.projection = "reserved", !.accepted = <<1>>, !.reserved = TRUE,
                !.tokens = IF phase = "awaiting_session_ack" THEN {} ELSE Leg,
                !.locked = phase # "awaiting_session_ack"]

\* A taker whose session was just created and an order nobody took, or two
\* sessions of an older version.
Init ==
    /\ clock = 0 /\ sent = {}
    /\ \/ session = [r \in Role |-> New] /\ issued = 0
       \/ \E phase \in Resumed : session = [r \in Role |-> Old(phase)] /\ issued = 1

Own(r) == Reserve(r) \/ Lock(r) \/ Stage(r) \/ Poll(r) \/ Validate(r) \/ EnterRecovery(r) \/ Refund(r)

Next == \/ \E r \in Role : Own(r) \/ Deliver(r) \/ Reroute(r)
        \/ MakerStarts \/ Refuse \/ Tick

\* A side that is open performs the steps of its plan; the relays of the
\* recipient's published list work, and the relay and the mint answer in the end.
\* The advertised relays are not relied on, nor is time.
Fairness ==
    /\ WF_vars(MakerStarts)
    /\ \A r \in Role :
        /\ WF_vars(Own(r)) /\ WF_vars(Reroute(r))
        /\ WF_vars(session[r].outbox # None /\ session[r].outbox.route = "listed"
                   /\ Deliver(r) /\ session' # session)

Spec == Init /\ [][Next]_vars /\ Fairness

-----------------------------------------------------------------------------
(* Properties *)

Refused == \E m \in sent : m.type = "error" /\ m.id \in ToSet(session["taker"].accepted)

\* Both sides tell the same story, whatever was lost, sent twice or expired: one
\* transcript continues the other, and what its author does not count as said yet
\* is what it still has staged.  A taker that was refused has nothing more to agree on.
TranscriptsAgree ==
    ~Refused => \A r \in Role :
        LET mine == session[r].accepted
            theirs == session[Other(r)].accepted IN
        /\ IsPrefix(mine, theirs) \/ IsPrefix(theirs, mine)
        /\ \A m \in sent :
             m.id \in ToSet(theirs) \ ToSet(mine) /\ Writer(m.type) = r =>
                session[r].outbox # None /\ session[r].outbox.message = m

\* What a side counts as said of the conversation: the refusal of its proposal ends it
\* for the taker, and is no part of it.
Kept(r) == IF r = "taker" /\ Refused THEN Front(session[r].accepted) ELSE session[r].accepted
Longest == IF Len(Kept("maker")) >= Len(Kept("taker")) THEN Kept("maker") ELSE Kept("taker")
Spoken == {m \in sent : m.type # "error" /\ Append(m.past, m.id) = Longest}
LastWord == IF Spoken = {} THEN "none" ELSE (CHOOSE m \in Spoken : TRUE).type

\* Relays that lose, repeat and reorder, routes that fail, retries, expiry, refusals
\* and recovery come down to one conversation: the transcripts are what each side knows
\* of one story, which only grows, by a message at a time, each by an author that knew
\* all before it and of the type the choreography wants next.
Talk == INSTANCE Conversation WITH
    Side <- Role,
    Opening <- {"reserve_propose"} \cup {Expected[phase] : phase \in Resumed},
    Follows <- {<<said, Expected[After[said]]>> :
                  said \in {type \in Type : After[type] \in DOMAIN Expected}},
    Speaker <- Writer,
    story <- Longest,
    last <- LastWord,
    known <- [r \in Role |-> Kept(r)]
ImplementsConversation == Talk!Spec

\* A message that was polled is one the choreography takes: only its expiry or
\* the mint can keep it from being validated.
PolledIsWelcome ==
    \A r \in Role : session[r].incoming # None =>
        /\ Opens(r, session[r].incoming)
        /\ Welcome(session[r], session[r].incoming)

\* The sides never both wait for the other: when both would poll, one of them has
\* something to read, unless it expired.
Listens(r) == Plan(r) = "poll_inbox"
Readable(r, m) ==
    \/ Opens(r, m)
    \/ r = "maker" /\ session[r].phase = "awaiting_reserve_propose" /\ m.type = "reserve_propose"
SomeoneIsToSpeak ==
    (\A r \in Role : Listens(r)) => \E r \in Role, m \in sent : Readable(r, m)

\* What a side staged becomes part of both transcripts, through lost answers and
\* dead routes, unless it or a message before it expires, or a side leaves the
\* conversation: it recovers, or may not deliver what it staged any more.
Taken(r, type) == \E m \in sent : m.type = type /\ m.id \in ToSet(session[r].accepted)
Staged(r, type) == session[r].outbox # None /\ session[r].outbox.message.type = type
Missed == \E m \in sent : clock >= m.expires
                           /\ m.id \notin ToSet(session[Other(Writer(m.type))].accepted)
Left(r) == \/ session[r].phase \in {"refunding", "failed"} \/ session[r].refunded
           \/ session[r].outbox # None /\ Unsafe(session[r])
StagedIsTaken ==
    \A r \in Role, type \in Type :
        Staged(r, type) ~>
            \/ Taken("maker", type) /\ Taken("taker", type)
            \/ Missed \/ \E p \in Role : Left(p)

\* A side whose lock is past its time prepares the refund, as the recovery rules of
\* the protocol say.  Refuted: a polled message that expired before its validation,
\* and a staged one, outrank it for ever.
RefundIsPrepared ==
    \A r \in Role : RefundDue(r) ~> session[r].refunded
=============================================================================
