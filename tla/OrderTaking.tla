------------------------------ MODULE OrderTaking ------------------------------
(***************************************************************************)
(* How one order is taken: takers that click on it, the proposals their    *)
(* sessions send, the maker that accepts one of them and answers the       *)
(* others with a refusal.                                                  *)
(*                                                                         *)
(* A click becomes a request with an identifier, and the store binds one   *)
(* session to it.  The maker handles a proposal each time one of its       *)
(* subscriptions delivers it: another tab of the profile has its own, and  *)
(* a reconnected one replays the proposals of the last two days while the  *)
(* handler of the old one still runs.  While a handler asks the mints, and *)
(* between its failure and its refusal, anything may happen, also the      *)
(* handling of the same proposal.                                          *)
(*                                                                         *)
(* The settlement of an accepted proposal is TradeSettlement's; here it    *)
(* only reserves the order, ends, or freezes.                              *)
(***************************************************************************)
EXTENDS Naturals, FiniteSets

CONSTANTS
    Call,         \* calls of takeOrder: a session is named after the call that made it
    Taker,        \* pages of takers
    TakerOf,      \* the page of each call
    Tab,          \* open pages of the maker's profile
    Subscription, \* the maker's subscriptions
    TabOf,        \* the page of each: a second one of a page is a reconnected one
    ReplyLimit,   \* the replies that may be pending: 100
    Life,         \* how long a proposal is valid
    MaxRevision,  \* bound on the order's revisions
    MaxTime,      \* bound on the clock
    MaxFaults     \* bound on failed checks, lost answers and reloads

ASSUME TakingAssumption ==
    /\ TakerOf \in [Call -> Taker] /\ TabOf \in [Subscription -> Tab]
    /\ {ReplyLimit, Life, MaxRevision, MaxTime, MaxFaults} \subseteq Nat

None == "none"
ASSUME NoneAssumption == None \notin Call

Revision == 0..MaxRevision

VARIABLES
    clock,
    head,      \* the maker's durable signed head of the order
    \* the takers
    call,      \* what a call is doing
    wanted,    \* the revision a call was clicked on
    request,   \* the call whose request identifier it uses
    retry,     \* takeRequestIds of each page: identifiers by revision
    bound,     \* takerStarts: the session of each identifier
    answer,    \* the session that was returned to the call
    expires,   \* when the proposal of a session expires
    \* the maker
    session,   \* the maker's session of a proposal
    handler,   \* what each subscription handles, and how far it is
    seen,      \* what it has been delivered
    reply,     \* the stored refusals
    flush,     \* flushReplies of each page: off, running
    todo,      \* the replies it has yet to send
    timer,     \* the timer that runs it again
    faults

takers == <<call, wanted, request, retry, bound, answer, expires>>
replies == <<reply, flush, todo, timer>>
vars == <<clock, head, takers, session, handler, seen, replies, faults>>

Idle == [of |-> None, at |-> "idle", cause |-> None]

TypeOK ==
    /\ clock \in 0..MaxTime /\ faults \in 0..MaxFaults
    /\ head \in [rev : Revision, status : {"open", "reserved", "filled", "canceled"}]
    /\ call \in [Call -> {"idle", "checking", "done", "over"}]
    /\ wanted \in [Call -> Revision]
    /\ request \in [Call -> Call \cup {None}] /\ answer \in [Call -> Call \cup {None}]
    /\ retry \in [Taker -> [Revision -> Call \cup {None}]]
    /\ bound \in [Call -> Call \cup {None}]
    /\ expires \in [Call -> 0..(MaxTime + Life)]
    /\ session \in [Call -> {None, "accepted", "reserving", "frozen", "over"}]
    /\ handler \in [Subscription -> [of : Call \cup {None}, at : {"idle", "checking", "refusing"},
                                     cause : {None, "stale", "taken", "mint"}]]
    /\ seen \in [Subscription -> SUBSET Call]
    /\ reply \in [Call -> {None, "pending", "delivered"}]
    /\ flush \in [Tab -> {"off", "running"}] /\ todo \in [Tab -> SUBSET Call]
    /\ timer \in [Tab -> BOOLEAN]

Fault == faults < MaxFaults /\ faults' = faults + 1

\* A session that its taker's store holds: it sends its proposal.
Proposed == {bound[c] : c \in Call} \ {None}
Expired(s) == clock >= expires[s]
Active(s) == session[s] \notin {None, "over"}
Open == head.status = "open"

-----------------------------------------------------------------------------
(* The takers *)

\* Open projections that the book of a taker may show: the head, or, when its
\* relays are behind, the first.
Shown == {r \in Revision : r = 0 \/ (Open /\ r = head.rev)}

\* A click on revision r.  While an earlier click on it is not over, it uses the
\* same identifier.  A bound request is answered with its session; else the order
\* is loaded and a session made for the projection that was clicked.
Click(c, r) ==
    LET page == TakerOf[c]
        id == IF retry[page][r] = None THEN c ELSE retry[page][r]
    IN /\ call[c] = "idle" /\ r \in Shown
       /\ wanted' = [wanted EXCEPT ![c] = r]
       /\ request' = [request EXCEPT ![c] = id]
       /\ retry' = [retry EXCEPT ![page][r] = id]
       /\ answer' = [answer EXCEPT ![c] = bound[id]]
       /\ call' = [call EXCEPT ![c] = IF bound[id] = None THEN "checking" ELSE "done"]
       /\ expires' = IF bound[id] = None THEN [expires EXCEPT ![c] = clock + Life] ELSE expires
       /\ UNCHANGED <<clock, head, bound, session, handler, seen, replies, faults>>

\* The task of a click ends and its page forgets the identifier.
Forget(c) == retry' = [retry EXCEPT ![TakerOf[c]][wanted[c]] = None]

\* A mint cannot be asked, or the wallet does not cover the amount.
Unfunded(c) ==
    /\ call[c] = "checking" /\ Fault
    /\ call' = [call EXCEPT ![c] = "over"] /\ Forget(c)
    /\ expires' = [expires EXCEPT ![c] = 0]
    /\ UNCHANGED <<clock, head, wanted, request, bound, answer, session, handler, seen, replies>>

\* Mutant: a session is stored for every call of a request.
BindAgain(c) ==
    /\ call[c] = "checking"
    /\ bound' = [bound EXCEPT ![request[c]] = c]
    /\ answer' = [answer EXCEPT ![c] = c]
    /\ call' = [call EXCEPT ![c] = "done"]
    /\ UNCHANGED <<clock, head, wanted, request, retry, expires, session, handler, seen, replies, faults>>

\* createTakerForRequest: the session is stored and bound, unless another call of
\* the request was first; its session is the answer then.
Bind(c) ==
    /\ call[c] = "checking"
    /\ LET s == IF bound[request[c]] = None THEN c ELSE bound[request[c]]
       IN /\ bound' = [bound EXCEPT ![request[c]] = s]
          /\ answer' = [answer EXCEPT ![c] = s]
          /\ expires' = IF s = c THEN expires ELSE [expires EXCEPT ![c] = 0]
    /\ call' = [call EXCEPT ![c] = "done"]
    /\ UNCHANGED <<clock, head, wanted, request, retry, session, handler, seen, replies, faults>>

\* The settlement that the click waits for ends, or fails.
Settled(c) ==
    /\ call[c] = "done"
    /\ call' = [call EXCEPT ![c] = "over"] /\ Forget(c)
    /\ UNCHANGED <<clock, head, wanted, request, bound, answer, expires, session, handler, seen,
                   replies, faults>>

-----------------------------------------------------------------------------
(* The maker takes a proposal *)

Becomes(t, s, at, cause) == handler' = [handler EXCEPT ![t] = [of |-> s, at |-> at, cause |-> cause]]
Handling(t, s, at) == handler[t].of = s /\ handler[t].at = at
Ends(t) == handler' = [handler EXCEPT ![t] = Idle]

Changed(s) == head.rev # wanted[s] \/ ~Open

\* A subscription delivers a proposal, once, and handles one at a time.  One that
\* expired does not open, and one with a session is answered with it.  It must
\* name the durable head of the order, and the order be open.
Deliver(t, s) ==
    /\ s \in Proposed \ seen[t] /\ handler[t] = Idle
    /\ seen' = [seen EXCEPT ![t] = @ \cup {s}]
    /\ \/ (Expired(s) \/ session[s] # None) /\ UNCHANGED handler
       \/ /\ ~Expired(s) /\ session[s] = None
          /\ IF Changed(s) THEN Becomes(t, s, "refusing", "stale") ELSE Becomes(t, s, "checking", None)
    /\ UNCHANGED <<clock, head, takers, session, replies, faults>>

\* A mint cannot be asked, or has changed the keyset the proposal names; or the
\* wallet does not cover the offer, as when a session of the order has locked it.
Unfit(t, s) ==
    /\ Handling(t, s, "checking")
    /\ \/ (\E x \in Call : session[x] = "reserving") /\ UNCHANGED faults
       \/ Fault
    /\ Becomes(t, s, "refusing", "mint")
    /\ UNCHANGED <<clock, head, takers, session, seen, replies>>

\* Mutant: a frozen session does not compete.
TakeBesideFrozen(t, s) ==
    /\ Handling(t, s, "checking")
    /\ IF session[s] = None /\ \E x \in Call : Active(x) /\ session[x] # "frozen"
       THEN Becomes(t, s, "refusing", "taken") /\ UNCHANGED session
       ELSE session' = [session EXCEPT ![s] = IF @ = None THEN "accepted" ELSE @] /\ Ends(t)
    /\ UNCHANGED <<clock, head, takers, seen, replies, faults>>

\* createMakerForOrder: an equal session is returned; a session of the order that
\* is not over competes; else the session is stored.
Take(t, s) ==
    /\ Handling(t, s, "checking")
    /\ IF session[s] = None /\ \E x \in Call : Active(x)
       THEN Becomes(t, s, "refusing", "taken") /\ UNCHANGED session
       ELSE session' = [session EXCEPT ![s] = IF @ = None THEN "accepted" ELSE @] /\ Ends(t)
    /\ UNCHANGED <<clock, head, takers, seen, replies, faults>>

-----------------------------------------------------------------------------
(* Refusals *)

\* flushReplies: one run at a time, over the replies that are pending now.
Pending(r) == {s \in Call : r[s] = "pending" /\ ~Expired(s)}
Flush(t) ==
    IF flush[t] = "running" THEN UNCHANGED <<flush, todo>>
    ELSE flush' = [flush EXCEPT ![t] = "running"] /\ todo' = [todo EXCEPT ![t] = Pending(reply')]

\* stageReply: a reply is stored once for a proposal, and expired ones leave the
\* store with it; a full store and an expired proposal are errors.
Stage(t, s) ==
    LET live == {x \in Call : reply[x] # None /\ ~Expired(x)}
    IN IF Expired(s) \/ (s \notin live /\ Cardinality(live) >= ReplyLimit)
       THEN UNCHANGED <<reply, flush, todo>>
       ELSE /\ reply' = IF s \in live THEN reply
                        ELSE [x \in Call |-> IF x = s THEN "pending"
                                             ELSE IF x \in live THEN reply[x] ELSE None]
            /\ Flush(TabOf[t])

\* onRejectedProposal: a proposal is refused if another session is busy with the
\* order or the order changed.  Nothing is said of any other failure.
BusySettling(s) == \E x \in Call \ {s} : Active(x) /\ session[x] # "frozen"   \* mutant
Busy(s) == \E x \in Call \ {s} : Active(x)

Refuse(t, s) ==
    /\ Handling(t, s, "refusing") /\ Ends(t)
    /\ IF Busy(s) \/ Changed(s) THEN Stage(t, s) ELSE UNCHANGED <<reply, flush, todo>>
    /\ UNCHANGED <<clock, head, takers, session, seen, timer, faults>>

\* The reply is sent and acknowledged, unless it expired or left the store.
Send(t, s) ==
    /\ s \in todo[t]
    /\ todo' = [todo EXCEPT ![t] = @ \ {s}]
    /\ reply' = [reply EXCEPT ![s] = IF @ = None \/ Expired(s) THEN @ ELSE "delivered"]
    /\ UNCHANGED <<clock, head, takers, session, handler, seen, flush, timer, faults>>

\* It is kept for later when the taker's inbox is not found, or the relay or the
\* acknowledgement fails.
SendFails(t, s) ==
    /\ s \in todo[t] /\ Fault
    /\ todo' = [todo EXCEPT ![t] = @ \ {s}]
    /\ UNCHANGED <<clock, head, takers, session, handler, seen, reply, flush, timer>>

\* Mutant: no timer is set for what could not be sent.
FlushOnce(t) ==
    /\ flush[t] = "running" /\ todo[t] = {}
    /\ flush' = [flush EXCEPT ![t] = "off"]
    /\ UNCHANGED <<clock, head, takers, session, handler, seen, reply, todo, timer, faults>>

\* The run ends; what is pending then is tried again after five seconds.
Flushed(t) ==
    /\ flush[t] = "running" /\ todo[t] = {}
    /\ flush' = [flush EXCEPT ![t] = "off"]
    /\ timer' = [timer EXCEPT ![t] = @ \/ Pending(reply) # {}]
    /\ UNCHANGED <<clock, head, takers, session, handler, seen, reply, todo, faults>>

Retry(t) ==
    /\ timer[t]
    /\ timer' = [timer EXCEPT ![t] = FALSE]
    /\ UNCHANGED reply /\ Flush(t)
    /\ UNCHANGED <<clock, head, takers, session, handler, seen, faults>>

\* The tab is closed and opened: its subscription delivers everything again, and
\* its runtime starts by sending the replies that are stored.
Reload(t) ==
    /\ Fault
    /\ handler' = [u \in Subscription |-> IF TabOf[u] = t THEN Idle ELSE handler[u]]
    /\ seen' = [u \in Subscription |-> IF TabOf[u] = t THEN {} ELSE seen[u]]
    /\ flush' = [flush EXCEPT ![t] = "running"] /\ todo' = [todo EXCEPT ![t] = Pending(reply)]
    /\ timer' = [timer EXCEPT ![t] = FALSE]
    /\ UNCHANGED <<clock, head, takers, session, reply>>

-----------------------------------------------------------------------------
(* The order, its settlement, and time *)

NextHead(status) ==
    /\ head.rev < MaxRevision
    /\ head' = [rev |-> head.rev + 1, status |-> status]

\* The coordinator stages the reservation, against the projection of the proposal.
Reserve(s) ==
    /\ session[s] = "accepted" /\ ~Expired(s) /\ ~Changed(s) /\ NextHead("reserved")
    /\ session' = [session EXCEPT ![s] = "reserving"]
    /\ UNCHANGED <<clock, takers, handler, seen, replies, faults>>

\* The trade settles, or the offer is refunded and the order released.
Finish(s) ==
    /\ session[s] = "reserving" /\ (NextHead("filled") \/ NextHead("open"))
    /\ session' = [session EXCEPT ![s] = "over"]
    /\ UNCHANGED <<clock, takers, handler, seen, replies, faults>>

\* enter_recovery without a lock freezes the session, whatever it had reserved.
Freeze(s) ==
    /\ session[s] \in {"accepted", "reserving"} /\ Expired(s)
    /\ session' = [session EXCEPT ![s] = "frozen"]
    /\ UNCHANGED <<clock, head, takers, handler, seen, replies, faults>>

Cancel ==
    /\ Open /\ NextHead("canceled")
    /\ UNCHANGED <<clock, takers, session, handler, seen, replies, faults>>

Tick ==
    /\ clock < MaxTime /\ clock' = clock + 1
    /\ UNCHANGED <<head, takers, session, handler, seen, replies, faults>>

Init ==
    /\ clock = 0 /\ faults = 0 /\ head = [rev |-> 0, status |-> "open"]
    /\ call = [c \in Call |-> "idle"] /\ wanted = [c \in Call |-> 0] /\ expires = wanted
    /\ request = [c \in Call |-> None] /\ answer = request /\ bound = request
    /\ retry = [k \in Taker |-> [r \in Revision |-> None]]
    /\ session = [c \in Call |-> None] /\ reply = session
    /\ handler = [t \in Subscription |-> Idle] /\ seen = [t \in Subscription |-> {}]
    /\ flush = [t \in Tab |-> "off"] /\ todo = [t \in Tab |-> {}] /\ timer = [t \in Tab |-> FALSE]

Taking == \E c \in Call : Unfunded(c) \/ Bind(c) \/ Settled(c) \/ \E r \in Revision : Click(c, r)
Handles(t) == \E s \in Call : Deliver(t, s) \/ Unfit(t, s) \/ Take(t, s) \/ Refuse(t, s)
Answers(p) == Flushed(p) \/ Retry(p) \/ Reload(p) \/ \E s \in Call : Send(p, s) \/ SendFails(p, s)
Settling == \E s \in Call : Reserve(s) \/ Finish(s) \/ Freeze(s)

Next ==
    \/ Taking \/ Settling \/ Cancel \/ Tick
    \/ \E t \in Subscription : Handles(t)
    \/ \E p \in Tab : Answers(p)

\* An open page runs its handlers and its timer, and a reply that is tried again
\* and again is delivered.
Fairness ==
    \A p \in Tab :
        /\ WF_vars(Flushed(p)) /\ WF_vars(Retry(p))
        /\ \A s \in Call : SF_vars(Send(p, s))

Spec == Init /\ [][Next]_vars /\ Fairness

-----------------------------------------------------------------------------
(* Properties *)

\* Every call of a request is given the one session that is bound to it, however
\* the calls overlap: a user who clicks twice does not take the order twice.
OneSessionPerRequest ==
    \A c, d \in Call :
        request[c] = request[d] /\ answer[c] # None /\ answer[d] # None => answer[c] = answer[d]

\* The maker never has two sessions of the order that are not over, whichever
\* handlers check it at the same time.
OneActiveSession == \A x, y \in Call : Active(x) /\ Active(y) => x = y

\* A handler whose proposal lost the order to another, or came too late for it,
\* still finds a reason to refuse it when it comes to that, although sessions end
\* and the order moves on in between: nothing is said only of a failed check.
LoserIsRefused ==
    \A t \in Subscription, s \in Call :
        handler[t].of = s /\ handler[t].cause \in {"stale", "taken"} => Busy(s) \/ Changed(s)

\* A refusal is delivered while its proposal is valid, or that expires, also when
\* it is staged while an earlier run sends.
RefusalIsDelivered ==
    \A s \in Call : reply[s] = "pending" ~> reply[s] # "pending" \/ Expired(s)

\* A refusal ends the negotiation before anything is spent, as the notes on
\* settlement say.  Refuted: a second handler of a proposal finds the head changed
\* by the reservation for the very proposal, and refuses it.
AcceptedIsNotRefused == \A s \in Call : session[s] = "reserving" => reply[s] = None
=============================================================================
