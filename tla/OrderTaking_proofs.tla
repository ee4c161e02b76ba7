-------------------------- MODULE OrderTaking_proofs --------------------------
(***************************************************************************)
(* Proofs about the taking of an order, for any number of clicks, pages,   *)
(* subscriptions and faults.                                               *)
(***************************************************************************)
EXTENDS OrderTaking, TLAPS

Nobody == Call \cup {None}
Phases == {None, "accepted", "reserving", "frozen", "over"}
Jobs == [of : Nobody, at : {"idle", "checking", "refusing"}, cause : {None, "stale", "taken", "mint"}]
Heads == [rev : Revision, status : {"open", "reserved", "filled", "canceled"}]

\* The types of what the arguments are about; the refusals in the store and the
\* clock play no part in them.  A call that checks has an identifier.
TakerTypes ==
    /\ call \in [Call -> {"idle", "checking", "done", "over"}]
    /\ wanted \in [Call -> Revision]
    /\ request \in [Call -> Nobody] /\ answer \in [Call -> Nobody] /\ bound \in [Call -> Nobody]
    /\ retry \in [Taker -> [Revision -> Nobody]]
    /\ \A c \in Call : call[c] = "checking" => request[c] \in Call
MakerTypes ==
    /\ head \in Heads
    /\ session \in [Call -> Phases]
    /\ handler \in [Subscription -> Jobs]

\* The steps that change nothing of the takers, and nothing of the maker.
MakerStep ==
    \/ \E t \in Subscription : Handles(t)
    \/ Settling \/ Cancel \/ (UNCHANGED <<takers, head, session, handler>>)
    \/ \E p \in Tab : Reload(p)

LEMMA StepsApart ==
    ASSUME [Next]_vars
    PROVE  Taking \/ (MakerStep /\ UNCHANGED takers)
<1>1. CASE \E p \in Tab : Answers(p)
    BY <1>1 DEF Answers, Flushed, Retry, Reload, Send, SendFails, MakerStep, takers
<1>2. CASE \E t \in Subscription : Handles(t)
    BY <1>2 DEF Handles, Deliver, Unfit, Take, Refuse, MakerStep
<1>3. CASE Settling \/ Cancel
    BY <1>3 DEF Settling, Reserve, Finish, Freeze, Cancel, MakerStep
<1>4. CASE Tick \/ UNCHANGED vars
    BY <1>4 DEF Tick, vars, MakerStep, takers
<1> QED
    BY <1>1, <1>2, <1>3, <1>4 DEF Next

-----------------------------------------------------------------------------
(* One session for each request *)

\* A call that was answered was given what is bound to its request.
AnswerIsBound == \A c \in Call : answer[c] # None => request[c] \in Call /\ bound[request[c]] = answer[c]

TakerInv == TakerTypes /\ AnswerIsBound

LEMMA TakerStep ==
    ASSUME TakingAssumption, NoneAssumption, TakerInv, Taking
    PROVE  TakerInv'
<1> USE NoneAssumption DEF TakerInv
<1>1. ASSUME NEW c \in Call, NEW r \in Revision, Click(c, r) PROVE TakerInv'
    <2> DEFINE id == IF retry[TakerOf[c]][r] = None THEN c ELSE retry[TakerOf[c]][r]
    <2>1. TakerOf[c] \in Taker /\ retry[TakerOf[c]] \in [Revision -> Nobody]
        BY TakingAssumption DEF TakingAssumption, TakerTypes
    <2>2. id \in Call
        BY <2>1 DEF Nobody
    <2>3. retry' \in [Taker -> [Revision -> Nobody]]
        BY <1>1, <2>1, <2>2 DEF Click, TakerTypes, Nobody
    <2>4. /\ request' = [request EXCEPT ![c] = id] /\ answer' = [answer EXCEPT ![c] = bound[id]]
          /\ call' = [call EXCEPT ![c] = IF bound[id] = None THEN "checking" ELSE "done"]
          /\ wanted' = [wanted EXCEPT ![c] = r] /\ bound' = bound
        BY <1>1 DEF Click
    <2>5. TakerTypes'
        BY <2>2, <2>3, <2>4 DEF TakerTypes, Nobody
    <2>6. AnswerIsBound'
        BY <2>2, <2>4 DEF AnswerIsBound, TakerTypes, Nobody
    <2> QED
        BY <2>5, <2>6
<1>2. ASSUME NEW c \in Call, Unfunded(c) \/ Settled(c) PROVE TakerInv'
    <2>1. TakerOf[c] \in Taker /\ wanted[c] \in Revision
        BY TakingAssumption DEF TakingAssumption, TakerTypes
    <2>2. retry' \in [Taker -> [Revision -> Nobody]]
        <3>1. retry' = [retry EXCEPT ![TakerOf[c]][wanted[c]] = None]
            BY <1>2 DEF Unfunded, Settled, Forget
        <3>2. None \in Nobody /\ retry \in [Taker -> [Revision -> Nobody]]
            BY DEF Nobody, TakerTypes
        <3> QED
            BY ONLY <2>1, <3>1, <3>2
    <2>3. call' = [call EXCEPT ![c] = "over"] /\ UNCHANGED <<wanted, request, answer, bound>>
        BY <1>2 DEF Unfunded, Settled
    <2> QED
        BY <2>2, <2>3 DEF TakerTypes, AnswerIsBound
<1>3. ASSUME NEW c \in Call, Bind(c) PROVE TakerInv'
    <2> DEFINE q == request[c]
               s == IF bound[q] = None THEN c ELSE bound[q]
    <2>1. q \in Call /\ s \in Call
        BY <1>3 DEF Bind, TakerTypes, Nobody
    <2>2. /\ bound' = [bound EXCEPT ![q] = s] /\ answer' = [answer EXCEPT ![c] = s]
          /\ call' = [call EXCEPT ![c] = "done"] /\ UNCHANGED <<wanted, request, retry>>
        BY <1>3 DEF Bind
    <2>3. TakerTypes'
        BY <2>1, <2>2 DEF TakerTypes, Nobody
    <2>4. ASSUME NEW d \in Call, answer'[d] # None
          PROVE  request'[d] \in Call /\ bound'[request'[d]] = answer'[d]
        <3>1. CASE d = c
            BY <2>1, <2>2, <3>1 DEF TakerTypes
        <3>2. CASE d # c
            <4>1. answer[d] # None
                BY <2>2, <2>4, <3>2 DEF TakerTypes
            <4>2. request[d] \in Call /\ bound[request[d]] = answer[d]
                BY <4>1 DEF AnswerIsBound
            <4>3. bound'[request[d]] = bound[request[d]]
                BY <2>1, <2>2, <4>1, <4>2 DEF TakerTypes
            <4> QED
                BY <2>2, <3>2, <4>2, <4>3 DEF TakerTypes
        <3> QED
            BY <3>1, <3>2
    <2> QED
        BY <2>3, <2>4 DEF AnswerIsBound
<1> QED
    BY <1>1, <1>2, <1>3 DEF Taking

\* Two calls of a request are never given two sessions: whichever call stores its
\* session first binds the request, and the binding does not change.
THEOREM OneSession == Spec => []OneSessionPerRequest
<1>1. Init => TakerInv
    BY TakingAssumption DEF Init, TakerInv, TakerTypes, AnswerIsBound, Nobody, Revision, TakingAssumption
<1>2. TakerInv /\ [Next]_vars => TakerInv'
    <2> SUFFICES ASSUME TakerInv, [Next]_vars PROVE TakerInv'
        OBVIOUS
    <2>1. CASE Taking
        BY <2>1, TakerStep, TakingAssumption, NoneAssumption
    <2>2. CASE UNCHANGED takers
        BY <2>2 DEF takers, TakerInv, TakerTypes, AnswerIsBound
    <2> QED
        BY <2>1, <2>2, StepsApart
<1>3. TakerInv => OneSessionPerRequest
    BY DEF TakerInv, AnswerIsBound, OneSessionPerRequest
<1> QED
    BY <1>1, <1>2, <1>3, PTL DEF Spec

-----------------------------------------------------------------------------
(* One active session of the maker *)

LEMMA MakerKeepsTypes ==
    ASSUME TakingAssumption, MakerTypes, MakerStep
    PROVE  MakerTypes'
<1>1. ASSUME NEW t \in Subscription, NEW s \in Call, Deliver(t, s) PROVE MakerTypes'
    <2>1. handler' = handler \/ \E j \in Jobs : handler' = [handler EXCEPT ![t] = j]
        BY <1>1 DEF Deliver, Becomes, Jobs, Nobody
    <2> QED
        BY <1>1, <2>1 DEF Deliver, MakerTypes
<1>2. ASSUME NEW t \in Subscription, NEW s \in Call, Unfit(t, s) \/ Take(t, s) \/ Refuse(t, s) PROVE MakerTypes'
    <2>1. handler' = handler \/ \E j \in Jobs : handler' = [handler EXCEPT ![t] = j]
        BY <1>2 DEF Unfit, Take, Refuse, Becomes, Ends, Idle, Jobs, Nobody
    <2>2. session' = session \/ \E p \in Phases : session' = [session EXCEPT ![s] = p]
        <3>1. session[s] \in Phases
            BY DEF MakerTypes
        <3> QED
            BY <1>2, <3>1 DEF Unfit, Take, Refuse, Phases
    <2>3. head' = head
        BY <1>2 DEF Unfit, Take, Refuse
    <2> QED
        BY <2>1, <2>2, <2>3 DEF MakerTypes
<1>3. ASSUME NEW s \in Call, Reserve(s) \/ Finish(s) \/ Freeze(s) PROVE MakerTypes'
    <2>1. head' \in Heads
        BY <1>3, TakingAssumption DEF Reserve, Finish, Freeze, NextHead, MakerTypes, Heads, Revision, TakingAssumption
    <2>2. \E p \in Phases : session' = [session EXCEPT ![s] = p]
        BY <1>3 DEF Reserve, Finish, Freeze, Phases
    <2> QED
        BY <1>3, <2>1, <2>2 DEF Reserve, Finish, Freeze, MakerTypes
<1>4. CASE Cancel
    BY <1>4, TakingAssumption DEF Cancel, NextHead, MakerTypes, Heads, Revision, TakingAssumption
<1>5. ASSUME NEW p \in Tab, Reload(p) PROVE MakerTypes'
    <2>1. Idle \in Jobs
        BY DEF Idle, Jobs, Nobody
    <2> QED
        BY <1>5, <2>1 DEF Reload, MakerTypes
<1>6. CASE UNCHANGED <<takers, head, session, handler>>
    BY <1>6 DEF MakerTypes
<1> QED
    BY <1>1, <1>2, <1>3, <1>4, <1>5, <1>6 DEF MakerStep, Handles, Settling

LEMMA TakingSparesMaker ==
    ASSUME Taking
    PROVE  UNCHANGED <<head, session, handler>>
BY DEF Taking, Click, Unfunded, Bind, Settled

LEMMA SessionStep ==
    ASSUME MakerTypes, OneActiveSession, MakerStep
    PROVE  OneActiveSession'
<1>1. ASSUME NEW t \in Subscription, NEW s \in Call, Take(t, s), session' # session PROVE OneActiveSession'
    <2>1. \A x \in Call : ~Active(x)
        BY <1>1 DEF Take, MakerTypes
    <2>2. \A x \in Call : Active(x)' => x = s
        BY <1>1, <2>1 DEF Take, Active, MakerTypes
    <2> QED
        BY <2>2 DEF OneActiveSession
<1>2. ASSUME NEW s \in Call, Reserve(s) \/ Finish(s) \/ Freeze(s) PROVE OneActiveSession'
    <2>1. \A x \in Call : Active(x)' => Active(x)
        BY <1>2, NoneAssumption DEF Reserve, Finish, Freeze, Active, MakerTypes, None
    <2> QED
        BY <2>1 DEF OneActiveSession
<1>3. CASE session' = session
    BY <1>3 DEF OneActiveSession, Active
<1>4. (\E t \in Subscription, s \in Call : Take(t, s)) \/ Settling \/ session' = session
    BY DEF MakerStep, Handles, Deliver, Unfit, Refuse, Cancel, Reload
<1> QED
    BY <1>1, <1>2, <1>3, <1>4 DEF Settling

MakerInv == MakerTypes /\ OneActiveSession

\* The maker never has two sessions of the order that are not over, for any number
\* of subscriptions that handle proposals at once.
THEOREM OneActive == Spec => []OneActiveSession
<1>1. Init => MakerInv
    BY TakingAssumption DEF Init, MakerInv, MakerTypes, OneActiveSession, Active, Heads, Revision, Phases,
       Jobs, Nobody, Idle, TakingAssumption
<1>2. MakerInv /\ [Next]_vars => MakerInv'
    <2> SUFFICES ASSUME MakerInv, [Next]_vars PROVE MakerInv'
        OBVIOUS
    <2>1. CASE Taking
        BY <2>1, TakingSparesMaker DEF MakerInv, MakerTypes, OneActiveSession, Active
    <2>2. CASE MakerStep
        BY <2>2, MakerKeepsTypes, SessionStep, TakingAssumption DEF MakerInv
    <2> QED
        BY <2>1, <2>2, StepsApart
<1>3. MakerInv => OneActiveSession
    BY DEF MakerInv
<1> QED
    BY <1>1, <1>2, <1>3, PTL DEF Spec

-----------------------------------------------------------------------------
(* A loser is refused *)

\* A call that was clicked on a revision was shown it; a session that is bound or
\* handled belongs to a call that was made.
Made ==
    /\ \A c \in Call : wanted[c] <= head.rev
    /\ \A q \in Call : bound[q] \in Call => call[bound[q]] # "idle"
    /\ \A t \in Subscription : handler[t].of \in Call => call[handler[t].of] # "idle"

LoserInv == TakerInv /\ MakerTypes /\ Made /\ LoserIsRefused

LEMMA TakingKeepsMade ==
    ASSUME TakingAssumption, NoneAssumption, TakerInv, MakerTypes, Made, Taking
    PROVE  /\ Made'
           /\ \A c \in Call : call[c] # "idle" => wanted'[c] = wanted[c]
<1> USE DEF TakerInv
<1>1. UNCHANGED <<head, session, handler>>
    BY TakingSparesMaker
<1>2. head.rev \in Nat /\ 0 <= head.rev
    BY TakingAssumption DEF MakerTypes, Heads, Revision, TakingAssumption
<1>3. ASSUME NEW c \in Call, NEW r \in Revision, Click(c, r)
      PROVE  /\ Made' /\ \A d \in Call : call[d] # "idle" => wanted'[d] = wanted[d]
    <2>1. call[c] = "idle" /\ (r = 0 \/ r = head.rev) /\ bound' = bound
          /\ wanted' = [wanted EXCEPT ![c] = r]
          /\ \E w \in {"checking", "done"} : call' = [call EXCEPT ![c] = w]
        BY <1>3 DEF Click, Shown
    <2>2. \A d \in Call : call[d] # "idle" => d # c /\ wanted'[d] = wanted[d] /\ call'[d] # "idle"
        BY <2>1 DEF TakerTypes
    <2>3. \A d \in Call : wanted'[d] <= head.rev
        BY <2>1, <1>2 DEF Made, TakerTypes
    <2> QED
        BY <1>1, <2>1, <2>2, <2>3 DEF Made
<1>4. ASSUME NEW c \in Call, Unfunded(c) \/ Settled(c)
      PROVE  Made' /\ wanted' = wanted
    <2>1. call' = [call EXCEPT ![c] = "over"] /\ bound' = bound /\ wanted' = wanted
        BY <1>4 DEF Unfunded, Settled
    <2>2. \A d \in Call : call[d] # "idle" => call'[d] # "idle"
        BY <2>1 DEF TakerTypes
    <2> QED
        BY <1>1, <2>1, <2>2 DEF Made
<1>5. ASSUME NEW c \in Call, Bind(c)
      PROVE  Made' /\ wanted' = wanted
    <2> DEFINE q == request[c]
               s == IF bound[q] = None THEN c ELSE bound[q]
    <2>1. /\ call' = [call EXCEPT ![c] = "done"] /\ wanted' = wanted
          /\ bound' = [bound EXCEPT ![q] = s]
        BY <1>5 DEF Bind
    <2>2. q \in Call
        BY <1>5 DEF Bind, TakerTypes
    <2>3. \A d \in Call : call[d] # "idle" => call'[d] # "idle"
        BY <2>1 DEF TakerTypes
    <2>4. s \in Call => call'[s] # "idle"
        BY <2>1, <2>2, <2>3 DEF Made, TakerTypes
    <2>5. \A p \in Call : bound'[p] \in Call => call'[bound'[p]] # "idle"
        BY <2>1, <2>2, <2>3, <2>4 DEF Made, TakerTypes
    <2> QED
        BY <1>1, <2>1, <2>3, <2>5 DEF Made
<1> QED
    BY <1>3, <1>4, <1>5 DEF Taking

\* Either the order moves on, or every session that competed still does.
LEMMA OrderMovesOn ==
    ASSUME MakerTypes, MakerStep
    PROVE  \/ head' = head /\ \A x \in Call : Active(x) => Active(x)'
           \/ head'.rev = head.rev + 1
<1>1. ASSUME NEW t \in Subscription, NEW s \in Call, Take(t, s)
      PROVE  head' = head /\ \A x \in Call : Active(x) => Active(x)'
    BY <1>1 DEF Take, Active, MakerTypes, None
<1>2. ASSUME NEW s \in Call, Freeze(s)
      PROVE  head' = head /\ \A x \in Call : Active(x) => Active(x)'
    BY <1>2 DEF Freeze, Active, MakerTypes, None
<1>3. ASSUME NEW s \in Call, Reserve(s) \/ Finish(s)
      PROVE  head'.rev = head.rev + 1
    BY <1>3 DEF Reserve, Finish, NextHead
<1>4. CASE Cancel
    BY <1>4 DEF Cancel, NextHead
<1>5. CASE head' = head /\ session' = session
    BY <1>5 DEF Active
<1>6. (\E t \in Subscription, s \in Call : Take(t, s)) \/ Settling \/ Cancel
      \/ (head' = head /\ session' = session)
    BY DEF MakerStep, Handles, Deliver, Unfit, Refuse, Reload
<1> QED
    BY <1>1, <1>2, <1>3, <1>4, <1>5, <1>6 DEF Settling

\* A handler starts on a proposal that was made, and fails for a reason that holds.
LEMMA HandlersFail ==
    ASSUME NoneAssumption, TakerInv, MakerTypes, Made, MakerStep, NEW t \in Subscription
    PROVE  \/ handler'[t].of = handler[t].of /\ handler'[t].cause = handler[t].cause
           \/ handler'[t].of = None
           \/ /\ handler'[t].of \in Call /\ call[handler'[t].of] # "idle"
              /\ \/ handler'[t].cause \in {None, "mint"}
                 \/ head' = head /\ Changed(handler'[t].of)
                 \/ head' = head /\ session' = session /\ Busy(handler'[t].of)
<1> USE DEF MakerTypes
<1>1. ASSUME NEW u \in Subscription, NEW s \in Call, Deliver(u, s)
      PROVE  \/ handler'[t] = handler[t]
             \/ /\ handler'[t].of = s /\ call[s] # "idle"
                /\ handler'[t].cause = None \/ (head' = head /\ Changed(s))
    <2>1. s \in Proposed
        BY <1>1 DEF Deliver
    <2>2. call[s] # "idle"
        BY <2>1 DEF Proposed, Made
    <2> QED
        BY <1>1, <2>2 DEF Deliver, Becomes
<1>2. ASSUME NEW u \in Subscription, NEW s \in Call, Unfit(u, s)
      PROVE  handler'[t] = handler[t] \/ (handler'[t].of = s /\ handler[t].of = s /\ handler'[t].cause = "mint")
    BY <1>2 DEF Unfit, Handling, Becomes
<1>3. ASSUME NEW u \in Subscription, NEW s \in Call, Take(u, s)
      PROVE  \/ handler'[t] = handler[t] \/ handler'[t].of = None
             \/ /\ handler'[t].of = s /\ handler[t].of = s
                /\ head' = head /\ session' = session /\ Busy(s)
    <2>1. CASE session[s] = None /\ \E x \in Call : Active(x)
        <3>1. Busy(s)
            BY <2>1 DEF Busy, Active
        <3> QED
            BY <1>3, <2>1, <3>1 DEF Take, Handling, Becomes
    <2>2. CASE ~(session[s] = None /\ \E x \in Call : Active(x))
        BY <1>3, <2>2 DEF Take, Ends, Idle
    <2> QED
        BY <2>1, <2>2
<1>4. ASSUME NEW u \in Subscription, NEW s \in Call, Refuse(u, s)
      PROVE  handler'[t] = handler[t] \/ handler'[t].of = None
    BY <1>4 DEF Refuse, Ends, Idle
<1>5. ASSUME NEW p \in Tab, Reload(p)
      PROVE  handler'[t] = handler[t] \/ handler'[t].of = None
    BY <1>5 DEF Reload, Idle
<1>6. CASE handler' = handler
    BY <1>6
<1>7. handler[t].of \in Call => call[handler[t].of] # "idle"
    BY DEF Made
<1>8. CASE \E u \in Subscription : Handles(u)
    BY <1>1, <1>2, <1>3, <1>4, <1>7, <1>8 DEF Handles
<1> QED
    BY <1>5, <1>6, <1>8 DEF MakerStep, Settling, Reserve, Finish, Freeze, Cancel

LEMMA MakerKeepsReasons ==
    ASSUME TakingAssumption, NoneAssumption, LoserInv, MakerStep, UNCHANGED takers
    PROVE  Made' /\ LoserIsRefused'
<1> USE DEF LoserInv
<1>1. head.rev \in Nat /\ \A c \in Call : wanted[c] \in Nat /\ wanted[c] <= head.rev
    BY TakingAssumption DEF MakerTypes, Heads, Revision, TakingAssumption, TakerInv, TakerTypes, Made
<1>2. \/ head' = head /\ \A x \in Call : Active(x) => Active(x)'
      \/ head'.rev = head.rev + 1
    BY OrderMovesOn
<1>3. UNCHANGED <<wanted, bound, call>>
    BY DEF takers
<1>4. Made'
    <2>1. \A c \in Call : wanted'[c] <= head'.rev
        BY <1>1, <1>2, <1>3
    <2>2. \A t \in Subscription : handler'[t].of \in Call => call[handler'[t].of] # "idle"
        BY HandlersFail, NoneAssumption DEF Made
    <2> QED
        BY <1>3, <2>1, <2>2 DEF Made
<1>5. ASSUME NEW s \in Call, Busy(s) \/ Changed(s) PROVE (Busy(s) \/ Changed(s))'
    <2>1. CASE head'.rev = head.rev + 1
        BY <2>1, <1>1, <1>3 DEF Changed
    <2>2. CASE head' = head /\ \A x \in Call : Active(x) => Active(x)'
        BY <2>2, <1>3, <1>5 DEF Busy, Changed, Open
    <2> QED
        BY <1>2, <2>1, <2>2
<1>6. ASSUME NEW t \in Subscription, NEW s \in Call, handler'[t].of = s, handler'[t].cause \in {"stale", "taken"}
      PROVE  (Busy(s) \/ Changed(s))'
    <2>1. s # None /\ handler'[t].cause \notin {None, "mint"}
        BY <1>6, NoneAssumption DEF None
    <2>2. CASE handler[t].of = s /\ handler[t].cause \in {"stale", "taken"}
        BY <2>2, <1>5 DEF LoserIsRefused
    <2>3. CASE Busy(s) \/ Changed(s)
        BY <2>3, <1>5
    <2> QED
        BY <1>6, <2>1, <2>2, <2>3, HandlersFail
<1> QED
    BY <1>4, <1>6 DEF LoserIsRefused

LEMMA LoserInvHolds == Spec => []LoserInv
<1>1. Init => LoserInv
    <2> SUFFICES ASSUME Init PROVE LoserInv
        OBVIOUS
    <2>1. 0 \in Revision /\ 0 <= 0
        BY TakingAssumption DEF Revision, TakingAssumption
    <2>2. TakerInv
        BY <2>1 DEF Init, TakerInv, TakerTypes, AnswerIsBound, Nobody
    <2>3. MakerTypes
        BY <2>1 DEF Init, MakerTypes, Heads, Phases, Jobs, Nobody, Idle
    <2>4. Made
        BY <2>1, NoneAssumption DEF Init, Made, Idle
    <2>5. LoserIsRefused
        BY NoneAssumption DEF Init, LoserIsRefused, Idle
    <2> QED
        BY <2>2, <2>3, <2>4, <2>5 DEF LoserInv
<1>2. LoserInv /\ [Next]_vars => LoserInv'
    <2> SUFFICES ASSUME LoserInv, [Next]_vars PROVE LoserInv'
        OBVIOUS
    <2>1. CASE Taking
        <3>1. TakerInv' /\ Made' /\ \A c \in Call : call[c] # "idle" => wanted'[c] = wanted[c]
            BY <2>1, TakerStep, TakingKeepsMade, TakingAssumption, NoneAssumption DEF LoserInv
        <3>2. UNCHANGED <<head, session, handler>>
            BY <2>1, TakingSparesMaker
        <3>3. LoserIsRefused'
            BY <3>1, <3>2 DEF LoserInv, LoserIsRefused, Made, Busy, Changed, Active, Open
        <3> QED
            BY <3>1, <3>2, <3>3 DEF LoserInv, MakerTypes
    <2>2. CASE MakerStep /\ UNCHANGED takers
        <3>1. TakerInv'
            BY <2>2 DEF takers, LoserInv, TakerInv, TakerTypes, AnswerIsBound
        <3> QED
            BY <2>2, <3>1, MakerKeepsTypes, MakerKeepsReasons, TakingAssumption, NoneAssumption DEF LoserInv
    <2> QED
        BY <2>1, <2>2, StepsApart
<1> QED
    BY <1>1, <1>2, PTL DEF Spec

\* A handler whose proposal lost the order, or came too late for it, always finds the
\* reason again when it comes to refuse it: a session that competed ends only by
\* moving the order on, for any number of clicks and subscriptions.
THEOREM LosersAreRefused == Spec => []LoserIsRefused
<1>1. LoserInv => LoserIsRefused
    BY DEF LoserInv
<1> QED
    BY <1>1, LoserInvHolds, PTL

-----------------------------------------------------------------------------
(* The refusals in the store *)

\* The types of the rest: the clock, and what refusing a proposal goes through.
RefusalTypes ==
    /\ clock \in 0..MaxTime /\ faults \in 0..MaxFaults
    /\ expires \in [Call -> 0..(MaxTime + Life)]
    /\ seen \in [Subscription -> SUBSET Call]
    /\ reply \in [Call -> {None, "pending", "delivered"}]
    /\ flush \in [Tab -> {"off", "running"}] /\ todo \in [Tab -> SUBSET Call]
    /\ timer \in [Tab -> BOOLEAN]

\* A valid refusal that is pending has a run that will come across it, or a timer
\* that will start one.
NoReplyIsForgotten ==
    \A s \in Call : reply[s] = "pending" /\ ~Expired(s) =>
        \E p \in Tab : flush[p] = "running" \/ timer[p]

\* What was never proposed has no refusal.
OnlyMadeIsRefused == \A s \in Call : call[s] = "idle" => reply[s] = None

ReplyInv == RefusalTypes /\ OnlyMadeIsRefused /\ NoReplyIsForgotten

LEMMA FlushFacts ==
    ASSUME RefusalTypes, reply' \in [Call -> {None, "pending", "delivered"}],
           NEW p \in Tab, Flush(p)
    PROVE  /\ flush' \in [Tab -> {"off", "running"}] /\ todo' \in [Tab -> SUBSET Call]
           /\ flush'[p] = "running" /\ \A k \in Tab : flush[k] = "running" => flush'[k] = "running"
<1>1. {s \in Call : reply'[s] = "pending" /\ ~Expired(s)} \in SUBSET Call
    OBVIOUS
<1>2. CASE flush[p] = "running"
    BY <1>2 DEF Flush, RefusalTypes
<1>3. CASE flush[p] # "running"
    <2>1. /\ flush' = [flush EXCEPT ![p] = "running"]
          /\ \E pending \in SUBSET Call : todo' = [todo EXCEPT ![p] = pending]
        BY <1>1, <1>3 DEF Flush, Pending
    <2> QED
        BY <2>1 DEF RefusalTypes
<1> QED
    BY <1>2, <1>3

\* No click makes an expired refusal valid again: its proposal was made.
LEMMA TakingKeepsReplies ==
    ASSUME TakingAssumption, NoneAssumption, TakerTypes, ReplyInv, Taking
    PROVE  ReplyInv'
<1> USE DEF ReplyInv
<1>1. UNCHANGED <<clock, seen, reply, flush, todo, timer>>
    BY DEF Taking, Click, Unfunded, Bind, Settled, replies
<1>2. PICK c \in Call :
        /\ expires' = expires \/ (\E x \in {0, clock + Life} : expires' = [expires EXCEPT ![c] = x])
        /\ expires'[c] > expires[c] => call[c] = "idle"
        /\ \E x \in {"checking", "done", "over"} : call' = [call EXCEPT ![c] = x]
    <2>1. ASSUME NEW c \in Call, NEW r \in Revision, Click(c, r)
          PROVE  /\ expires' = expires \/ expires' = [expires EXCEPT ![c] = clock + Life]
                 /\ call[c] = "idle"
                 /\ \E x \in {"checking", "done"} : call' = [call EXCEPT ![c] = x]
        BY <2>1 DEF Click
    <2>2. ASSUME NEW c \in Call, Unfunded(c) \/ Bind(c) \/ Settled(c)
          PROVE  /\ expires' = expires \/ expires' = [expires EXCEPT ![c] = 0]
                 /\ \E x \in {"done", "over"} : call' = [call EXCEPT ![c] = x]
        BY <2>2 DEF Unfunded, Bind, Settled
    <2>3. ASSUME NEW c \in Call, expires' = expires \/ expires' = [expires EXCEPT ![c] = 0]
          PROVE  ~(expires'[c] > expires[c])
        BY <2>3 DEF RefusalTypes
    <2> QED
        BY <2>1, <2>2, <2>3 DEF Taking
<1>3. expires' \in [Call -> 0..(MaxTime + Life)]
    <2>1. 0 \in 0..(MaxTime + Life) /\ clock + Life \in 0..(MaxTime + Life)
        BY TakingAssumption DEF TakingAssumption, RefusalTypes
    <2> QED
        BY <1>2, <2>1 DEF RefusalTypes
<1>4. faults' \in 0..MaxFaults
    BY TakingAssumption DEF TakingAssumption, RefusalTypes, Taking, Click, Unfunded, Bind, Settled, Fault
<1>5. OnlyMadeIsRefused'
    BY <1>1, <1>2 DEF OnlyMadeIsRefused, TakerTypes
<1>6. ASSUME NEW s \in Call, reply'[s] = "pending", ~Expired(s)' PROVE ~Expired(s)
    <2>1. reply[s] = "pending" /\ call[s] # "idle"
        BY <1>1, <1>6, NoneAssumption DEF OnlyMadeIsRefused, None
    <2>2. expires'[s] <= expires[s]
        BY <1>2, <1>3, <2>1 DEF RefusalTypes
    <2> QED
        BY <1>1, <1>3, <1>6, <2>2 DEF Expired, RefusalTypes
<1> QED
    BY <1>1, <1>3, <1>4, <1>5, <1>6 DEF RefusalTypes, NoReplyIsForgotten

\* A reply that is staged starts a run, and a run that ends leaves a timer for what
\* became pending while it sent.
LEMMA MakerKeepsReplies ==
    ASSUME TakingAssumption, NoneAssumption, LoserInv, ReplyInv, [Next]_vars, UNCHANGED takers
    PROVE  ReplyInv'
<1> USE DEF ReplyInv
<1>0. UNCHANGED <<call, expires>>
    BY DEF takers
<1>1. ASSUME NEW p \in Tab, flush'[p] = "running" \/ timer'[p] PROVE NoReplyIsForgotten'
    BY <1>1 DEF NoReplyIsForgotten
<1>2. ASSUME UNCHANGED <<clock, flush, timer>>, RefusalTypes,
             \A s \in Call : reply'[s] = "pending" => reply[s] = "pending"
      PROVE  NoReplyIsForgotten'
    BY <1>0, <1>2 DEF NoReplyIsForgotten, Expired
<1>3. ASSUME Fault \/ faults' = faults PROVE faults' \in 0..MaxFaults
    BY <1>3, TakingAssumption DEF TakingAssumption, RefusalTypes, Fault
<1>4. ASSUME NEW t \in Subscription, NEW s \in Call, Deliver(t, s) \/ Unfit(t, s) \/ Take(t, s)
      PROVE  ReplyInv'
    <2>1. UNCHANGED <<clock, reply, flush, todo, timer>>
        BY <1>4 DEF Deliver, Unfit, Take, replies
    <2>2. seen' \in [Subscription -> SUBSET Call] /\ (Fault \/ faults' = faults)
        BY <1>4 DEF Deliver, Unfit, Take, RefusalTypes
    <2>3. RefusalTypes'
        BY <1>0, <1>3, <2>1, <2>2 DEF RefusalTypes
    <2> QED
        BY <1>0, <1>2, <2>1, <2>3 DEF OnlyMadeIsRefused
<1>5. ASSUME NEW t \in Subscription, NEW s \in Call, Refuse(t, s) PROVE ReplyInv'
    <2>1. UNCHANGED <<clock, seen, timer, faults>> /\ handler[t].of = s
        BY <1>5 DEF Refuse, Handling
    <2>2. call[s] # "idle"
        BY <2>1 DEF LoserInv, Made
    <2>3. CASE UNCHANGED <<reply, flush, todo>>
        <3>1. RefusalTypes'
            BY <1>0, <2>1, <2>3 DEF RefusalTypes
        <3> QED
            BY <1>0, <1>2, <2>1, <2>3, <3>1 DEF OnlyMadeIsRefused
    <2>4. CASE ~UNCHANGED <<reply, flush, todo>>
        <3>1. Stage(t, s)
            BY <1>5, <2>4 DEF Refuse
        <3> DEFINE live == {x \in Call : reply[x] # None /\ ~Expired(x)}
                   new == [x \in Call |-> IF x = s THEN "pending"
                                          ELSE IF x \in live THEN reply[x] ELSE None]
        <3>2. Flush(TabOf[t]) /\ (reply' = reply \/ reply' = new)
            BY <2>4, <3>1 DEF Stage
        <3>3. reply' \in [Call -> {None, "pending", "delivered"}]
            BY <3>2 DEF RefusalTypes
        <3>4. \A x \in Call : x # s => reply'[x] \in {reply[x], None}
            BY <3>2 DEF RefusalTypes
        <3>5. TabOf[t] \in Tab
            BY TakingAssumption DEF TakingAssumption
        <3> HIDE DEF new, live
        <3>6. /\ flush' \in [Tab -> {"off", "running"}] /\ todo' \in [Tab -> SUBSET Call]
              /\ flush'[TabOf[t]] = "running"
            BY <3>2, <3>3, <3>5, FlushFacts
        <3>7. RefusalTypes'
            BY <1>0, <2>1, <3>3, <3>6 DEF RefusalTypes
        <3>8. OnlyMadeIsRefused'
            BY <1>0, <2>2, <3>4 DEF OnlyMadeIsRefused
        <3> QED
            BY <1>1, <3>5, <3>6, <3>7, <3>8
    <2> QED
        BY <2>3, <2>4
<1>6. ASSUME NEW p \in Tab, NEW s \in Call, Send(p, s) \/ SendFails(p, s) PROVE ReplyInv'
    <2>1. UNCHANGED <<clock, seen, flush, timer>> /\ (Fault \/ faults' = faults)
        BY <1>6 DEF Send, SendFails
    <2>2. todo' = [todo EXCEPT ![p] = todo[p] \ {s}]
          /\ (reply' = reply \/ (reply[s] # None /\ reply' = [reply EXCEPT ![s] = "delivered"]))
        BY <1>6 DEF Send, SendFails, RefusalTypes
    <2>3. RefusalTypes'
        BY <1>0, <1>3, <2>1, <2>2 DEF RefusalTypes
    <2>4. \A x \in Call : reply'[x] = reply[x] \/ (reply[x] # None /\ reply'[x] = "delivered")
        BY <2>2 DEF RefusalTypes
    <2>5. OnlyMadeIsRefused'
        BY <1>0, <2>4 DEF OnlyMadeIsRefused
    <2> QED
        BY <1>2, <2>1, <2>3, <2>4, <2>5
<1>7. ASSUME NEW p \in Tab, Flushed(p) PROVE ReplyInv'
    <2>1. /\ UNCHANGED <<clock, seen, reply, todo, faults>>
          /\ flush' = [flush EXCEPT ![p] = "off"]
          /\ timer' = [timer EXCEPT ![p] = timer[p] \/ Pending(reply) # {}]
        BY <1>7 DEF Flushed
    <2>2. timer' \in [Tab -> BOOLEAN]
        BY <2>1, Zenon DEF RefusalTypes
    <2>3. RefusalTypes'
        BY <1>0, <2>1, <2>2 DEF RefusalTypes
    <2>4. ASSUME NEW s \in Call, reply'[s] = "pending", ~Expired(s)' PROVE timer'[p]
        <3>1. s \in Pending(reply)
            BY <1>0, <2>1, <2>4 DEF Pending, Expired
        <3> QED
            BY <2>1, <3>1 DEF RefusalTypes
    <2> QED
        BY <1>0, <2>1, <2>3, <2>4 DEF OnlyMadeIsRefused, NoReplyIsForgotten
<1>8. ASSUME NEW p \in Tab, Retry(p) PROVE ReplyInv'
    <2>1. UNCHANGED <<clock, seen, reply, faults>> /\ Flush(p) /\ timer' = [timer EXCEPT ![p] = FALSE]
        BY <1>8 DEF Retry
    <2>2. /\ flush' \in [Tab -> {"off", "running"}] /\ todo' \in [Tab -> SUBSET Call]
          /\ flush'[p] = "running"
        BY <2>1, FlushFacts DEF RefusalTypes
    <2>3. RefusalTypes'
        BY <1>0, <2>1, <2>2 DEF RefusalTypes
    <2> QED
        BY <1>0, <1>1, <2>1, <2>2, <2>3 DEF OnlyMadeIsRefused
<1>9. ASSUME NEW p \in Tab, Reload(p) PROVE ReplyInv'
    <2>1. /\ Fault /\ UNCHANGED <<clock, reply>>
          /\ seen' = [u \in Subscription |-> IF TabOf[u] = p THEN {} ELSE seen[u]]
          /\ flush' = [flush EXCEPT ![p] = "running"] /\ todo' = [todo EXCEPT ![p] = Pending(reply)]
          /\ timer' = [timer EXCEPT ![p] = FALSE]
        BY <1>9 DEF Reload
    <2>2. seen' \in [Subscription -> SUBSET Call] /\ Pending(reply) \in SUBSET Call
        BY <2>1 DEF RefusalTypes, Pending
    <2>3. todo' \in [Tab -> SUBSET Call] /\ flush'[p] = "running"
        BY <2>1, <2>2 DEF RefusalTypes
    <2>4. RefusalTypes'
        BY <1>0, <1>3, <2>1, <2>2, <2>3 DEF RefusalTypes
    <2> QED
        BY <1>0, <1>1, <2>1, <2>3, <2>4 DEF OnlyMadeIsRefused
<1>10. CASE Settling \/ Cancel \/ UNCHANGED vars
    <2>1. UNCHANGED <<clock, seen, reply, flush, todo, timer, faults>>
        BY <1>10 DEF Settling, Reserve, Finish, Freeze, Cancel, vars, replies
    <2> QED
        BY <1>0, <1>2, <2>1 DEF RefusalTypes, OnlyMadeIsRefused
<1>11. CASE Tick
    <2>1. clock' \in 0..MaxTime /\ clock' > clock /\ UNCHANGED <<seen, reply, flush, todo, timer, faults>>
        BY <1>11, TakingAssumption DEF Tick, replies, RefusalTypes, TakingAssumption
    <2>2. RefusalTypes'
        BY <1>0, <2>1 DEF RefusalTypes
    <2>3. \A s \in Call : ~Expired(s)' => ~Expired(s)
        BY <1>0, <2>1 DEF Expired, RefusalTypes
    <2> QED
        BY <1>0, <2>1, <2>2, <2>3 DEF OnlyMadeIsRefused, NoReplyIsForgotten
<1>12. CASE Taking
    BY <1>12, TakingKeepsReplies DEF LoserInv, TakerInv
<1> QED
    BY <1>4, <1>5, <1>6, <1>7, <1>8, <1>9, <1>10, <1>11, <1>12 DEF Next, Handles, Answers

LEMMA ReplyInvHolds == Spec => []ReplyInv
<1>1. Init => ReplyInv
    BY TakingAssumption, NoneAssumption
    DEF Init, ReplyInv, RefusalTypes, OnlyMadeIsRefused, NoReplyIsForgotten, TakingAssumption, None
<1>2. LoserInv /\ ReplyInv /\ [Next]_vars => ReplyInv'
    <2> SUFFICES ASSUME LoserInv, ReplyInv, [Next]_vars PROVE ReplyInv'
        OBVIOUS
    <2>1. CASE Taking
        BY <2>1, TakingKeepsReplies, TakingAssumption, NoneAssumption DEF LoserInv, TakerInv
    <2>2. CASE UNCHANGED takers
        BY <2>2, MakerKeepsReplies, TakingAssumption, NoneAssumption
    <2> QED
        BY <2>1, <2>2, StepsApart
<1> QED
    BY <1>1, <1>2, LoserInvHolds, PTL DEF Spec

\* A refusal that is pending and still valid always has a run that will come across it
\* or a timer that will start one, however many tabs, reconnections and failures there
\* are: what is staged while an earlier run sends is not forgotten (flushReplies).
THEOREM RefusalsAreRemembered == Spec => []NoReplyIsForgotten
<1>1. ReplyInv => NoReplyIsForgotten
    BY DEF ReplyInv
<1> QED
    BY <1>1, ReplyInvHolds, PTL

\* Every variable keeps its type, for any number of calls, pages and subscriptions.
THEOREM TypeCorrect == Spec => []TypeOK
<1>1. LoserInv /\ ReplyInv => TypeOK
    BY DEF LoserInv, ReplyInv, TakerInv, TakerTypes, MakerTypes, RefusalTypes, TypeOK,
           Heads, Phases, Jobs, Nobody
<1> QED
    BY <1>1, LoserInvHolds, ReplyInvHolds, PTL
=============================================================================
