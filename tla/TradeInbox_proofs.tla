-------------------------- MODULE TradeInbox_proofs ---------------------------
(***************************************************************************)
(* Proofs about the reader of a session's private messages: the types of   *)
(* its variables, and that it never sleeps on a message it has buffered.   *)
(***************************************************************************)
EXTENDS TradeInbox, TLAPS

\* The strengthening: also while the relay answers a query, which starts with an
\* empty buffer, an unsignalled loop has nothing buffered.
WaitsOnlyWhenEmpty ==
    run.at \in {"listening", "querying", "resting"} /\ ~signalled => buffer = <<>>

\* The loop is a record; nothing else of the types is needed for the argument.
RunOK == run \in [at : {"off", "checking", "listening", "querying", "resting"}, since : 0..MaxTime]

-----------------------------------------------------------------------------
(* Types *)

LEMMA Constants ==
    ASSUME InboxAssumption
    PROVE  /\ Messages \in Nat /\ Lookback \in Nat /\ Expiry \in Nat /\ Due \in Nat
           /\ MaxTime \in Nat /\ MaxFaults \in Nat /\ BufferLimit \in Nat \ {0}
           /\ 0 \in 0..MaxTime
BY DEF InboxAssumption

LEMMA EmptyIsTyped == <<>> \in Seq(Wrapper) /\ Len(<<>>) = 0
OBVIOUS

LEMMA RunTypes ==
    ASSUME InboxAssumption, RunOK
    PROVE  /\ Off \in [at : {"off", "checking", "listening", "querying", "resting"}, since : 0..MaxTime]
           /\ \A p \in {"off", "checking", "listening", "querying", "resting"} :
                 [Off EXCEPT !.at = p] \in [at : {"off", "checking", "listening", "querying", "resting"}, since : 0..MaxTime]
BY Constants DEF Off, RunOK

LEMMA WindowIsTime ==
    ASSUME InboxAssumption, NEW t \in 0..MaxTime
    PROVE  Window(t) \in 0..MaxTime
BY DEF InboxAssumption, Window

LEMMA BufferedIsBounded ==
    ASSUME InboxAssumption, TypeOK, NEW w \in Wrapper
    PROVE  Buffered(w) \in Seq(Wrapper) /\ Len(Buffered(w)) <= BufferLimit
<1>1. CASE Contains(buffer, w)
    BY <1>1 DEF Buffered, TypeOK
<1>2. CASE ~Contains(buffer, w) /\ Len(buffer) = BufferLimit
    BY <1>2 DEF Buffered, TypeOK, InboxAssumption
<1>3. CASE ~Contains(buffer, w) /\ Len(buffer) # BufferLimit
    BY <1>3 DEF Buffered, TypeOK, InboxAssumption
<1> QED
    BY <1>1, <1>2, <1>3

LEMMA HeadKeepsTypes ==
    ASSUME InboxAssumption, TypeOK, NEW s, LoopHead(s)
    PROVE  RunOK' /\ signalled' \in BOOLEAN
<1>1. RunOK /\ signalled \in BOOLEAN
    BY DEF TypeOK, RunOK
<1> QED
    BY <1>1, RunTypes DEF LoopHead, Starts, RunOK

LEMMA AdvancedKeepsTypes ==
    ASSUME InboxAssumption, TypeOK, NEW s, Advanced(s)
    PROVE  RunOK' /\ signalled' \in BOOLEAN /\ starting' \in BOOLEAN /\ refreshing' \in BOOLEAN
BY HeadKeepsTypes DEF Advanced, Ensure, TypeOK

SessionOK(s) ==
    s \in [next : 1..(Messages + 1), updated : 0..MaxTime, answered : 0..MaxTime,
           stage : {"unregistered", "working", "waiting", "settling", "over"}]

LEMMA PolledKeepsTypes ==
    ASSUME InboxAssumption, TypeOK, NEW found \in SUBSET Wrapper, Polled(found)
    PROVE  /\ RunOK' /\ signalled' \in BOOLEAN /\ starting' \in BOOLEAN /\ refreshing' \in BOOLEAN
           /\ SessionOK(session')
<1>1. CASE session.next \in found /\ clock < Expiry
    <2> DEFINE s == [session EXCEPT !.next = @ + 1, !.stage = "working", !.updated = clock]
    <2>1. Advanced(s) /\ session' = s
        BY <1>1 DEF Polled, Advanced
    <2>2. SessionOK(s)
        <3>1. SessionOK(session) /\ clock \in 0..MaxTime
            BY DEF TypeOK, SessionOK
        <3>2. session.next + 1 \in 1..(Messages + 1)
            <4>1. session.next \in Wrapper
                BY <1>1
            <4> QED
                BY <4>1, Constants DEF Wrapper
        <3> QED
            BY <3>1, <3>2 DEF SessionOK
    <2> QED
        BY <2>1, <2>2, AdvancedKeepsTypes
<1>2. CASE ~(session.next \in found /\ clock < Expiry)
    <2>1. RunOK /\ signalled \in BOOLEAN /\ starting \in BOOLEAN /\ refreshing \in BOOLEAN /\ SessionOK(session)
        BY DEF TypeOK, RunOK, SessionOK
    <2> QED
        BY <1>2, <2>1, RunTypes DEF Polled, RunOK
<1> QED
    BY <1>1, <1>2

\* Every variable keeps its type: the buffer stays within its limit, and a loop
\* that is off or asleep has no query.
THEOREM TypeCorrect == Spec => []TypeOK
<1>1. Init => TypeOK
    <2>1. Init => RunOK
        BY InboxAssumption, Constants DEF Init, RunOK, Off
    <2> QED
        <3> SUFFICES ASSUME Init PROVE TypeOK
            OBVIOUS
        <3>1. created \in [Wrapper -> 0..Unsent]
            BY InboxAssumption, Constants DEF Init, Unsent
        <3>2. queue \in Seq(Wrapper) /\ buffer \in Seq(Wrapper) /\ Len(buffer) <= BufferLimit
            BY InboxAssumption, Constants, EmptyIsTyped DEF Init
        <3>3. SessionOK(session)
            BY InboxAssumption, Constants DEF Init, SessionOK
        <3> QED
            <4>1. clock \in 0..MaxTime /\ faults \in 0..MaxFaults
                BY Constants, InboxAssumption DEF Init
            <4>2. /\ claimed \in BOOLEAN /\ refreshing \in BOOLEAN /\ starting \in BOOLEAN
                  /\ signalled \in BOOLEAN /\ seen \subseteq Wrapper
                BY DEF Init
            <4>3. /\ controller \in {"none", "ready", "failed"} /\ listener \in {"none", "live", "closed"}
                  /\ reconnect \in {"none", "calling", "waiting"}
                BY DEF Init
            <4> QED
                BY <2>1, <3>1, <3>2, <3>3, <4>1, <4>2, <4>3 DEF TypeOK, SessionOK, RunOK
<1>2. TypeOK /\ [Next]_vars => TypeOK'
    <2> SUFFICES ASSUME TypeOK, [Next]_vars PROVE TypeOK'
        OBVIOUS
    <2> USE InboxAssumption, Constants
    <2>0. RunOK
        BY DEF TypeOK, RunOK
    <2>1. CASE Listening
        <3>1. CASE StartNothing \/ Accepted \/ Reattempt
            BY <3>1, EmptyIsTyped DEF StartNothing, Accepted, Reattempt, Ensure, TypeOK
        <3>2. ASSUME NEW w \in Wrapper, Receive(w) PROVE TypeOK'
            BY <3>2, SMTT(60) DEF Receive, TypeOK
        <3>3. CASE Handle
            <4>1. queue' \in Seq(Wrapper) /\ Head(queue) \in Wrapper
                BY <3>3 DEF Handle, TypeOK
            <4>2. buffer' \in Seq(Wrapper) /\ Len(buffer') <= BufferLimit
                BY <3>3, <4>1, BufferedIsBounded DEF Handle, TypeOK
            <4>3. RunOK' /\ signalled' \in BOOLEAN /\ starting' \in BOOLEAN
                BY <2>0, <3>3, RunTypes DEF Handle, Starts, Ensure, RunOK, TypeOK
            <4> QED
                BY <3>3, <4>1, <4>2, <4>3 DEF Handle, TypeOK, RunOK
        <3> QED
            BY <2>1, <3>1, <3>2, <3>3 DEF Listening
    <2>2. CASE Driving
        <3>1. CASE Sleep
            BY <3>1, ZenonT(60) DEF Sleep, TypeOK
        <3>2. CASE Work
            <4> DEFINE s == [session EXCEPT
                 !.stage = CASE session.stage = "unregistered" -> "working"
                             [] session.next > Messages -> "settling"
                             [] OTHER -> "waiting",
                 !.updated = clock, !.answered = clock]
            <4>1. Advanced(s) /\ session' = s
                BY <3>2 DEF Work, Advanced
            <4>2. SessionOK(s)
                BY DEF SessionOK, TypeOK
            <4> QED
                BY <3>2, <4>1, <4>2, AdvancedKeepsTypes, ZenonT(60) DEF Work, TypeOK, RunOK, SessionOK
        <3>3. CASE Observe
            <4> DEFINE s == [session EXCEPT !.stage = IF claimed THEN "over" ELSE @, !.updated = clock]
            <4>1. Advanced(s) /\ session' = s
                BY <3>3 DEF Observe, Advanced
            <4>2. SessionOK(s)
                BY DEF SessionOK, TypeOK
            <4> QED
                BY <3>3, <4>1, <4>2, AdvancedKeepsTypes, ZenonT(60) DEF Observe, TypeOK, RunOK, SessionOK
        <3>4. CASE Recover
            <4>1. CASE \E stage \in {session.stage, "over"} :
                           Advanced([session EXCEPT !.stage = stage, !.updated = clock])
                <5>1. PICK stage \in {session.stage, "over"} :
                           Advanced([session EXCEPT !.stage = stage, !.updated = clock])
                    BY <4>1
                <5> DEFINE s == [session EXCEPT !.stage = stage, !.updated = clock]
                <5>2. Advanced(s) /\ session' = s
                    BY <5>1 DEF Advanced
                <5>3. SessionOK(s)
                    BY DEF SessionOK, TypeOK
                <5> QED
                    BY <3>4, <5>2, <5>3, AdvancedKeepsTypes, ZenonT(60) DEF Recover, TypeOK, RunOK, SessionOK
            <4>2. CASE run' = Off /\ UNCHANGED <<session, starting, signalled, refreshing>>
                <5>1. RunOK'
                    BY <4>2, <2>0, RunTypes DEF RunOK
                <5> QED
                    BY <3>4, <4>2, <5>1, SMTT(60) DEF Recover, TypeOK, RunOK
            <4> QED
                BY <3>4, <4>1, <4>2 DEF Recover
        <3>5. CASE Poll
            <4>1. CASE buffer # <<>> /\ buffer' = <<>> /\ Polled(ToSet(buffer))
                <5>1. ToSet(buffer) \in SUBSET Wrapper
                    BY DEF TypeOK, ToSet
                <5> QED
                    <6>1. /\ RunOK' /\ signalled' \in BOOLEAN /\ starting' \in BOOLEAN
                          /\ refreshing' \in BOOLEAN /\ SessionOK(session')
                        BY <4>1, <5>1, PolledKeepsTypes
                    <6>2. buffer' \in Seq(Wrapper) /\ Len(buffer') <= BufferLimit
                        BY <4>1, EmptyIsTyped
                    <6> QED
                        BY <3>5, <6>1, <6>2 DEF Poll, TypeOK, RunOK, SessionOK
            <4>2. CASE ~(buffer # <<>> /\ buffer' = <<>> /\ Polled(ToSet(buffer)))
                <5>1. Window(session.updated) \in 0..MaxTime
                    BY WindowIsTime DEF TypeOK
                <5>2. RunOK'
                    BY <3>5, <4>2, <5>1 DEF Poll, TypeOK, RunOK
                <5> QED
                    BY <3>5, <4>2, <5>2 DEF Poll, TypeOK, RunOK
            <4> QED
                BY <4>1, <4>2
        <3>6. CASE Answer
            BY <3>6, PolledKeepsTypes DEF Answer, TypeOK, RunOK, SessionOK
        <3>7. CASE Rested
            BY <3>7, HeadKeepsTypes DEF Rested, Ensure, TypeOK, RunOK
        <3> QED
            BY <2>2, <3>1, <3>2, <3>3, <3>4, <3>5, <3>6, <3>7 DEF Driving
    <2>3. CASE Load \/ Refresh
        <3>1. RunOK' /\ signalled' \in BOOLEAN /\ starting' \in BOOLEAN
            BY <2>0, <2>3, RunTypes DEF Load, Refresh, Resume, Starts, Ensure, RunOK, TypeOK
        <3> QED
            BY <2>3, <3>1 DEF Load, Refresh, TypeOK, RunOK
    <2>4. CASE Rejected \/ UNCHANGED vars
        BY <2>4, SMTT(60) DEF Rejected, vars, page, TypeOK
    <2>5. CASE Failing
        <3>1. CASE Refused \/ Close
            <4>1. faults' \in 0..MaxFaults
                BY <3>1, SMTT(60) DEF Refused, Close, Fault, TypeOK
            <4> QED
                BY <3>1, <4>1, EmptyIsTyped DEF Refused, Close, TypeOK
        <3>2. CASE Fail
            <4>1. faults' \in 0..MaxFaults /\ RunOK'
                <5>1. faults' \in 0..MaxFaults /\ run' = Off
                    BY <3>2 DEF Fail, Fault, TypeOK
                <5> QED
                    BY <2>0, <5>1, RunTypes DEF RunOK
            <4> QED
                BY <3>2, <4>1, SMTT(60) DEF Fail, TypeOK, RunOK
        <3>3. CASE LoadFails
            BY <3>3 DEF LoadFails, Fault, TypeOK
        <3>4. CASE Reload
            <4>1. faults' \in 0..MaxFaults /\ RunOK'
                <5>1. faults' \in 0..MaxFaults /\ run' = Off
                    BY <3>4 DEF Reload, Fault, TypeOK
                <5> QED
                    BY <2>0, <5>1, RunTypes DEF RunOK
            <4>2. queue' \in Seq(Wrapper) /\ buffer' \in Seq(Wrapper) /\ Len(buffer') <= BufferLimit
                BY <3>4, EmptyIsTyped DEF Reload
            <4> QED
                BY <3>4, <4>1, <4>2 DEF Reload, TypeOK, RunOK
        <3> QED
            BY <2>5, <3>1, <3>2, <3>3, <3>4 DEF Failing
    <2>6. CASE World
        <3>1. CASE Announce \/ PeerClaims
            BY <3>1, ZenonT(60) DEF Announce, PeerClaims, page, TypeOK
        <3>2. ASSUME NEW w \in Wrapper, Send(w) PROVE TypeOK'
            <4>1. Window(session.answered)..clock \subseteq 0..Unsent
                <5>1. session.answered \in 0..MaxTime /\ clock \in 0..MaxTime
                    BY DEF TypeOK
                <5>2. Window(session.answered) \in 0..MaxTime
                    BY <5>1, WindowIsTime
                <5> QED
                    BY <5>1, <5>2 DEF Unsent
            <4> QED
                BY <3>2, <4>1, SMTT(60) DEF Send, page, TypeOK
        <3> QED
            BY <2>6, <3>1, <3>2 DEF World
    <2>7. CASE Tick
        BY <2>7 DEF Tick, page, TypeOK
    <2> QED
        BY <2>1, <2>2, <2>3, <2>4, <2>5, <2>6, <2>7 DEF Next
<1> QED
    BY <1>1, <1>2, PTL DEF Spec

-----------------------------------------------------------------------------
(* No lost wake-up *)

LEMMA HeadIsAwake ==
    ASSUME NEW s, LoopHead(s)
    PROVE  run'.at \in {"off", "checking"}
BY DEF LoopHead, Starts, Off

LEMMA PolledIsEmpty ==
    ASSUME NEW found, Polled(found), buffer' = <<>>
    PROVE  WaitsOnlyWhenEmpty'
BY DEF WaitsOnlyWhenEmpty

\* A sleeping loop that knows of no signal has nothing to read, for any number of
\* messages, limit of the buffer and faults: an event signals in the step that
\* buffers it, and the loop observes the signal before it looks at the buffer.
THEOREM NoLostWakeup == Spec => []SleepsOnlyWhenEmpty
<1>1. Init => WaitsOnlyWhenEmpty
    BY DEF Init, WaitsOnlyWhenEmpty
<1>2. RunOK /\ WaitsOnlyWhenEmpty /\ [Next]_vars => WaitsOnlyWhenEmpty'
    <2> SUFFICES ASSUME RunOK, WaitsOnlyWhenEmpty, [Next]_vars PROVE WaitsOnlyWhenEmpty'
        OBVIOUS
    <2>1. CASE StartNothing \/ Accepted \/ Reattempt \/ \E w \in Wrapper : Receive(w)
        BY <2>1 DEF StartNothing, Accepted, Reattempt, Receive, WaitsOnlyWhenEmpty
    <2>2. CASE Handle
        BY <2>2 DEF Handle, Starts, Off, WaitsOnlyWhenEmpty
    <2>3. CASE Sleep
        BY <2>3 DEF Sleep, Sleepy, WaitsOnlyWhenEmpty
    <2>4. CASE Work \/ Observe \/ Recover \/ Rested
        <3>1. run'.at \in {"off", "checking"}
            BY <2>4, HeadIsAwake DEF Work, Observe, Recover, Rested, Advanced, Off
        <3> QED
            BY <3>1 DEF WaitsOnlyWhenEmpty
    <2>5. CASE Poll
        BY <2>5 DEF Poll, WaitsOnlyWhenEmpty
    <2>6. CASE Answer
        <3>1. CASE run'.at \in {"off", "checking"}
            BY <3>1 DEF WaitsOnlyWhenEmpty
        <3>2. CASE run'.at \notin {"off", "checking"}
            <4>1. signalled' = signalled /\ buffer' = buffer /\ run.at = "querying"
                BY <2>6, <3>2, HeadIsAwake DEF Answer, Polled, Advanced
            <4> QED
                BY <4>1 DEF WaitsOnlyWhenEmpty
        <3> QED
            BY <3>1, <3>2
    <2>7. CASE Load \/ Refresh
        <3>1. CASE run'.at = "checking"
            BY <3>1 DEF WaitsOnlyWhenEmpty
        <3>2. CASE run'.at # "checking"
            BY <2>7, <3>2 DEF Load, Refresh, Resume, Starts, Off, WaitsOnlyWhenEmpty
        <3> QED
            BY <3>1, <3>2
    <2>8. CASE Failing
        BY <2>8 DEF Failing, Refused, Close, Fail, LoadFails, Reload, Off, WaitsOnlyWhenEmpty
    <2>9. CASE World \/ Tick \/ Rejected \/ UNCHANGED vars
        BY <2>9 DEF World, Announce, PeerClaims, Send, Tick, Rejected, vars, page, WaitsOnlyWhenEmpty
    <2> QED
        BY <2>1, <2>2, <2>3, <2>4, <2>5, <2>6, <2>7, <2>8, <2>9 DEF Next, Listening, Driving
<1>3. TypeOK => RunOK
    BY DEF TypeOK, RunOK
<1>4. WaitsOnlyWhenEmpty => SleepsOnlyWhenEmpty
    BY DEF WaitsOnlyWhenEmpty, SleepsOnlyWhenEmpty
<1> QED
    BY <1>1, <1>2, <1>3, <1>4, TypeCorrect, PTL DEF Spec
=============================================================================
