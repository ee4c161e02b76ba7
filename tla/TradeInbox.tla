------------------------------ MODULE TradeInbox ------------------------------
(***************************************************************************)
(* How a page reads the private messages of one stored trade session.      *)
(*                                                                         *)
(* The loop driveUntilSettled asks the coordinator for one action at a     *)
(* time.  When the action is to poll the inbox it sleeps until a message   *)
(* arrives on the session's subscription or a watchdog fires; a poll       *)
(* drains the messages the subscription buffered, and asks the relay only  *)
(* when there are none.  The relay is asked for the wrappers whose         *)
(* timestamp is at most two days older than the session's last change: a   *)
(* wrapper's timestamp is drawn from the two days before it was written.   *)
(*                                                                         *)
(* A step stands for what runs between two awaits.  One unit of time is    *)
(* long compared to the watchdog.  Faults are a failed action, query or    *)
(* connection, a closed subscription and a reload of the page.             *)
(***************************************************************************)
EXTENDS Naturals, SequencesExt

CONSTANTS
    Messages,     \* the peer sends the messages 1..Messages, in this order
    Early,        \* the messages it sends without an answer to the one before
    Lookback,     \* two days
    Expiry,       \* when the peer's messages expire
    Due,          \* when the session's own refund is due
    MaxTime,      \* bound on the clock
    BufferLimit,  \* LIVE_INBOX_BUFFER_LIMIT
    GivesUp,      \* whether a loop may reach its limits: 200 actions, 2400 empty polls
    MaxFaults     \* bound on faults

ASSUME InboxAssumption ==
    /\ {Messages, Lookback, Expiry, Due, MaxTime, MaxFaults} \subseteq Nat
    /\ BufferLimit \in Nat \ {0} /\ GivesUp \in BOOLEAN
    /\ Early \subseteq 2..Messages

Wrapper == 1..Messages
Unsent == MaxTime + 1

VARIABLES
    clock,
    created,     \* the timestamp of each wrapper the relay stores
    session,     \* the stored session: next message, stage, last change, last answer
    claimed,     \* the peer has claimed at the mint
    controller,  \* the page's trade controller, built once
    listener,    \* the subscriptions entry of the session
    starting,    \* subscriptionStarts has the session
    reconnect,   \* subscriptionReconnects: restarting, or waiting to
    seen,        \* what the open subscription has delivered
    queue,       \* delivered events that wait for the handler
    buffer,      \* liveInboxEvents of the session
    signalled,   \* a signal the loop has not observed
    run,         \* the loop: where it is, and the start of its query
    refreshing,  \* refreshTrades is to run, or to run again
    faults

page == <<controller, listener, starting, reconnect, seen, queue, buffer, signalled, run, refreshing>>
vars == <<clock, created, session, claimed, page, faults>>

TypeOK ==
    /\ clock \in 0..MaxTime /\ faults \in 0..MaxFaults
    /\ created \in [Wrapper -> 0..Unsent]
    /\ session \in [next : 1..(Messages + 1), updated : 0..MaxTime, answered : 0..MaxTime,
                    stage : {"unregistered", "working", "waiting", "settling", "over"}]
    /\ claimed \in BOOLEAN /\ refreshing \in BOOLEAN /\ starting \in BOOLEAN /\ signalled \in BOOLEAN
    /\ controller \in {"none", "ready", "failed"}
    /\ listener \in {"none", "live", "closed"}
    /\ reconnect \in {"none", "calling", "waiting"}
    /\ seen \subseteq Wrapper
    /\ queue \in Seq(Wrapper) /\ buffer \in Seq(Wrapper) /\ Len(buffer) <= BufferLimit
    /\ run \in [at : {"off", "checking", "listening", "querying", "resting"}, since : 0..MaxTime]

Stored(w) == created[w] # Unsent
Over == session.stage = "over"
Window(at) == IF at < Lookback THEN 0 ELSE at - Lookback
Fault == faults < MaxFaults /\ faults' = faults + 1
Off == [at |-> "off", since |-> 0]

\* A loop that starts observes the signal at its head.
Starts == run' = [Off EXCEPT !.at = "checking"] /\ signalled' = FALSE

\* What the coordinator would do with the session.  A staged or prepared step of
\* the session's own comes first; recovery comes before waiting for the peer.
Plan == CASE session.stage \in {"unregistered", "working"} -> "work"
          [] clock >= Due -> "recover"
          [] session.stage = "settling" -> "observe"
          [] OTHER -> "poll"

-----------------------------------------------------------------------------
(* The session's subscription *)

\* ensureSessionSubscription: nothing with an entry or a start in the map.
Ensure == starting' = (starting \/ listener = "none")

\* The start finds no registered inbox, and makes no subscription.
StartNothing ==
    /\ starting /\ session.stage = "unregistered"
    /\ starting' = FALSE
    /\ reconnect' = IF reconnect = "calling" THEN "none" ELSE reconnect
    /\ UNCHANGED <<clock, created, session, claimed, controller, listener, seen, queue, buffer,
                   signalled, run, faults, refreshing>>

\* The relay accepts.  The subscription starts with the session's own window, so
\* the relay replays everything it stores.
Accepted ==
    /\ starting /\ session.stage # "unregistered"
    /\ starting' = FALSE
    /\ listener' = "live" /\ seen' = {} /\ queue' = <<>>
    /\ reconnect' = IF reconnect = "calling" THEN "none" ELSE reconnect
    /\ UNCHANGED <<clock, created, session, claimed, controller, buffer, signalled, run, faults, refreshing>>

\* The relay cannot be reached: a reconnection waits for its next attempt.
Refused ==
    /\ starting /\ session.stage # "unregistered"
    /\ starting' = FALSE
    /\ reconnect' = IF reconnect = "calling" THEN "waiting" ELSE reconnect
    /\ UNCHANGED <<clock, created, session, claimed, controller, listener, seen, queue, buffer,
                   signalled, run, faults, refreshing>>

\* The next attempt of a reconnection, which has nothing to do with an entry.
Reattempt ==
    /\ reconnect = "waiting"
    /\ Ensure
    /\ reconnect' = IF listener = "none" THEN "calling" ELSE "none"
    /\ UNCHANGED <<clock, created, session, claimed, controller, listener, seen, queue, buffer,
                   signalled, run, faults, refreshing>>

\* The relay closes the subscription.  It is stopped, dropped and restarted, and
\* what its queue held is not handled; but a close while an earlier reconnection
\* waits is ignored, and the entry stays.
Close ==
    /\ listener = "live" /\ Fault
    /\ \/ /\ reconnect = "none"
          /\ reconnect' = "calling" /\ starting' = TRUE
          /\ listener' = "none" /\ seen' = {} /\ queue' = <<>>
       \/ /\ reconnect # "none"
          /\ listener' = "closed"
          /\ UNCHANGED <<reconnect, starting, seen, queue>>
    /\ UNCHANGED <<clock, created, session, claimed, controller, buffer, signalled, run, refreshing>>

\* The relay delivers a stored wrapper: once on each subscription.
Receive(w) ==
    /\ listener = "live" /\ Stored(w) /\ w \notin seen
    /\ seen' = seen \cup {w}
    /\ queue' = Append(queue, w)
    /\ UNCHANGED <<clock, created, session, claimed, controller, listener, starting, reconnect,
                   buffer, signalled, run, faults, refreshing>>

\* bufferLiveEvent: an event once, and the oldest gives way in a full buffer.
Buffered(w) ==
    IF Contains(buffer, w) THEN buffer
    ELSE Append(IF Len(buffer) = BufferLimit THEN Tail(buffer) ELSE buffer, w)

\* Mutant: the event of a running loop is buffered without a signal.
QuietHandle ==
    /\ queue # <<>>
    /\ queue' = Tail(queue)
    /\ IF Over THEN UNCHANGED <<buffer, signalled, run, starting>>
       ELSE /\ buffer' = Buffered(Head(queue))
            /\ IF run.at = "off" THEN Starts /\ Ensure
               ELSE UNCHANGED <<signalled, run, starting>>
    /\ UNCHANGED <<clock, created, session, claimed, controller, listener, reconnect, seen, faults, refreshing>>

\* The handler of an active session buffers the event, signals the loop, and
\* starts one when none runs.
Handle ==
    /\ queue # <<>>
    /\ queue' = Tail(queue)
    /\ IF Over THEN UNCHANGED <<buffer, signalled, run, starting>>
       ELSE /\ buffer' = Buffered(Head(queue))
            /\ IF run.at = "off" THEN Starts /\ Ensure
               ELSE signalled' = TRUE /\ UNCHANGED <<run, starting>>
    /\ UNCHANGED <<clock, created, session, claimed, controller, listener, reconnect, seen, faults, refreshing>>

-----------------------------------------------------------------------------
(* The loop *)

\* The head of the loop, reached without an await: it ends at a terminal phase and
\* at its limit of actions, and else observes the signal before it reads the session.
LoopHead(s) ==
    \/ /\ s.stage = "over" \/ GivesUp
       /\ run' = Off /\ UNCHANGED signalled
    \/ s.stage # "over" /\ Starts

\* waitForLiveInboxEvent sleeps when a poll would find nothing buffered and
\* nothing was signalled since the head of the loop.
Sleepy == Plan = "poll" /\ buffer = <<>> /\ ~signalled
Sleep ==
    /\ run.at = "checking" /\ Sleepy
    /\ run' = [run EXCEPT !.at = "listening"]
    /\ UNCHANGED <<clock, created, session, claimed, controller, listener, starting, reconnect,
                   seen, queue, buffer, signalled, refreshing, faults>>

\* The loop asks the coordinator for an action when it need not sleep, and when a
\* signal or the watchdog ends its sleep.
Awake == run.at = "listening" \/ (run.at = "checking" /\ ~Sleepy)

\* A successful action makes the session s, ensures its subscription, has the page
\* refresh its swaps, and the loop goes on.
Advanced(s) ==
    /\ session' = s
    /\ Ensure
    /\ refreshing' = TRUE
    /\ LoopHead(s)

\* An action of the session's own.  After the last message it waits for the claim.
Work ==
    /\ Awake /\ Plan = "work"
    /\ Advanced([session EXCEPT
         !.stage = CASE session.stage = "unregistered" -> "working"
                     [] session.next > Messages -> "settling"
                     [] OTHER -> "waiting",
         !.updated = clock, !.answered = clock])
    /\ UNCHANGED <<clock, created, claimed, controller, listener, reconnect, seen, queue, buffer,
                   faults>>

\* The mint is asked about the payment: the session changes in either case.
Observe ==
    /\ Awake /\ Plan = "observe"
    /\ Advanced([session EXCEPT !.stage = IF claimed THEN "over" ELSE @, !.updated = clock])
    /\ UNCHANGED <<clock, created, claimed, controller, listener, reconnect, seen, queue, buffer,
                   faults>>

\* Recovery and the due refund: one of several steps, the last of which ends the
\* session; or a step that is refused and ends the loop.  Nothing says that it is
\* not refused each time: the phase table refuses enter_recovery in some phases, and
\* a taker plans its refund again after it was refunded.
Recover ==
    /\ Awake /\ Plan = "recover"
    /\ \/ \E stage \in {session.stage, "over"} :
              Advanced([session EXCEPT !.stage = stage, !.updated = clock])
       \/ /\ run' = Off
          /\ UNCHANGED <<session, starting, signalled, refreshing>>
    /\ UNCHANGED <<clock, created, claimed, controller, listener, reconnect, seen, queue, buffer,
                   faults>>

\* An action that fails ends the loop: only the two messages of an empty poll
\* are waited for.
Fail ==
    /\ (Awake \/ run.at = "querying")
    /\ Fault
    /\ run' = Off
    /\ UNCHANGED <<clock, created, session, claimed, controller, listener, starting, reconnect,
                   seen, queue, buffer, signalled, refreshing>>

\* pollInbox with the wrappers that were read.  Only the exact next
\* message that has not expired opens; without it the loop sleeps, or gives up.
Polled(found) ==
    IF session.next \in found /\ clock < Expiry
    THEN Advanced([session EXCEPT !.next = @ + 1, !.stage = "working", !.updated = clock])
    ELSE /\ \/ run' = [Off EXCEPT !.at = "resting"]
            \/ GivesUp /\ run' = Off
         /\ UNCHANGED <<session, starting, signalled, refreshing>>

\* Mutant: a poll that finds nothing buffered does not ask the relay.
PollBufferOnly ==
    /\ Awake /\ Plan = "poll"
    /\ buffer' = <<>> /\ Polled(ToSet(buffer))
    /\ UNCHANGED <<clock, created, claimed, controller, listener, reconnect, seen, queue,
                   faults>>

\* read: all that is buffered, else a query of the relay from the window of the
\* session as it was read.
Poll ==
    /\ Awake /\ Plan = "poll"
    /\ \/ /\ buffer # <<>>
          /\ buffer' = <<>> /\ Polled(ToSet(buffer))
       \/ /\ buffer = <<>>
          /\ run' = [run EXCEPT !.at = "querying", !.since = Window(session.updated)]
          /\ UNCHANGED <<buffer, session, starting, signalled, refreshing>>
    /\ UNCHANGED <<clock, created, claimed, controller, listener, reconnect, seen, queue,
                   faults>>

\* The relay answers the query.
Answer ==
    /\ run.at = "querying"
    /\ Polled({w \in Wrapper : Stored(w) /\ created[w] >= run.since})
    /\ UNCHANGED <<clock, created, claimed, controller, listener, reconnect, seen, queue, buffer,
                   faults>>

\* After an empty poll, a signal or the watchdog; the session is read again.
Rested ==
    /\ run.at = "resting"
    /\ Ensure /\ LoopHead(session)
    /\ UNCHANGED <<clock, created, session, claimed, controller, listener, reconnect, seen, queue,
                   buffer, faults, refreshing>>

-----------------------------------------------------------------------------
(* The page *)


\* resume: an active session is subscribed, and its loop is started.
Resume == Ensure /\ IF run.at = "off" /\ ~Over THEN Starts ELSE UNCHANGED <<run, signalled>>

\* The page loads and builds its controller, which probes the inbox relay, and
\* resumes the stored sessions.
Load ==
    /\ controller = "none"
    /\ controller' = "ready" /\ Resume
    /\ UNCHANGED <<clock, created, session, claimed, listener, reconnect, seen, queue, buffer,
                   refreshing, faults>>

\* The probe fails.  The rejected promise is what later callers are given.
LoadFails ==
    /\ controller = "none" /\ Fault
    /\ controller' = "failed"
    /\ UNCHANGED <<clock, created, session, claimed, listener, starting, reconnect, seen, queue,
                   buffer, signalled, run, refreshing>>

\* Every later call of the controller gets the rejected promise.
Rejected == controller = "failed" /\ UNCHANGED vars

\* refreshTrades: after an action of the loop, on Refresh Swaps, and after a change
\* of another session.
Refresh ==
    /\ controller = "ready" /\ Resume
    /\ refreshing' = FALSE
    /\ UNCHANGED <<clock, created, session, claimed, controller, listener, reconnect, seen, queue,
                   buffer, faults>>

\* A reload of the page forgets everything that is not stored.
Reload ==
    /\ controller # "none" /\ Fault
    /\ controller' = "none" /\ listener' = "none" /\ starting' = FALSE /\ reconnect' = "none"
    /\ seen' = {} /\ queue' = <<>> /\ buffer' = <<>> /\ signalled' = FALSE /\ run' = Off
    /\ refreshing' = FALSE
    /\ UNCHANGED <<clock, created, session, claimed>>

-----------------------------------------------------------------------------
(* The peer, others, and time *)

\* The peer writes a wrapper after the session's last answer, dates it back by up
\* to the lookback, and delivers it when it can.
Send(m) ==
    /\ ~Stored(m) /\ ~Over
    /\ \/ session.next = m /\ session.stage = "waiting"
       \/ m \in Early /\ Stored(m - 1)
    /\ \E t \in Window(session.answered)..clock : created' = [created EXCEPT ![m] = t]
    /\ UNCHANGED <<clock, session, claimed, page, faults>>

PeerClaims ==
    /\ session.stage = "settling" /\ ~claimed /\ clock < Due
    /\ claimed' = TRUE
    /\ UNCHANGED <<clock, created, session, page, faults>>

\* An announcement of the session is committed beside the loop.
Announce ==
    /\ session.stage \notin {"unregistered", "over"} /\ session.updated < clock
    /\ session' = [session EXCEPT !.updated = clock]
    /\ UNCHANGED <<clock, created, claimed, page, faults>>

\* A query takes seconds.
Tick ==
    /\ clock < MaxTime /\ run.at # "querying"
    /\ clock' = clock + 1
    /\ UNCHANGED <<created, session, claimed, page, faults>>

-----------------------------------------------------------------------------
(* The specification *)

\* The page is opened with the session a take has just stored.
Init ==
    /\ clock = 0 /\ faults = 0 /\ claimed = FALSE
    /\ created = [w \in Wrapper |-> Unsent]
    /\ session = [next |-> 1, stage |-> "unregistered", updated |-> 0, answered |-> 0]
    /\ controller = "none" /\ listener = "none" /\ starting = FALSE /\ reconnect = "none"
    /\ seen = {} /\ queue = <<>> /\ buffer = <<>> /\ signalled = FALSE /\ run = Off
    /\ refreshing = FALSE

Listening == StartNothing \/ Accepted \/ Reattempt \/ Handle \/ \E w \in Wrapper : Receive(w)
Driving == Sleep \/ Work \/ Observe \/ Recover \/ Poll \/ Answer \/ Rested
Failing == Refused \/ Close \/ Fail \/ LoadFails \/ Reload
World == Announce \/ PeerClaims \/ \E w \in Wrapper : Send(w)

Next == Listening \/ Driving \/ Load \/ Rejected \/ Refresh \/ Failing \/ World \/ Tick

\* The event loop of an open page runs what is ready, and the relay answers,
\* accepts and delivers in the end.  No user, peer or fault is relied on, and time
\* need not pass while the page is busy.
Fairness ==
    /\ WF_vars(StartNothing) /\ SF_vars(Accepted) /\ WF_vars(Reattempt) /\ WF_vars(Handle)
    /\ \A w \in Wrapper : WF_vars(Receive(w))
    /\ WF_vars(Driving) /\ WF_vars(Load) /\ WF_vars(refreshing /\ Refresh)

Spec == Init /\ [][Next]_vars /\ Fairness

-----------------------------------------------------------------------------
(* Properties *)

\* No wake-up is lost: when the loop sleeps and knows of no signal, there is
\* nothing in the buffer for it to read (the signal counter of the controller).
SleepsOnlyWhenEmpty ==
    run.at \in {"listening", "resting"} /\ ~signalled => buffer = <<>>

\* A user who keeps refreshing the swaps of the page.
Attended == WF_vars(Refresh)

Readable(m) ==
    /\ Stored(m) /\ session.next = m /\ session.stage = "waiting"
    /\ created[m] >= Window(session.updated) /\ clock < Expiry

\* On an attended page the next message is read if its timestamp is within the
\* window of the session, unless it expires or an announcement moves the window
\* past it: whatever became of the subscription, and also when the message came
\* early and was drained, or shifted out of the buffer, before its turn.
SentIsRead ==
    Attended => \A m \in Wrapper :
        Readable(m) /\ controller = "ready" ~> ~Readable(m) \/ controller # "ready"

Overdue == controller = "ready" /\ clock >= Due /\ ~Over

=============================================================================
