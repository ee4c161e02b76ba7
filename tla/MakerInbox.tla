------------------------------ MODULE MakerInbox ------------------------------
(***************************************************************************)
(* The listeners of a maker's page, one for each of its orders.  A taker   *)
(* writes its proposal to the public key of the order, so an order whose   *)
(* listener is missing or dead cannot be taken.                            *)
(*                                                                         *)
(* enableMaker lists the orders that have a key, drops the listeners of    *)
(* the others, and starts one listener per order; it returns when the last *)
(* start has, and throws when the first one does.  It is called by the     *)
(* page (syncMakerInboxes, a single flight with a queue of one and a retry *)
(* timer) and by the reconnection of every listener whose relay closed, so *)
(* a reconnection waits for the starts of all the orders.  Starts of one   *)
(* listener are a single flight (startSubscriptionOnce).                   *)
(*                                                                         *)
(* Awaited storage, locks and connections are separate steps.  What runs   *)
(* in microtasks after one of them is part of its step: in particular a    *)
(* listener enters the map when its relay accepts the subscription.  The   *)
(* runtime has one inbox relay.                                            *)
(***************************************************************************)
EXTENDS Integers

CONSTANTS
    Orders,
    Page,       \* the page as a caller of enableMaker
    Closing,    \* bound: the orders whose connections the relay may close
    MaxFaults   \* bound on closed connections and reloads

ASSUME InboxAssumption ==
    /\ Page \notin Orders /\ Closing \subseteq Orders
    /\ MaxFaults \in Nat

Caller == Orders \cup {Page}

VARIABLES
    order,        \* what became of the order: once open, a relay holds it
    key,          \* its stored key: none, the one it was signed with, another
    listener,     \* the subscriptions map: an entry's connection may be closed
    connections,  \* subscriptions that are open at the relay
    start,        \* subscriptionStarts: reading the key, then connecting
    known,        \* makerSubscriptionKeys
    call,         \* the running call of enableMaker of each caller
    reconnect,    \* subscriptionReconnects: in its call, or waiting after one
    page,         \* the page's pending sync, queued sync and retry timer
    faults

vars == <<order, key, listener, connections, start, known, call, reconnect, page, faults>>

TypeOK ==
    /\ order \in [Orders -> {"new", "staged", "open", "ended", "cleared"}]
    /\ key \in [Orders -> {"none", "own", "another"}]
    /\ listener \in [Orders -> {"none", "live", "closed"}]
    /\ connections \in [Orders -> Nat]
    /\ start \in [Orders -> {"none", "key", "connecting"}]
    /\ known \subseteq Orders
    /\ call \in [Caller -> [stage : {"idle", "listing", "asking", "waiting"}, orders : SUBSET Orders]]
    /\ reconnect \in [Orders -> {"none", "calling", "waiting"}]
    /\ page \in [due : BOOLEAN, queued : BOOLEAN, retry : BOOLEAN]
    /\ faults \in 0..MaxFaults

None == [o \in Orders |-> "none"]
Opening == [due |-> TRUE, queued |-> FALSE, retry |-> FALSE]
Idle == [stage |-> "idle", orders |-> {}]
Listing == [stage |-> "listing", orders |-> {}]
Fault == faults < MaxFaults /\ faults' = faults + 1

-----------------------------------------------------------------------------
(* Orders and their keys *)

\* publishOrder creates the order's key before it stages the order.
Create(o) ==
    /\ order[o] = "new"
    /\ order' = [order EXCEPT ![o] = "staged"]
    /\ key' = [key EXCEPT ![o] = "own"]
    /\ UNCHANGED <<listener, connections, start, known, call, reconnect, page, faults>>

\* A projection of the order is sent: the first one, also by the user's retry, or a
\* cancellation that is not acknowledged.  A relay that takes the first opens the
\* order, also when its answer, or the record of it, is lost.  The page syncs after
\* a call of its forms and lists that returned, not after one that threw or that
\* came through the page's programming interface.
Publish(o) ==
    /\ order[o] \in {"staged", "open"}
    /\ \E sent \in {order[o], "open"} : order' = [order EXCEPT ![o] = sent]
    /\ \E synced \in BOOLEAN : page' = [page EXCEPT !.due = @ \/ synced]
    /\ UNCHANGED <<key, listener, connections, start, known, call, reconnect, faults>>

\* A terminal projection is acknowledged and the key destroyed.  The page syncs
\* after the user's cancel, not after a fill or an expiry.
End(o) ==
    /\ order[o] = "open"
    /\ order' = [order EXCEPT ![o] = "ended"]
    /\ key' = [key EXCEPT ![o] = "none"]
    /\ \E cancel \in BOOLEAN : page' = [page EXCEPT !.due = @ \/ cancel]
    /\ UNCHANGED <<listener, connections, start, known, call, reconnect, faults>>

\* The acknowledged terminal projection is cleared, which destroys once more; it
\* says nothing of a key that is not there.
Clear(o) ==
    /\ order[o] = "ended" /\ key[o] # "none"
    /\ order' = [order EXCEPT ![o] = "cleared"]
    /\ key' = [key EXCEPT ![o] = "none"]
    /\ UNCHANGED <<listener, connections, start, known, call, reconnect, page, faults>>

-----------------------------------------------------------------------------
(* Callers of enableMaker *)


\* Calls return or throw: a reconnection is over or waits for its next attempt,
\* and the page clears or sets its retry timer and runs a queued sync.
Ends(done, failed, calls) ==
    LET ended == done \cup failed
        again == Page \in ended /\ page.queued
    IN  /\ call' = [c \in Caller |-> IF c \notin ended THEN calls[c]
                                     ELSE IF c = Page /\ again THEN Listing ELSE Idle]
        /\ reconnect' = [o \in Orders |-> IF o \in done THEN "none"
                                          ELSE IF o \in failed THEN "waiting" ELSE reconnect[o]]
        /\ page' = [page EXCEPT !.queued = @ /\ ~again,
                                !.retry = Page \in failed \/ (@ /\ Page \notin done)]

\* syncMakerInboxes: nothing without keys; while a sync runs, another is queued.
Sync ==
    /\ page.due
    /\ LET wanted == \E o \in Orders : key[o] # "none"
           running == call[Page].stage # "idle"
       IN  /\ page' = [page EXCEPT !.due = FALSE, !.queued = @ \/ (wanted /\ running)]
           /\ call' = [call EXCEPT ![Page] = IF wanted /\ ~running THEN Listing ELSE @]
    /\ UNCHANGED <<order, key, listener, connections, start, known, reconnect, faults>>

\* The retry timer syncs.
Retry ==
    /\ page.retry
    /\ page' = [page EXCEPT !.retry = FALSE, !.due = TRUE]
    /\ UNCHANGED <<order, key, listener, connections, start, known, call, reconnect, faults>>

\* A reconnection's next attempt, after its delay.
Reattempt(o) ==
    /\ reconnect[o] = "waiting"
    /\ reconnect' = [reconnect EXCEPT ![o] = "calling"]
    /\ call' = [call EXCEPT ![o] = Listing]
    /\ UNCHANGED <<order, key, listener, connections, start, known, page, faults>>

-----------------------------------------------------------------------------
(* enableMaker *)

Open(o) == IF listener[o] = "live" THEN 1 ELSE 0

\* Mutant: the entries are deleted and their connections left open.
DropOnly(dropped) ==
    /\ listener' = [o \in Orders |-> IF o \in dropped THEN "none" ELSE listener[o]]
    /\ UNCHANGED connections

\* stop and delete of the map entries of some orders
Drop(dropped) ==
    /\ listener' = [o \in Orders |-> IF o \in dropped THEN "none" ELSE listener[o]]
    /\ connections' = [o \in Orders |-> IF o \in dropped THEN connections[o] - Open(o) ELSE connections[o]]

\* The keys are listed, and the listeners of orders without one are dropped.
List(c) ==
    /\ call[c].stage = "listing"
    /\ LET ids == {o \in Orders : key[o] # "none"}
       IN  /\ Drop(known \ ids)
           /\ known' = ids
           /\ call' = [call EXCEPT ![c] = [stage |-> "asking", orders |-> ids]]
    /\ UNCHANGED <<order, key, start, reconnect, page, faults>>

\* publicKey creates the key of an order that has none.
WithKeys(orders) == [o \in Orders |-> IF o \in orders /\ key[o] = "none" THEN "another" ELSE key[o]]

\* The public keys are read, and a start begins for each order that has neither
\* a listener nor a start.
Ask(c) ==
    /\ call[c].stage = "asking"
    /\ LET orders == call[c].orders
           missing == {o \in orders : listener[o] = "none"}
           calls == [call EXCEPT ![c] = [stage |-> "waiting", orders |-> missing]]
       IN  /\ key' = WithKeys(orders)
           /\ start' = [o \in Orders |-> IF o \in missing /\ start[o] = "none" THEN "key" ELSE start[o]]
           /\ Ends(IF missing = {} THEN {c} ELSE {}, {}, calls)
    /\ UNCHANGED <<order, listener, connections, known, faults>>

\* Those who wait for the start of o
WaitingFor(o) == {c \in Caller : call[c].stage = "waiting" /\ o \in call[c].orders}

\* Mutant: a start that throws is forgotten, and nobody is told.
FailsUnheard(o) ==
    /\ start' = [start EXCEPT ![o] = "none"]
    /\ Ends({}, {}, call)
    /\ UNCHANGED <<order, key, listener, connections, known>>

\* A start that throws makes every call that waits for it throw.
StartFails(o) ==
    /\ start' = [start EXCEPT ![o] = "none"]
    /\ Ends({}, WaitingFor(o), call)
    /\ UNCHANGED <<order, key, listener, connections, known>>

\* useOrderSecretKey reads the key again, and throws when it is gone.
ReadKey(o) ==
    /\ start[o] = "key"
    /\ \/ /\ key[o] # "none"
          /\ start' = [start EXCEPT ![o] = "connecting"]
          /\ UNCHANGED <<order, key, listener, connections, known, call, reconnect, page>>
       \/ key[o] = "none" /\ StartFails(o)
    /\ UNCHANGED faults

\* The relay refuses or cannot be reached.
Refused(o) == start[o] = "connecting" /\ StartFails(o) /\ UNCHANGED faults

\* The relay accepts: the subscription is kept, or stopped if there is another.
Accepted(o) ==
    /\ start[o] = "connecting"
    /\ start' = [start EXCEPT ![o] = "none"]
    /\ listener' = [listener EXCEPT ![o] = IF @ = "none" THEN "live" ELSE @]
    /\ connections' = [connections EXCEPT ![o] = IF listener[o] = "none" THEN @ + 1 ELSE @]
    /\ LET waiting == WaitingFor(o)
           done == {c \in waiting : call[c].orders = {o}}
       IN  Ends(done, {}, [c \in Caller |-> IF c \in waiting THEN [call[c] EXCEPT !.orders = @ \ {o}] ELSE call[c]])
    /\ UNCHANGED <<order, key, known, faults>>

-----------------------------------------------------------------------------
(* Failures *)

\* The relay closes a connection.  Its listener is dropped and enableMaker called
\* again, except when a reconnection of the order is not over: then the closed
\* listener stays in the map.
Close(o) ==
    /\ listener[o] = "live" /\ o \in Closing /\ Fault
    /\ LET first == reconnect[o] = "none"
       IN  /\ listener' = [listener EXCEPT ![o] = IF first THEN "none" ELSE "closed"]
           /\ reconnect' = [reconnect EXCEPT ![o] = IF first THEN "calling" ELSE @]
           /\ call' = [call EXCEPT ![o] = IF first THEN Listing ELSE @]
    /\ connections' = [connections EXCEPT ![o] = @ - 1]
    /\ UNCHANGED <<order, key, start, known, page>>

\* The page is reloaded: all but orders and keys is lost, and it syncs anew.
Reload ==
    /\ Fault
    /\ listener' = None /\ connections' = [o \in Orders |-> 0]
    /\ start' = None /\ reconnect' = None
    /\ known' = {}
    /\ call' = [c \in Caller |-> Idle]
    /\ page' = Opening
    /\ UNCHANGED <<order, key>>

-----------------------------------------------------------------------------

Init ==
    /\ order = [o \in Orders |-> "new"]
    /\ key = None
    /\ listener = None /\ connections = [o \in Orders |-> 0]
    /\ start = None /\ reconnect = None
    /\ known = {}
    /\ call = [c \in Caller |-> Idle]
    /\ page = Opening
    /\ faults = 0

Next ==
    \/ \E o \in Orders : Create(o) \/ Publish(o) \/ End(o) \/ Clear(o)
    \/ \E o \in Orders : Reattempt(o) \/ ReadKey(o) \/ Refused(o) \/ Accepted(o) \/ Close(o)
    \/ \E c \in Caller : List(c) \/ Ask(c)
    \/ Sync \/ Retry \/ Reload

\* The steps the page takes on its own: timers fire, storage answers, and a relay
\* that is asked again and again accepts in the end.
Fairness ==
    /\ WF_vars(Sync) /\ WF_vars(Retry)
    /\ \A c \in Caller : WF_vars(List(c) \/ Ask(c))
    /\ \A o \in Orders : WF_vars(Reattempt(o)) /\ WF_vars(ReadKey(o)) /\ SF_vars(Accepted(o))

Spec == Init /\ [][Next]_vars
FairSpec == Spec /\ Fairness

-----------------------------------------------------------------------------
(* Properties *)

\* No subscription stays open at the relay without an entry of the map, which is
\* the only place it can be stopped from, and no order has two.
ListenersAreOwned == \A o \in Orders : connections[o] = Open(o)

\* Who waits for starts waits for starts in flight: no result of a start is lost
\* between the calls that share it, so every call returns or throws, and only then
\* are a listener's next failure and the page's next sync acted upon.
NobodyWaitsInVain ==
    \A c \in Caller : call[c].stage = "waiting" =>
        call[c].orders # {} /\ \A o \in call[c].orders : start[o] # "none"


=============================================================================
