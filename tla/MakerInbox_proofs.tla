-------------------------- MODULE MakerInbox_proofs --------------------------
(***************************************************************************)
(* The listeners of MakerInbox for any number of orders and failures: the  *)
(* type invariant, that every open subscription is owned by the entry it   *)
(* can be stopped from, and that nobody waits for a start that is over.    *)
(***************************************************************************)
EXTENDS MakerInbox, TLAPS

USE InboxAssumption DEF Caller

CallType == [stage : {"idle", "listing", "asking", "waiting"}, orders : SUBSET Orders]

\* What Ends leaves of the calls, the reconnections and the page is well-typed.
LEMMA EndsType ==
    ASSUME TypeOK,
           NEW done \in SUBSET Caller, NEW failed \in SUBSET Caller,
           NEW calls \in [Caller -> CallType],
           Ends(done, failed, calls)
    PROVE  /\ call' \in [Caller -> CallType]
           /\ reconnect' \in [Orders -> {"none", "calling", "waiting"}]
           /\ page' \in [due : BOOLEAN, queued : BOOLEAN, retry : BOOLEAN]
PROOF
<1>1. Idle \in CallType /\ Listing \in CallType
  BY DEF Idle, Listing, CallType
<1>2. call' \in [Caller -> CallType]
  BY <1>1 DEF Ends
<1>3. reconnect' \in [Orders -> {"none", "calling", "waiting"}]
  BY DEF Ends, TypeOK
<1>4. page' \in [due : BOOLEAN, queued : BOOLEAN, retry : BOOLEAN]
  BY DEF Ends, TypeOK
<1> QED BY <1>2, <1>3, <1>4

\* A call that waits after Ends is one that did not end.
LEMMA EndsWaiting ==
    ASSUME NEW done, NEW failed, NEW calls,
           Ends(done, failed, calls),
           NEW c \in Caller, call'[c].stage = "waiting"
    PROVE  c \notin done \cup failed /\ call'[c] = calls[c]
PROOF BY DEF Ends, Idle, Listing

-----------------------------------------------------------------------------

\* A start that fails ends the calls that wait for it and is over.
LEMMA StartFailsType ==
    ASSUME TypeOK, NEW o \in Orders, StartFails(o), faults' \in 0..MaxFaults
    PROVE  TypeOK'
PROOF
<1>1. WaitingFor(o) \in SUBSET Caller
  BY DEF WaitingFor
<1>2. call \in [Caller -> CallType]
  BY DEF TypeOK, CallType
<1>3. Ends({}, WaitingFor(o), call)
  BY DEF StartFails
<1>4. /\ call' \in [Caller -> CallType]
      /\ reconnect' \in [Orders -> {"none", "calling", "waiting"}]
      /\ page' \in [due : BOOLEAN, queued : BOOLEAN, retry : BOOLEAN]
  BY <1>1, <1>2, <1>3, EndsType
<1> QED BY <1>4 DEF StartFails, TypeOK, CallType

\* Dropping entries closes the connections they have and no other.
LEMMA DropOwned ==
    ASSUME TypeOK, ListenersAreOwned, NEW dropped \in SUBSET Orders, Drop(dropped)
    PROVE  /\ listener' \in [Orders -> {"none", "live", "closed"}]
           /\ connections' \in [Orders -> Nat]
           /\ ListenersAreOwned'
PROOF BY DEF Drop, Open, ListenersAreOwned, TypeOK

-----------------------------------------------------------------------------

TypeAndOwned == TypeOK /\ ListenersAreOwned

\* Initially there are no listeners and no connections.
LEMMA InitTypeAndOwned == Init => TypeAndOwned
PROOF BY DEF Init, TypeAndOwned, TypeOK, ListenersAreOwned, None, Opening, Idle, Open

\* Every step keeps the types, and a connection with the entry that owns it.
LEMMA NextTypeAndOwned == TypeAndOwned /\ [Next]_vars => TypeAndOwned'
PROOF
<1> SUFFICES ASSUME TypeOK, ListenersAreOwned, [Next]_vars
             PROVE  TypeOK' /\ ListenersAreOwned'
  BY DEF TypeAndOwned
<1>1. ASSUME NEW o \in Orders, Create(o) \/ Publish(o) \/ End(o) \/ Clear(o)
      PROVE  TypeOK' /\ ListenersAreOwned'
  <2>1. UNCHANGED <<listener, connections, start, known, call, reconnect, faults>>
    BY <1>1 DEF Create, Publish, End, Clear
  <2>2. /\ order' \in [Orders -> {"new", "staged", "open", "ended", "cleared"}]
        /\ key' \in [Orders -> {"none", "own", "another"}]
    <3>1. \E n \in {"staged", "open", "ended", "cleared"} : order' = [order EXCEPT ![o] = n]
      BY <1>1 DEF Create, Publish, End, Clear
    <3>2. key' = key \/ \E k \in {"own", "none"} : key' = [key EXCEPT ![o] = k]
      BY <1>1 DEF Create, Publish, End, Clear
    <3>3. order' \in [Orders -> {"new", "staged", "open", "ended", "cleared"}]
      BY <3>1 DEF TypeOK
    <3>4. key' \in [Orders -> {"none", "own", "another"}]
      BY <3>2 DEF TypeOK
    <3> QED BY <3>3, <3>4
  <2>3. page' \in [due : BOOLEAN, queued : BOOLEAN, retry : BOOLEAN]
    <3>1. PICK due \in BOOLEAN : page' = [page EXCEPT !.due = due] \/ page' = page
      <4>1. page.due \in BOOLEAN BY DEF TypeOK
      <4>2. CASE Publish(o) \/ End(o)
        <5>1. PICK synced \in BOOLEAN : page' = [page EXCEPT !.due = @ \/ synced]
          BY <4>2 DEF Publish, End
        <5>2. (page.due \/ synced) \in BOOLEAN BY <4>1
        <5> QED BY <5>1, <5>2
      <4>3. CASE Create(o) \/ Clear(o)
        BY <4>3 DEF Create, Clear
      <4> QED BY <1>1, <4>2, <4>3
    <3> QED BY <3>1 DEF TypeOK
  <2> QED BY <2>1, <2>2, <2>3 DEF TypeOK, ListenersAreOwned, Open
<1>2. ASSUME NEW o \in Orders, Reattempt(o)
      PROVE  TypeOK' /\ ListenersAreOwned'
  BY <1>2 DEF Reattempt, Listing, TypeOK, ListenersAreOwned, Open
<1>3. ASSUME NEW o \in Orders, ReadKey(o)
      PROVE  TypeOK' /\ ListenersAreOwned'
  <2>1. CASE StartFails(o)
    <3>1. TypeOK' BY <1>3, <2>1, StartFailsType DEF ReadKey, TypeOK
    <3> QED BY <3>1, <2>1 DEF StartFails, ListenersAreOwned, Open
  <2>2. CASE ~StartFails(o)
    <3>1. /\ start' = [start EXCEPT ![o] = "connecting"]
          /\ UNCHANGED <<order, key, listener, connections, known, call, reconnect, page, faults>>
      BY <1>3, <2>2 DEF ReadKey
    <3> QED BY <3>1 DEF TypeOK, ListenersAreOwned, Open
  <2> QED BY <2>1, <2>2
<1>4. ASSUME NEW o \in Orders, Refused(o)
      PROVE  TypeOK' /\ ListenersAreOwned'
  <2>1. TypeOK' BY <1>4, StartFailsType DEF Refused, TypeOK
  <2> QED BY <2>1, <1>4 DEF Refused, StartFails, ListenersAreOwned, Open
<1>5. ASSUME NEW o \in Orders, Accepted(o)
      PROVE  TypeOK' /\ ListenersAreOwned'
  <2> DEFINE waiting == WaitingFor(o)
             done == {c \in waiting : call[c].orders = {o}}
             calls == [c \in Caller |-> IF c \in waiting THEN [call[c] EXCEPT !.orders = @ \ {o}] ELSE call[c]]
  <2>1. done \in SUBSET Caller /\ {} \in SUBSET Caller
    BY DEF WaitingFor
  <2>2. calls \in [Caller -> CallType]
    BY DEF TypeOK, CallType
  <2>3. Ends(done, {}, calls)
    BY <1>5 DEF Accepted
  <2>4. /\ call' \in [Caller -> CallType]
        /\ reconnect' \in [Orders -> {"none", "calling", "waiting"}]
        /\ page' \in [due : BOOLEAN, queued : BOOLEAN, retry : BOOLEAN]
    <3> HIDE DEF done, calls
    <3> QED BY <2>1, <2>2, <2>3, EndsType
  <2>5. /\ listener' \in [Orders -> {"none", "live", "closed"}]
        /\ connections' \in [Orders -> Nat]
        /\ ListenersAreOwned'
    BY <1>5 DEF Accepted, TypeOK, ListenersAreOwned, Open
  <2> QED BY <1>5, <2>4, <2>5 DEF Accepted, TypeOK, CallType
<1>6. ASSUME NEW o \in Orders, Close(o)
      PROVE  TypeOK' /\ ListenersAreOwned'
  <2>1. connections[o] = 1
    BY <1>6 DEF Close, ListenersAreOwned, Open
  <2>2. connections' \in [Orders -> Nat] /\ ListenersAreOwned'
    BY <1>6, <2>1 DEF Close, TypeOK, ListenersAreOwned, Open
  <2> QED BY <1>6, <2>2 DEF Close, Fault, Listing, TypeOK
<1>7. ASSUME NEW c \in Caller, List(c)
      PROVE  TypeOK' /\ ListenersAreOwned'
  <2> DEFINE ids == {o \in Orders : key[o] # "none"}
  <2>1. Drop(known \ ids) /\ known \ ids \in SUBSET Orders
    BY <1>7 DEF List, TypeOK
  <2>2. /\ listener' \in [Orders -> {"none", "live", "closed"}]
        /\ connections' \in [Orders -> Nat]
        /\ ListenersAreOwned'
    <3> HIDE DEF ids
    <3> QED BY <2>1, DropOwned
  <2> QED BY <1>7, <2>2 DEF List, TypeOK
<1>8. ASSUME NEW c \in Caller, Ask(c)
      PROVE  TypeOK' /\ ListenersAreOwned'
  <2> DEFINE missing == {o \in call[c].orders : listener[o] = "none"}
             calls == [call EXCEPT ![c] = [stage |-> "waiting", orders |-> missing]]
             done == IF missing = {} THEN {c} ELSE {}
  <2>1. done \in SUBSET Caller /\ {} \in SUBSET Caller
    OBVIOUS
  <2>2. calls \in [Caller -> CallType]
    BY DEF TypeOK, CallType
  <2>3. Ends(done, {}, calls)
    BY <1>8 DEF Ask
  <2>4. /\ call' \in [Caller -> CallType]
        /\ reconnect' \in [Orders -> {"none", "calling", "waiting"}]
        /\ page' \in [due : BOOLEAN, queued : BOOLEAN, retry : BOOLEAN]
    <3> HIDE DEF done, calls
    <3> QED BY <2>1, <2>2, <2>3, EndsType
  <2>5. key' \in [Orders -> {"none", "own", "another"}] /\ start' \in [Orders -> {"none", "key", "connecting"}]
    BY <1>8 DEF Ask, WithKeys, TypeOK
  <2>6. TypeOK'
    BY <1>8, <2>4, <2>5 DEF Ask, TypeOK, CallType
  <2> QED BY <1>8, <2>6 DEF Ask, ListenersAreOwned, Open
<1>9. ASSUME Sync \/ Retry
      PROVE  TypeOK' /\ ListenersAreOwned'
  <2>1. UNCHANGED <<order, key, listener, connections, start, known, reconnect, faults>>
    BY <1>9 DEF Sync, Retry
  <2>2. page' \in [due : BOOLEAN, queued : BOOLEAN, retry : BOOLEAN]
    <3>1. page.queued \in BOOLEAN
      BY DEF TypeOK
    <3>2. CASE Retry
      BY <3>2 DEF Retry, TypeOK
    <3>3. CASE Sync
      <4>1. PICK queued \in BOOLEAN : page' = [page EXCEPT !.due = FALSE, !.queued = queued]
        <5> DEFINE queued == page.queued \/ ((\E o \in Orders : key[o] # "none") /\ call[Page].stage # "idle")
        <5>1. page' = [page EXCEPT !.due = FALSE, !.queued = queued]
          BY <3>3 DEF Sync
        <5>2. queued \in BOOLEAN
          BY <3>1
        <5> HIDE DEF queued
        <5> QED BY <5>1, <5>2
      <4> QED BY <4>1 DEF TypeOK
    <3> QED BY <1>9, <3>2, <3>3
  <2>3. call' \in [Caller -> CallType]
    <3>1. Listing \in CallType /\ call \in [Caller -> CallType]
      BY DEF Listing, CallType, TypeOK
    <3>2. CASE Retry
      <4>1. call' = call BY <3>2 DEF Retry
      <4> QED BY <3>1, <4>1
    <3>3. CASE Sync
      <4>1. \E called \in CallType : call' = [call EXCEPT ![Page] = called]
        <5> DEFINE called == IF (\E o \in Orders : key[o] # "none") /\ ~(call[Page].stage # "idle")
                             THEN Listing ELSE call[Page]
        <5>1. call' = [call EXCEPT ![Page] = called]
          BY <3>3 DEF Sync
        <5>2. call[Page] \in CallType
          BY <3>1
        <5>3. called \in CallType
          BY <3>1, <5>2
        <5> HIDE DEF called
        <5> QED BY <5>1, <5>3
      <4> QED BY <3>1, <4>1
    <3> QED BY <1>9, <3>2, <3>3
  <2> QED BY <2>1, <2>2, <2>3 DEF TypeOK, CallType, ListenersAreOwned, Open
<1>10. ASSUME Reload
       PROVE  TypeOK' /\ ListenersAreOwned'
  BY <1>10 DEF Reload, Fault, None, Opening, Idle, TypeOK, ListenersAreOwned, Open
<1>11. CASE UNCHANGED vars
  BY <1>11 DEF vars, TypeOK, ListenersAreOwned, Open
<1> QED BY <1>1, <1>2, <1>3, <1>4, <1>5, <1>6, <1>7, <1>8, <1>9, <1>10, <1>11 DEF Next

\* The variables keep their types for any number of orders, closed connections
\* and reloads.
THEOREM TypeCorrect == Spec => []TypeOK
PROOF
<1>1. TypeAndOwned => TypeOK BY DEF TypeAndOwned
<1> QED BY <1>1, InitTypeAndOwned, NextTypeAndOwned, PTL DEF Spec

\* No subscription outlives its entry of the map, and no order has two: a start
\* that finds an entry is stopped, and an entry is stopped when it is deleted.
THEOREM ListenersOwned == Spec => []ListenersAreOwned
PROOF
<1>1. TypeAndOwned => ListenersAreOwned BY DEF TypeAndOwned
<1> QED BY <1>1, InitTypeAndOwned, NextTypeAndOwned, PTL DEF Spec

-----------------------------------------------------------------------------

\* Nobody waits in a page that opens.
LEMMA InitNobodyWaits == Init => NobodyWaitsInVain
PROOF BY DEF Init, NobodyWaitsInVain, Idle

\* A start is over in the step that ends, or shortens, the waits for it.
LEMMA NextNobodyWaits == TypeOK /\ NobodyWaitsInVain /\ [Next]_vars => NobodyWaitsInVain'
PROOF
<1> SUFFICES ASSUME TypeOK, NobodyWaitsInVain, [Next]_vars,
                    NEW c \in Caller, call'[c].stage = "waiting"
             PROVE  call'[c].orders # {} /\ \A o \in call'[c].orders : start'[o] # "none"
  BY DEF NobodyWaitsInVain
<1> DEFINE Waits == call'[c].orders # {} /\ \A o \in call'[c].orders : start'[o] # "none"
<1>0. /\ call[c].stage = "waiting" => call[c].orders # {} /\ \A o \in call[c].orders : start[o] # "none"
      /\ call[c].orders \subseteq Orders
  BY DEF NobodyWaitsInVain, TypeOK
<1>1. ASSUME NEW o \in Orders, StartFails(o)
      PROVE  Waits
  <2>1. c \notin WaitingFor(o) /\ call'[c] = call[c]
    BY <1>1, EndsWaiting DEF StartFails
  <2>2. o \notin call[c].orders
    BY <2>1 DEF WaitingFor
  <2> QED BY <1>0, <1>1, <2>1, <2>2 DEF StartFails, TypeOK
<1>2. ASSUME NEW o \in Orders, ReadKey(o), ~StartFails(o)
      PROVE  Waits
  BY <1>0, <1>2 DEF ReadKey, TypeOK
<1>3. ASSUME NEW o \in Orders, Accepted(o)
      PROVE  Waits
  <2> DEFINE waiting == WaitingFor(o)
             done == {b \in waiting : call[b].orders = {o}}
             calls == [b \in Caller |-> IF b \in waiting THEN [call[b] EXCEPT !.orders = @ \ {o}] ELSE call[b]]
  <2>1. Ends(done, {}, calls)
    BY <1>3 DEF Accepted
  <2>2. c \notin done /\ call'[c] = calls[c]
    <3> HIDE DEF done, calls
    <3> QED BY <2>1, EndsWaiting
  <2>3. start' = [start EXCEPT ![o] = "none"]
    BY <1>3 DEF Accepted
  <2>4. CASE c \in waiting
    <3>1. call[c].stage = "waiting" /\ o \in call[c].orders /\ call[c].orders # {o}
      BY <2>2, <2>4 DEF WaitingFor
    <3>2. call'[c].orders = call[c].orders \ {o}
      BY <2>2, <2>4 DEF TypeOK
    <3> QED BY <1>0, <2>3, <3>1, <3>2 DEF TypeOK
  <2>5. CASE c \notin waiting
    <3>1. call'[c] = call[c]
      BY <2>2, <2>5
    <3>2. o \notin call[c].orders
      BY <2>5, <3>1 DEF WaitingFor
    <3> QED BY <1>0, <2>3, <3>1, <3>2 DEF TypeOK
  <2> QED BY <2>4, <2>5
<1>4. ASSUME NEW b \in Caller, Ask(b)
      PROVE  Waits
  <2> DEFINE missing == {o \in call[b].orders : listener[o] = "none"}
             calls == [call EXCEPT ![b] = [stage |-> "waiting", orders |-> missing]]
             done == IF missing = {} THEN {b} ELSE {}
  <2>1. Ends(done, {}, calls)
    BY <1>4 DEF Ask
  <2>2. c \notin done /\ call'[c] = calls[c]
    <3> HIDE DEF done, calls
    <3> QED BY <2>1, EndsWaiting
  <2>3. start' = [o \in Orders |-> IF o \in missing /\ start[o] = "none" THEN "key" ELSE start[o]]
    BY <1>4 DEF Ask
  <2>4. missing \subseteq Orders
    BY DEF TypeOK
  <2>5. CASE c = b
    <3>1. call'[c].orders = missing /\ missing # {}
      BY <2>2, <2>5 DEF TypeOK
    <3> QED BY <2>3, <2>4, <3>1
  <2>6. CASE c # b
    <3>1. call'[c] = call[c]
      BY <2>2, <2>6
    <3> QED BY <1>0, <2>3, <3>1
  <2> QED BY <2>5, <2>6
<1>5. ASSUME NEW b \in Caller, List(b)
      PROVE  Waits
  BY <1>0, <1>5 DEF List, TypeOK
<1>6. ASSUME NEW o \in Orders, Reattempt(o) \/ Close(o)
      PROVE  Waits
  <2>1. Listing.stage # "waiting" BY DEF Listing
  <2>2. start' = start BY <1>6 DEF Reattempt, Close
  <2>3. call' = call \/ call' = [call EXCEPT ![o] = Listing]
    <3>1. CASE Reattempt(o) BY <3>1 DEF Reattempt
    <3>2. CASE Close(o)
      <4>1. CASE reconnect[o] = "none" BY <3>2, <4>1 DEF Close
      <4>2. CASE reconnect[o] # "none"
        <5>1. call' = [call EXCEPT ![o] = call[o]] BY <3>2, <4>2 DEF Close
        <5> QED BY <5>1 DEF TypeOK
      <4> QED BY <4>1, <4>2
    <3> QED BY <1>6, <3>1, <3>2
  <2>4. call'[c] = call[c] BY <2>1, <2>3 DEF TypeOK
  <2> QED BY <1>0, <2>2, <2>4
<1>7. ASSUME Sync
      PROVE  Waits
  BY <1>0, <1>7 DEF Sync, Listing, TypeOK
<1>8. ASSUME Reload
      PROVE  Waits
  BY <1>8 DEF Reload, Idle
<1>9. ASSUME UNCHANGED <<call, start>>
      PROVE  Waits
  BY <1>0, <1>9
<1>10. ASSUME NEW o \in Orders, Create(o) \/ Publish(o) \/ End(o) \/ Clear(o)
       PROVE  UNCHANGED <<call, start>>
  BY <1>10 DEF Create, Publish, End, Clear
<1>11. Retry => UNCHANGED <<call, start>>
  BY DEF Retry
<1>12. UNCHANGED vars => UNCHANGED <<call, start>>
  BY DEF vars
<1>13. Waits
  <2> HIDE DEF Waits
  <2> QED BY <1>1, <1>2, <1>3, <1>4, <1>5, <1>6, <1>7, <1>8, <1>9, <1>10, <1>11, <1>12 DEF Next, Refused
<1> QED BY <1>13

\* For any number of orders, callers, failures and reloads: no call waits for a
\* start that is over, although calls share starts and throw at different times.
THEOREM NobodyWaits == Spec => []NobodyWaitsInVain
PROOF
<1>1. Spec => []TypeOK BY TypeCorrect
<1> QED BY <1>1, InitNobodyWaits, NextNobodyWaits, PTL DEF Spec

=============================================================================
