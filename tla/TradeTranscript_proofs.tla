------------------------ MODULE TradeTranscript_proofs -------------------------
(***************************************************************************)
(* Proofs about the messages of a trade: the types of the variables, that  *)
(* the two transcripts agree, that what was polled can be validated, and   *)
(* that the sides never both wait for the other, for every deadline,       *)
(* message life and choice of resumed phases.                              *)
(***************************************************************************)
EXTENDS TradeTranscript, SequenceTheorems, TLAPS

\* The messages of the choreography: what a relay stores, refusals aside, and what is staged.
Says(r) == IF session[r].outbox = None THEN {} ELSE {session[r].outbox.message}
Proper == {m \in sent : m.type # "error"} \cup Says("maker") \cup Says("taker")

Accepted(r) == session[r].accepted
Path(m) == Append(m.past, m.id)
Begins(s, t) == Len(s) <= Len(t) /\ \A i \in 1..Len(s) : s[i] = t[i]
Active(r) == session[r].phase \in DOMAIN Expected

(***************************************************************************)
(* The inductive invariant.                                                *)
(***************************************************************************)

\* IDs are drawn in sequence.
Drawn(s) == \A i \in 1..Len(s) : s[i] <= issued
Fresh ==
    /\ \A r \in Role : Drawn(Accepted(r))
    /\ \A m \in sent \cup Says("maker") \cup Says("taker") : m.id <= issued /\ Drawn(m.past)

\* What is staged continues the transcript of its author.
StagedContinues ==
    \A r \in Role : \A m \in Says(r) :
        m.type # "error" /\ Writer(m.type) = r /\ m.past = Accepted(r)

\* What was polled was sent.
PolledWasSent == \A r \in Role : session[r].incoming # None => session[r].incoming \in sent

\* What was sent is still staged or part of its author's transcript.
SentIsSaid ==
    \A m \in sent : m.type # "error" =>
        m \in Says(Writer(m.type)) \/ Begins(Path(m), Accepted(Writer(m.type)))

\* The transcript decides the phase, and with it the next message.
OneSuccessor == \A m, k \in Proper : m.past = k.past => m = k
NextIsExpected ==
    \A r \in Role : \A m \in Proper :
        m.past = Accepted(r) /\ Active(r) => m.type = Expected[session[r].phase]
SamePlace ==
    \A r, p \in Role :
        Accepted(r) = Accepted(p) /\ Active(r) /\ Active(p) => session[r].phase = session[p].phase
AnswerIsExpected == \A m, k \in Proper : k.past = Path(m) => k.type = Expected[After[m.type]]
PhaseFollows ==
    \A r \in Role : \A m \in Proper :
        Accepted(r) = Path(m) /\ Active(r) => session[r].phase = After[m.type]

\* Only the proposal comes first.
StartsEmpty ==
    /\ \A r \in Role : session[r].phase = "awaiting_reserve_propose" => Accepted(r) = <<>>
    /\ \A m \in Proper : m.type = "reserve_propose" => m.past = <<>>

\* One transcript begins the other, and what is only in the longer one are messages
\* that were sent or staged there.
Chained(s, t) ==
    \A i \in 1..Len(s) : i > Len(t) =>
        \E k \in Proper : k.id = s[i] /\ Len(k.past) = i - 1 /\ \A j \in 1..(i - 1) : k.past[j] = s[j]
Chain ==
    ~Refused => \A r \in Role :
        /\ Begins(Accepted(r), Accepted(Other(r))) \/ Begins(Accepted(Other(r)), Accepted(r))
        /\ Chained(Accepted(r), Accepted(Other(r)))

Places == OneSuccessor /\ NextIsExpected /\ SamePlace /\ AnswerIsExpected /\ PhaseFollows /\ StartsEmpty
Story == Fresh /\ StagedContinues /\ PolledWasSent /\ SentIsSaid /\ Places /\ Chain

-----------------------------------------------------------------------------
(* Sequences *)

LEMMA Appended ==
    ASSUME NEW s \in Seq(Nat), NEW x \in Nat
    PROVE  /\ Append(s, x) \in Seq(Nat) /\ Len(Append(s, x)) = Len(s) + 1 /\ Len(s) \in Nat
           /\ Append(s, x)[Len(s) + 1] = x
           /\ \A i \in 1..Len(s) : Append(s, x)[i] = s[i] /\ s[i] \in Nat
BY AppendProperties, LenProperties, ElementOfSeq

LEMMA AppendIsInjective ==
    ASSUME NEW s \in Seq(Nat), NEW t \in Seq(Nat), NEW x \in Nat, NEW y \in Nat,
           Append(s, x) = Append(t, y)
    PROVE  s = t /\ x = y
<1>0. /\ Len(Append(s, x)) = Len(s) + 1 /\ Len(Append(t, y)) = Len(t) + 1
      /\ Len(s) \in Nat /\ Len(t) \in Nat
    BY Appended
<1>1. Len(s) = Len(t)
    BY <1>0
<1>2. Append(s, x)[Len(s) + 1] = x /\ \A i \in 1..Len(s) : Append(s, x)[i] = s[i]
    BY Appended
<1>3. Append(t, y)[Len(t) + 1] = y /\ \A i \in 1..Len(t) : Append(t, y)[i] = t[i]
    BY Appended
<1>4. x = y /\ \A i \in 1..Len(s) : s[i] = t[i]
    BY ONLY <1>1, <1>2, <1>3, Append(s, x) = Append(t, y)
<1> QED
    BY <1>1, <1>4, SeqEqual

LEMMA AppendIsLonger ==
    ASSUME NEW s \in Seq(Nat), NEW x \in Nat
    PROVE  Append(s, x) # s
BY Appended

LEMMA BeginsAppended ==
    ASSUME NEW s \in Seq(Nat), NEW t \in Seq(Nat), NEW x \in Nat
    PROVE  /\ Begins(s, t) => Begins(s, Append(t, x))
           /\ Begins(t, t)
<1>1. Begins(t, t)
    BY LenProperties DEF Begins
<1>2. ASSUME Begins(s, t) PROVE Begins(s, Append(t, x))
    <2>1. Len(s) \in Nat /\ Len(s) <= Len(t) /\ \A i \in 1..Len(s) : s[i] = t[i]
        BY <1>2, LenProperties DEF Begins
    <2> QED
        BY <2>1, Appended DEF Begins
<1> QED
    BY <1>1, <1>2

LEMMA BothBegin ==
    ASSUME NEW s \in Seq(Nat), NEW t \in Seq(Nat), Begins(s, t), Len(s) = Len(t)
    PROVE  s = t
BY SeqEqual DEF Begins

LEMMA ExtendAgrees ==
    ASSUME NEW s \in Seq(Nat), NEW t \in Seq(Nat), NEW x \in Nat,
           Begins(s, t) \/ Begins(t, s),
           Len(s) < Len(t) => t[Len(s) + 1] = x
    PROVE  Begins(Append(s, x), t) \/ Begins(t, Append(s, x))
<1>1. CASE Len(s) < Len(t)
    <2>1. Begins(s, t)
        BY <1>1, LenProperties DEF Begins
    <2> QED
        BY <2>1, <1>1, Appended, LenProperties DEF Begins
<1>2. CASE ~(Len(s) < Len(t))
    <2>1. Begins(t, s)
        BY <1>2, LenProperties DEF Begins
    <2> QED
        BY <2>1, BeginsAppended
<1> QED
    BY <1>1, <1>2

LEMMA BeginsIsPrefix ==
    ASSUME NEW s \in Seq(Nat), NEW t \in Seq(Nat), Begins(s, t)
    PROVE  IsPrefix(s, t)
<1>1. Len(s) \in Nat /\ Len(t) \in Nat /\ Len(s) <= Len(t)
    BY LenProperties DEF Begins
<1>2. \A i \in 1..Len(s) : s[i] \in Nat /\ t[i] \in Nat
    BY <1>1, ElementOfSeq
<1>3. /\ SubSeq(s, 1, Len(s)) \in Seq(Nat) /\ SubSeq(t, 1, Len(s)) \in Seq(Nat)
      /\ Len(SubSeq(s, 1, Len(s))) = Len(s) /\ Len(SubSeq(t, 1, Len(s))) = Len(s)
      /\ \A i \in 1..Len(s) : SubSeq(s, 1, Len(s))[i] = s[i] /\ SubSeq(t, 1, Len(s))[i] = t[i]
    BY <1>1, <1>2, SubSeqProperties
<1>4. SubSeq(s, 1, Len(s)) = SubSeq(t, 1, Len(s))
    BY <1>3, SeqEqual DEF Begins
<1> QED
    BY <1>1, <1>4 DEF IsPrefix

LEMMA Elements ==
    ASSUME NEW s \in Seq(Nat), NEW x \in Nat
    PROVE  /\ ToSet(s) \subseteq ToSet(Append(s, x)) /\ x \in ToSet(Append(s, x))
           /\ ToSet(s) = {s[i] : i \in 1..Len(s)}
<1>1. DOMAIN s = 1..Len(s) /\ DOMAIN Append(s, x) = 1..(Len(s) + 1)
    BY Appended, LenProperties
<1> QED
    BY <1>1, Appended DEF ToSet

-----------------------------------------------------------------------------
(* The choreography and the plan *)

LEMMA Roles ==
    /\ "maker" \in Role /\ "taker" \in Role /\ "maker" # "taker"
    /\ Other("maker") = "taker" /\ Other("taker") = "maker"
    /\ \A r \in Role : Other(r) \in Role /\ Other(r) # r /\ Other(Other(r)) = r
BY DEF Role, Other

LEMMA ExpectedTable ==
    /\ DOMAIN Expected = {"awaiting_reserve_propose", "awaiting_reserve_accept",
            "awaiting_session_ack", "awaiting_base_lock", "awaiting_base_lock_ack",
            "awaiting_quote_lock", "awaiting_quote_lock_ack", "awaiting_claim_notice",
            "awaiting_fill_request", "awaiting_settlement_ack"}
    /\ Expected["awaiting_reserve_propose"] = "reserve_propose"
    /\ Expected["awaiting_reserve_accept"] = "reserve_accept"
    /\ Expected["awaiting_session_ack"] = "session_ack"
    /\ Expected["awaiting_base_lock"] = "base_lock"
    /\ Expected["awaiting_base_lock_ack"] = "base_lock_ack"
    /\ Expected["awaiting_quote_lock"] = "quote_lock"
    /\ Expected["awaiting_quote_lock_ack"] = "quote_lock_ack"
    /\ Expected["awaiting_claim_notice"] = "claim_notice"
    /\ Expected["awaiting_fill_request"] = "fill_request"
    /\ Expected["awaiting_settlement_ack"] = "settlement_ack"
BY DEF Expected

LEMMA TypeTable ==
    Type = {"reserve_propose", "reserve_accept", "session_ack", "base_lock", "base_lock_ack",
            "quote_lock", "quote_lock_ack", "claim_notice", "fill_request", "error"}
BY DEF Type, After

LEMMA ExpectedFacts ==
    /\ \A p \in DOMAIN Expected :
          /\ Expected[p] # "error"
          /\ Expected[p] = "reserve_propose" => p = "awaiting_reserve_propose"
          /\ p # "awaiting_settlement_ack" => Expected[p] \in Type
    /\ \A p \in DOMAIN Expected : Expected[p] \in Type => p # "awaiting_settlement_ack"
    /\ "awaiting_reserve_propose" \in DOMAIN Expected
BY ExpectedTable, TypeTable

LEMMA AfterFacts ==
    /\ \A type \in Type : After[type] \in Phase /\ After[type] # "awaiting_reserve_propose"
    /\ After["error"] = "failed" /\ "failed" \notin DOMAIN Expected
<1>1. \A type \in Type : After[type] \in {"awaiting_reserve_accept", "awaiting_quote_lock",
        "awaiting_base_lock", "awaiting_base_lock_ack", "settling", "awaiting_claim_notice",
        "awaiting_fill_request", "awaiting_settlement_ack", "failed"}
    BY TypeTable DEF After
<1> QED
    BY <1>1, ExpectedTable DEF Phase, After

LEMMA Writers ==
    /\ \A type : Writer(type) \in Role
    /\ Writer("reserve_propose") = "taker" /\ Writer("error") = "maker"
    /\ Writer("settlement_ack") = "maker"
BY DEF Writer, Author, Role

LEMMA PlanDeliver ==
    ASSUME NEW r \in Role, TypeOK, Plan(r) = "deliver_outbox"
    PROVE  session[r].outbox # None
<1>1. session[r].phase \in Phase
    BY DEF TypeOK, Session
<1> QED
    BY <1>1 DEF Plan, PhasePlan, Phase

LEMMA PlanValidate ==
    ASSUME NEW r \in Role, TypeOK, Plan(r) = "validate_incoming"
    PROVE  session[r].outbox = None /\ session[r].incoming # None
<1>1. session[r].phase \in Phase
    BY DEF TypeOK, Session
<1> QED
    BY <1>1 DEF Plan, PhasePlan, Phase

LEMMA PlanStage ==
    ASSUME NEW r \in Role, TypeOK, Plan(r) = "stage_message"
    PROVE  /\ session[r].outbox = None /\ Active(r)
           /\ Expected[session[r].phase] \in Type /\ Expected[session[r].phase] # "error"
           /\ Writer(Expected[session[r].phase]) = r
<1>1. session[r].phase \in Phase
    BY DEF TypeOK, Session
<1>2. session[r].outbox = None /\ PhasePlan(r) = "stage_message"
    BY DEF Plan
<1>3. /\ session[r].phase \in DOMAIN Expected
      /\ ~(r = "maker" /\ session[r].phase = "awaiting_settlement_ack")
      /\ Writer(Expected[session[r].phase]) = r
    BY <1>1, <1>2 DEF PhasePlan, Phase
<1>4. session[r].phase # "awaiting_settlement_ack"
    BY <1>3, ExpectedTable, Writers
<1> QED
    BY <1>2, <1>3, <1>4, ExpectedFacts DEF Active

-----------------------------------------------------------------------------
(* What the types give *)

LEMMA Typed ==
    ASSUME TypeOK
    PROVE  /\ issued \in Nat
           /\ \A r \in Role : Accepted(r) \in Seq(Nat) /\ Says(r) \subseteq Message
           /\ Proper \subseteq Message /\ sent \subseteq Message
           /\ \A m \in Message : m.id \in Nat /\ m.past \in Seq(Nat) /\ m.type \in Type
                               /\ Path(m) \in Seq(Nat)
<1>1. \A r \in Role : session[r] \in Session
    BY DEF TypeOK
<1>2. \A r \in Role : Accepted(r) \in Seq(Nat)
    BY <1>1 DEF Session, Accepted
<1>3. ASSUME NEW r \in Role PROVE Says(r) \subseteq Message
    <2>1. session[r].outbox \in Outbox \cup {None}
        BY <1>1 DEF Session
    <2> QED
        BY <2>1 DEF Says, Outbox
<1>4. \A m \in Message : m.id \in Nat /\ m.past \in Seq(Nat) /\ m.type \in Type
    BY DEF Message
<1>5. \A m \in Message : Path(m) \in Seq(Nat)
    BY <1>4, Appended DEF Path
<1>6. Proper \subseteq Message /\ sent \subseteq Message
    BY <1>3, Roles DEF Proper, TypeOK
<1>7. issued \in Nat
    BY DEF TypeOK
<1> QED
    BY <1>2, <1>3, <1>4, <1>5, <1>6, <1>7

LEMMA ProperIsNoError ==
    ASSUME StagedContinues
    PROVE  \A m \in Proper : m.type # "error"
BY Roles DEF Proper, StagedContinues

LEMMA SaidIsProper ==
    ASSUME NEW r \in Role
    PROVE  Says(r) \subseteq Proper
BY DEF Role, Proper

\* A message whose author counts it as said does not continue the author's transcript.
LEMMA OwnSuccessorIsStaged ==
    ASSUME TypeOK, StagedContinues, SentIsSaid, NEW r \in Role, NEW m \in Proper,
           m.past = Accepted(r), Writer(m.type) = r
    PROVE  m \in Says(r)
<1>1. CASE m \in sent
    <2>1. m.type # "error"
        BY ProperIsNoError
    <2>2. m \in Says(r) \/ Begins(Path(m), Accepted(r))
        BY <1>1, <2>1 DEF SentIsSaid
    <2>3. ~Begins(Path(m), Accepted(r))
        <3>1. Accepted(r) \in Seq(Nat) /\ m.id \in Nat
            BY Typed
        <3>2. Len(Path(m)) = Len(Accepted(r)) + 1 /\ Len(Accepted(r)) \in Nat
            BY <3>1, Appended DEF Path
        <3> QED
            BY <3>2 DEF Begins
    <2> QED
        BY <2>2, <2>3
<1>2. CASE m \notin sent
    <2>1. PICK p \in Role : m \in Says(p)
        BY <1>2 DEF Proper, Role
    <2> QED
        BY <2>1 DEF StagedContinues
<1> QED
    BY <1>1, <1>2

-----------------------------------------------------------------------------
(* A side takes a message into its transcript *)

Takes(r, x) ==
    /\ session'[r].accepted = Path(x) /\ session'[r].phase = After[x.type]
    /\ session'[r].outbox = None /\ session'[r].incoming \in {None, session[r].incoming}
    /\ Says(r) \subseteq {x}
    /\ session'[Other(r)] = session[Other(r)]
    /\ sent' = sent \cup {x} /\ issued' = issued

LEMMA TakesFacts ==
    ASSUME TypeOK, Story, NEW r \in Role, NEW x \in Proper, x.past = Accepted(r), Takes(r, x)
    PROVE  /\ Proper' = Proper /\ x.type # "error" /\ x \in Message
           /\ Says(r)' = {} /\ Says(Other(r))' = Says(Other(r))
           /\ Accepted(r)' = Path(x) /\ Accepted(Other(r))' = Accepted(Other(r))
           /\ Active(Other(r))' <=> Active(Other(r))
           /\ session'[Other(r)].phase = session[Other(r)].phase
           /\ \A p \in Role : p = r \/ p = Other(r)
<1>1. x.type # "error"
    BY ProperIsNoError DEF Story
<1>2. Says(r)' = {} /\ Says(Other(r))' = Says(Other(r))
    BY DEF Takes, Says
<1>3. /\ Proper = {m \in sent : m.type # "error"} \cup Says(r) \cup Says(Other(r))
      /\ Proper' = {m \in sent' : m.type # "error"} \cup Says(r)' \cup Says(Other(r))'
    BY Roles DEF Proper, Role
<1>4. Proper' = Proper
    BY <1>1, <1>2, <1>3 DEF Takes
<1> QED
    BY <1>1, <1>2, <1>4, Typed DEF Takes, Accepted, Active, Role, Other

LEMMA TakesKeepsPlaces ==
    ASSUME TypeOK, Story, NEW r \in Role, NEW x \in Proper, x.past = Accepted(r), Takes(r, x)
    PROVE  Places'
<1> USE TakesFacts
<1>1. OneSuccessor'
    BY DEF Story, Places, OneSuccessor
<1>2. AnswerIsExpected'
    BY DEF Story, Places, AnswerIsExpected, Path
<1>3. session'[r].phase = After[x.type] /\ After[x.type] # "awaiting_reserve_propose"
    BY AfterFacts, Typed DEF Takes
<1>4. NextIsExpected'
    <2>1. \A m \in Proper : m.past = Path(x) => m.type = Expected[After[x.type]]
        BY DEF Story, Places, AnswerIsExpected
    <2> QED
        BY <1>3, <2>1 DEF Story, Places, NextIsExpected
<1>5. PhaseFollows'
    <2>1. \A m \in Proper : Path(m) = Path(x) => m = x
        <3> SUFFICES ASSUME NEW m \in Proper, Path(m) = Path(x) PROVE m = x
            OBVIOUS
        <3>1. m \in Message /\ x \in Message
            BY Typed
        <3>2. m.past = x.past
            BY <3>1, AppendIsInjective, Typed DEF Path
        <3> QED
            BY <3>2 DEF Story, Places, OneSuccessor
    <2>2. \A m \in Proper : Path(m)' = Path(m)
        BY DEF Path
    <2>3. ASSUME NEW p \in Role, NEW m \in Proper, Accepted(p)' = Path(m), Active(p)'
          PROVE  session'[p].phase = After[m.type]
        <3>1. CASE p = r
            BY <3>1, <2>3, <2>1, <1>3
        <3>2. CASE p = Other(r)
            BY <3>2, <2>3 DEF Story, Places, PhaseFollows
        <3> QED
            BY <3>1, <3>2
    <2> QED
        BY <2>2, <2>3 DEF PhaseFollows
<1>6. SamePlace'
    <2>1. Accepted(Other(r)) = Path(x) /\ Active(Other(r)) => session[Other(r)].phase = After[x.type]
        BY Roles DEF Story, Places, PhaseFollows
    <2> QED
        BY <1>3, <2>1 DEF SamePlace
<1>7. StartsEmpty'
    BY <1>3 DEF Story, Places, StartsEmpty
<1> QED
    BY <1>1, <1>2, <1>4, <1>5, <1>6, <1>7 DEF Places

LEMMA TakesKeepsTheRest ==
    ASSUME TypeOK, Story, NEW r \in Role, NEW x \in Proper, x.past = Accepted(r), Takes(r, x)
    PROVE  Fresh' /\ StagedContinues' /\ PolledWasSent' /\ SentIsSaid'
<1> USE TakesFacts
<1>0. x \in Message /\ x.id \in Nat /\ Accepted(r) \in Seq(Nat) /\ issued \in Nat
    BY Typed
<1>1. Fresh'
    <2>1. x \in sent \cup Says("maker") \cup Says("taker")
        BY DEF Proper
    <2>2. x.id <= issued /\ \A p \in Role : Drawn(Accepted(p))
        BY <2>1 DEF Story, Fresh
    <2>3. \A i \in 1..Len(Path(x)) : Path(x)[i] <= issued
        BY <1>0, <2>2, Appended DEF Path, Drawn
    <2>4. \A p \in Role : Drawn(Accepted(p))'
        BY <2>2, <2>3 DEF Drawn, Takes
    <2>5. sent' \cup Says("maker")' \cup Says("taker")' \subseteq sent \cup Says("maker") \cup Says("taker")
        BY <2>1 DEF Takes, Role, Other
    <2>6. \A m \in sent' \cup Says("maker")' \cup Says("taker")' : m.id <= issued /\ Drawn(m.past)
        BY <2>5 DEF Story, Fresh
    <2> QED
        BY <2>4, <2>6 DEF Fresh, Takes, Drawn
<1>2. StagedContinues'
    BY DEF Story, StagedContinues
<1>3. PolledWasSent'
    BY DEF Story, PolledWasSent, Takes
<1>4. SentIsSaid'
    <2> SUFFICES ASSUME NEW m \in sent', m.type # "error"
                 PROVE  m \in Says(Writer(m.type))' \/ Begins(Path(m), Accepted(Writer(m.type))')
        BY DEF SentIsSaid, Path, Begins
    <2>1. Begins(Path(x), Accepted(r)')
        BY <1>0, Typed, BeginsAppended
    <2>2. ASSUME NEW p \in Role, Begins(Path(m), Accepted(p)) PROVE Begins(Path(m), Accepted(p)')
        <3>1. Path(m) \in Seq(Nat) /\ Accepted(r)' = Append(Accepted(r), x.id)
            BY Typed DEF Takes, Path
        <3>2. CASE p = r
            BY <3>1, <3>2, <2>2, <1>0, BeginsAppended
        <3>3. CASE p = Other(r)
            BY <3>3, <2>2
        <3> QED
            BY <3>2, <3>3
    <2>3. Writer(m.type) \in Role
        BY Writers
    <2>4. CASE m \in sent /\ Begins(Path(m), Accepted(Writer(m.type)))
        BY <2>4, <2>2, <2>3
    <2>5. CASE m \in Says(Writer(m.type))
        <3>1. CASE Writer(m.type) = r
            BY <3>1, <2>5, <2>1 DEF Takes
        <3>2. CASE Writer(m.type) # r
            BY <3>2, <2>5, <2>3
        <3> QED
            BY <3>1, <3>2
    <2>6. CASE m = x
        <3>1. CASE Writer(x.type) = r
            BY <3>1, <2>6, <2>1
        <3>2. CASE Writer(x.type) # r
            <4>1. x \in sent \/ x \in Says(Other(r)) \/ x \in Says(r)
                BY Roles DEF Proper, Role
            <4>2. x \notin Says(r)
                BY <3>2 DEF Story, StagedContinues
            <4>3. x \in Says(Other(r)) => Writer(x.type) = Other(r)
                BY Roles DEF Story, StagedContinues
            <4>4. x \in sent => x \in Says(Writer(x.type)) \/ Begins(Path(x), Accepted(Writer(x.type)))
                BY DEF Story, SentIsSaid
            <4> QED
                BY <4>1, <4>2, <4>3, <4>4, <2>6, <2>3, <2>4, <2>5
        <3> QED
            BY <3>1, <3>2
    <2> QED
        BY <2>4, <2>5, <2>6 DEF Story, SentIsSaid, Takes
<1> QED
    BY <1>1, <1>2, <1>3, <1>4

LEMMA TakesKeepsChain ==
    ASSUME TypeOK, Story, NEW r \in Role, NEW x \in Proper, x.past = Accepted(r), Takes(r, x)
    PROVE  Chain'
<1> USE TakesFacts
<1> DEFINE a == Accepted(r)
           b == Accepted(Other(r))
           c == Append(a, x.id)
<1>0. /\ a \in Seq(Nat) /\ b \in Seq(Nat) /\ x.id \in Nat /\ c \in Seq(Nat)
      /\ Len(a) \in Nat /\ Len(b) \in Nat /\ Len(c) = Len(a) + 1
      /\ c[Len(a) + 1] = x.id /\ \A i \in 1..Len(a) : c[i] = a[i]
      /\ Accepted(r)' = c /\ Accepted(Other(r))' = b
    BY Typed, Roles, Appended, LenProperties DEF Path
<1>1. Refused => Refused'
    <2> SUFFICES ASSUME NEW m \in sent, m.type = "error", m.id \in ToSet(Accepted("taker"))
                 PROVE  m.id \in ToSet(Accepted("taker"))'
        BY DEF Refused, Takes, Accepted
    <2>1. Accepted("taker") \in Seq(Nat) /\ Accepted("taker")' \in {Accepted("taker"), Append(Accepted("taker"), x.id)}
        BY <1>0, Roles
    <2> QED
        BY <2>1, <1>0, Elements
<1>2. ASSUME ~Refused
      PROVE  /\ Begins(a, b) \/ Begins(b, a)
             /\ Chained(a, b) /\ Chained(b, a)
    BY <1>2, Roles DEF Story, Chain
<1>3. ASSUME ~Refused, Len(a) < Len(b) PROVE b[Len(a) + 1] = x.id
    <2>1. Len(a) + 1 \in 1..Len(b) /\ Len(a) + 1 > Len(a)
        BY <1>3, <1>0
    <2>0. \A i \in 1..Len(b) : i > Len(a) =>
             \E k \in Proper : k.id = b[i] /\ Len(k.past) = i - 1 /\ \A j \in 1..(i - 1) : k.past[j] = b[j]
        BY ONLY <1>2, <1>3 DEF Chained
    <2>2. PICK k \in Proper : /\ k.id = b[Len(a) + 1] /\ Len(k.past) = Len(a)
                              /\ \A j \in 1..Len(a) : k.past[j] = b[j]
        <3> DEFINE i == Len(a) + 1
        <3>1. i \in 1..Len(b) /\ i > Len(a) /\ i - 1 = Len(a)
            BY <1>0, <2>1
        <3> HIDE DEF i
        <3>2. \E k \in Proper : k.id = b[i] /\ Len(k.past) = i - 1 /\ \A j \in 1..(i - 1) : k.past[j] = b[j]
            BY ONLY <3>1, <2>0
        <3>3. \E k \in Proper : k.id = b[i] /\ Len(k.past) = Len(a) /\ \A j \in 1..Len(a) : k.past[j] = b[j]
            BY ONLY <3>1, <3>2
        <3> QED
            BY ONLY <3>3 DEF i
    <2>3. Begins(a, b)
        BY <1>2, <1>3, <1>0 DEF Begins
    <2>4. k.past \in Seq(Nat)
        BY Typed
    <2>5. Len(k.past) = Len(a) /\ \A j \in 1..Len(k.past) : k.past[j] = a[j]
        BY <2>2, <2>3, <1>0 DEF Begins
    <2>6. k.past = a
        BY <2>4, <2>5, <1>0, SeqEqual
    <2>7. k = x
        BY <2>6 DEF Story, Places, OneSuccessor
    <2> QED
        BY <2>2, <2>7
<1>4. ASSUME ~Refused PROVE Begins(c, b) \/ Begins(b, c)
    BY <1>0, <1>2, <1>3, <1>4, ExtendAgrees
<1>5. ASSUME ~Refused PROVE Chained(c, b)
    <2> SUFFICES ASSUME NEW i \in 1..Len(c), i > Len(b)
                 PROVE  \E k \in Proper : k.id = c[i] /\ Len(k.past) = i - 1
                                        /\ \A j \in 1..(i - 1) : k.past[j] = c[j]
        BY DEF Chained
    <2>1. CASE i = Len(a) + 1
        <3>1. x.id = c[i] /\ Len(x.past) = i - 1 /\ \A j \in 1..(i - 1) : x.past[j] = c[j]
            BY <2>1, <1>0
        <3> QED
            BY <3>1
    <2>2. CASE i # Len(a) + 1
        <3>1. i \in 1..Len(a) /\ c[i] = a[i] /\ \A j \in 1..(i - 1) : c[j] = a[j]
            BY <2>2, <1>0
        <3>2. PICK k \in Proper : k.id = a[i] /\ Len(k.past) = i - 1
                                  /\ \A j \in 1..(i - 1) : k.past[j] = a[j]
            BY <3>1, <1>2, <1>5 DEF Chained
        <3> QED
            BY <3>1, <3>2
    <2> QED
        BY <2>1, <2>2
<1>6. ASSUME ~Refused PROVE Chained(b, c)
    <2>1. /\ Len(a) \in Nat /\ Len(b) \in Nat /\ Len(c) \in Nat /\ Len(c) = Len(a) + 1
          /\ Chained(b, a)
        BY <1>0, <1>2, <1>6
    <2> HIDE DEF a, b, c
    <2>2. \A i \in 1..Len(b) : i > Len(c) => i > Len(a)
        BY ONLY <2>1
    <2> QED
        BY ONLY <2>1, <2>2 DEF Chained
<1>7. Other(Other(r)) = r
    BY Roles
<1>8. SUFFICES ASSUME ~Refused', NEW p \in Role
               PROVE  /\ Begins(Accepted(p)', Accepted(Other(p))') \/ Begins(Accepted(Other(p))', Accepted(p)')
                      /\ Chained(Accepted(p), Accepted(Other(p)))'
    BY DEF Chain, Begins
<1>9. ~Refused
    BY <1>1, <1>8
<1>10. CASE p = r
    <2>1. Accepted(p)' = c /\ Accepted(Other(p))' = b
        BY <1>10, <1>0
    <2>2. Chained(Accepted(p), Accepted(Other(p)))'
        BY ONLY <2>1, <1>5, <1>9, TakesFacts, Proper' = Proper DEF Chained
    <2> QED
        BY <2>1, <2>2, <1>4, <1>9
<1>11. CASE p = Other(r)
    <2>1. Accepted(p)' = b /\ Accepted(Other(p))' = c
        BY <1>11, <1>0, <1>7
    <2>2. Chained(Accepted(p), Accepted(Other(p)))'
        BY ONLY <2>1, <1>6, <1>9, Proper' = Proper DEF Chained
    <2> QED
        BY <2>1, <2>2, <1>4, <1>9
<1> QED
    BY <1>10, <1>11

LEMMA TakesStep ==
    ASSUME TypeOK, Story, NEW r \in Role, NEW x \in Proper, x.past = Accepted(r), Takes(r, x)
    PROVE  Story'
BY TakesKeepsPlaces, TakesKeepsTheRest, TakesKeepsChain DEF Story

-----------------------------------------------------------------------------
(* A side stages its next message *)

Stages(r, m) ==
    /\ session[r].outbox = None /\ Active(r)
    /\ m \in Message /\ m.id = issued + 1 /\ m.past = Accepted(r)
    /\ m.type = Expected[session[r].phase] /\ Writer(m.type) = r
    /\ session'[r].accepted = session[r].accepted /\ session'[r].phase = session[r].phase
    /\ session'[r].incoming = session[r].incoming
    /\ Says(r)' = {m}
    /\ session'[Other(r)] = session[Other(r)]
    /\ sent' = sent /\ issued' = issued + 1

LEMMA StagesStep ==
    ASSUME TypeOK, Story, NEW r \in Role, NEW m, Stages(r, m)
    PROVE  Story'
<1>1. /\ m.type # "error" /\ m \notin Proper /\ Proper' = Proper \cup {m}
      /\ \A p \in Role : Accepted(p)' = Accepted(p) /\ session'[p].phase = session[p].phase
                        /\ (Active(p)' <=> Active(p))
      /\ \A p \in Role : p # r => Says(p)' = Says(p)
      /\ issued \in Nat
    <2>1. m.type # "error"
        BY ExpectedFacts DEF Stages, Active
    <2>2. \A k \in Proper : k.id <= issued /\ k.id \in Nat /\ issued \in Nat
        BY Typed DEF Story, Fresh, Proper
    <2>3. m \notin Proper
        BY <2>2 DEF Stages
    <2>4. \A p \in Role : p = r \/ p = Other(r)
        BY DEF Role, Other
    <2>5. \A p \in Role : p # r => Says(p)' = Says(p)
        BY <2>4 DEF Stages, Says
    <2>6. Says(r) = {}
        BY DEF Stages, Says
    <2>7. Proper' = Proper \cup {m}
        BY <2>4, <2>5, <2>6, Roles DEF Proper, Stages
    <2>8. \A p \in Role : Accepted(p)' = Accepted(p) /\ session'[p].phase = session[p].phase
        BY <2>4 DEF Stages, Accepted
    <2> QED
        BY <2>1, <2>3, <2>5, <2>7, <2>8, Typed DEF Active
\* Its ID is in no path.
<1>2. /\ m.past = Accepted(r) /\ m.past \in Seq(Nat) /\ m.id \in Nat
      /\ \A p \in Role : Accepted(p) # Path(m)
      /\ \A k \in Proper \cup {m} : k.past # Path(m)
    <2>1. m.past = Accepted(r) /\ m.past \in Seq(Nat) /\ m.id \in Nat /\ m.id = issued + 1
        BY Typed DEF Stages
    <2>2. Len(Path(m)) \in Nat \ {0} /\ Path(m)[Len(Path(m))] = issued + 1
        BY <2>1, Appended DEF Path
    <2>3. ASSUME NEW s, Drawn(s) PROVE s # Path(m)
        <3>1. Len(Path(m)) \in 1..Len(Path(m)) /\ ~(issued + 1 <= issued)
            BY <2>2, <1>1
        <3> QED
            BY <2>2, <2>3, <3>1 DEF Drawn
    <2>4. \A p \in Role : Drawn(Accepted(p))
        BY DEF Story, Fresh
    <2>5. \A k \in Proper : Drawn(k.past)
        BY DEF Story, Fresh, Proper
    <2> QED
        BY <2>1, <2>3, <2>4, <2>5
<1>3. \A k \in Proper : k.past # m.past
    <2> SUFFICES ASSUME NEW k \in Proper, k.past = m.past PROVE FALSE
        OBVIOUS
    <2>1. k.type = m.type
        BY <1>2 DEF Story, Places, NextIsExpected, Stages
    <2>2. k \in Says(r)
        BY <2>1, <1>2, OwnSuccessorIsStaged DEF Story, Stages
    <2> QED
        BY <2>2 DEF Says, Stages
<1>4. OneSuccessor'
    BY <1>1, <1>3 DEF Story, Places, OneSuccessor
<1>5. NextIsExpected'
    <2>1. ASSUME NEW p \in Role, m.past = Accepted(p), Active(p)
          PROVE  m.type = Expected[session[p].phase]
        BY <2>1, <1>2 DEF Story, Places, SamePlace, Stages
    <2> QED
        BY <1>1, <2>1 DEF Story, Places, NextIsExpected
<1>6. SamePlace'
    BY <1>1 DEF Story, Places, SamePlace
<1>7. AnswerIsExpected'
    <2>1. \A k \in Proper : m.past = Path(k) => m.type = Expected[After[k.type]]
        BY <1>2 DEF Story, Places, PhaseFollows, Stages
    <2> QED
        BY <1>1, <1>2, <2>1 DEF Story, Places, AnswerIsExpected, Path
<1>8. PhaseFollows'
    <2>1. ASSUME NEW p \in Role, NEW k \in Proper', Accepted(p)' = Path(k), Active(p)'
          PROVE  session'[p].phase = After[k.type]
        <3>1. Accepted(p) = Path(k) /\ Active(p) /\ session'[p].phase = session[p].phase
            BY <1>1, <2>1
        <3>2. k \in Proper
            BY <1>1, <1>2, <2>1, <3>1
        <3> QED
            BY <3>1, <3>2 DEF Story, Places, PhaseFollows
    <2> QED
        BY <2>1 DEF PhaseFollows, Path
<1>9. StartsEmpty'
    <2>1. m.type = "reserve_propose" => m.past = <<>>
        BY <1>2, ExpectedFacts DEF Story, Places, StartsEmpty, Stages, Active
    <2> QED
        BY <1>1, <2>1 DEF Story, Places, StartsEmpty
<1>10. Fresh'
    <2>1. \A p \in Role : Accepted(p) \in Seq(Nat) /\ Drawn(Accepted(p))
        BY Typed DEF Story, Fresh
    <2>2. ASSUME NEW s \in Seq(Nat), Drawn(s) PROVE \A i \in 1..Len(s) : s[i] <= issued'
        BY <2>2, <1>1, ElementOfSeq DEF Drawn, Stages
    <2>3. sent' \cup Says("maker")' \cup Says("taker")' \subseteq sent \cup Says("maker") \cup Says("taker") \cup {m}
        BY <1>1 DEF Stages, Role
    <2>4. \A k \in sent \cup Says("maker") \cup Says("taker") : k.id <= issued /\ Drawn(k.past) /\ k.id \in Nat /\ k.past \in Seq(Nat)
        BY Typed, Roles DEF Story, Fresh
    <2>5. \A p \in Role : Drawn(Accepted(p))'
        BY <2>1, <2>2, <1>1 DEF Drawn
    <2>6. ASSUME NEW k \in sent \cup Says("maker") \cup Says("taker") \cup {m}
          PROVE  k.id <= issued' /\ Drawn(k.past)'
        <3>1. CASE k = m
            BY <3>1, <2>1, <2>2, <1>1, <1>2 DEF Drawn, Stages
        <3>2. CASE k # m
            BY <3>2, <2>4, <2>2, <1>1 DEF Drawn, Stages
        <3> QED
            BY <3>1, <3>2
    <2> QED
        BY <2>3, <2>5, <2>6 DEF Fresh
<1>11. StagedContinues'
    <2>1. ASSUME NEW p \in Role, NEW k \in Says(p)'
          PROVE  k.type # "error" /\ Writer(k.type) = p /\ k.past = Accepted(p)
        <3>1. CASE p = r
            BY <3>1, <2>1, <1>1, <1>2 DEF Stages
        <3>2. CASE p # r
            BY <3>2, <2>1, <1>1 DEF Story, StagedContinues
        <3> QED
            BY <3>1, <3>2
    <2> QED
        BY <2>1, <1>1 DEF StagedContinues
<1>12. PolledWasSent'
    BY Roles DEF Story, PolledWasSent, Stages, Role, Other
<1>13. SentIsSaid'
    <2>1. \A k \in sent : k.type # "error" => k \in Says(Writer(k.type)) \/ Begins(Path(k), Accepted(Writer(k.type)))
        BY DEF Story, SentIsSaid
    <2>2. \A p \in Role : Says(p) \subseteq Says(p)' /\ Accepted(p)' = Accepted(p)
        BY <1>1 DEF Stages, Says
    <2>3. \A k : Writer(k.type) \in Role
        BY Writers
    <2> QED
        BY <2>1, <2>2, <2>3 DEF SentIsSaid, Stages, Path, Begins
<1>14. Chain'
    <2>1. ~Refused' <=> ~Refused
        BY <1>1, Roles DEF Refused, Stages, Accepted
    <2>2. \A p \in Role : Other(p) \in Role
        BY Roles
    <2>3. ASSUME ~Refused, NEW p \in Role, Chained(Accepted(p), Accepted(Other(p)))
          PROVE  Chained(Accepted(p), Accepted(Other(p)))'
        <3>1. Accepted(p)' = Accepted(p) /\ Accepted(Other(p))' = Accepted(Other(p))
            BY <1>1, <2>2
        <3>2. Proper \subseteq Proper'
            BY <1>1
        <3> QED
            BY ONLY <3>1, <3>2, <2>3 DEF Chained
    <2> QED
        BY <1>1, <2>1, <2>2, <2>3 DEF Story, Chain, Begins
<1> QED
    BY <1>4, <1>5, <1>6, <1>7, <1>8, <1>9, <1>10, <1>11, <1>12, <1>13, <1>14 DEF Story, Places

-----------------------------------------------------------------------------
(* Steps that leave the transcripts alone *)

Quiet ==
    /\ \A r \in Role :
        /\ session'[r].accepted = session[r].accepted /\ Says(r)' = Says(r)
        /\ session'[r].phase = session[r].phase \/ session'[r].phase \in {"refunding", "failed"}
        /\ session'[r].incoming \in {None, session[r].incoming} \cup sent'
    /\ sent \subseteq sent'
    /\ \A m \in sent' \ sent :
        /\ m.id <= issued' /\ \A i \in 1..Len(m.past) : m.past[i] <= issued'
        /\ \/ m.type = "error" /\ m.id = issued + 1
           \/ m \in Says(Writer(m.type))
    /\ issued' \in {issued, issued + 1}

LEMMA QuietStep ==
    ASSUME TypeOK, Story, Quiet
    PROVE  Story'
<1>1. /\ Proper' = Proper
      /\ \A r \in Role : Accepted(r)' = Accepted(r) /\ Says(r)' = Says(r)
      /\ \A r \in Role : Active(r)' => Active(r) /\ session'[r].phase = session[r].phase
    <2>1. \A r \in Role : Accepted(r)' = Accepted(r) /\ Says(r)' = Says(r)
        BY DEF Quiet, Accepted
    <2>2. \A r \in Role : Active(r)' => Active(r) /\ session'[r].phase = session[r].phase
        BY ExpectedTable DEF Quiet, Active
    <2>3. Says("maker")' = Says("maker") /\ Says("taker")' = Says("taker")
        BY <2>1, Roles
    <2>4. \A m : Says(Writer(m.type)) \subseteq Says("maker") \cup Says("taker")
        BY Writers DEF Role
    <2>5. \A m \in sent' : m.type # "error" => m \in sent \/ m \in Says("maker") \cup Says("taker")
        BY <2>4 DEF Quiet
    <2>6. sent \subseteq sent'
        BY DEF Quiet
    <2>7. Proper' = Proper
        BY ONLY <2>3, <2>5, <2>6 DEF Proper
    <2> QED
        BY <2>1, <2>2, <2>7
<1>2. Places'
    <2>1. OneSuccessor' /\ AnswerIsExpected'
        BY <1>1 DEF Story, Places, OneSuccessor, AnswerIsExpected, Path
    <2>2. NextIsExpected' /\ SamePlace'
        BY <1>1 DEF Story, Places, NextIsExpected, SamePlace
    <2>3. PhaseFollows'
        BY <1>1 DEF Story, Places, PhaseFollows, Path
    <2>4. StartsEmpty'
        BY <1>1 DEF Story, Places, StartsEmpty, Quiet
    <2> QED
        BY <2>1, <2>2, <2>3, <2>4 DEF Places
<1>3. Fresh'
    <2>1. issued \in Nat /\ issued' >= issued /\ issued' \in Nat
        BY Typed DEF Quiet
    <2>2. ASSUME NEW q \in Seq(Nat), Drawn(q) PROVE \A i \in 1..Len(q) : q[i] <= issued'
        BY <2>1, <2>2, ElementOfSeq DEF Drawn
    <2>3. \A r \in Role : Drawn(Accepted(r))'
        BY <1>1, <2>2, Typed DEF Story, Fresh, Drawn
    <2>4. \A m \in sent \cup Says("maker") \cup Says("taker") :
             m.id \in Nat /\ m.id <= issued /\ m.past \in Seq(Nat) /\ Drawn(m.past)
        BY Typed, Roles DEF Story, Fresh
    <2>5. \A m \in sent \cup Says("maker") \cup Says("taker") : m.id <= issued' /\ Drawn(m.past)'
        BY <2>1, <2>2, <2>4 DEF Drawn
    <2>6. \A m \in sent' \ sent : m.id <= issued' /\ Drawn(m.past)'
        BY DEF Quiet, Drawn
    <2> QED
        BY <2>3, <2>5, <2>6, <1>1, Roles DEF Fresh
<1>4. StagedContinues'
    BY <1>1 DEF Story, StagedContinues
<1>5. PolledWasSent'
    BY DEF Story, PolledWasSent, Quiet
<1>6. SentIsSaid'
    <2>1. \A k \in sent : k.type # "error" => k \in Says(Writer(k.type)) \/ Begins(Path(k), Accepted(Writer(k.type)))
        BY DEF Story, SentIsSaid
    <2>2. \A k \in sent' \ sent : k.type # "error" => k \in Says(Writer(k.type))
        BY DEF Quiet
    <2>3. \A k : Writer(k.type) \in Role
        BY Writers
    <2> QED
        BY <1>1, <2>1, <2>2, <2>3 DEF SentIsSaid, Path, Begins
<1>7. Chain'
    <2>1. Refused => Refused'
        BY <1>1, Roles DEF Refused, Quiet
    <2>2. \A p \in Role : Other(p) \in Role
        BY Roles
    <2>3. ASSUME NEW p \in Role, Chained(Accepted(p), Accepted(Other(p)))
          PROVE  Chained(Accepted(p), Accepted(Other(p)))'
        <3> DEFINE mine == Accepted(p)
                   theirs == Accepted(Other(p))
        <3>1. mine' = mine /\ theirs' = theirs
            BY <1>1, <2>2
        <3>2. Proper' = Proper
            BY <1>1
        <3>3. Chained(mine, theirs)
            BY <2>3
        <3> HIDE DEF mine, theirs
        <3>4. Chained(mine, theirs)'
            BY ONLY <3>1, <3>2, <3>3 DEF Chained
        <3> QED
            BY <3>4 DEF mine, theirs
    <2> QED
        BY <1>1, <2>1, <2>2, <2>3 DEF Story, Chain, Begins
<1> QED
    BY <1>2, <1>3, <1>4, <1>5, <1>6, <1>7 DEF Story

-----------------------------------------------------------------------------
(* The taker reads the refusal of its proposal *)

Ends(x) ==
    /\ x \in sent /\ x.type = "error" /\ x.past = Accepted("taker")
    /\ session["taker"].phase = "awaiting_reserve_accept"
    /\ session'["taker"].accepted = Path(x) /\ session'["taker"].phase = "failed"
    /\ session["taker"].outbox = None /\ session'["taker"].outbox = None
    /\ session'["taker"].incoming = None
    /\ session'["maker"] = session["maker"]
    /\ sent' = sent /\ issued' = issued

LEMMA EndsStep ==
    ASSUME TypeOK, Story, NEW x, Ends(x)
    PROVE  Story'
<1>1. /\ Proper' = Proper
      /\ \A r \in Role : Says(r)' = Says(r)
      /\ Accepted("taker")' = Path(x) /\ Accepted("maker")' = Accepted("maker")
      /\ ~Active("taker")' /\ (Active("maker")' <=> Active("maker"))
      /\ session'["maker"].phase = session["maker"].phase
      /\ session'["taker"].phase = "failed"
    BY AfterFacts DEF Proper, Ends, Says, Accepted, Active, Role
<1>2. /\ x \in Message /\ x.id \in Nat /\ Accepted("taker") \in Seq(Nat)
      /\ Path(x) = Append(Accepted("taker"), x.id) /\ issued \in Nat
    BY Typed, Roles DEF Ends, Path
<1>3. Places'
    <2>1. OneSuccessor' /\ AnswerIsExpected'
        BY <1>1 DEF Story, Places, OneSuccessor, AnswerIsExpected, Path
    <2>2. NextIsExpected' /\ SamePlace'
        BY <1>1 DEF Story, Places, NextIsExpected, SamePlace, Role
    <2>3. PhaseFollows'
        BY <1>1 DEF Story, Places, PhaseFollows, Path, Role
    <2>4. StartsEmpty'
        BY <1>1 DEF Story, Places, StartsEmpty, Role
    <2> QED
        BY <2>1, <2>2, <2>3, <2>4 DEF Places
<1>4. Fresh'
    <2>1. x.id <= issued /\ Drawn(Accepted("taker")) /\ Drawn(Accepted("maker"))
        BY Roles DEF Story, Fresh, Ends
    <2>2. \A i \in 1..Len(Path(x)) : Path(x)[i] <= issued
        BY <1>2, <2>1, Appended DEF Drawn
    <2>3. \A r \in Role : Drawn(Accepted(r))'
        BY <1>1, <2>1, <2>2 DEF Drawn, Role, Ends
    <2> QED
        BY <1>1, <2>3, Roles DEF Story, Fresh, Ends, Drawn
<1>5. StagedContinues'
    <2>1. Says("taker")' = {}
        BY DEF Ends, Says
    <2> QED
        BY <1>1, <2>1 DEF Story, StagedContinues, Role
<1>6. PolledWasSent'
    BY DEF Story, PolledWasSent, Ends, Role
<1>7. SentIsSaid'
    <2>1. ASSUME NEW k \in sent, k.type # "error"
          PROVE  k \in Says(Writer(k.type))' \/ Begins(Path(k), Accepted(Writer(k.type))')
        <3>1. k \in Says(Writer(k.type)) \/ Begins(Path(k), Accepted(Writer(k.type)))
            BY <2>1 DEF Story, SentIsSaid
        <3>2. Writer(k.type) \in Role /\ Path(k) \in Seq(Nat)
            BY Writers, Typed
        <3>3. Begins(Path(k), Accepted("taker")) => Begins(Path(k), Accepted("taker")')
            BY <3>2, <1>1, <1>2, BeginsAppended
        <3> QED
            BY <3>1, <3>2, <3>3, <1>1 DEF Role
    <2> QED
        BY <2>1 DEF SentIsSaid, Ends, Path, Begins
<1>8. Chain'
    <2>1. Refused'
        BY <1>1, <1>2, Elements DEF Refused, Ends, Accepted
    <2> QED
        BY <2>1 DEF Chain
<1> QED
    BY <1>3, <1>4, <1>5, <1>6, <1>7, <1>8 DEF Story

-----------------------------------------------------------------------------
(* Types *)

LEMMA Constants ==
    /\ MakerClaimCutoff \in Nat /\ ShortLocktime \in Nat /\ TakerClaimCutoff \in Nat
    /\ LongLocktime \in Nat /\ RefundGuard \in Nat /\ ReservationExpiresAt \in Nat
    /\ Life \in Nat /\ MaxTime \in Nat
BY TranscriptAssumption

LEMMA SmallerOfTwo ==
    ASSUME NEW x \in Nat, NEW y \in Nat
    PROVE  Min({x, y}) \in Nat
<1> DEFINE IsLeast(v) == v \in {x, y} /\ \A w \in {x, y} : v <= w
<1>1. \E v : IsLeast(v)
    <2>1. CASE x <= y
        BY <2>1
    <2>2. CASE y <= x
        BY <2>2
    <2> QED
        BY <2>1, <2>2
<1>2. IsLeast(CHOOSE v : IsLeast(v))
    <2> HIDE DEF IsLeast
    <2> QED
        BY <1>1
<1>3. Min({x, y}) \in {x, y}
    BY <1>1 DEF Min
<1> QED
    BY <1>3

LEMMA SaveTypes ==
    ASSUME TypeOK, NEW r \in Role, NEW s \in Session, Save(r, s),
           clock' \in Nat, issued' \in Nat, sent' \subseteq Message
    PROVE  TypeOK' /\ session'[r] = s /\ session'[Other(r)] = session[Other(r)]
BY Roles DEF TypeOK, Save

LEMMA WrittenIsMessage ==
    ASSUME TypeOK, NEW r \in Role, NEW type \in Type
    PROVE  Written(session[r], type) \in Message
<1> DEFINE s == session[r]
<1>1. s.accepted \in Seq(Nat) /\ s.plan \in Nat /\ issued + 1 \in Nat /\ clock \in Nat
    BY DEF TypeOK, Session
<1>2. Min({clock + Life, s.plan + ReservationExpiresAt}) \in Nat
    <2>1. clock + Life \in Nat /\ s.plan + ReservationExpiresAt \in Nat
        BY <1>1, Constants
    <2> QED
        BY ONLY <2>1, SmallerOfTwo
<1>3. Names(type) \subseteq Leg
    BY DEF Names, Commits, Leg
<1>4. (IF s.reserved THEN "reserved" ELSE "offered") \in {"offered", "reserved"}
    OBVIOUS
<1> QED
    BY <1>1, <1>2, <1>3, <1>4 DEF Written, Message

LEMMA AdvanceTypes ==
    ASSUME TypeOK, NEW r \in Role, NEW m \in Message
    PROVE  /\ Advance(session[r], m) \in Session
           /\ Advance(session[r], m).accepted = Append(session[r].accepted, m.id)
           /\ Advance(session[r], m).phase = After[m.type]
           /\ Advance(session[r], m).outbox = session[r].outbox
           /\ Advance(session[r], m).incoming = session[r].incoming
<1>1. session[r] \in Session
    BY DEF TypeOK
<1>2. Append(session[r].accepted, m.id) \in Seq(Nat)
    BY <1>1, Appended DEF Session, Message
<1>3. After[m.type] \in Phase
    BY AfterFacts DEF Message
<1>4. session[r].tokens \cup Commits(m.type) \subseteq Leg
    BY <1>1 DEF Session, Commits, Leg
<1>5. m.projection \in {"offered", "reserved"}
    BY DEF Message
<1> QED
    BY <1>1, <1>2, <1>3, <1>4, <1>5 DEF Advance, Session

-----------------------------------------------------------------------------
(* The actions *)

Inv == TypeOK /\ Story

\* What a step does to the transcripts.
Move ==
    \/ Quiet
    \/ \E r \in Role, m \in Message : Stages(r, m)
    \/ \E r \in Role, x \in Proper : x.past = Accepted(r) /\ Takes(r, x)
    \/ \E x \in sent : Ends(x)

LEMMA InitInv ==
    ASSUME Init
    PROVE  Inv
<1> DEFINE new == New
<1>1. /\ New \in Session /\ New.outbox = None /\ New.incoming = None
      /\ New.accepted = <<>> /\ New.phase = "awaiting_reserve_propose"
    BY ExpectedTable, EmptySeq DEF New, Session, Phase, Leg
<1>2. ASSUME NEW phase \in Resumed
      PROVE  /\ Old(phase) \in Session /\ Old(phase).outbox = None /\ Old(phase).incoming = None
             /\ Old(phase).accepted = <<1>> /\ Old(phase).phase = phase
             /\ phase # "awaiting_reserve_propose"
    <2>1. phase \in {"awaiting_session_ack", "awaiting_quote_lock_ack"}
        BY TranscriptAssumption
    <2>2. phase \in Phase /\ phase # "awaiting_reserve_propose" /\ <<1>> \in Seq(Nat)
        BY <2>1, ExpectedTable DEF Phase
    <2>3. /\ (IF phase = "awaiting_session_ack" THEN {} ELSE Leg) \subseteq Leg
          /\ (phase # "awaiting_session_ack") \in BOOLEAN
        OBVIOUS
    <2> QED
        BY <1>1, <2>2, <2>3 DEF Old, New, Session
<1>3. /\ session \in [Role -> Session] /\ sent = {} /\ clock = 0 /\ issued \in {0, 1}
      /\ \A r \in Role : session[r].outbox = None /\ session[r].incoming = None
      /\ session["maker"] = session["taker"]
      /\ \A r \in Role : session[r].accepted \in {<<>>, <<1>>}
      /\ \A r \in Role : session[r].accepted = <<1>> => issued = 1
      /\ \A r \in Role : session[r].phase = "awaiting_reserve_propose" => session[r].accepted = <<>>
    <2>1. CASE session = [r \in Role |-> New] /\ issued = 0
        <3>1. <<>> # <<1>>
            OBVIOUS
        <3> QED
            BY <3>1, <2>1, <1>1, Roles DEF Init
    <2>2. ASSUME NEW phase \in Resumed, session = [r \in Role |-> Old(phase)], issued = 1
          PROVE  <1>3
        BY <2>2, <1>2, Roles DEF Init
    <2> QED
        BY <2>1, <2>2 DEF Init
<1>4. TypeOK
    BY <1>3 DEF TypeOK
<1>5. Says("maker") = {} /\ Says("taker") = {} /\ Proper = {}
    BY <1>3, Roles DEF Says, Proper
<1>6. \A r \in Role : Accepted(r) \in Seq(Nat) /\ Drawn(Accepted(r))
    <2>1. <<>> \in Seq(Nat) /\ Len(<<>>) = 0
        BY EmptySeq
    <2>2. <<1>> \in Seq(Nat) /\ Len(<<1>>) = 1 /\ <<1>>[1] = 1
        OBVIOUS
    <2>3. ASSUME NEW r \in Role PROVE Accepted(r) \in Seq(Nat) /\ Drawn(Accepted(r))
        <3>1. CASE Accepted(r) = <<>>
            BY <3>1, <2>1 DEF Drawn
        <3>2. CASE Accepted(r) = <<1>>
            BY <3>2, <2>2, <1>3 DEF Drawn, Accepted
        <3> QED
            BY <3>1, <3>2, <1>3 DEF Accepted
    <2> QED
        BY <2>3
<1>7. Fresh /\ StagedContinues /\ PolledWasSent /\ SentIsSaid
    BY <1>3, <1>5, <1>6 DEF Fresh, StagedContinues, PolledWasSent, SentIsSaid, Says
<1>8. Places
    BY <1>3, <1>5 DEF Places, OneSuccessor, NextIsExpected, SamePlace, AnswerIsExpected,
                      PhaseFollows, StartsEmpty, Role, Accepted
<1>9. Chain
    <2>1. Accepted("maker") = Accepted("taker")
        BY <1>3 DEF Accepted
    <2>2. \A r \in Role : Accepted(r) = Accepted(Other(r))
        BY <2>1 DEF Role, Other
    <2>3. \A r \in Role : Begins(Accepted(r), Accepted(r)) /\ Chained(Accepted(r), Accepted(r))
        BY <1>6, LenProperties DEF Begins, Chained
    <2> QED
        BY <2>2, <2>3 DEF Chain
<1> QED
    BY <1>4, <1>7, <1>8, <1>9 DEF Inv, Story

LEMMA QuietSession ==
    ASSUME TypeOK, Story, NEW r \in Role, NEW s \in Session, Save(r, s), UNCHANGED <<clock, sent, issued>>,
           s.accepted = session[r].accepted,
           s.outbox = session[r].outbox \/ (/\ s.outbox # None /\ session[r].outbox # None
                                           /\ s.outbox.message = session[r].outbox.message),
           s.phase \in {session[r].phase, "refunding", "failed"},
           s.incoming \in {None, session[r].incoming} \cup sent
    PROVE  Inv' /\ Move
<1>1. TypeOK' /\ session'[r] = s /\ session'[Other(r)] = session[Other(r)]
    BY SaveTypes DEF TypeOK
<1>2. Says(r)' = Says(r) /\ Says(Other(r))' = Says(Other(r))
    BY <1>1 DEF Says
<1>3. \A p \in Role : p = r \/ p = Other(r)
    BY DEF Role, Other
<1>4. \A p \in Role :
        /\ session'[p].accepted = session[p].accepted /\ Says(p)' = Says(p)
        /\ session'[p].phase = session[p].phase \/ session'[p].phase \in {"refunding", "failed"}
        /\ session'[p].incoming \in {None, session[p].incoming} \cup sent'
    BY <1>1, <1>2, <1>3
<1>5. Quiet
    BY <1>4 DEF Quiet
<1> QED
    BY <1>1, <1>5, QuietStep DEF Inv, Move

LEMMA ReserveKeeps ==
    ASSUME TypeOK, Story, NEW r \in Role, Reserve(r)
    PROVE  Inv' /\ Move
<1> DEFINE s == [session[r] EXCEPT !.reserved = TRUE]
<1>1. s \in Session /\ s.accepted = session[r].accepted /\ s.outbox = session[r].outbox
      /\ s.phase = session[r].phase /\ s.incoming = session[r].incoming
    BY DEF TypeOK, Session
<1> QED
    BY <1>1, QuietSession DEF Reserve

LEMMA LockKeeps ==
    ASSUME TypeOK, Story, NEW r \in Role, Lock(r)
    PROVE  Inv' /\ Move
<1> DEFINE s == [session[r] EXCEPT !.locked = TRUE]
<1>1. s \in Session /\ s.accepted = session[r].accepted /\ s.outbox = session[r].outbox
      /\ s.phase = session[r].phase /\ s.incoming = session[r].incoming
    BY DEF TypeOK, Session
<1> QED
    BY <1>1, QuietSession DEF Lock

LEMMA RefundKeeps ==
    ASSUME TypeOK, Story, NEW r \in Role, Refund(r)
    PROVE  Inv' /\ Move
<1> DEFINE s == [session[r] EXCEPT !.refunded = TRUE]
<1>1. s \in Session /\ s.accepted = session[r].accepted /\ s.outbox = session[r].outbox
      /\ s.phase = session[r].phase /\ s.incoming = session[r].incoming
    BY DEF TypeOK, Session
<1> QED
    BY <1>1, QuietSession DEF Refund

LEMMA EnterRecoveryKeeps ==
    ASSUME TypeOK, Story, NEW r \in Role, EnterRecovery(r)
    PROVE  Inv' /\ Move
<1> DEFINE over == IF session[r].locked THEN "refunding" ELSE "failed"
           s == [session[r] EXCEPT !.phase = over]
<1>1. over \in {"refunding", "failed"} /\ over \in Phase
    BY DEF Phase
<1> HIDE DEF over
<1>2. s \in Session /\ s.accepted = session[r].accepted /\ s.outbox = session[r].outbox
      /\ s.phase = over /\ s.incoming = session[r].incoming
    BY <1>1 DEF TypeOK, Session
<1>3. Save(r, s) /\ UNCHANGED <<clock, sent, issued>>
    BY DEF EnterRecovery, over
<1> QED
    BY <1>1, <1>2, <1>3, QuietSession

LEMMA PollKeeps ==
    ASSUME TypeOK, Story, NEW r \in Role, Poll(r)
    PROVE  Inv' /\ Move
<1>1. PICK m \in sent : Save(r, [session[r] EXCEPT !.incoming = m])
    BY DEF Poll
<1> DEFINE s == [session[r] EXCEPT !.incoming = m]
<1>2. s \in Session /\ s.accepted = session[r].accepted /\ s.outbox = session[r].outbox
      /\ s.phase = session[r].phase /\ s.incoming = m
    BY DEF TypeOK, Session
<1> QED
    BY <1>1, <1>2, QuietSession DEF Poll

LEMMA RerouteKeeps ==
    ASSUME TypeOK, Story, NEW r \in Role, Reroute(r)
    PROVE  Inv' /\ Move
<1>1. session[r].outbox # None /\ session[r].outbox \in Outbox
    BY PlanDeliver DEF Reroute, TypeOK, Session
<1> DEFINE staged == [session[r].outbox EXCEPT !.route = "listed"]
           s == [session[r] EXCEPT !.outbox = staged]
<1>2. staged \in Outbox /\ staged.message = session[r].outbox.message
    BY <1>1 DEF Outbox
<1>3. staged # None
    BY <1>2, NoneAssumption
<1>4. s = [session[r] EXCEPT !.outbox.route = "listed"]
    OBVIOUS
<1> HIDE DEF staged
<1>5. s \in Session /\ s.accepted = session[r].accepted /\ s.outbox = staged
      /\ s.phase = session[r].phase /\ s.incoming = session[r].incoming
    BY <1>2 DEF TypeOK, Session
<1> QED
    BY <1>1, <1>2, <1>3, <1>4, <1>5, QuietSession DEF Reroute

LEMMA TickKeeps ==
    ASSUME TypeOK, Story, Tick
    PROVE  Inv' /\ Move
<1>1. TypeOK'
    BY Constants DEF TypeOK, Tick
<1>2. Quiet
    BY DEF Quiet, Tick, Says
<1> QED
    BY <1>1, <1>2, QuietStep DEF Inv, Move

LEMMA RefuseKeeps ==
    ASSUME TypeOK, Story, Refuse
    PROVE  Inv' /\ Move
<1>1. PICK m \in Proposal :
        sent' = sent \cup {[m EXCEPT !.id = issued + 1, !.type = "error", !.past = <<m.id>>,
                                     !.tokens = {}, !.sentAt = clock]}
    BY DEF Refuse
<1> DEFINE e == [m EXCEPT !.id = issued + 1, !.type = "error", !.past = <<m.id>>,
                          !.tokens = {}, !.sentAt = clock]
<1>2. m \in sent /\ m \in Message /\ issued \in Nat /\ clock \in Nat /\ m.id \in Nat
    BY Typed DEF Proposal, TypeOK
<1>3. <<m.id>> \in Seq(Nat) /\ Len(<<m.id>>) = 1 /\ <<m.id>>[1] = m.id
    BY <1>2
<1>4. e \in Message /\ e.id = issued + 1 /\ e.type = "error" /\ e.past = <<m.id>>
    <2>1. "error" \in Type /\ {} \in SUBSET Leg
        BY TypeTable
    <2> DEFINE none == {}
               past == <<m.id>>
               error == "error"
               id == issued + 1
    <2>2. none \in SUBSET Leg /\ past \in Seq(Nat) /\ error \in Type /\ id \in Nat
        BY <2>1, <1>2, <1>3
    <2> HIDE DEF none, past, error, id
    <2>3. LET f == [m EXCEPT !.id = id, !.type = error, !.past = past, !.tokens = none, !.sentAt = clock]
          IN f \in Message /\ f.id = id /\ f.type = error /\ f.past = past
        BY <1>2, <2>2 DEF Message
    <2> QED
        BY <2>3 DEF none, past, error, id
<1>5. m.id <= issued
    BY <1>2 DEF Story, Fresh
<1> HIDE DEF e
<1>6. sent' = sent \cup {e} /\ issued' = issued + 1 /\ UNCHANGED <<clock, session>>
    BY <1>1 DEF Refuse, e
<1>7. TypeOK'
    BY <1>2, <1>4, <1>6 DEF TypeOK
<1>8. e.id <= issued' /\ \A i \in 1..Len(e.past) : e.past[i] <= issued'
    BY <1>2, <1>3, <1>4, <1>5, <1>6
<1>9. Quiet
    BY <1>4, <1>6, <1>8 DEF Quiet, Says
<1> QED
    BY <1>7, <1>9, QuietStep DEF Inv, Move

LEMMA StageKeeps ==
    ASSUME TypeOK, Story, NEW r \in Role, Stage(r)
    PROVE  Inv' /\ Move
<1> DEFINE type == Expected[session[r].phase]
           m == Written(session[r], type)
           staged == [message |-> m, route |-> "advertised"]
           s == [session[r] EXCEPT !.outbox = staged]
<1>1. /\ session[r].outbox = None /\ Active(r) /\ type \in Type /\ Writer(type) = r
    BY PlanStage DEF Stage
<1>2. m \in Message
    BY <1>1, WrittenIsMessage
<1>3. m.id = issued + 1 /\ m.past = Accepted(r) /\ m.type = type
    BY DEF Written, Accepted
<1>4. Save(r, s) /\ issued' = issued + 1 /\ UNCHANGED <<clock, sent>>
    BY DEF Stage
<1> HIDE DEF m, type
<1>5. staged \in Outbox /\ staged.message = m
    BY <1>2 DEF Outbox
<1>6. staged # None
    BY <1>5, NoneAssumption
<1> HIDE DEF staged
<1>7. s \in Session /\ s.accepted = session[r].accepted /\ s.outbox = staged
      /\ s.phase = session[r].phase /\ s.incoming = session[r].incoming
    BY <1>5 DEF TypeOK, Session
<1>8. TypeOK' /\ session'[r] = s /\ session'[Other(r)] = session[Other(r)]
    BY <1>4, <1>7, SaveTypes DEF TypeOK
<1>9. Says(r)' = {m}
    BY <1>5, <1>6, <1>7, <1>8 DEF Says
<1>10. Stages(r, m)
    BY <1>1, <1>2, <1>3, <1>4, <1>7, <1>8, <1>9 DEF Stages, type
<1>11. Move
    BY <1>2, <1>10 DEF Move
<1> QED
    BY <1>8, <1>10, <1>11, StagesStep DEF Inv

LEMMA DeliverKeeps ==
    ASSUME TypeOK, Story, NEW r \in Role, Deliver(r)
    PROVE  Inv' /\ Move
<1> DEFINE m == session[r].outbox.message
           advanced == Advance(session[r], m)
           s == [advanced EXCEPT !.outbox = None]
<1>1. session[r].outbox # None /\ session[r].outbox \in Outbox
    BY PlanDeliver DEF Deliver, TypeOK, Session
<1>2. m \in Message /\ Says(r) = {m}
    BY <1>1 DEF Outbox, Says
<1>3. m \in Proper /\ m.past = Accepted(r) /\ Writer(m.type) = r
    BY <1>2, SaidIsProper DEF Story, StagedContinues
<1>4. sent' = sent \cup {m} /\ UNCHANGED <<clock, issued>>
    BY DEF Deliver
<1>5. CASE Save(r, Said(session[r]))
    <2>1. /\ advanced \in Session /\ advanced.accepted = Append(session[r].accepted, m.id)
          /\ advanced.phase = After[m.type] /\ advanced.incoming = session[r].incoming
        BY <1>2, AdvanceTypes
    <2>2. Save(r, s)
        BY <1>5 DEF Said
    <2> HIDE DEF m, advanced
    <2>3. s \in Session /\ s.accepted = Append(session[r].accepted, m.id) /\ s.outbox = None
          /\ s.phase = After[m.type] /\ s.incoming = session[r].incoming
        BY <2>1 DEF Session
    <2>4. TypeOK' /\ session'[r] = s /\ session'[Other(r)] = session[Other(r)]
        BY <2>2, <2>3, <1>2, <1>4, SaveTypes DEF TypeOK
    <2>5. Takes(r, m)
        BY <2>3, <2>4, <1>2, <1>3, <1>4 DEF Takes, Path, Accepted
    <2> QED
        BY <2>4, <2>5, <1>3, TakesStep DEF Inv, Move
<1>6. CASE UNCHANGED session
    <2>1. TypeOK'
        BY <1>2, <1>4, <1>6 DEF TypeOK
    <2>2. m.id <= issued /\ \A i \in 1..Len(m.past) : m.past[i] <= issued
        BY <1>2, <1>3 DEF Story, Fresh, Drawn, Role
    <2> HIDE DEF m
    <2>3. Quiet
        BY <2>2, <1>2, <1>3, <1>4, <1>6 DEF Quiet, Says
    <2> QED
        BY <2>1, <2>3, QuietStep DEF Inv, Move
<1> QED
    BY <1>5, <1>6 DEF Deliver

LEMMA ValidateKeeps ==
    ASSUME TypeOK, Story, NEW r \in Role, Validate(r)
    PROVE  Inv' /\ Move
<1> DEFINE m == session[r].incoming
           brought == session[r].reserved \/ m.type = "reserve_accept"
           plan == IF m.type = "reserve_accept" THEN m.plan ELSE session[r].plan
           advanced == Advance(session[r], m)
           s == [advanced EXCEPT !.incoming = None, !.reserved = brought, !.plan = plan]
<1>1. session[r].outbox = None /\ m # None /\ m \in Message /\ m \in sent
    <2>1. session[r].outbox = None /\ m # None
        BY PlanValidate DEF Validate
    <2>2. session[r].incoming \in Message \cup {None}
        BY DEF TypeOK, Session
    <2> QED
        BY <2>1, <2>2 DEF Story, PolledWasSent
<1>2. /\ m.past = Accepted(r) /\ Recipient(m.type) = r
      /\ m.type = "error" \/ Active(r)
    BY DEF Validate, Opens, Unwraps, Welcome, Accepted, Active
<1>3. /\ advanced \in Session /\ advanced.accepted = Append(session[r].accepted, m.id)
      /\ advanced.phase = After[m.type] /\ advanced.outbox = session[r].outbox
      /\ advanced.reserved = session[r].reserved /\ advanced.plan = session[r].plan
    <2>1. session[r] \in Session
        BY DEF TypeOK
    <2>2. advanced.reserved = session[r].reserved /\ advanced.plan = session[r].plan
        BY <2>1 DEF Advance, Session
    <2> QED
        BY <2>2, <1>1, AdvanceTypes
<1>4. brought \in BOOLEAN /\ plan \in Nat
    <2>1. session[r].reserved \in BOOLEAN /\ session[r].plan \in Nat /\ m.plan \in Nat
        BY <1>1 DEF TypeOK, Session, Message
    <2> QED
        BY <2>1
<1>5. Save(r, s) /\ UNCHANGED <<clock, sent, issued>>
    BY <1>3 DEF Validate
<1> HIDE DEF brought, plan, advanced
<1>6. s \in Session /\ s.accepted = Append(session[r].accepted, m.id) /\ s.outbox = session[r].outbox
      /\ s.phase = After[m.type] /\ s.incoming = None
    BY <1>3, <1>4 DEF Session
<1>7. TypeOK' /\ session'[r] = s /\ session'[Other(r)] = session[Other(r)]
    BY <1>5, <1>6, SaveTypes DEF TypeOK
<1>8. CASE m.type # "error"
    <2>1. m \in Proper /\ Says(r) = {}
        BY <1>1, <1>8 DEF Proper, Says
    <2>2. sent \cup {m} = sent
        BY <1>1
    <2> HIDE DEF m
    <2>3. Takes(r, m)
        BY <1>1, <1>2, <1>5, <1>6, <1>7, <2>1, <2>2 DEF Takes, Path, Accepted
    <2> QED
        BY <1>2, <1>7, <2>1, <2>3, TakesStep DEF Inv, Move
<1>9. CASE m.type = "error"
    <2>1. r = "taker" /\ Other(r) = "maker"
        BY <1>2, <1>9 DEF Recipient, Author, Role, Other
    <2>2. session[r].phase = "awaiting_reserve_accept"
        BY <1>9 DEF Validate, Welcome, Fits, ErrorFits
    <2> HIDE DEF m, s
    <2>3. Ends(m)
        <3>1. m \in sent /\ m.type = "error" /\ m.past = Accepted("taker") /\ session["taker"].outbox = None
            BY <1>1, <1>2, <1>9, <2>1
        <3>2. s.accepted = Append(m.past, m.id) /\ s.phase = "failed"
            BY <1>2, <1>6, <1>9, <2>1, AfterFacts DEF Accepted
        <3>3. s.outbox = None /\ s.incoming = None
            BY <1>6, <3>1, <2>1
        <3>4. session'["taker"] = s /\ session'["maker"] = session["maker"]
            BY <1>7, <2>1
        <3>5. sent' = sent /\ issued' = issued
            BY <1>5
        <3> QED
            BY <2>1, <2>2, <3>1, <3>2, <3>3, <3>4, <3>5 DEF Ends, Path
    <2>4. Move
        BY <1>1, <2>3 DEF Move
    <2> QED
        BY <1>7, <2>3, <2>4, EndsStep DEF Inv
<1> QED
    BY <1>8, <1>9

LEMMA MakerStartsKeeps ==
    ASSUME TypeOK, Story, MakerStarts
    PROVE  Inv' /\ Move
<1>1. PICK m \in Proposal :
        Save("maker", [Advance(session["maker"], m) EXCEPT !.plan = clock])
    BY DEF MakerStarts
<1> DEFINE advanced == Advance(session["maker"], m)
           s == [advanced EXCEPT !.plan = clock]
<1>2. m \in sent /\ m.type = "reserve_propose" /\ m \in Message /\ m \in Proper
    BY Typed DEF Proposal, Proper
<1>3. session["maker"].phase = "awaiting_reserve_propose" /\ UNCHANGED <<clock, sent, issued>>
    BY DEF MakerStarts
<1>4. m.past = Accepted("maker")
    BY <1>2, <1>3, Roles DEF Story, Places, StartsEmpty
\* The maker of an order nobody took has staged nothing.
<1>5. Says("maker") = {}
    <2> SUFFICES ASSUME NEW k \in Says("maker") PROVE FALSE
        OBVIOUS
    <2>1. k \in Proper /\ k.past = Accepted("maker") /\ Writer(k.type) = "maker"
        BY Roles, SaidIsProper DEF Story, StagedContinues
    <2>2. k.type = Expected["awaiting_reserve_propose"]
        BY <2>1, <1>3, Roles, ExpectedFacts DEF Story, Places, NextIsExpected, Active
    <2> QED
        BY <2>1, <2>2, ExpectedTable, Writers
<1>6. session["maker"].outbox = None
    BY <1>5 DEF Says
<1>7. /\ advanced \in Session /\ advanced.accepted = Append(session["maker"].accepted, m.id)
      /\ advanced.phase = After[m.type] /\ advanced.outbox = session["maker"].outbox
      /\ advanced.incoming = session["maker"].incoming
    BY <1>2, Roles, AdvanceTypes
<1>8. clock \in Nat
    BY DEF TypeOK
<1> HIDE DEF advanced
<1>9. s \in Session /\ s.accepted = Append(session["maker"].accepted, m.id)
      /\ s.outbox = session["maker"].outbox
      /\ s.phase = After[m.type] /\ s.incoming = session["maker"].incoming
    BY <1>7, <1>8 DEF Session
<1>10. Save("maker", s)
    BY <1>1 DEF advanced
<1>11. TypeOK' /\ session'["maker"] = s /\ session'[Other("maker")] = session[Other("maker")]
    BY <1>3, <1>9, <1>10, Roles, SaveTypes DEF TypeOK
<1>12. sent \cup {m} = sent
    BY <1>2
<1>13. Takes("maker", m)
    BY <1>2, <1>3, <1>4, <1>5, <1>6, <1>9, <1>11, <1>12 DEF Takes, Path, Accepted
<1> QED
    BY <1>2, <1>4, <1>11, <1>13, Roles, TakesStep DEF Inv, Move

-----------------------------------------------------------------------------
(* The theorems *)

LEMMA StutterKeeps ==
    ASSUME TypeOK, Story, UNCHANGED vars
    PROVE  Inv' /\ Move
<1>1. TypeOK'
    BY DEF TypeOK, vars
<1>2. Quiet
    BY DEF Quiet, Says, vars
<1> QED
    BY <1>1, <1>2, QuietStep DEF Inv, Move

LEMMA InvAndMove == Inv /\ [Next]_vars => Inv' /\ Move
<1> SUFFICES ASSUME TypeOK, Story, [Next]_vars PROVE Inv' /\ Move
    BY DEF Inv
<1>1. CASE UNCHANGED vars
    BY <1>1, StutterKeeps
<1>2. ASSUME NEW r \in Role, Own(r) \/ Deliver(r) \/ Reroute(r) PROVE Inv' /\ Move
    BY <1>2, ReserveKeeps, LockKeeps, StageKeeps, PollKeeps, ValidateKeeps, EnterRecoveryKeeps,
       RefundKeeps, DeliverKeeps, RerouteKeeps DEF Own
<1>3. CASE MakerStarts \/ Refuse \/ Tick
    BY <1>3, MakerStartsKeeps, RefuseKeeps, TickKeeps
<1> QED
    BY <1>1, <1>2, <1>3 DEF Next

LEMMA InvIsInductive == Inv /\ [Next]_vars => Inv'
BY InvAndMove

LEMMA StoryAgrees ==
    ASSUME TypeOK, Story
    PROVE  TranscriptsAgree
<1> SUFFICES ASSUME ~Refused, NEW r \in Role
             PROVE  LET mine == session[r].accepted
                        theirs == session[Other(r)].accepted IN
                    /\ IsPrefix(mine, theirs) \/ IsPrefix(theirs, mine)
                    /\ \A m \in sent :
                         m.id \in ToSet(theirs) \ ToSet(mine) /\ Writer(m.type) = r =>
                            session[r].outbox # None /\ session[r].outbox.message = m
    BY DEF TranscriptsAgree
<1> DEFINE mine == Accepted(r)
           theirs == Accepted(Other(r))
<1>1. mine \in Seq(Nat) /\ theirs \in Seq(Nat)
    BY Typed, Roles
<1>2. IsPrefix(mine, theirs) \/ IsPrefix(theirs, mine)
    BY <1>1, BeginsIsPrefix DEF Story, Chain
<1>3. ASSUME NEW m \in sent, m.id \in ToSet(theirs), m.id \notin ToSet(mine), Writer(m.type) = r
      PROVE  session[r].outbox # None /\ session[r].outbox.message = m
    <2>1. m.type # "error"
        BY <1>3, Roles, Writers DEF Refused, Accepted
    <2>2. m \in Says(r) \/ Begins(Path(m), mine)
        BY <2>1, <1>3 DEF Story, SentIsSaid
    <2>3. ~Begins(Path(m), mine)
        <3>1. m.id \in Nat /\ m.past \in Seq(Nat)
            BY Typed
        <3>2. /\ Len(m.past) \in Nat /\ Len(Path(m)) = Len(m.past) + 1
              /\ Path(m)[Len(m.past) + 1] = m.id
            BY <3>1, Appended DEF Path
        <3>3. ToSet(mine) = {mine[i] : i \in 1..Len(mine)} /\ Len(mine) \in Nat
            BY <1>1, <3>1, Elements, LenProperties
        <3> SUFFICES ASSUME Begins(Path(m), mine) PROVE FALSE
            OBVIOUS
        <3>4. Len(m.past) + 1 \in 1..Len(mine) /\ mine[Len(m.past) + 1] = m.id
            BY <3>2, <3>3 DEF Begins
        <3> QED
            BY <3>3, <3>4, <1>3
    <2> QED
        BY <2>2, <2>3 DEF Says
<1> QED
    BY <1>2, <1>3 DEF Accepted

\* The variables keep their types.
THEOREM TypeCorrect == Spec => []TypeOK
<1>1. Init => Inv
    BY InitInv
<1>2. Inv => TypeOK
    BY DEF Inv
<1> QED
    BY <1>1, <1>2, InvIsInductive, PTL DEF Spec

\* Whatever is lost, repeated or left to expire, the two sides never disagree about
\* what was said: one transcript continues the other, and what its author does not
\* count as said yet is still staged.
THEOREM TranscriptsAlwaysAgree == Spec => []TranscriptsAgree
<1>1. Init => Inv
    BY InitInv
<1>2. Inv => TranscriptsAgree
    BY StoryAgrees DEF Inv
<1> QED
    BY <1>1, <1>2, InvIsInductive, PTL DEF Spec

-----------------------------------------------------------------------------
(***************************************************************************)
(* What is polled is welcome: the terms of a trade, where the transcript   *)
(* has come to.                                                            *)
(***************************************************************************)

Early == {"awaiting_reserve_propose", "awaiting_reserve_accept"}

\* The tokens that were committed to before a phase.
Holds(phase) ==
    IF phase \in Early \cup {"awaiting_session_ack", "awaiting_base_lock"} THEN {}
    ELSE IF phase \in {"awaiting_base_lock_ack", "awaiting_quote_lock"} THEN {"base"}
    ELSE Leg

\* A session's phase decides its tokens, and whether the order is reserved; only the
\* maker reserves before it says so.
PhaseTerm(r) ==
    LET s == session[r] IN
    Active(r) =>
        /\ s.tokens = Holds(s.phase)
        /\ s.phase \in Early => s.projection = "offered"
        /\ s.phase \notin Early => s.projection = "reserved" /\ s.reserved
        /\ r = "taker" /\ s.phase \in Early => ~s.reserved
        /\ s.phase = "awaiting_reserve_propose" => ~s.reserved

\* What is staged may become unsafe, and then its session recovers; nothing is read
\* while something is staged.
StagedTerm(r) ==
    LET s == session[r] IN
    s.outbox # None =>
        /\ s.outbox.message.projection = "reserved" => s.reserved
        /\ Active(r) \/ Unsafe(s)
        /\ s.incoming = None

PolledTerm(r) ==
    session[r].incoming # None =>
        /\ Opens(r, session[r].incoming)
        /\ Welcome(session[r], session[r].incoming)

RoleTerms == \A r \in Role : PhaseTerm(r) /\ StagedTerm(r) /\ PolledTerm(r)

\* A message is of the plan of the maker, and was in time for it.
InTime(m) ==
    /\ m.type \in {"reserve_accept", "claim_notice"} => m.sentAt < m.plan + MakerClaimCutoff
    /\ m.type = "base_lock" => m.sentAt < m.plan + LongLocktime
    /\ m.type = "quote_lock" => m.sentAt < m.plan + ShortLocktime
MessageTerm(m, plan) ==
    /\ m.tokens = Names(m.type)
    /\ m.projection = IF m.type = "reserve_propose" THEN "offered" ELSE "reserved"
    /\ m.type # "reserve_propose" => m.plan = plan
    /\ InTime(m)

MessageTerms ==
    /\ \A m \in Proper : MessageTerm(m, session["maker"].plan)
    /\ \A m \in sent : m.type = "error" => m.projection = "offered"

\* The taker has the plan of the maker once the order is reserved for it, and before
\* the maker has one there are only proposals.
PlanTerms ==
    /\ session["taker"].projection = "reserved" => session["taker"].plan = session["maker"].plan
    /\ session["maker"].phase = "awaiting_reserve_propose" =>
         /\ session["taker"].projection = "offered"
         /\ \A m \in Proper : m.type = "reserve_propose"

Terms == RoleTerms /\ MessageTerms /\ PlanTerms

LEMMA PhaseTable ==
    /\ Early \subseteq DOMAIN Expected
    /\ "refunding" \notin DOMAIN Expected /\ "failed" \notin DOMAIN Expected
    /\ "settling" \notin DOMAIN Expected
BY ExpectedTable DEF Early

LEMMA AfterTable ==
    /\ After["reserve_propose"] = "awaiting_reserve_accept"
    /\ After["reserve_accept"] = "awaiting_quote_lock"
    /\ After["session_ack"] = "awaiting_base_lock"
    /\ After["base_lock"] = "awaiting_base_lock_ack"
    /\ After["base_lock_ack"] = "awaiting_quote_lock"
    /\ After["quote_lock"] = "settling"
    /\ After["quote_lock_ack"] = "awaiting_claim_notice"
    /\ After["claim_notice"] = "awaiting_fill_request"
    /\ After["fill_request"] = "awaiting_settlement_ack"
BY DEF After

\* Where a message leads: past its acceptance the order is reserved, and the tokens
\* are those held before and the one the message commits to.
LEMMA MessageLeads ==
    ASSUME NEW p \in DOMAIN Expected, NEW type \in Type, type = Expected[p],
           After[type] \in DOMAIN Expected
    PROVE  /\ Holds(After[type]) = Holds(p) \cup Commits(type)
           /\ After[type] \in Early <=> type = "reserve_propose"
           /\ After[type] # "awaiting_reserve_propose"
           /\ type = "reserve_propose" <=> p = "awaiting_reserve_propose"
           /\ type \notin {"reserve_propose", "reserve_accept"} => p \notin Early
<1>1. type # "quote_lock"
    BY AfterTable, PhaseTable
<1> USE ExpectedTable, AfterTable DEF Early, Holds, Commits, Leg
<1>2. CASE p = "awaiting_reserve_propose"
    BY <1>2
<1>3. CASE p = "awaiting_reserve_accept"
    BY <1>3
<1>4. CASE p = "awaiting_session_ack"
    BY <1>4
<1>5. CASE p = "awaiting_base_lock"
    BY <1>5
<1>6. CASE p = "awaiting_base_lock_ack"
    BY <1>6
<1>7. CASE p = "awaiting_quote_lock"
    BY <1>1, <1>7
<1>8. CASE p = "awaiting_quote_lock_ack"
    BY <1>8
<1>9. CASE p = "awaiting_claim_notice"
    BY <1>9
<1>10. CASE p = "awaiting_fill_request"
    BY <1>10
<1>11. CASE p = "awaiting_settlement_ack"
    BY <1>11, ExpectedFacts
<1> QED
    BY <1>2, <1>3, <1>4, <1>5, <1>6, <1>7, <1>8, <1>9, <1>10, <1>11

\* A side whose session a step leaves alone keeps its terms.
LEMMA SessionAlone ==
    ASSUME NEW p \in Role, session'[p] = session[p], clock' = clock,
           PhaseTerm(p), StagedTerm(p), PolledTerm(p)
    PROVE  PhaseTerm(p)' /\ StagedTerm(p)' /\ PolledTerm(p)'
<1>1. PhaseTerm(p)'
    BY DEF PhaseTerm, Active
<1>2. Unsafe(session[p])' <=> Unsafe(session[p])
    BY DEF Unsafe, Late
<1>3. StagedTerm(p)'
    BY <1>2 DEF StagedTerm, Active
<1>4. PolledTerm(p)'
    BY DEF PolledTerm, Opens, Unwraps
<1> QED
    BY <1>1, <1>3, <1>4

-----------------------------------------------------------------------------
(* Steps that say nothing *)

\* What a step leaves alone when no message is taken, staged or refused.
Calm ==
    /\ \A p \in Role :
        /\ session'[p].projection = session[p].projection
        /\ session'[p].tokens = session[p].tokens
        /\ session'[p].plan = session[p].plan
        /\ \/ session'[p].phase = session[p].phase
           \/ session'[p].phase \in {"refunding", "failed"}
        /\ \/ session'[p].reserved = session[p].reserved
           \/ /\ p = "maker" /\ session[p].phase = "awaiting_reserve_accept"
              /\ session'[p].reserved = TRUE
        /\ Says(p)' = Says(p)
        /\ StagedTerm(p)' /\ PolledTerm(p)'
    /\ \A m \in sent' : m \in sent \/ m \in Proper \/ (m.type = "error" /\ m.projection = "offered")

LEMMA CalmStep ==
    ASSUME StagedContinues, Terms, Calm
    PROVE  Terms'
<1>1. Proper' \subseteq Proper
    <2>1. \A m \in sent' : m.type # "error" => m \in Proper
        BY DEF Calm, Proper
    <2> QED
        BY <2>1, Roles DEF Calm, Proper
<1>2. ASSUME NEW p \in Role PROVE PhaseTerm(p)'
    <2>1. PhaseTerm(p)
        BY DEF Terms, RoleTerms
    <2>2. CASE session'[p].phase \in {"refunding", "failed"}
        BY <2>2, PhaseTable DEF PhaseTerm, Active
    <2>3. CASE session'[p].phase = session[p].phase
        BY <2>1, <2>3, Roles DEF PhaseTerm, Active, Calm
    <2> QED
        BY <2>2, <2>3 DEF Calm
<1>3. RoleTerms'
    BY <1>2 DEF Calm, RoleTerms
<1>4. MessageTerms'
    <2>1. session'["maker"].plan = session["maker"].plan
        BY Roles DEF Calm
    <2>2. \A m \in Proper' : MessageTerm(m, session'["maker"].plan)
        BY <1>1, <2>1 DEF Terms, MessageTerms
    <2>3. ASSUME NEW m \in sent', m.type = "error" PROVE m.projection = "offered"
        <3>1. m \notin Proper
            BY <2>3, ProperIsNoError
        <3> QED
            BY <2>3, <3>1 DEF Calm, Terms, MessageTerms
    <2> QED
        BY <2>2, <2>3 DEF MessageTerms, MessageTerm, InTime
<1>5. PlanTerms'
    <2>1. /\ session'["taker"].projection = session["taker"].projection
          /\ session'["taker"].plan = session["taker"].plan
          /\ session'["maker"].plan = session["maker"].plan
          /\ session'["maker"].phase = "awaiting_reserve_propose"
               => session["maker"].phase = "awaiting_reserve_propose"
        BY Roles DEF Calm
    <2> QED
        BY <1>1, <2>1 DEF Terms, PlanTerms
<1> QED
    BY <1>3, <1>4, <1>5 DEF Terms

-----------------------------------------------------------------------------
(* A message is taken *)

Settles(r, x) ==
    /\ session'[r].phase = After[x.type]
    /\ session'[r].projection = x.projection
    /\ session'[r].tokens = session[r].tokens \cup Commits(x.type)
    /\ session'[r].reserved = (session[r].reserved \/ (r = "taker" /\ x.type = "reserve_accept"))
    /\ session'[r].outbox = None /\ session'[r].incoming = None
    /\ \/ session'[r].plan = session[r].plan /\ ~(r = "taker" /\ x.type = "reserve_accept")
       \/ r = "taker" /\ x.type = "reserve_accept" /\ session'[r].plan = x.plan
       \/ r = "maker" /\ session[r].phase = "awaiting_reserve_propose"
    /\ session'[Other(r)] = session[Other(r)] /\ clock' = clock
    /\ sent' = sent \cup {x}

LEMMA SettlesStep ==
    ASSUME TypeOK, Story, Terms, NEW r \in Role, NEW x \in Proper, x.past = Accepted(r),
           Active(r), Takes(r, x), Settles(r, x),
           r = "maker" /\ x.type = "reserve_accept" => session[r].reserved
    PROVE  Terms'
<1> DEFINE old == session[r].phase
<1>1. /\ Proper' = Proper /\ x.type # "error" /\ x \in Message /\ x.type \in Type
      /\ \A p \in Role : p = r \/ p = Other(r)
    BY TakesFacts, Typed
<1>2. x.type = Expected[old] /\ old \in DOMAIN Expected
    BY DEF Story, Places, NextIsExpected, Active
<1>3. /\ PhaseTerm(r) /\ MessageTerm(x, session["maker"].plan)
    BY DEF Terms, RoleTerms, MessageTerms
<1>4. ASSUME After[x.type] \in DOMAIN Expected
      PROVE  /\ Holds(After[x.type]) = Holds(old) \cup Commits(x.type)
             /\ After[x.type] \in Early <=> x.type = "reserve_propose"
             /\ After[x.type] # "awaiting_reserve_propose"
             /\ x.type \notin {"reserve_propose", "reserve_accept"} => old \notin Early
             /\ x.type = "reserve_propose" <=> old = "awaiting_reserve_propose"
    BY <1>1, <1>2, <1>4, MessageLeads
<1>5. PhaseTerm(r)'
    <2> SUFFICES ASSUME Active(r)'
                 PROVE  LET s == session'[r] IN
                        /\ s.tokens = Holds(s.phase)
                        /\ s.phase \in Early => s.projection = "offered"
                        /\ s.phase \notin Early => s.projection = "reserved" /\ s.reserved
                        /\ r = "taker" /\ s.phase \in Early => ~s.reserved
                        /\ s.phase = "awaiting_reserve_propose" => ~s.reserved
        BY DEF PhaseTerm
    <2>1. session'[r].phase = After[x.type] /\ After[x.type] \in DOMAIN Expected
        BY DEF Settles, Active
    <2>2. session'[r].tokens = Holds(session'[r].phase)
        BY <1>3, <1>4, <2>1 DEF PhaseTerm, Settles
    <2>3. session'[r].projection = IF x.type = "reserve_propose" THEN "offered" ELSE "reserved"
        BY <1>3 DEF MessageTerm, Settles
    <2>4. x.type # "reserve_propose" => session'[r].reserved
        <3>1. CASE x.type = "reserve_accept"
            BY <3>1 DEF Settles, Role
        <3>2. CASE x.type \notin {"reserve_propose", "reserve_accept"}
            BY <3>2, <2>1, <1>3, <1>4 DEF PhaseTerm, Settles
        <3> QED
            BY <3>1, <3>2
    <2>5. x.type = "reserve_propose" => ~session'[r].reserved
        BY <2>1, <1>3, <1>4 DEF PhaseTerm, Settles
    <2> QED
        BY <2>1, <2>2, <2>3, <2>4, <2>5, <1>4
<1>6. StagedTerm(r)' /\ PolledTerm(r)'
    BY DEF Settles, StagedTerm, PolledTerm
<1>7. RoleTerms'
    <2>1. Other(r) \in Role
        BY Roles
    <2>2. PhaseTerm(Other(r))' /\ StagedTerm(Other(r))' /\ PolledTerm(Other(r))'
        BY <2>1, SessionAlone DEF Settles, Terms, RoleTerms
    <2> QED
        BY <1>1, <1>5, <1>6, <2>2 DEF RoleTerms
\* Only the maker's start gives it a plan, and then there are only proposals.
<1>8. \/ session'["maker"].plan = session["maker"].plan
      \/ session["maker"].phase = "awaiting_reserve_propose"
    BY DEF Settles, Role, Other
<1>9. MessageTerms'
    <2>1. \A m \in Proper : MessageTerm(m, session'["maker"].plan)
        BY <1>8 DEF Terms, MessageTerms, MessageTerm, PlanTerms
    <2>2. \A m \in sent' : m.type = "error" => m.projection = "offered"
        BY <1>1 DEF Settles, Terms, MessageTerms
    <2> QED
        BY <1>1, <2>1, <2>2 DEF MessageTerms, MessageTerm, InTime
<1>10. After[x.type] # "awaiting_reserve_propose"
    BY <1>1, AfterFacts
<1>11. PlanTerms'
    <2>1. CASE r = "maker"
        <3>1. session'["taker"] = session["taker"] /\ session'["maker"].phase = After[x.type]
            BY <2>1, Roles DEF Settles
        <3> QED
            BY <3>1, <1>8, <1>10 DEF Terms, PlanTerms
    <2>2. CASE r = "taker"
        <3>1. session'["maker"] = session["maker"]
            BY <2>2, Roles DEF Settles
        <3>2. ASSUME session'["taker"].projection = "reserved"
              PROVE  session'["taker"].plan = session["maker"].plan
            <4>1. x.type # "reserve_propose"
                BY <2>2, <3>2, <1>3 DEF MessageTerm, Settles
            <4>2. CASE x.type = "reserve_accept"
                BY <2>2, <4>1, <4>2, <1>3 DEF MessageTerm, Settles
            <4>3. CASE x.type # "reserve_accept"
                <5>1. old \notin Early
                    BY <1>2, <4>1, <4>3, ExpectedTable DEF Early
                <5>2. session["taker"].projection = "reserved"
                    BY <2>2, <5>1, <1>3 DEF PhaseTerm
                <5> QED
                    BY <2>2, <4>3, <5>2 DEF Settles, Terms, PlanTerms
            <4> QED
                BY <4>2, <4>3
        <3>3. ASSUME session["maker"].phase = "awaiting_reserve_propose"
              PROVE  session'["taker"].projection = "offered"
            <4>1. x.type = "reserve_propose"
                BY <3>3 DEF Terms, PlanTerms
            <4> QED
                BY <2>2, <4>1, <1>3 DEF MessageTerm, Settles
        <3> QED
            BY <3>1, <3>2, <3>3, <1>1 DEF Terms, PlanTerms
    <2> QED
        BY <2>1, <2>2 DEF Role
<1> QED
    BY <1>7, <1>9, <1>11 DEF Terms

-----------------------------------------------------------------------------
(* A message is staged *)

LEMMA WelcomeTerms ==
    ASSUME TypeOK, NEW r \in Role, NEW type \in Type, type # "error",
           Welcome(session[r], Written(session[r], type))
    PROVE  /\ type = "reserve_accept" => session[r].reserved
           /\ InTime(Written(session[r], type))
<1> DEFINE m == Written(session[r], type)
<1>1. m.type = type /\ m.sentAt = clock /\ m.plan = session[r].plan
      /\ m.projection = IF session[r].reserved THEN "reserved" ELSE "offered"
    BY DEF Written
<1>2. Fits(session[r], m)
    BY DEF Welcome
<1> HIDE DEF m
<1>3. CASE type = "reserve_accept"
    BY <1>1, <1>2, <1>3 DEF Fits, AcceptFits, InTime, m
<1>4. CASE type \in {"base_lock", "quote_lock"}
    BY <1>1, <1>2, <1>4 DEF Fits, LockFits, LockTerms, InTime, m
<1>5. CASE type = "claim_notice"
    BY <1>1, <1>2, <1>5 DEF Fits, ClaimFits, InTime, m
<1>6. CASE type \notin {"reserve_accept", "base_lock", "quote_lock", "claim_notice"}
    BY <1>1, <1>6 DEF InTime, m
<1> QED
    BY <1>3, <1>4, <1>5, <1>6

\* What a side writes is of its terms.
LEMMA WrittenTerms ==
    ASSUME TypeOK, Terms, NEW r \in Role, Active(r),
           NEW type \in Type, type = Expected[session[r].phase], Writer(type) = r,
           Welcome(session[r], Written(session[r], type))
    PROVE  /\ MessageTerm(Written(session[r], type), session["maker"].plan)
           /\ Written(session[r], type).projection = "reserved" => session[r].reserved
           /\ session["maker"].phase = "awaiting_reserve_propose" => type = "reserve_propose"
<1> DEFINE m == Written(session[r], type)
           old == session[r].phase
<1>1. m.type = type /\ m.plan = session[r].plan /\ m.tokens = Names(type)
      /\ m.projection = IF session[r].reserved THEN "reserved" ELSE "offered"
    BY DEF Written
<1>2. type # "error" /\ old \in DOMAIN Expected
    BY ExpectedFacts DEF Active
<1>3. (type = "reserve_accept" => session[r].reserved) /\ InTime(m)
    BY <1>2, WelcomeTerms
<1>4. PhaseTerm(r)
    BY DEF Terms, RoleTerms
<1>5. /\ type = "reserve_propose" <=> old = "awaiting_reserve_propose"
      /\ type \notin {"reserve_propose", "reserve_accept"} => old \notin Early
    BY <1>2, ExpectedTable DEF Early
<1> HIDE DEF m, old
<1>6. session[r].reserved <=> type # "reserve_propose"
    BY <1>3, <1>4, <1>5 DEF PhaseTerm, old
<1>7. ASSUME type # "reserve_propose" PROVE session[r].plan = session["maker"].plan
    <2>1. CASE r = "maker"
        BY <2>1
    <2>2. CASE r = "taker"
        <3>1. type # "reserve_accept"
            BY <2>2 DEF Writer, Author
        <3>2. session["taker"].projection = "reserved"
            BY <2>2, <3>1, <1>7, <1>4, <1>5 DEF PhaseTerm, old
        <3> QED
            BY <2>2, <3>2 DEF Terms, PlanTerms
    <2> QED
        BY <2>1, <2>2 DEF Role
<1>8. MessageTerm(m, session["maker"].plan)
    BY <1>1, <1>3, <1>6, <1>7 DEF MessageTerm
<1>9. ASSUME session["maker"].phase = "awaiting_reserve_propose", type # "reserve_propose" PROVE FALSE
    <2>1. session["taker"].projection = "offered"
        BY <1>9 DEF Terms, PlanTerms
    <2>2. r = "maker"
        <3> SUFFICES ASSUME r = "taker" PROVE FALSE
            BY DEF Role
        <3>1. type # "reserve_accept"
            BY DEF Writer, Author
        <3> QED
            BY <2>1, <3>1, <1>4, <1>5, <1>9 DEF PhaseTerm, old
    <2> QED
        BY <2>2, <1>5, <1>9 DEF old
<1> QED
    BY <1>1, <1>6, <1>8, <1>9 DEF m

LEMMA StageTerms ==
    ASSUME TypeOK, Story, Terms, NEW r \in Role, Stage(r)
    PROVE  Terms'
<1> DEFINE type == Expected[session[r].phase]
           m == Written(session[r], type)
           staged == [message |-> m, route |-> "advertised"]
           s == [session[r] EXCEPT !.outbox = staged]
<1>1. /\ session[r].outbox = None /\ Active(r) /\ type \in Type /\ Writer(type) = r
    BY PlanStage DEF Stage
<1>2. m \in Message /\ m.type = type
    BY <1>1, WrittenIsMessage DEF Written
<1>3. Save(r, s) /\ UNCHANGED <<clock, sent>> /\ Welcome(session[r], m)
    BY DEF Stage
<1>4. /\ MessageTerm(m, session["maker"].plan)
      /\ m.projection = "reserved" => session[r].reserved
      /\ session["maker"].phase = "awaiting_reserve_propose" => type = "reserve_propose"
    BY <1>1, <1>3, WrittenTerms
\* Nothing was polled: the plan would be to validate it.
<1>5. session[r].incoming = None
    BY <1>1 DEF Stage, Plan
<1> HIDE DEF m, type
<1>6. staged.message = m /\ staged # None
    BY <1>2, NoneAssumption DEF Outbox
<1> HIDE DEF staged
<1>7. /\ s.outbox = staged /\ s.incoming = None /\ s.phase = session[r].phase
      /\ s.projection = session[r].projection /\ s.tokens = session[r].tokens
      /\ s.plan = session[r].plan /\ s.reserved = session[r].reserved
    BY <1>5 DEF TypeOK, Session
<1>8. session'[r] = s /\ session'[Other(r)] = session[Other(r)]
    BY <1>3, Roles DEF Save, TypeOK
<1> HIDE DEF s
<1>9. PhaseTerm(r)' /\ StagedTerm(r)' /\ PolledTerm(r)'
    <2>1. PhaseTerm(r)
        BY DEF Terms, RoleTerms
    <2>2. PhaseTerm(r)' /\ Active(r)'
        BY <2>1, <1>1, <1>7, <1>8 DEF PhaseTerm, Active
    <2> QED
        BY <2>2, <1>4, <1>6, <1>7, <1>8 DEF StagedTerm, PolledTerm
<1>10. RoleTerms'
    <2>1. PhaseTerm(Other(r))' /\ StagedTerm(Other(r))' /\ PolledTerm(Other(r))'
        BY <1>3, <1>8, Roles, SessionAlone DEF Terms, RoleTerms
    <2> QED
        BY <2>1, <1>9 DEF RoleTerms, Role, Other
<1>11. Proper' \subseteq Proper \cup {m}
    BY <1>3, <1>6, <1>7, <1>8 DEF Proper, Says, Role, Other
<1>12. /\ \A p \in Role : session'[p].plan = session[p].plan /\ session'[p].phase = session[p].phase
                         /\ session'[p].projection = session[p].projection
    BY <1>7, <1>8 DEF Role, Other
<1>13. MessageTerms'
    BY <1>3, <1>4, <1>11, <1>12, Roles DEF Terms, MessageTerms, MessageTerm, InTime
<1>14. PlanTerms'
    BY <1>2, <1>4, <1>11, <1>12, Roles DEF Terms, PlanTerms
<1> QED
    BY <1>10, <1>13, <1>14 DEF Terms

-----------------------------------------------------------------------------
(* What is polled *)

LEMMA PlanPoll ==
    ASSUME NEW r \in Role, TypeOK, Plan(r) = "poll_inbox"
    PROVE  session[r].outbox = None /\ session[r].incoming = None /\ Active(r)
<1>1. session[r].phase \in Phase
    BY DEF TypeOK, Session
<1>2. session[r].outbox = None /\ session[r].incoming = None /\ PhasePlan(r) = "poll_inbox"
    BY DEF Plan
<1>3. session[r].phase \in DOMAIN Expected
    BY <1>1, <1>2 DEF PhasePlan, Phase
<1> QED
    BY <1>2, <1>3 DEF Active

\* What opens is the message that the phase expects, and of the terms it expects.
LEMMA OpenIsWelcome ==
    ASSUME TypeOK, Story, Terms, NEW r \in Role, Active(r), NEW m \in sent, Opens(r, m)
    PROVE  Welcome(session[r], m)
<1> DEFINE s == session[r]
           old == session[r].phase
<1>1. /\ m.past = Accepted(r) /\ m.past = s.accepted /\ Recipient(m.type) = r
      /\ m.projection = "offered" => old = "awaiting_settlement_ack" \/ (old = "awaiting_reserve_accept" /\ r = "taker") \/ ~s.reserved
      /\ Author(m.type) = IF r = "taker" /\ old = "awaiting_reserve_accept" THEN "order" ELSE Other(r)
    BY DEF Opens, Unwraps, Accepted
<1>2. PhaseTerm(r) /\ old \in DOMAIN Expected
    BY DEF Terms, RoleTerms, Active
<1>3. CASE m.type = "error"
    <2>1. r = "taker" /\ old = "awaiting_reserve_accept"
        BY <1>1, <1>3 DEF Author, Role, Other
    <2>2. m.projection = "offered" /\ s.projection = "offered"
        BY <1>2, <1>3, <2>1 DEF Terms, MessageTerms, PhaseTerm, Active, Early
    <2> QED
        BY <1>1, <1>3, <2>1, <2>2 DEF Welcome, Fits, ErrorFits, Common
<1>4. CASE m.type # "error"
    <2>1. m \in Proper /\ m.type \in Type
        BY <1>4, Typed DEF Proper
    <2>2. m.type = Expected[old]
        BY <1>1, <2>1 DEF Story, Places, NextIsExpected
    <2>3. MessageTerm(m, session["maker"].plan)
        BY <2>1 DEF Terms, MessageTerms
    <2>4. m.type # "reserve_propose"
        BY <1>1 DEF Recipient, Role
    <2>5. m.projection = "reserved" /\ m.tokens = Names(m.type) /\ m.plan = session["maker"].plan /\ InTime(m)
        BY <2>3, <2>4 DEF MessageTerm
    <2>6. CASE m.type = "reserve_accept"
        <3>1. old = "awaiting_reserve_accept"
            BY <1>2, <2>2, <2>6, ExpectedTable
        <3>2. s.projection = "offered"
            BY <1>2, <3>1 DEF PhaseTerm, Active, Early
        <3> QED
            BY <1>1, <1>2, <2>2, <2>5, <2>6, <3>2 DEF Welcome, Fits, AcceptFits, Common, InTime
    <2>7. CASE m.type # "reserve_accept"
        <3>1. old \notin Early
            BY <1>2, <2>2, <2>4, <2>7, ExpectedTable DEF Early
        <3>2. s.projection = "reserved" /\ s.tokens = Holds(old)
            BY <1>2, <3>1 DEF PhaseTerm, Active
        <3>3. Common(s, m)
            BY <1>1, <2>5, <3>2 DEF Common
        <3>4. s.plan = session["maker"].plan
            <4>1. CASE r = "taker"
                BY <3>2, <4>1 DEF Terms, PlanTerms
            <4>2. CASE r = "maker"
                BY <4>2
            <4> QED
                BY <4>1, <4>2 DEF Role
        <3>5. Fits(s, m)
            <4>1. CASE m.type = "session_ack"
                BY <3>2, <3>3, <4>1 DEF Fits, SessionAckFits
            <4>2. CASE m.type \in {"base_lock", "quote_lock"}
                BY <2>5, <3>3, <3>4, <4>2 DEF Fits, LockFits, LockTerms, InTime
            <4>3. CASE m.type \in {"base_lock_ack", "quote_lock_ack"}
                <5>1. m.tokens \subseteq s.tokens
                    BY <1>2, <2>2, <2>5, <3>2, <4>3, ExpectedTable DEF Holds, Early, Names, Leg
                <5> QED
                    BY <3>3, <4>3, <5>1 DEF Fits, LockAckFits
            <4>4. CASE m.type = "claim_notice"
                <5>1. m.tokens \subseteq s.tokens
                    BY <1>2, <2>2, <2>5, <3>2, <4>4, ExpectedTable DEF Holds, Early, Names, Leg
                <5> QED
                    BY <2>5, <3>3, <3>4, <4>4, <5>1 DEF Fits, ClaimFits, InTime
            <4>5. CASE m.type = "fill_request"
                <5>1. m.tokens = s.tokens
                    BY <1>2, <2>2, <2>5, <3>2, <4>5, ExpectedTable DEF Holds, Early, Names, Leg
                <5> QED
                    BY <3>3, <4>5, <5>1 DEF Fits, FillRequestFits
            <4> QED
                BY <1>4, <2>1, <2>4, <2>7, <4>1, <4>2, <4>3, <4>4, <4>5, TypeTable
        <3> QED
            BY <1>2, <2>2, <3>5 DEF Welcome
    <2> QED
        BY <2>6, <2>7
<1> QED
    BY <1>3, <1>4

-----------------------------------------------------------------------------
(* Every action keeps the terms *)

LEMMA CalmSession ==
    ASSUME TypeOK, Story, Terms, NEW r \in Role, NEW s, Save(r, s), UNCHANGED <<clock, sent>>,
           s.projection = session[r].projection, s.tokens = session[r].tokens,
           s.plan = session[r].plan, s.phase \in {session[r].phase, "refunding", "failed"},
           s.reserved = session[r].reserved
             \/ (r = "maker" /\ session[r].phase = "awaiting_reserve_accept" /\ s.reserved = TRUE),
           s.outbox = session[r].outbox
             \/ (s.outbox # None /\ session[r].outbox # None /\ s.outbox.message = session[r].outbox.message),
           StagedTerm(r)', PolledTerm(r)'
    PROVE  Terms'
<1>1. session'[r] = s /\ session'[Other(r)] = session[Other(r)]
    BY Roles DEF Save, TypeOK
<1>2. Says(r)' = Says(r) /\ Says(Other(r))' = Says(Other(r))
    BY <1>1 DEF Says
<1>3. StagedTerm(Other(r))' /\ PolledTerm(Other(r))'
    BY <1>1, Roles, SessionAlone DEF Terms, RoleTerms
<1>4. \A p \in Role : p = r \/ p = Other(r)
    BY DEF Role, Other
<1>5. Calm
    BY <1>1, <1>2, <1>3, <1>4 DEF Calm
<1> QED
    BY <1>5, CalmStep DEF Story

LEMMA PlanIdle ==
    ASSUME NEW r \in Role, TypeOK,
           Plan(r) \in {"stage_order_reserve", "prepare_lock", "prepare_refund"}
    PROVE  session[r].outbox = None /\ session[r].incoming = None
BY DEF Plan

LEMMA PlanReserve ==
    ASSUME NEW r \in Role, TypeOK, Plan(r) = "stage_order_reserve"
    PROVE  r = "maker" /\ session[r].phase = "awaiting_reserve_accept"
<1>1. session[r].phase \in Phase
    BY DEF TypeOK, Session
<1>2. PhasePlan(r) = "stage_order_reserve"
    BY DEF Plan
<1>3. session[r].phase = "awaiting_reserve_accept" /\ Writer(Expected[session[r].phase]) = r
    BY <1>1, <1>2 DEF PhasePlan, Phase
<1>4. Writer("reserve_accept") = "maker"
    BY DEF Writer, Author
<1> QED
    BY <1>3, <1>4, ExpectedTable

LEMMA ReserveTerms ==
    ASSUME TypeOK, Story, Terms, NEW r \in Role, Reserve(r)
    PROVE  Terms'
<1> DEFINE s == [session[r] EXCEPT !.reserved = TRUE]
<1>1. session[r].outbox = None /\ session[r].incoming = None
      /\ r = "maker" /\ session[r].phase = "awaiting_reserve_accept"
    BY PlanIdle, PlanReserve DEF Reserve
<1>2. /\ s.projection = session[r].projection /\ s.tokens = session[r].tokens
      /\ s.plan = session[r].plan /\ s.phase = session[r].phase /\ s.reserved = TRUE
      /\ s.outbox = None /\ s.incoming = None
    BY <1>1 DEF TypeOK, Session
<1>3. Save(r, s) /\ UNCHANGED <<clock, sent>> /\ session'[r] = s
    BY DEF Reserve, Save, TypeOK
<1> HIDE DEF s
<1>4. StagedTerm(r)' /\ PolledTerm(r)'
    BY <1>2, <1>3 DEF StagedTerm, PolledTerm
<1> QED
    BY <1>1, <1>2, <1>3, <1>4, CalmSession

LEMMA LockOrRefundTerms ==
    ASSUME TypeOK, Story, Terms, NEW r \in Role, Lock(r) \/ Refund(r)
    PROVE  Terms'
<1>1. session[r].outbox = None /\ session[r].incoming = None
    BY PlanIdle DEF Lock, Refund
<1>2. PICK s \in {[session[r] EXCEPT !.locked = TRUE], [session[r] EXCEPT !.refunded = TRUE]} : Save(r, s)
    BY DEF Lock, Refund
<1>3. /\ s.projection = session[r].projection /\ s.tokens = session[r].tokens
      /\ s.plan = session[r].plan /\ s.phase = session[r].phase /\ s.reserved = session[r].reserved
      /\ s.outbox = None /\ s.incoming = None
    BY <1>1 DEF TypeOK, Session
<1>4. UNCHANGED <<clock, sent>> /\ session'[r] = s
    BY <1>2 DEF Lock, Refund, Save, TypeOK
<1>5. StagedTerm(r)' /\ PolledTerm(r)'
    BY <1>3, <1>4 DEF StagedTerm, PolledTerm
<1> QED
    BY <1>1, <1>2, <1>3, <1>4, <1>5, CalmSession

LEMMA EnterRecoveryTerms ==
    ASSUME TypeOK, Story, Terms, NEW r \in Role, EnterRecovery(r)
    PROVE  Terms'
<1> DEFINE over == IF session[r].locked THEN "refunding" ELSE "failed"
           s == [session[r] EXCEPT !.phase = over]
<1>1. \/ session[r].outbox = None /\ session[r].incoming = None
      \/ session[r].outbox # None /\ Unsafe(session[r])
    BY DEF EnterRecovery, Plan
<1>2. session[r].incoming = None
    BY <1>1 DEF Terms, RoleTerms, StagedTerm
<1>3. over \in {"refunding", "failed"}
    OBVIOUS
<1>4. Save(r, s) /\ UNCHANGED <<clock, sent>> /\ session'[r] = s
    BY DEF EnterRecovery, Save, TypeOK
<1> HIDE DEF over
<1>5. /\ s.projection = session[r].projection /\ s.tokens = session[r].tokens
      /\ s.plan = session[r].plan /\ s.phase = over /\ s.reserved = session[r].reserved
      /\ s.outbox = session[r].outbox /\ s.incoming = None
    BY <1>2 DEF TypeOK, Session
<1> HIDE DEF s
<1>6. PolledTerm(r)'
    BY <1>4, <1>5 DEF PolledTerm
<1>7. StagedTerm(r)'
    <2>1. Unsafe(session[r]) => Unsafe(session[r])'
        BY <1>4, <1>5 DEF Unsafe, Late
    <2> QED
        BY <1>1, <1>4, <1>5, <2>1 DEF Terms, RoleTerms, StagedTerm
<1> QED
    BY <1>3, <1>4, <1>5, <1>6, <1>7, CalmSession

LEMMA PollTerms ==
    ASSUME TypeOK, Story, Terms, NEW r \in Role, Poll(r)
    PROVE  Terms'
<1>1. PICK m \in sent : Opens(r, m) /\ Save(r, [session[r] EXCEPT !.incoming = m])
    BY DEF Poll
<1> DEFINE s == [session[r] EXCEPT !.incoming = m]
<1>2. session[r].outbox = None /\ Active(r)
    BY PlanPoll DEF Poll
<1>3. Welcome(session[r], m)
    BY <1>1, <1>2, OpenIsWelcome
<1>4. /\ s.projection = session[r].projection /\ s.tokens = session[r].tokens
      /\ s.plan = session[r].plan /\ s.phase = session[r].phase /\ s.reserved = session[r].reserved
      /\ s.outbox = None /\ s.incoming = m /\ s.accepted = session[r].accepted
    BY <1>2 DEF TypeOK, Session
<1>5. Save(r, s) /\ UNCHANGED <<clock, sent>> /\ session'[r] = s
    BY <1>1 DEF Poll, Save, TypeOK
<1> HIDE DEF s
<1>6. StagedTerm(r)'
    BY <1>4, <1>5 DEF StagedTerm
<1>7. PolledTerm(r)'
    <2>1. Opens(r, m)'
        BY <1>1, <1>4, <1>5 DEF Opens, Unwraps
    <2>2. Welcome(s, m)
        BY <1>3, <1>4 DEF Welcome, Fits, Common, ErrorFits, ProposalFits, AcceptFits, SessionAckFits,
           LockFits, LockTerms, LockAckFits, ClaimFits, FillRequestFits
    <2> QED
        BY <2>1, <2>2, <1>4, <1>5 DEF PolledTerm
<1> QED
    BY <1>2, <1>4, <1>5, <1>6, <1>7, CalmSession

LEMMA RerouteTerms ==
    ASSUME TypeOK, Story, Terms, NEW r \in Role, Reroute(r)
    PROVE  Terms'
<1>1. session[r].outbox # None /\ session[r].outbox \in Outbox
    BY PlanDeliver DEF Reroute, TypeOK, Session
<1> DEFINE staged == [session[r].outbox EXCEPT !.route = "listed"]
           s == [session[r] EXCEPT !.outbox = staged]
<1>2. staged \in Outbox /\ staged.message = session[r].outbox.message
    BY <1>1 DEF Outbox
<1>3. staged # None
    BY <1>2, NoneAssumption
<1>4. s = [session[r] EXCEPT !.outbox.route = "listed"]
    OBVIOUS
<1> HIDE DEF staged
<1>5. Save(r, s) /\ UNCHANGED <<clock, sent>> /\ session'[r] = s
    BY <1>4 DEF Reroute, Save, TypeOK
<1>6. /\ s.projection = session[r].projection /\ s.tokens = session[r].tokens
      /\ s.plan = session[r].plan /\ s.phase = session[r].phase /\ s.reserved = session[r].reserved
      /\ s.outbox = staged /\ s.incoming = session[r].incoming
    BY DEF TypeOK, Session
<1> HIDE DEF s
<1>7. session[r].incoming = None
    BY <1>1 DEF Terms, RoleTerms, StagedTerm
<1>8. PolledTerm(r)'
    BY <1>5, <1>6, <1>7 DEF PolledTerm
<1>9. StagedTerm(r)'
    <2>1. Unsafe(session[r]) => Unsafe(session[r])'
        BY <1>2, <1>5, <1>6 DEF Unsafe, Late
    <2> QED
        BY <1>1, <1>2, <1>5, <1>6, <2>1 DEF Terms, RoleTerms, StagedTerm, Active
<1> QED
    BY <1>1, <1>2, <1>3, <1>5, <1>6, <1>8, <1>9, CalmSession

\* What is unsafe to deliver stays so.
LEMMA TickTerms ==
    ASSUME TypeOK, Story, Terms, Tick
    PROVE  Terms'
<1>1. clock \in Nat /\ clock' = clock + 1 /\ UNCHANGED <<session, sent>>
    BY DEF Tick, TypeOK
<1>2. ASSUME NEW p \in Role PROVE StagedTerm(p)' /\ PolledTerm(p)'
    <2>1. session[p].plan \in Nat
        BY DEF TypeOK, Session
    <2>2. PolledTerm(p)'
        BY <1>1 DEF Terms, RoleTerms, PolledTerm, Opens, Unwraps
    <2>3. StagedTerm(p)'
        <3>1. CASE session[p].outbox = None
            BY <1>1, <3>1 DEF StagedTerm
        <3>2. CASE session[p].outbox # None
            <4>1. session[p].outbox.message.expires \in Nat
                BY <3>2 DEF TypeOK, Session, Outbox, Message
            <4>2. \A cutoff \in Nat : Late(session[p], cutoff) => Late(session[p], cutoff)'
                BY <1>1, <2>1 DEF Late
            <4>3. Unsafe(session[p]) => Unsafe(session[p])'
                BY <1>1, <4>1, <4>2, Constants DEF Unsafe
            <4> QED
                BY <1>1, <3>2, <4>3 DEF Terms, RoleTerms, StagedTerm, Active
        <3> QED
            BY <3>1, <3>2
    <2> QED
        BY <2>2, <2>3
<1>3. Calm
    BY <1>1, <1>2 DEF Calm, Says
<1> QED
    BY <1>3, CalmStep DEF Story

LEMMA RefuseTerms ==
    ASSUME TypeOK, Story, Terms, Refuse
    PROVE  Terms'
<1>1. PICK m \in Proposal :
        sent' = sent \cup {[m EXCEPT !.id = issued + 1, !.type = "error", !.past = <<m.id>>,
                                     !.tokens = {}, !.sentAt = clock]}
    BY DEF Refuse
<1> DEFINE e == [m EXCEPT !.id = issued + 1, !.type = "error", !.past = <<m.id>>,
                          !.tokens = {}, !.sentAt = clock]
<1>2. m \in sent /\ m.type = "reserve_propose" /\ m \in Message /\ m \in Proper
    BY Typed DEF Proposal, Proper
<1>3. m.projection = "offered"
    BY <1>2 DEF Terms, MessageTerms, MessageTerm
<1>4. e.type = "error" /\ e.projection = "offered"
    BY <1>2, <1>3 DEF Message
<1> HIDE DEF e
<1>5. sent' = sent \cup {e} /\ UNCHANGED <<clock, session>>
    BY <1>1 DEF Refuse, e
<1>6. \A p \in Role : StagedTerm(p)' /\ PolledTerm(p)'
    BY <1>5, SessionAlone DEF Terms, RoleTerms
<1>7. Calm
    BY <1>4, <1>5, <1>6 DEF Calm, Says
<1> QED
    BY <1>7, CalmStep DEF Story

LEMMA DeliverTerms ==
    ASSUME TypeOK, Story, Terms, NEW r \in Role, Deliver(r)
    PROVE  Terms'
<1> DEFINE m == session[r].outbox.message
           advanced == Advance(session[r], m)
           s == [advanced EXCEPT !.outbox = None]
<1>1. session[r].outbox # None /\ session[r].outbox \in Outbox
    BY PlanDeliver DEF Deliver, TypeOK, Session
<1>2. m \in Message /\ Says(r) = {m}
    BY <1>1 DEF Outbox, Says
<1>3. m \in Proper /\ m.past = Accepted(r) /\ Writer(m.type) = r
    BY <1>2, SaidIsProper DEF Story, StagedContinues
<1>4. sent' = sent \cup {m} /\ UNCHANGED <<clock, issued>>
    BY DEF Deliver
<1>5. ~Unsafe(session[r])
    BY <1>1 DEF Deliver, Plan
<1>6. Active(r) /\ session[r].incoming = None /\ (m.projection = "reserved" => session[r].reserved)
    BY <1>1, <1>5 DEF Terms, RoleTerms, StagedTerm
<1>7. CASE Save(r, Said(session[r]))
    <2>1. /\ advanced \in Session /\ advanced.accepted = Append(session[r].accepted, m.id)
          /\ advanced.phase = After[m.type] /\ advanced.incoming = session[r].incoming
        BY <1>2, AdvanceTypes
    <2>2. /\ advanced.projection = m.projection /\ advanced.plan = session[r].plan
          /\ advanced.tokens = session[r].tokens \cup Commits(m.type)
          /\ advanced.reserved = session[r].reserved
        BY DEF Advance, TypeOK, Session
    <2>3. Save(r, s)
        BY <1>7 DEF Said
    <2> HIDE DEF m, advanced
    <2>4. /\ s.accepted = Append(session[r].accepted, m.id) /\ s.outbox = None
          /\ s.phase = After[m.type] /\ s.incoming = None
          /\ s.projection = m.projection /\ s.plan = session[r].plan
          /\ s.tokens = session[r].tokens \cup Commits(m.type)
          /\ s.reserved = session[r].reserved
        BY <1>6, <2>1, <2>2 DEF Session
    <2>5. session'[r] = s /\ session'[Other(r)] = session[Other(r)]
        BY <2>3, Roles DEF Save, TypeOK
    <2> HIDE DEF s
    <2>6. ~(r = "taker" /\ m.type = "reserve_accept")
        BY <1>3 DEF Writer, Author
    <2>7. Takes(r, m)
        BY <1>2, <1>3, <1>4, <2>4, <2>5 DEF Takes, Path, Accepted
    <2>8. session[r].reserved \in BOOLEAN
        BY DEF TypeOK, Session
    <2>9. Settles(r, m)
        BY <1>4, <2>4, <2>5, <2>6, <2>8 DEF Settles
    <2>10. m.type = "reserve_accept" => session[r].reserved
        BY <1>3, <1>6 DEF Terms, MessageTerms, MessageTerm
    <2> QED
        BY <1>3, <1>6, <2>7, <2>9, <2>10, SettlesStep
<1>8. CASE UNCHANGED session
    <2>1. \A p \in Role : StagedTerm(p)' /\ PolledTerm(p)'
        BY <1>4, <1>8, SessionAlone DEF Terms, RoleTerms
    <2>2. Calm
        BY <1>3, <1>4, <1>8, <2>1 DEF Calm, Says
    <2> QED
        BY <2>2, CalmStep DEF Story
<1> QED
    BY <1>7, <1>8 DEF Deliver

LEMMA ValidateTerms ==
    ASSUME TypeOK, Story, Terms, NEW r \in Role, Validate(r)
    PROVE  Terms'
<1> DEFINE m == session[r].incoming
           brought == session[r].reserved \/ m.type = "reserve_accept"
           plan == IF m.type = "reserve_accept" THEN m.plan ELSE session[r].plan
           advanced == Advance(session[r], m)
           s == [advanced EXCEPT !.incoming = None, !.reserved = brought, !.plan = plan]
<1>1. session[r].outbox = None /\ m # None /\ m \in Message /\ m \in sent
    <2>1. session[r].outbox = None /\ m # None
        BY PlanValidate DEF Validate
    <2>2. session[r].incoming \in Message \cup {None}
        BY DEF TypeOK, Session
    <2> QED
        BY <2>1, <2>2 DEF Story, PolledWasSent
<1>2. /\ m.past = Accepted(r) /\ Recipient(m.type) = r
      /\ m.type = "error" \/ Active(r)
    BY DEF Validate, Opens, Unwraps, Welcome, Accepted, Active
<1>3. /\ advanced \in Session /\ advanced.accepted = Append(session[r].accepted, m.id)
      /\ advanced.phase = After[m.type] /\ advanced.outbox = session[r].outbox
    BY <1>1, AdvanceTypes
<1>4. /\ advanced.projection = m.projection
      /\ advanced.tokens = session[r].tokens \cup Commits(m.type)
    BY DEF Advance, TypeOK, Session
<1>5. Save(r, s) /\ UNCHANGED <<clock, sent, issued>>
    <2>1. advanced.reserved = session[r].reserved /\ advanced.plan = session[r].plan
        BY DEF Advance, TypeOK, Session
    <2> QED
        BY <2>1 DEF Validate
<1> HIDE DEF advanced
<1>6. /\ s.accepted = Append(session[r].accepted, m.id) /\ s.outbox = None
      /\ s.phase = After[m.type] /\ s.incoming = None /\ s.projection = m.projection
      /\ s.tokens = session[r].tokens \cup Commits(m.type)
      /\ s.reserved = brought /\ s.plan = plan
    BY <1>1, <1>3, <1>4 DEF Session
<1>7. session'[r] = s /\ session'[Other(r)] = session[Other(r)]
    BY <1>5, Roles DEF Save, TypeOK
<1> HIDE DEF s
<1>8. CASE m.type # "error"
    <2>1. m \in Proper /\ Says(r) = {}
        BY <1>1, <1>8 DEF Proper, Says
    <2>2. sent \cup {m} = sent
        BY <1>1
    <2>3. m.type = "reserve_accept" => r = "taker"
        BY <1>2 DEF Recipient, Author
    <2>4. session[r].reserved \in BOOLEAN
        BY DEF TypeOK, Session
    <2>5. brought = (session[r].reserved \/ (r = "taker" /\ m.type = "reserve_accept"))
        BY <2>3, <2>4
    <2> HIDE DEF m, brought
    <2>6. Takes(r, m)
        BY <1>1, <1>2, <1>5, <1>6, <1>7, <2>1, <2>2 DEF Takes, Path, Accepted
    <2>7. Settles(r, m)
        BY <1>5, <1>6, <1>7, <2>2, <2>3, <2>5 DEF Settles
    <2> QED
        BY <1>2, <1>8, <2>1, <2>3, <2>6, <2>7, SettlesStep, Roles
\* A refused taker fails, and keeps no terms but its plan.
<1>9. CASE m.type = "error"
    <2>1. r = "taker" /\ m.projection = "offered" /\ s.phase = "failed"
        BY <1>1, <1>2, <1>6, <1>9, AfterFacts DEF Recipient, Author, Role, Terms, MessageTerms
    <2>2. session'["maker"] = session["maker"] /\ session'["taker"] = s
        BY <1>7, <2>1, Roles
    <2>3. PhaseTerm(r)' /\ StagedTerm(r)' /\ PolledTerm(r)'
        BY <1>6, <1>7, <2>1, PhaseTable DEF PhaseTerm, StagedTerm, PolledTerm, Active
    <2>4. PhaseTerm("maker")' /\ StagedTerm("maker")' /\ PolledTerm("maker")'
        BY <1>5, <2>2, Roles, SessionAlone DEF Terms, RoleTerms
    <2>5. Proper' = Proper
        BY <1>1, <1>5, <1>6, <2>1, <2>2 DEF Proper, Says
    <2>6. RoleTerms'
        BY <2>1, <2>3, <2>4 DEF RoleTerms, Role
    <2>7. MessageTerms'
        BY <1>5, <2>2, <2>5 DEF Terms, MessageTerms, MessageTerm, InTime
    <2>8. PlanTerms'
        BY <1>6, <2>1, <2>2, <2>5 DEF Terms, PlanTerms
    <2> QED
        BY <2>6, <2>7, <2>8 DEF Terms
<1> QED
    BY <1>8, <1>9

LEMMA MakerStartsTerms ==
    ASSUME TypeOK, Story, Terms, MakerStarts
    PROVE  Terms'
<1>1. PICK m \in Proposal :
        Save("maker", [Advance(session["maker"], m) EXCEPT !.plan = clock])
    BY DEF MakerStarts
<1> DEFINE advanced == Advance(session["maker"], m)
           s == [advanced EXCEPT !.plan = clock]
<1>2. m \in sent /\ m.type = "reserve_propose" /\ m \in Message /\ m \in Proper
    BY Typed DEF Proposal, Proper
<1>3. session["maker"].phase = "awaiting_reserve_propose" /\ UNCHANGED <<clock, sent, issued>>
    BY DEF MakerStarts
<1>4. m.past = Accepted("maker") /\ Active("maker")
    BY <1>2, <1>3, Roles, ExpectedFacts DEF Story, Places, StartsEmpty, Active
\* It has staged and polled nothing yet.
<1>5. session["maker"].outbox = None
    <2> SUFFICES ASSUME NEW k \in Says("maker") PROVE FALSE
        BY DEF Says
    <2>1. k \in Proper /\ k.past = Accepted("maker") /\ Writer(k.type) = "maker"
        BY Roles, SaidIsProper DEF Story, StagedContinues
    <2>2. k.type = Expected["awaiting_reserve_propose"]
        BY <2>1, <1>3, <1>4, Roles DEF Story, Places, NextIsExpected
    <2> QED
        BY <2>1, <2>2, ExpectedTable, Writers
<1>6. session["maker"].incoming = None
    <2> DEFINE k == session["maker"].incoming
    <2> SUFFICES ASSUME k # None PROVE FALSE
        OBVIOUS
    <2>1. Opens("maker", k) /\ Welcome(session["maker"], k)
        BY Roles DEF Terms, RoleTerms, PolledTerm
    <2>2. k.type = "error" \/ k.type = "reserve_propose"
        BY <1>3, <2>1, ExpectedTable DEF Welcome
    <2>3. Recipient(k.type) = "maker"
        BY <2>1 DEF Opens, Unwraps
    <2> QED
        BY <2>2, <2>3 DEF Recipient, Author
<1>7. /\ advanced \in Session /\ advanced.accepted = Append(session["maker"].accepted, m.id)
      /\ advanced.phase = After[m.type] /\ advanced.outbox = session["maker"].outbox
      /\ advanced.incoming = session["maker"].incoming
    BY <1>2, Roles, AdvanceTypes
<1>8. /\ advanced.projection = m.projection /\ advanced.reserved = session["maker"].reserved
      /\ advanced.tokens = session["maker"].tokens \cup Commits(m.type)
    BY Roles DEF Advance, TypeOK, Session
<1> HIDE DEF advanced
<1>9. /\ s.accepted = Append(session["maker"].accepted, m.id) /\ s.outbox = None
      /\ s.phase = After[m.type] /\ s.incoming = None /\ s.projection = m.projection
      /\ s.tokens = session["maker"].tokens \cup Commits(m.type)
      /\ s.reserved = session["maker"].reserved
    BY <1>5, <1>6, <1>7, <1>8 DEF Session
<1>10. session'["maker"] = s /\ session'[Other("maker")] = session[Other("maker")]
    BY <1>1, Roles DEF Save, TypeOK, advanced
<1> HIDE DEF s
<1>11. sent \cup {m} = sent /\ Says("maker") = {}
    BY <1>2, <1>5 DEF Says
<1>12. Takes("maker", m)
    BY <1>2, <1>3, <1>4, <1>9, <1>10, <1>11 DEF Takes, Path, Accepted
<1>13. session["maker"].reserved \in BOOLEAN
    BY Roles DEF TypeOK, Session
<1>14. Settles("maker", m)
    BY <1>3, <1>9, <1>10, <1>11, <1>13 DEF Settles
<1> QED
    BY <1>2, <1>4, <1>12, <1>14, Roles, SettlesStep

LEMMA StutterTerms ==
    ASSUME TypeOK, Story, Terms, UNCHANGED vars
    PROVE  Terms'
<1>1. \A p \in Role : StagedTerm(p)' /\ PolledTerm(p)'
    BY SessionAlone DEF Terms, RoleTerms, vars
<1>2. Calm
    BY <1>1 DEF Calm, Says, vars
<1> QED
    BY <1>2, CalmStep DEF Story

LEMMA InitTerms ==
    ASSUME Init
    PROVE  Terms
<1>0. /\ New.outbox = None /\ New.incoming = None
      /\ \A phase : Old(phase).outbox = None /\ Old(phase).incoming = None
    BY DEF New, Old
<1>1. sent = {} /\ \A r \in Role : session[r].outbox = None /\ session[r].incoming = None
    BY <1>0 DEF Init
<1>2. Proper = {}
    BY <1>1, Roles DEF Proper, Says
<1>3. CASE session = [r \in Role |-> New]
    <2>1. \A r \in Role : /\ session[r].phase = "awaiting_reserve_propose" /\ session[r].projection = "offered"
                          /\ session[r].tokens = {} /\ ~session[r].reserved
        BY <1>3 DEF New
    <2>2. RoleTerms
        BY <1>1, <2>1 DEF RoleTerms, PhaseTerm, StagedTerm, PolledTerm, Early, Holds
    <2> QED
        BY <1>1, <1>2, <2>1, <2>2, Roles DEF Terms, MessageTerms, PlanTerms
<1>4. ASSUME NEW phase \in Resumed, session = [r \in Role |-> Old(phase)]
      PROVE  Terms
    <2>1. phase \in {"awaiting_session_ack", "awaiting_quote_lock_ack"}
        BY TranscriptAssumption
    <2>2. \A r \in Role : /\ session[r].phase = phase /\ session[r].projection = "reserved"
                          /\ session[r].tokens = IF phase = "awaiting_session_ack" THEN {} ELSE Leg
                          /\ session[r].reserved /\ session[r].plan = 0
        BY <1>4 DEF Old, New
    <2>3. RoleTerms
        BY <1>1, <2>1, <2>2 DEF RoleTerms, PhaseTerm, StagedTerm, PolledTerm, Early, Holds
    <2> QED
        BY <1>1, <1>2, <2>1, <2>2, <2>3, Roles DEF Terms, MessageTerms, PlanTerms
<1> QED
    BY <1>3, <1>4 DEF Init

LEMMA TermsAreInductive == Inv /\ Terms /\ [Next]_vars => Terms'
<1> SUFFICES ASSUME TypeOK, Story, Terms, [Next]_vars PROVE Terms'
    BY DEF Inv
<1>1. CASE UNCHANGED vars
    BY <1>1, StutterTerms
<1>2. ASSUME NEW r \in Role, Own(r) \/ Deliver(r) \/ Reroute(r) PROVE Terms'
    BY <1>2, ReserveTerms, LockOrRefundTerms, StageTerms, PollTerms, ValidateTerms,
       EnterRecoveryTerms, DeliverTerms, RerouteTerms DEF Own
<1>3. CASE MakerStarts \/ Refuse \/ Tick
    BY <1>3, MakerStartsTerms, RefuseTerms, TickTerms
<1> QED
    BY <1>1, <1>2, <1>3 DEF Next

\* A message that was polled is the one the choreography takes next, and of the terms
\* its receiver knows, for any deadlines: only its expiry or the mint can keep it from
\* being validated.
THEOREM PolledIsAlwaysWelcome == Spec => []PolledIsWelcome
<1>1. Init => Inv /\ Terms
    BY InitInv, InitTerms
<1>2. Inv /\ Terms => PolledIsWelcome
    BY DEF Terms, RoleTerms, PolledTerm, PolledIsWelcome
<1> QED
    BY <1>1, <1>2, InvIsInductive, TermsAreInductive, PTL DEF Spec

-----------------------------------------------------------------------------
(***************************************************************************)
(* Someone is to speak: when both sides poll, one of them has something    *)
(* to read.                                                                *)
(***************************************************************************)

\* A refusal has an ID of its own, and a taker that counts one as said is not active.
RefusalsApart == \A e \in sent : e.type = "error" => \A m \in Proper : m.id # e.id
RefusedIsOver == Refused => ~Active("taker")
Apart == RefusalsApart /\ RefusedIsOver

\* A step that adds nothing to the taker's transcript, and draws at most one ID: of a
\* message, or of a refusal.
Idles ==
    /\ session'["taker"].accepted = session["taker"].accepted
    /\ \/ session'["taker"].phase = session["taker"].phase
       \/ session'["taker"].phase \in {"refunding", "failed"}
    /\ \/ /\ \A m \in Proper' : m \in Proper
          /\ \A e \in sent' : e.type = "error" => e \in sent \/ e.id = issued + 1
       \/ /\ \A m \in Proper' : m \in Proper \/ m.id = issued + 1
          /\ \A e \in sent' : e.type = "error" => e \in sent

LEMMA IdlesApart ==
    ASSUME TypeOK, Story, Apart, Idles
    PROVE  Apart'
<1>1. /\ issued \in Nat
      /\ \A m \in Proper \cup sent : m.id \in Nat /\ m.id <= issued
    BY Typed DEF Story, Fresh, Proper
<1>2. RefusalsApart'
    <2> SUFFICES ASSUME NEW e \in sent', e.type = "error", NEW m \in Proper' PROVE m.id # e.id
        BY DEF RefusalsApart
    <2>1. CASE m \in Proper /\ e \in sent
        BY <2>1 DEF Apart, RefusalsApart
    <2>2. CASE m \in Proper /\ e.id = issued + 1
        BY <2>2, <1>1
    <2>3. CASE m.id = issued + 1 /\ e \in sent
        BY <2>3, <1>1
    <2> QED
        BY <2>1, <2>2, <2>3 DEF Idles
<1>3. RefusedIsOver'
    <2> SUFFICES ASSUME NEW e \in sent', e.type = "error",
                        e.id \in ToSet(session'["taker"].accepted), Active("taker")'
                 PROVE  FALSE
        BY DEF RefusedIsOver, Refused
    <2>1. Active("taker") /\ session'["taker"].accepted = Accepted("taker")
        BY PhaseTable DEF Idles, Active, Accepted
    <2>2. e \notin sent
        BY <2>1 DEF Apart, RefusedIsOver, Refused, Accepted
    <2>3. e.id = issued + 1
        BY <2>2 DEF Idles
    <2>4. Accepted("taker") \in Seq(Nat) /\ Drawn(Accepted("taker"))
        BY Typed, Roles DEF Story, Fresh
    <2>5. PICK i \in 1..Len(Accepted("taker")) : e.id = Accepted("taker")[i]
        BY <2>1, <2>4, <1>1, Elements
    <2> QED
        BY <1>1, <2>3, <2>4, <2>5, ElementOfSeq DEF Drawn
<1> QED
    BY <1>2, <1>3 DEF Apart

\* A message of the choreography becomes part of an active side's transcript.
Grows(r, x) ==
    /\ session'[r].accepted = Append(session[r].accepted, x.id)
    /\ session'[r].outbox \in {session[r].outbox, None}
    /\ session'[Other(r)] = session[Other(r)]
    /\ sent' = sent \cup {x}

LEMMA GrowsApart ==
    ASSUME TypeOK, Story, Apart, NEW r \in Role, NEW x \in Proper, Active(r), Grows(r, x)
    PROVE  Apart'
<1>1. x.type # "error" /\ x.id \in Nat /\ Accepted("taker") \in Seq(Nat)
    BY ProperIsNoError, Typed, Roles DEF Story
<1>2. \A p \in Role : p = r \/ p = Other(r)
    BY DEF Role, Other
<1>3. \A m \in Proper' : m \in Proper
    <2>1. \A p \in Role : Says(p)' \subseteq Says(p)
        BY <1>2 DEF Grows, Says
    <2>2. \A m \in sent' : m.type # "error" => m \in Proper
        BY DEF Grows, Proper
    <2> QED
        BY <2>1, <2>2, Roles DEF Proper
<1>4. \A e \in sent' : e.type = "error" => e \in sent
    BY <1>1 DEF Grows
<1>5. CASE r = "taker"
    <2>1. RefusalsApart'
        BY <1>3, <1>4 DEF Apart, RefusalsApart
    <2>2. ~Refused'
        <3> SUFFICES ASSUME NEW e \in sent', e.type = "error",
                            e.id \in ToSet(session'["taker"].accepted)
                     PROVE  FALSE
            BY DEF Refused
        <3> DEFINE s == Accepted("taker")
        <3>1. session'["taker"].accepted = Append(s, x.id)
            BY <1>5 DEF Grows, Accepted
        <3>2. e \in sent /\ e.id # x.id
            BY <1>4 DEF Apart, RefusalsApart
        <3>3. e.id \notin ToSet(s)
            BY <1>5, <3>2 DEF Apart, RefusedIsOver, Refused, Accepted
        <3>4. Append(s, x.id) \in Seq(Nat) /\ Len(Append(s, x.id)) = Len(s) + 1 /\ Len(s) \in Nat
              /\ Append(s, x.id)[Len(s) + 1] = x.id
              /\ \A i \in 1..Len(s) : Append(s, x.id)[i] = s[i]
            BY <1>1, Appended
        <3>5. PICK i \in 1..(Len(s) + 1) : e.id = Append(s, x.id)[i]
            <4> DEFINE t == Append(s, x.id)
            <4>1. t \in Seq(Nat) /\ Len(t) = Len(s) + 1 /\ e.id \in ToSet(t)
                BY <3>1, <3>4
            <4> HIDE DEF t
            <4>2. ToSet(t) = {t[j] : j \in 1..Len(t)}
                BY <1>1, <4>1, Elements
            <4>3. \E j \in 1..(Len(s) + 1) : e.id = t[j]
                BY <4>1, <4>2
            <4> QED
                BY <4>3 DEF t
        <3>6. ToSet(s) = {s[j] : j \in 1..Len(s)}
            BY <1>1, Elements
        <3> QED
            BY <3>2, <3>3, <3>4, <3>5, <3>6
    <2> QED
        BY <2>1, <2>2 DEF Apart, RefusedIsOver
<1>6. CASE r = "maker"
    <2>1. session'["taker"] = session["taker"]
        BY <1>6, Roles DEF Grows
    <2> QED
        BY <2>1, <1>3, <1>4, IdlesApart DEF Idles
<1> QED
    BY <1>5, <1>6 DEF Role

\* A session's own step that reads and stages nothing.
LEMMA IdleSession ==
    ASSUME TypeOK, Story, Apart, NEW r \in Role, NEW s, Save(r, s), UNCHANGED sent,
           s.accepted = session[r].accepted,
           s.phase \in {session[r].phase, "refunding", "failed"},
           s.outbox = session[r].outbox
             \/ (s.outbox # None /\ session[r].outbox # None /\ s.outbox.message = session[r].outbox.message)
    PROVE  Apart'
<1>1. session'[r] = s /\ session'[Other(r)] = session[Other(r)]
    BY Roles DEF Save, TypeOK
<1>2. Says(r)' = Says(r) /\ Says(Other(r))' = Says(Other(r))
    BY <1>1 DEF Says
<1>3. \A p \in Role : p = r \/ p = Other(r)
    BY DEF Role, Other
<1>4. Proper' = Proper
    BY <1>2, <1>3, Roles DEF Proper
<1>5. Idles
    BY <1>1, <1>3, <1>4, Roles DEF Idles
<1> QED
    BY <1>5, IdlesApart

LEMMA IdleStepsApart ==
    ASSUME TypeOK, Story, Apart, NEW r \in Role,
           Reserve(r) \/ Lock(r) \/ Refund(r) \/ Poll(r) \/ EnterRecovery(r) \/ Reroute(r)
    PROVE  Apart'
<1>0. session[r] \in Session
    BY DEF TypeOK
<1>1. CASE Reserve(r)
    <2> DEFINE s == [session[r] EXCEPT !.reserved = TRUE]
    <2>1. s.accepted = session[r].accepted /\ s.phase = session[r].phase /\ s.outbox = session[r].outbox
        BY <1>0 DEF Session
    <2> QED
        BY <1>1, <2>1, IdleSession DEF Reserve
<1>2. CASE Lock(r)
    <2> DEFINE s == [session[r] EXCEPT !.locked = TRUE]
    <2>1. s.accepted = session[r].accepted /\ s.phase = session[r].phase /\ s.outbox = session[r].outbox
        BY <1>0 DEF Session
    <2> QED
        BY <1>2, <2>1, IdleSession DEF Lock
<1>3. CASE Refund(r)
    <2> DEFINE s == [session[r] EXCEPT !.refunded = TRUE]
    <2>1. s.accepted = session[r].accepted /\ s.phase = session[r].phase /\ s.outbox = session[r].outbox
        BY <1>0 DEF Session
    <2> QED
        BY <1>3, <2>1, IdleSession DEF Refund
<1>4. CASE Poll(r)
    <2>1. PICK m \in sent : Save(r, [session[r] EXCEPT !.incoming = m])
        BY <1>4 DEF Poll
    <2> DEFINE s == [session[r] EXCEPT !.incoming = m]
    <2>2. s.accepted = session[r].accepted /\ s.phase = session[r].phase /\ s.outbox = session[r].outbox
        BY <1>0 DEF Session
    <2> QED
        BY <1>4, <2>1, <2>2, IdleSession DEF Poll
<1>5. CASE EnterRecovery(r)
    <2> DEFINE over == IF session[r].locked THEN "refunding" ELSE "failed"
               s == [session[r] EXCEPT !.phase = over]
    <2>1. over \in {"refunding", "failed"}
        OBVIOUS
    <2>2. Save(r, s) /\ UNCHANGED sent
        BY <1>5 DEF EnterRecovery
    <2> HIDE DEF over
    <2>3. s.accepted = session[r].accepted /\ s.phase = over /\ s.outbox = session[r].outbox
        BY <1>0 DEF Session
    <2> QED
        BY <2>1, <2>2, <2>3, IdleSession
<1>6. CASE Reroute(r)
    <2>1. session[r].outbox # None /\ session[r].outbox \in Outbox
        BY <1>6, PlanDeliver DEF Reroute, TypeOK, Session
    <2> DEFINE staged == [session[r].outbox EXCEPT !.route = "listed"]
               s == [session[r] EXCEPT !.outbox = staged]
    <2>2. staged \in Outbox /\ staged.message = session[r].outbox.message /\ staged # None
        BY <2>1, NoneAssumption DEF Outbox
    <2>3. s = [session[r] EXCEPT !.outbox.route = "listed"]
        OBVIOUS
    <2>4. Save(r, s) /\ UNCHANGED sent
        BY <1>6, <2>3 DEF Reroute
    <2> HIDE DEF staged
    <2>5. s.accepted = session[r].accepted /\ s.phase = session[r].phase /\ s.outbox = staged
        BY <1>0 DEF Session
    <2> QED
        BY <2>1, <2>2, <2>4, <2>5, IdleSession
<1> QED
    BY <1>1, <1>2, <1>3, <1>4, <1>5, <1>6

LEMMA StageApart ==
    ASSUME TypeOK, Story, Apart, NEW r \in Role, Stage(r)
    PROVE  Apart'
<1> DEFINE m == Written(session[r], Expected[session[r].phase])
           staged == [message |-> m, route |-> "advertised"]
<1>1. m.id = issued + 1 /\ staged.message = m
    BY DEF Written
<1>2. session' = [session EXCEPT ![r] = [session[r] EXCEPT !.outbox = staged]] /\ sent' = sent
    BY DEF Stage, Save
<1> HIDE DEF m, staged
<1>3. /\ session'[r].accepted = session[r].accepted /\ session'[r].phase = session[r].phase
      /\ session'[r].outbox = staged /\ session'[Other(r)] = session[Other(r)]
    BY <1>2, Roles DEF TypeOK, Session
<1>4. \A p \in Role : p = r \/ p = Other(r)
    BY DEF Role, Other
<1>5. Says(r)' \subseteq {m} /\ Says(Other(r))' = Says(Other(r))
    BY <1>1, <1>3 DEF Says
<1>6. \A k \in Proper' : k \in Proper \/ k.id = issued + 1
    BY <1>1, <1>2, <1>4, <1>5, Roles DEF Proper
<1>7. Idles
    BY <1>2, <1>3, <1>4, <1>6, Roles DEF Idles
<1> QED
    BY <1>7, IdlesApart

LEMMA DeliverApart ==
    ASSUME TypeOK, Story, Terms, Apart, NEW r \in Role, Deliver(r)
    PROVE  Apart'
<1> DEFINE m == session[r].outbox.message
           advanced == Advance(session[r], m)
           s == [advanced EXCEPT !.outbox = None]
<1>1. session[r].outbox # None /\ session[r].outbox \in Outbox
    BY PlanDeliver DEF Deliver, TypeOK, Session
<1>2. m \in Message /\ m \in Proper
    BY <1>1, SaidIsProper DEF Outbox, Says
<1>3. Active(r)
    BY <1>1 DEF Deliver, Plan, Terms, RoleTerms, StagedTerm
<1>4. sent' = sent \cup {m}
    BY DEF Deliver
<1>5. CASE Save(r, Said(session[r]))
    <2>1. advanced \in Session /\ advanced.accepted = Append(session[r].accepted, m.id)
        BY <1>2, AdvanceTypes
    <2>2. Save(r, s)
        BY <1>5 DEF Said
    <2> HIDE DEF m, advanced
    <2>3. s.accepted = Append(session[r].accepted, m.id) /\ s.outbox = None
        BY <2>1 DEF Session
    <2>4. session'[r] = s /\ session'[Other(r)] = session[Other(r)]
        BY <2>2, Roles DEF Save, TypeOK
    <2>5. Grows(r, m)
        BY <1>4, <2>3, <2>4 DEF Grows
    <2> QED
        BY <1>2, <1>3, <2>5, GrowsApart
<1>6. CASE UNCHANGED session
    <2> HIDE DEF m
    <2>1. m.type # "error"
        BY <1>2, ProperIsNoError DEF Story
    <2>2. \A k \in Proper' : k \in Proper
        BY <1>2, <1>4, <1>6 DEF Proper, Says
    <2> QED
        BY <1>4, <1>6, <2>1, <2>2, IdlesApart DEF Idles
<1> QED
    BY <1>5, <1>6 DEF Deliver

LEMMA ValidateApart ==
    ASSUME TypeOK, Story, Terms, Apart, NEW r \in Role, Validate(r)
    PROVE  Apart'
<1> DEFINE m == session[r].incoming
           brought == session[r].reserved \/ m.type = "reserve_accept"
           plan == IF m.type = "reserve_accept" THEN m.plan ELSE session[r].plan
           advanced == Advance(session[r], m)
           s == [advanced EXCEPT !.incoming = None, !.reserved = brought, !.plan = plan]
<1>1. session[r].outbox = None /\ m # None /\ m \in Message /\ m \in sent
    <2>1. session[r].outbox = None /\ m # None
        BY PlanValidate DEF Validate
    <2>2. session[r].incoming \in Message \cup {None}
        BY DEF TypeOK, Session
    <2> QED
        BY <2>1, <2>2 DEF Story, PolledWasSent
<1>2. Recipient(m.type) = r /\ (m.type = "error" \/ Active(r))
    BY DEF Validate, Opens, Unwraps, Welcome, Active
<1>3. /\ advanced \in Session /\ advanced.accepted = Append(session[r].accepted, m.id)
      /\ advanced.phase = After[m.type] /\ advanced.outbox = session[r].outbox
    BY <1>1, AdvanceTypes
<1>4. Save(r, s) /\ UNCHANGED sent
    <2>1. advanced.reserved = session[r].reserved /\ advanced.plan = session[r].plan
        BY DEF Advance, TypeOK, Session
    <2> QED
        BY <2>1 DEF Validate
<1> HIDE DEF advanced
<1>5. /\ s.accepted = Append(session[r].accepted, m.id) /\ s.outbox = None
      /\ s.phase = After[m.type]
    BY <1>1, <1>3 DEF Session
<1>6. session'[r] = s /\ session'[Other(r)] = session[Other(r)]
    BY <1>4, Roles DEF Save, TypeOK
<1> HIDE DEF s, m
<1>7. CASE m.type # "error"
    <2>1. m \in Proper /\ sent \cup {m} = sent
        BY <1>1, <1>7 DEF Proper
    <2>2. Grows(r, m)
        BY <1>4, <1>5, <1>6, <2>1 DEF Grows
    <2> QED
        BY <1>2, <1>7, <2>1, <2>2, GrowsApart
\* A refused taker fails.
<1>8. CASE m.type = "error"
    <2>1. r = "taker" /\ s.phase = "failed"
        BY <1>2, <1>5, <1>8, AfterFacts DEF Recipient, Author, Role
    <2>2. ~Active("taker")'
        BY <1>6, <2>1, PhaseTable DEF Active
    <2>3. Proper' = Proper
        BY <1>1, <1>4, <1>5, <1>6, <2>1, Roles DEF Proper, Says
    <2> QED
        BY <1>4, <2>2, <2>3 DEF Apart, RefusalsApart, RefusedIsOver
<1> QED
    BY <1>7, <1>8

LEMMA MakerStartsApart ==
    ASSUME TypeOK, Story, Apart, MakerStarts
    PROVE  Apart'
<1>1. PICK m \in Proposal :
        Save("maker", [Advance(session["maker"], m) EXCEPT !.plan = clock])
    BY DEF MakerStarts
<1> DEFINE advanced == Advance(session["maker"], m)
           s == [advanced EXCEPT !.plan = clock]
<1>2. m \in sent /\ m.type = "reserve_propose" /\ m \in Message /\ m \in Proper
    BY Typed DEF Proposal, Proper
<1>3. Active("maker") /\ sent' = sent \cup {m}
    BY <1>2, ExpectedFacts DEF MakerStarts, Active
<1>4. /\ advanced \in Session /\ advanced.accepted = Append(session["maker"].accepted, m.id)
      /\ advanced.outbox = session["maker"].outbox
    BY <1>2, Roles, AdvanceTypes
<1>5. Save("maker", s)
    BY <1>1
<1> HIDE DEF advanced
<1>6. s.accepted = Append(session["maker"].accepted, m.id) /\ s.outbox = session["maker"].outbox
    BY <1>4 DEF Session
<1>7. session'["maker"] = s /\ session'[Other("maker")] = session[Other("maker")]
    BY <1>5, Roles DEF Save, TypeOK
<1>8. Grows("maker", m)
    BY <1>3, <1>6, <1>7 DEF Grows
<1> QED
    BY <1>2, <1>3, <1>8, Roles, GrowsApart

LEMMA RefuseOrTickApart ==
    ASSUME TypeOK, Story, Apart, Refuse \/ Tick \/ UNCHANGED vars
    PROVE  Apart'
<1>1. CASE Refuse
    <2>1. PICK m \in Proposal :
            sent' = sent \cup {[m EXCEPT !.id = issued + 1, !.type = "error", !.past = <<m.id>>,
                                         !.tokens = {}, !.sentAt = clock]}
        BY <1>1 DEF Refuse
    <2> DEFINE e == [m EXCEPT !.id = issued + 1, !.type = "error", !.past = <<m.id>>,
                              !.tokens = {}, !.sentAt = clock]
    <2>2. m \in Message
        BY Typed DEF Proposal
    <2>3. e.id = issued + 1 /\ e.type = "error"
        BY <2>2 DEF Message
    <2> HIDE DEF e
    <2>4. sent' = sent \cup {e} /\ session' = session
        BY <1>1, <2>1 DEF Refuse, e
    <2>5. Proper' = Proper
        BY <2>3, <2>4 DEF Proper, Says
    <2> QED
        BY <2>3, <2>4, <2>5, IdlesApart DEF Idles
<1>2. CASE Tick \/ UNCHANGED vars
    <2>1. sent' = sent /\ session' = session
        BY <1>2 DEF Tick, vars
    <2>2. Proper' = Proper
        BY <2>1 DEF Proper, Says
    <2> QED
        BY <2>1, <2>2, IdlesApart DEF Idles
<1> QED
    BY <1>1, <1>2

LEMMA ApartIsInductive == Inv /\ Terms /\ Apart /\ [Next]_vars => Apart'
<1> SUFFICES ASSUME TypeOK, Story, Terms, Apart, [Next]_vars PROVE Apart'
    BY DEF Inv
<1>1. ASSUME NEW r \in Role, Own(r) \/ Deliver(r) \/ Reroute(r) PROVE Apart'
    BY <1>1, IdleStepsApart, StageApart, ValidateApart, DeliverApart DEF Own
<1>2. CASE MakerStarts \/ Refuse \/ Tick \/ UNCHANGED vars
    BY <1>2, MakerStartsApart, RefuseOrTickApart
<1> QED
    BY <1>1, <1>2 DEF Next

\* Who listens waits for a message of the other side.
LEMMA ListensForTheOther ==
    ASSUME NEW r \in Role, TypeOK, Listens(r)
    PROVE  /\ session[r].outbox = None /\ Active(r)
           /\ Writer(Expected[session[r].phase]) = Other(r)
<1>1. session[r].outbox = None /\ Active(r) /\ PhasePlan(r) = "poll_inbox"
    BY PlanPoll DEF Listens, Plan
<1>2. Writer(Expected[session[r].phase]) # r
    BY <1>1, ExpectedTable DEF PhasePlan, Active
<1>3. Writer(Expected[session[r].phase]) \in Role
    BY Writers
<1> QED
    BY <1>1, <1>2, <1>3 DEF Role, Other

\* What comes next for a side that waits for it can be read.
LEMMA NextIsReadable ==
    ASSUME TypeOK, Story, Terms, NEW r \in Role, Listens(r), NEW m \in Proper, m.past = Accepted(r)
    PROVE  Readable(r, m)
<1> DEFINE s == session[r]
<1>1. Active(r) /\ Writer(m.type) = Other(r) /\ m.type = Expected[s.phase]
    BY ListensForTheOther DEF Story, Places, NextIsExpected
<1>2. m.type \in Type /\ m.type # "error"
    BY Typed, ProperIsNoError DEF Story
<1>3. m.past = s.accepted
    BY DEF Accepted
<1>4. PhaseTerm(r) /\ MessageTerm(m, session["maker"].plan)
    BY DEF Terms, RoleTerms, MessageTerms
<1>5. CASE m.type = "reserve_propose"
    <2>1. s.phase = "awaiting_reserve_propose"
        BY <1>1, <1>5, ExpectedFacts DEF Active
    <2>2. r = "maker"
        BY <1>1, <1>5, Writers, Roles DEF Role
    <2> QED
        BY <1>5, <2>1, <2>2 DEF Readable
<1>6. CASE m.type = "reserve_accept"
    <2>1. r = "taker"
        BY <1>1, <1>6, Roles DEF Writer, Author, Role
    <2>2. s.phase = "awaiting_reserve_accept"
        BY <1>1, <1>6, ExpectedTable DEF Active
    <2>3. m.projection = "reserved"
        BY <1>4, <1>6 DEF MessageTerm
    <2> QED
        BY <1>3, <1>6, <2>1, <2>2, <2>3 DEF Readable, Opens, Unwraps, Recipient, Author
<1>7. CASE m.type \notin {"reserve_propose", "reserve_accept"}
    <2>1. s.phase \notin Early
        BY <1>1, <1>7, ExpectedTable DEF Early
    <2>2. s.reserved /\ m.projection = "reserved"
        BY <1>1, <1>4, <1>7, <2>1 DEF PhaseTerm, MessageTerm
    <2>3. Author(m.type) = Other(r) /\ Recipient(m.type) = r
        BY <1>1, <1>2, <1>7, Roles, TypeTable DEF Writer, Author, Recipient, Role
    <2> QED
        BY <1>3, <2>1, <2>2, <2>3 DEF Readable, Opens, Unwraps, Early
<1> QED
    BY <1>5, <1>6, <1>7

LEMMA TermsSpeak ==
    ASSUME TypeOK, Story, Terms, Apart
    PROVE  SomeoneIsToSpeak
<1> SUFFICES ASSUME \A r \in Role : Listens(r) PROVE \E r \in Role, m \in sent : Readable(r, m)
    BY DEF SomeoneIsToSpeak
<1>1. /\ \A r \in Role : /\ session[r].outbox = None /\ Active(r)
                         /\ Writer(Expected[session[r].phase]) = Other(r)
      /\ \A r \in Role : Accepted(r) \in Seq(Nat)
    BY ListensForTheOther, Typed
\* After the same transcript both would wait for a message of the same side.
<1>2. ASSUME NEW r \in Role PROVE Accepted(r) # Accepted(Other(r))
    <2>1. Other(r) \in Role /\ Other(r) # r /\ Other(Other(r)) = r
        BY Roles
    <2>2. /\ Active(r) /\ Writer(Expected[session[r].phase]) = Other(r)
          /\ Active(Other(r)) /\ Writer(Expected[session[Other(r)].phase]) = r
        BY <1>1, <2>1
    <2>3. session[r].phase # session[Other(r)].phase
        BY <2>1, <2>2
    <2> QED
        BY <2>1, <2>2, <2>3 DEF Story, Places, SamePlace
<1>3. ~Refused
    BY <1>1, Roles DEF Apart, RefusedIsOver
<1>4. PICK r \in Role : Begins(Accepted(r), Accepted(Other(r)))
    BY <1>3, Roles DEF Story, Chain
<1> DEFINE mine == Accepted(r)
           theirs == Accepted(Other(r))
<1>5. /\ mine \in Seq(Nat) /\ theirs \in Seq(Nat) /\ Len(mine) \in Nat /\ Len(theirs) \in Nat
      /\ Len(mine) <= Len(theirs) /\ \A i \in 1..Len(mine) : mine[i] = theirs[i]
    BY <1>1, <1>4, Roles, LenProperties DEF Begins
<1>6. Len(mine) < Len(theirs)
    BY <1>2, <1>4, <1>5, BothBegin
<1>7. Chained(theirs, mine)
    BY <1>3, Roles DEF Story, Chain
<1>8. PICK k \in Proper : /\ Len(k.past) = Len(mine)
                          /\ \A j \in 1..Len(mine) : k.past[j] = theirs[j]
    <2> DEFINE i == Len(mine) + 1
    <2>1. i \in 1..Len(theirs) /\ i > Len(mine) /\ i - 1 = Len(mine)
        BY <1>5, <1>6
    <2> HIDE DEF i, mine, theirs
    <2> QED
        BY <1>7, <2>1 DEF Chained
<1>9. k.past \in Seq(Nat)
    BY Typed
<1>10. k.past = mine
    BY <1>5, <1>8, <1>9, SeqEqual
<1>11. k \in sent
    BY <1>1, Roles DEF Proper, Says
<1>12. Readable(r, k)
    BY <1>10, NextIsReadable
<1> QED
    BY <1>11, <1>12

LEMMA InitApart ==
    ASSUME Init
    PROVE  Apart
BY DEF Init, Apart, RefusalsApart, RefusedIsOver, Refused

\* The sides never both wait for the other, whatever was lost and whatever the
\* deadlines are: when both would poll, what one of them waits for was sent, and it
\* can read it.
THEOREM SomeoneAlwaysSpeaks == Spec => []SomeoneIsToSpeak
<1>1. Init => Inv /\ Terms
    BY InitInv, InitTerms
<1>2. Init => Apart
    BY InitApart
<1>3. Inv /\ Terms /\ Apart => SomeoneIsToSpeak
    BY TermsSpeak DEF Inv
<1> QED
    BY <1>1, <1>2, <1>3, InvIsInductive, TermsAreInductive, ApartIsInductive, PTL DEF Spec

-----------------------------------------------------------------------------
(***************************************************************************)
(* The messages are one conversation.                                      *)
(***************************************************************************)

Openings == {"reserve_propose"} \cup {Expected[phase] : phase \in Resumed}

\* What is written comes after what its author knew, and later.
Rising == \A m \in Proper : \A i \in 1..Len(m.past) : m.past[i] < m.id

\* A message opens the conversation, or answers one that wants an answer.
Answers(s, k) == s = Path(k) /\ After[k.type] \in DOMAIN Expected
Rooted ==
    /\ \A r \in Role : Active(r) =>
        \/ \E k \in Proper : Accepted(r) = Path(k)
        \/ Len(Accepted(r)) <= 1 /\ session[r].phase \in {"awaiting_reserve_propose"} \cup Resumed
    /\ \A m \in Proper :
        \/ \E k \in Proper : Answers(m.past, k)
        \/ Len(m.past) <= 1 /\ m.type \in Openings

\* What a side counts as said was given to a relay.
Delivered == \A r \in Role : \A m \in Proper : Begins(Path(m), Accepted(r)) => m \in sent

\* A refused taker knows its proposal and the refusal; the maker may go on from there.
Ended(e, p) ==
    /\ e.type = "error" /\ p.type = "reserve_propose" /\ p.past = <<>>
    /\ Accepted("taker") = Append(Path(p), e.id)
    /\ Accepted("maker") = <<>> \/ Begins(Path(p), Accepted("maker"))
RefusalEnds == Refused => \E e \in sent, p \in Proper : Ended(e, p)

Told == Rising /\ Rooted /\ Delivered /\ RefusalEnds

LEMMA StagesFacts ==
    ASSUME TypeOK, Story, NEW r \in Role, NEW m, Stages(r, m)
    PROVE  /\ Proper' = Proper \cup {m} /\ m.id = issued + 1 /\ issued \in Nat
           /\ \A p \in Role : Accepted(p)' = Accepted(p) /\ session'[p].phase = session[p].phase
                            /\ (Active(p)' <=> Active(p))
           /\ m \in Message
<1>1. \A p \in Role : p = r \/ p = Other(r)
    BY DEF Role, Other
<1>2. Says(r) = {} /\ Says(r)' = {m} /\ Says(Other(r))' = Says(Other(r))
    BY DEF Stages, Says
<1>3. /\ Proper = {k \in sent : k.type # "error"} \cup Says(r) \cup Says(Other(r))
      /\ Proper' = {k \in sent' : k.type # "error"} \cup Says(r)' \cup Says(Other(r))'
    BY Roles DEF Proper, Role
<1> QED
    BY <1>1, <1>2, <1>3, Typed DEF Stages, Accepted, Active

LEMMA QuietFacts ==
    ASSUME TypeOK, Story, Quiet
    PROVE  /\ Proper' = Proper /\ sent \subseteq sent'
           /\ \A p \in Role : Accepted(p)' = Accepted(p)
           /\ \A p \in Role : Active(p)' => Active(p) /\ session'[p].phase = session[p].phase
<1>1. \A r \in Role : Accepted(r)' = Accepted(r) /\ Says(r)' = Says(r)
    BY DEF Quiet, Accepted
<1>2. \A r \in Role : Active(r)' => Active(r) /\ session'[r].phase = session[r].phase
    BY ExpectedTable DEF Quiet, Active
<1>3. Says("maker")' = Says("maker") /\ Says("taker")' = Says("taker")
    BY <1>1, Roles
<1>4. \A m : Says(Writer(m.type)) \subseteq Says("maker") \cup Says("taker")
    BY Writers DEF Role
<1>5. \A m \in sent' : m.type # "error" => m \in sent \/ m \in Says("maker") \cup Says("taker")
    BY <1>4 DEF Quiet
<1>6. sent \subseteq sent'
    BY DEF Quiet
<1>7. Proper' = Proper
    BY ONLY <1>3, <1>5, <1>6 DEF Proper
<1> QED
    BY <1>1, <1>2, <1>6, <1>7

LEMMA EndsFacts ==
    ASSUME TypeOK, Story, NEW x, Ends(x)
    PROVE  /\ Proper' = Proper /\ sent' = sent
           /\ Accepted("taker")' = Path(x) /\ Accepted("maker")' = Accepted("maker")
           /\ ~Active("taker")' /\ (Active("maker")' <=> Active("maker"))
           /\ session'["maker"].phase = session["maker"].phase
           /\ Active("taker") /\ x \in Message
<1>1. Active("taker")
    BY ExpectedTable DEF Ends, Active
<1>2. Says("taker")' = Says("taker") /\ Says("maker")' = Says("maker")
    BY DEF Ends, Says
<1> QED
    BY <1>1, <1>2, Typed, AfterFacts DEF Proper, Ends, Accepted, Active

LEMMA PathFacts ==
    ASSUME TypeOK, NEW m \in Message
    PROVE  /\ m.past \in Seq(Nat) /\ m.id \in Nat /\ Path(m) \in Seq(Nat)
           /\ Len(m.past) \in Nat /\ Len(Path(m)) = Len(m.past) + 1
           /\ Path(m)[Len(m.past) + 1] = m.id
           /\ \A i \in 1..Len(m.past) : Path(m)[i] = m.past[i]
BY Typed, Appended DEF Path

\* A path says which message it leads to.
LEMMA SamePath ==
    ASSUME TypeOK, Story, NEW m \in Proper, NEW k \in Proper, Path(m) = Path(k)
    PROVE  m = k
<1>1. m \in Message /\ k \in Message
    BY Typed
<1>2. m.past = k.past
    BY <1>1, Typed, AppendIsInjective DEF Path
<1> QED
    BY <1>2 DEF Story, Places, OneSuccessor

LEMMA MoveFacts ==
    ASSUME TypeOK, Story, Move
    PROVE  Proper \subseteq Proper' /\ sent \subseteq sent'
<1>1. ASSUME NEW r \in Role, NEW m \in Message, Stages(r, m) PROVE Proper \subseteq Proper' /\ sent \subseteq sent'
    BY <1>1, StagesFacts DEF Stages
<1>2. ASSUME NEW r \in Role, NEW x \in Proper, x.past = Accepted(r), Takes(r, x)
      PROVE  Proper \subseteq Proper' /\ sent \subseteq sent'
    BY <1>2, TakesFacts DEF Takes
<1>3. ASSUME NEW x \in sent, Ends(x) PROVE Proper \subseteq Proper' /\ sent \subseteq sent'
    BY <1>3, EndsFacts
<1> QED
    BY <1>1, <1>2, <1>3, QuietFacts DEF Move

LEMMA RisingKeeps ==
    ASSUME TypeOK, Story, Rising, Move
    PROVE  Rising'
<1>1. ASSUME NEW r \in Role, NEW m \in Message, Stages(r, m) PROVE Rising'
    <2>1. \A i \in 1..Len(m.past) : m.past[i] < m.id
        <3>1. Accepted(r) \in Seq(Nat) /\ Drawn(Accepted(r)) /\ issued \in Nat
            BY Typed DEF Story, Fresh
        <3>2. m.past = Accepted(r) /\ m.id = issued + 1
            BY <1>1 DEF Stages
        <3>3. \A i \in 1..Len(m.past) : m.past[i] <= issued /\ m.past[i] \in Nat
            BY <3>1, <3>2, ElementOfSeq DEF Drawn
        <3> QED
            BY <3>1, <3>2, <3>3
    <2> QED
        BY <1>1, <2>1, StagesFacts DEF Rising
<1>2. ASSUME NEW r \in Role, NEW x \in Proper, x.past = Accepted(r), Takes(r, x) PROVE Rising'
    BY <1>2, TakesFacts DEF Rising
<1>3. ASSUME NEW x \in sent, Ends(x) PROVE Rising'
    BY <1>3, EndsFacts DEF Rising
<1>4. ASSUME Quiet PROVE Rising'
    BY <1>4, QuietFacts DEF Rising
<1> QED
    BY <1>1, <1>2, <1>3, <1>4 DEF Move

LEMMA RootedKeeps ==
    ASSUME TypeOK, Story, Rooted, Move
    PROVE  Rooted'
<1>0. \A m \in Proper : m \in Proper' /\ Path(m)' = Path(m)
    BY MoveFacts DEF Path
<1>1. \A m \in Proper : \/ \E k \in Proper' : Answers(m.past, k)'
                        \/ Len(m.past) <= 1 /\ m.type \in Openings
    <2> SUFFICES ASSUME NEW m \in Proper, NEW k \in Proper, Answers(m.past, k)
                 PROVE  \E j \in Proper' : Answers(m.past, j)'
        BY DEF Rooted
    <2>1. Answers(m.past, k)'
        BY DEF Answers, Path
    <2> QED
        BY <1>0, <2>1
<1>2. ASSUME NEW r \in Role, NEW m \in Message, Stages(r, m) PROVE Rooted'
    <2>1. /\ m.past = Accepted(r) /\ m.type = Expected[session[r].phase] /\ Active(r)
        BY <1>2 DEF Stages
    <2>2. CASE \E k \in Proper : Accepted(r) = Path(k)
        <3>1. PICK k \in Proper : Accepted(r) = Path(k)
            BY <2>2
        <3>2. session[r].phase = After[k.type]
            BY <2>1, <3>1 DEF Story, Places, PhaseFollows
        <3>3. Answers(m.past, k)'
            BY <2>1, <3>1, <3>2 DEF Answers, Active, Path
        <3> QED
            BY <1>0, <1>1, <3>1, <3>3, <1>2, StagesFacts DEF Rooted
    <2>3. CASE Len(Accepted(r)) <= 1 /\ session[r].phase \in {"awaiting_reserve_propose"} \cup Resumed
        <3>1. m.type \in Openings
            BY <2>1, <2>3, ExpectedTable DEF Openings
        <3> QED
            BY <1>0, <1>1, <2>1, <2>3, <3>1, <1>2, StagesFacts DEF Rooted
    <2> QED
        BY <2>1, <2>2, <2>3 DEF Rooted
<1>3. ASSUME NEW r \in Role, NEW x \in Proper, x.past = Accepted(r), Takes(r, x) PROVE Rooted'
    <2>1. Accepted(r)' = Path(x)' /\ x \in Proper'
        BY <1>3, TakesFacts DEF Path
    <2>2. Proper' = Proper /\ Accepted(Other(r))' = Accepted(Other(r))
          /\ (Active(Other(r))' <=> Active(Other(r)))
          /\ session'[Other(r)].phase = session[Other(r)].phase
          /\ \A p \in Role : p = r \/ p = Other(r)
        BY <1>3, TakesFacts
    <2> QED
        BY <1>0, <1>1, <2>1, <2>2, Roles DEF Rooted
<1>4. ASSUME NEW x \in sent, Ends(x) PROVE Rooted'
    BY <1>0, <1>1, <1>4, EndsFacts DEF Rooted, Role
<1>5. ASSUME Quiet PROVE Rooted'
    BY <1>0, <1>1, <1>5, QuietFacts DEF Rooted
<1> QED
    BY <1>2, <1>3, <1>4, <1>5 DEF Move

\* What begins a longer transcript begins the shorter, or is all of the longer.
LEMMA BeginsLonger ==
    ASSUME NEW s \in Seq(Nat), NEW t \in Seq(Nat), NEW x \in Nat, Begins(s, Append(t, x))
    PROVE  Begins(s, t) \/ s = Append(t, x)
<1>1. /\ Append(t, x) \in Seq(Nat) /\ Len(Append(t, x)) = Len(t) + 1
      /\ Len(t) \in Nat /\ Len(s) \in Nat
      /\ \A i \in 1..Len(t) : Append(t, x)[i] = t[i]
    BY Appended, LenProperties
<1>2. CASE Len(s) <= Len(t)
    BY <1>1, <1>2 DEF Begins
<1>3. CASE Len(s) = Len(t) + 1
    BY <1>1, <1>3, BothBegin
<1> QED
    BY <1>1, <1>2, <1>3 DEF Begins

LEMMA DeliveredKeeps ==
    ASSUME TypeOK, Story, Apart, Delivered, Move
    PROVE  Delivered'
<1>0. ASSUME NEW p \in Role, NEW m \in Proper, Accepted(p)' = Accepted(p), Begins(Path(m), Accepted(p))'
      PROVE  m \in sent'
    <2>1. Begins(Path(m), Accepted(p))
        BY <1>0 DEF Path, Begins
    <2> QED
        BY <2>1, MoveFacts DEF Delivered
<1>1. ASSUME NEW r \in Role, NEW m \in Message, Stages(r, m) PROVE Delivered'
    <2>1. \A p \in Role : ~Begins(Path(m), Accepted(p))
        <3> SUFFICES ASSUME NEW p \in Role, Begins(Path(m), Accepted(p)) PROVE FALSE
            OBVIOUS
        <3>1. Accepted(p) \in Seq(Nat) /\ Drawn(Accepted(p)) /\ issued \in Nat /\ m.id = issued + 1
            BY <1>1, Typed DEF Story, Fresh, Stages
        <3>2. Len(m.past) + 1 \in 1..Len(Path(m)) /\ Path(m)[Len(m.past) + 1] = m.id
            BY PathFacts
        <3>3. Accepted(p)[Len(m.past) + 1] = m.id /\ Len(m.past) + 1 \in 1..Len(Accepted(p))
            BY <3>1, <3>2, PathFacts, LenProperties DEF Begins
        <3> QED
            BY <3>1, <3>3 DEF Drawn
    <2>2. \A p \in Role : ~Begins(Path(m), Accepted(p))'
        BY <1>1, <2>1, StagesFacts DEF Path, Begins
    <2> QED
        BY <1>0, <1>1, <2>2, StagesFacts DEF Delivered
<1>2. ASSUME NEW r \in Role, NEW x \in Proper, x.past = Accepted(r), Takes(r, x) PROVE Delivered'
    <2>1. /\ Proper' = Proper /\ Accepted(r)' = Path(x) /\ Accepted(Other(r))' = Accepted(Other(r))
          /\ x \in sent' /\ \A p \in Role : p = r \/ p = Other(r)
        BY <1>2, TakesFacts DEF Takes
    <2>2. ASSUME NEW m \in Proper, Begins(Path(m), Accepted(r))' PROVE m \in sent'
        <3>1. Begins(Path(m), Path(x))
            BY <2>1, <2>2 DEF Path, Begins
        <3>2. Path(m) \in Seq(Nat) /\ Accepted(r) \in Seq(Nat) /\ x.id \in Nat
              /\ Path(x) = Append(Accepted(r), x.id)
            BY <1>2, Typed DEF Path
        <3>3. Begins(Path(m), Accepted(r)) \/ Path(m) = Path(x)
            BY <3>1, <3>2, BeginsLonger
        <3>4. CASE Path(m) = Path(x)
            BY <3>4, <2>1, SamePath
        <3> QED
            BY <3>3, <3>4, MoveFacts DEF Delivered
    <2> QED
        BY <1>0, <2>1, <2>2, Roles DEF Delivered
<1>3. ASSUME NEW x \in sent, Ends(x) PROVE Delivered'
    <2>1. /\ Proper' = Proper /\ sent' = sent /\ Accepted("taker")' = Path(x)
          /\ Accepted("maker")' = Accepted("maker") /\ x.past = Accepted("taker")
        BY <1>3, EndsFacts DEF Ends
    <2>2. ASSUME NEW m \in Proper, Begins(Path(m), Accepted("taker"))' PROVE m \in sent'
        <3>1. Begins(Path(m), Path(x))
            BY <2>1, <2>2 DEF Path, Begins
        <3>2. Path(m) \in Seq(Nat) /\ Accepted("taker") \in Seq(Nat) /\ x.id \in Nat /\ x \in Message
              /\ Path(x) = Append(Accepted("taker"), x.id)
            BY <2>1, Typed, Roles DEF Path
        <3>3. Begins(Path(m), Accepted("taker")) \/ Path(m) = Path(x)
            BY <3>1, <3>2, BeginsLonger
        <3>4. Path(m) # Path(x)
            <4>1. m.id # x.id
                BY <1>3 DEF Apart, RefusalsApart, Ends
            <4> QED
                BY <4>1, <3>2, Typed, AppendIsInjective DEF Path
        <3> QED
            BY <3>3, <3>4, Roles, <2>1 DEF Delivered
    <2> QED
        BY <1>0, <2>1, <2>2 DEF Delivered, Role
<1>4. ASSUME Quiet PROVE Delivered'
    BY <1>0, <1>4, QuietFacts DEF Delivered
<1> QED
    BY <1>1, <1>2, <1>3, <1>4 DEF Move

LEMMA FirstPath ==
    ASSUME TypeOK, NEW p \in Message, p.past = <<>>
    PROVE  Len(Path(p)) = 1 /\ Path(p) \in Seq(Nat)
<1>1. Len(p.past) = 0 /\ Len(Path(p)) = Len(p.past) + 1
    BY PathFacts, EmptySeq
<1> QED
    BY <1>1, PathFacts

\* Nothing follows the refusal, and the proposal before it is what both sides know.
LEMMA NothingFollows ==
    ASSUME TypeOK, Story, Apart, Rooted, Refused, NEW e \in sent, NEW p \in Proper, Ended(e, p)
    PROVE  \A x \in Proper : x.past # Accepted("taker")
<1>1. /\ p \in Message /\ p.id \in Nat /\ e.id \in Nat /\ Path(p) \in Seq(Nat)
      /\ Accepted("taker") = Append(Path(p), e.id) /\ e.type = "error"
    BY Typed DEF Ended
<1>2. Len(Accepted("taker")) = 2
    <2> DEFINE t == Path(p)
    <2>1. Len(t) = 1 /\ t \in Seq(Nat)
        BY <1>1, FirstPath DEF Ended
    <2>2. Accepted("taker") = Append(t, e.id) /\ e.id \in Nat
        BY <1>1
    <2> HIDE DEF t
    <2>3. Len(Append(t, e.id)) = Len(t) + 1
        BY <2>1, <2>2, Appended
    <2>4. Len(Append(t, e.id)) = 2
        BY <2>1, <2>3
    <2> QED
        BY <2>2, <2>4, Zenon
<1> SUFFICES ASSUME NEW x \in Proper, x.past = Accepted("taker") PROVE FALSE
    OBVIOUS
<1>3. PICK k \in Proper : x.past = Path(k)
    BY <1>2 DEF Rooted, Answers
<1>4. k.past \in Seq(Nat) /\ k.id \in Nat /\ Append(k.past, k.id) = Append(Path(p), e.id)
    BY <1>1, <1>3, Typed DEF Path
<1>5. k.id = e.id
    BY <1>1, <1>4, AppendIsInjective
<1> QED
    BY <1>1, <1>5 DEF Apart, RefusalsApart

\* Only reading the refusal makes a taker refused.
LEMMA QuietRefused ==
    ASSUME TypeOK, Story, Quiet \/ (\E r \in Role, m \in Message : Stages(r, m)), Refused'
    PROVE  Refused
<1>1. Accepted("taker")' = Accepted("taker") /\ Accepted("taker") \in Seq(Nat)
      /\ Drawn(Accepted("taker")) /\ issued \in Nat
    BY Typed, Roles, QuietFacts, StagesFacts DEF Story, Fresh
<1>2. PICK e \in sent' : e.type = "error" /\ e.id \in ToSet(Accepted("taker"))
    BY <1>1 DEF Refused, Accepted
<1>3. e \in sent \/ e.id = issued + 1
    <2>1. CASE Quiet
        <3>1. e \in Says(Writer(e.type)) => FALSE
            BY <1>2, Writers DEF Story, StagedContinues
        <3> QED
            BY <2>1, <1>2, <3>1 DEF Quiet
    <2>2. CASE \E r \in Role, m \in Message : Stages(r, m)
        BY <2>2 DEF Stages
    <2> QED
        BY <2>1, <2>2
<1>4. PICK i \in 1..Len(Accepted("taker")) : e.id = Accepted("taker")[i]
    BY <1>1, <1>2, Elements
<1>5. e.id # issued + 1
    BY <1>1, <1>4, ElementOfSeq DEF Drawn
<1> QED
    BY <1>2, <1>3, <1>5 DEF Refused, Accepted

LEMMA TakesRefused ==
    ASSUME TypeOK, Story, Apart, NEW r \in Role, NEW x \in Proper, x.past = Accepted(r), Takes(r, x), Refused'
    PROVE  Refused
<1>1. x.type # "error" /\ x.id \in Nat /\ Accepted("taker") \in Seq(Nat)
    BY Typed, Roles, TakesFacts
<1>2. PICK e \in sent' : e.type = "error" /\ e.id \in ToSet(Accepted("taker")')
    BY DEF Refused, Accepted
<1>3. e \in sent /\ e.id # x.id
    BY <1>1, <1>2 DEF Takes, Apart, RefusalsApart
<1>4. CASE r = "taker"
    <2> DEFINE s == Accepted("taker")
               t == Append(s, x.id)
    <2>1. Accepted("taker")' = t
        BY <1>4, TakesFacts DEF Path
    <2>2. t \in Seq(Nat) /\ Len(t) = Len(s) + 1 /\ Len(s) \in Nat
          /\ t[Len(s) + 1] = x.id /\ \A i \in 1..Len(s) : t[i] = s[i]
        BY <1>1, Appended
    <2>3. s \in Seq(Nat) /\ e.id \in ToSet(t)
        BY <1>1, <1>2, <2>1
    <2> HIDE DEF t, s
    <2>4. ToSet(t) = {t[i] : i \in 1..Len(t)} /\ ToSet(s) = {s[i] : i \in 1..Len(s)}
        BY <1>1, <2>2, <2>3, Elements
    <2>5. PICK i \in 1..(Len(s) + 1) : e.id = t[i]
        BY <2>2, <2>3, <2>4
    <2>6. e.id \in ToSet(s)
        BY <1>3, <2>2, <2>4, <2>5
    <2> QED
        BY <1>2, <1>3, <2>6 DEF Refused, Accepted, s
<1>5. CASE r = "maker"
    <2>1. Accepted("taker")' = Accepted("taker")
        BY <1>5, TakesFacts, Roles
    <2> QED
        BY <1>2, <1>3, <2>1 DEF Refused, Accepted
<1> QED
    BY <1>4, <1>5 DEF Role

LEMMA RefusalEndsKeeps ==
    ASSUME TypeOK, Story, Apart, Rooted, RefusalEnds, Move
    PROVE  RefusalEnds'
<1>0. \A m \in Proper : m \in Proper'
    BY MoveFacts
<1>1. ASSUME Accepted("taker")' = Accepted("taker"), Accepted("maker")' = Accepted("maker"), Refused
      PROVE  \E e \in sent', p \in Proper' : Ended(e, p)'
    <2>1. PICK e \in sent, p \in Proper : Ended(e, p)
        BY <1>1 DEF RefusalEnds
    <2>2. Ended(e, p)'
        BY <1>1, <2>1 DEF Ended, Path, Begins
    <2> QED
        BY <2>2, MoveFacts
<1>2. CASE Quiet \/ \E r \in Role, m \in Message : Stages(r, m)
    BY <1>1, <1>2, QuietRefused, QuietFacts, StagesFacts, Roles DEF RefusalEnds
<1>3. ASSUME NEW r \in Role, NEW x \in Proper, x.past = Accepted(r), Takes(r, x), Refused'
      PROVE  \E e \in sent', p \in Proper' : Ended(e, p)'
    <2>1. Refused
        BY <1>3, TakesRefused
    <2>2. PICK e \in sent, p \in Proper : Ended(e, p)
        BY <2>1 DEF RefusalEnds
    <2>3. r = "maker"
        BY <2>1, <2>2, <1>3, NothingFollows DEF Role
    <2>4. Accepted("taker")' = Accepted("taker") /\ Accepted("maker")' = Path(x) /\ Proper' = Proper
        BY <1>3, <2>3, TakesFacts, Roles
    <2>5. Begins(Path(p), Path(x))
        <3>1. CASE Accepted("maker") = <<>>
            <4>1. x.past = p.past
                BY <1>3, <2>2, <2>3, <3>1 DEF Ended
            <4>2. x = p
                BY <4>1 DEF Story, Places, OneSuccessor
            <4>3. Path(p) \in Seq(Nat)
                BY Typed
            <4> QED
                BY <4>2, <4>3, BeginsAppended
        <3>2. CASE Begins(Path(p), Accepted("maker"))
            <4>1. Path(p) \in Seq(Nat) /\ Accepted("maker") \in Seq(Nat) /\ x.id \in Nat
                BY Typed, Roles
            <4>2. Path(x) = Append(Accepted("maker"), x.id)
                BY <1>3, <2>3 DEF Path
            <4> QED
                BY <3>2, <4>1, <4>2, BeginsAppended
        <3> QED
            BY <3>1, <3>2, <2>2 DEF Ended
    <2>6. Ended(e, p)'
        BY <2>2, <2>4, <2>5 DEF Ended, Path, Begins
    <2> QED
        BY <2>4, <2>6, MoveFacts
<1>4. ASSUME NEW x \in sent, Ends(x) PROVE \E e \in sent', p \in Proper' : Ended(e, p)'
    <2> DEFINE a == Accepted("maker")
               b == Accepted("taker")
    <2>1. ~Refused /\ Active("taker") /\ session["taker"].phase = "awaiting_reserve_accept"
        BY <1>4, EndsFacts DEF Apart, RefusedIsOver, Ends
    <2>2. PICK p \in Proper : b = Path(p)
        <3>1. /\ "awaiting_reserve_accept" # "awaiting_reserve_propose"
              /\ "awaiting_reserve_accept" \notin Resumed
            BY TranscriptAssumption
        <3> QED
            BY <2>1, <3>1, Roles DEF Rooted
    <2>3. p.type = "reserve_propose"
        <3>1. p.type \in Type /\ p.type # "error"
            BY Typed, ProperIsNoError DEF Story
        <3>2. After[p.type] = "awaiting_reserve_accept"
            BY <2>1, <2>2, Roles DEF Story, Places, PhaseFollows
        <3> QED
            BY <3>1, <3>2, AfterTable, TypeTable
    <2>4. p.past = <<>> /\ p \in Message
        BY <2>3, Typed DEF Story, Places, StartsEmpty
    <2>5. a \in Seq(Nat) /\ b \in Seq(Nat) /\ Len(b) = 1 /\ Len(a) \in Nat
        <3>1. Len(Path(p)) = 1
            BY <2>4, FirstPath
        <3> QED
            BY <2>2, <3>1, Typed, Roles, LenProperties
    <2>6. Begins(a, b) \/ Begins(b, a)
        BY <2>1, Roles DEF Story, Chain
    <2>7. a = <<>> \/ Begins(Path(p), a)
        <3>1. CASE Len(a) = 0
            BY <3>1, <2>5, EmptySeq
        <3>2. CASE Len(a) = 1
            <4>1. Begins(b, a)
                BY <2>5, <2>6, <3>2 DEF Begins
            <4> QED
                BY <2>2, <4>1
        <3>3. CASE Len(a) > 1
            <4>1. Begins(b, a)
                BY <2>5, <2>6, <3>3 DEF Begins
            <4> QED
                BY <2>2, <4>1
        <3> QED
            BY <3>1, <3>2, <3>3, <2>5
    <2>8. /\ Accepted("taker")' = Path(x) /\ Accepted("maker")' = a /\ x.past = b
          /\ Proper' = Proper /\ sent' = sent /\ x.type = "error"
        BY <1>4, EndsFacts DEF Ends
    <2>9. Path(x) = Append(Path(p), x.id)
        BY <2>2, <2>8 DEF Path
    <2>10. Ended(x, p)'
        BY <2>3, <2>4, <2>7, <2>8, <2>9 DEF Ended, Path, Begins
    <2> QED
        BY <2>8, <2>10
<1> QED
    BY <1>2, <1>3, <1>4 DEF Move, RefusalEnds

LEMMA ToldIsInductive == Inv /\ Apart /\ Told /\ [Next]_vars => Told'
<1> SUFFICES ASSUME Inv, Apart, Told, [Next]_vars PROVE Told'
    OBVIOUS
<1>1. Move /\ TypeOK /\ Story
    BY InvAndMove DEF Inv
<1> QED
    BY <1>1, RisingKeeps, RootedKeeps, DeliveredKeeps, RefusalEndsKeeps DEF Told

LEMMA InitTold ==
    ASSUME Init
    PROVE  Told
<1>1. Proper = {} /\ ~Refused
    <2>1. New.outbox = None /\ \A phase \in Resumed : Old(phase).outbox = None
        BY DEF New, Old
    <2>2. \A r \in Role : session[r].outbox = None
        BY <2>1 DEF Init
    <2> QED
        BY <2>2, Roles DEF Init, Proper, Says, Refused
<1>2. ASSUME NEW r \in Role
      PROVE  Len(Accepted(r)) <= 1 /\ session[r].phase \in {"awaiting_reserve_propose"} \cup Resumed
    <2>1. /\ New.accepted = <<>> /\ New.phase = "awaiting_reserve_propose"
          /\ \A phase \in Resumed : Old(phase).accepted = <<1>> /\ Old(phase).phase = phase
        BY DEF New, Old
    <2>2. Len(<<>>) = 0 /\ Len(<<1>>) = 1
        BY EmptySeq
    <2>3. ASSUME session = [p \in Role |-> New]
          PROVE  Len(Accepted(r)) <= 1 /\ session[r].phase \in {"awaiting_reserve_propose"} \cup Resumed
        <3>1. session[r] = New
            BY <2>3
        <3> QED
            BY <2>1, <2>2, <3>1 DEF Accepted
    <2>4. ASSUME NEW phase \in Resumed, session = [p \in Role |-> Old(phase)]
          PROVE  Len(Accepted(r)) <= 1 /\ session[r].phase \in {"awaiting_reserve_propose"} \cup Resumed
        <3>1. session[r] = Old(phase)
            BY <2>4
        <3>2. Accepted(r) = <<1>> /\ session[r].phase = phase
            BY <2>1, <3>1 DEF Accepted
        <3> QED
            BY <2>2, <3>2
    <2> QED
        BY <2>3, <2>4 DEF Init
<1> QED
    BY <1>1, <1>2 DEF Told, Rising, Rooted, Delivered, RefusalEnds

-----------------------------------------------------------------------------
(* What each side knows of the conversation *)

LEMMA FrontAppended ==
    ASSUME NEW s \in Seq(Nat), NEW x \in Nat
    PROVE  Front(Append(s, x)) = s
<1> DEFINE t == Append(s, x)
<1>1. /\ t \in Seq(Nat) /\ Len(t) = Len(s) + 1 /\ Len(s) \in Nat
      /\ \A i \in 1..Len(s) : t[i] = s[i] /\ s[i] \in Nat
    BY Appended
<1> HIDE DEF t
<1>2. Len(t) - 1 = Len(s)
    BY <1>1
<1>3. \A i \in 1..Len(s) : t[i] \in Nat
    BY <1>1
<1>4. /\ SubSeq(t, 1, Len(s)) \in Seq(Nat) /\ Len(SubSeq(t, 1, Len(s))) = Len(s)
      /\ \A i \in 1..Len(s) : SubSeq(t, 1, Len(s))[i] = t[i]
    BY <1>1, <1>3, SubSeqProperties
<1>5. SubSeq(t, 1, Len(s)) = s
    BY <1>1, <1>4, SeqEqual
<1> QED
    BY <1>2, <1>5 DEF Front, t

LEMMA NextInLonger ==
    ASSUME TypeOK, Story, NEW a \in Seq(Nat), NEW b \in Seq(Nat), Begins(a, b), Len(a) < Len(b),
           Chained(b, a), NEW x \in Proper, x.past = a
    PROVE  b[Len(a) + 1] = x.id
<1> DEFINE i == Len(a) + 1
<1>1. Len(a) \in Nat /\ Len(b) \in Nat
    BY LenProperties
<1>2. i \in 1..Len(b) /\ i > Len(a) /\ i - 1 = Len(a)
    BY <1>1
<1> HIDE DEF i
<1>3. PICK k \in Proper : k.id = b[i] /\ Len(k.past) = i - 1 /\ \A j \in 1..(i - 1) : k.past[j] = b[j]
    BY <1>2 DEF Chained
<1>4. Len(k.past) = Len(a) /\ \A j \in 1..Len(a) : k.past[j] = a[j]
    BY <1>1, <1>2, <1>3 DEF Begins
<1>5. k.past \in Seq(Nat)
    BY Typed
<1>6. k.past = a
    BY <1>4, <1>5, SeqEqual
<1>7. k = x
    BY <1>6 DEF Story, Places, OneSuccessor
<1> QED
    BY <1>3, <1>7 DEF i

\* What a refused taker keeps is its proposal.
LEMMA RefusedKept ==
    ASSUME TypeOK, Story, Refused, NEW e \in sent, NEW p \in Proper, Ended(e, p)
    PROVE  /\ Kept("taker") = Path(p) /\ Path(p) \in Seq(Nat) /\ Len(Path(p)) = 1
           /\ Path(p)[1] = p.id
           /\ Begins(Path(p), Accepted("taker"))
<1>1. /\ p \in Message /\ e.id \in Nat /\ Path(p) \in Seq(Nat) /\ p.past = <<>>
      /\ Accepted("taker") = Append(Path(p), e.id)
    BY Typed DEF Ended
<1>2. Len(Path(p)) = 1 /\ Path(p)[1] = p.id
    <2>1. Len(p.past) = 0 /\ Len(p.past) + 1 = 1
        BY <1>1, EmptySeq
    <2>2. Len(Path(p)) = Len(p.past) + 1 /\ Path(p)[Len(p.past) + 1] = p.id
        BY <1>1, PathFacts
    <2> QED
        BY <2>1, <2>2
<1>3. Front(Accepted("taker")) = Path(p)
    BY <1>1, FrontAppended
<1>4. Begins(Path(p), Accepted("taker"))
    BY <1>1, BeginsAppended
<1> QED
    BY <1>1, <1>2, <1>3, <1>4 DEF Kept, Accepted

LEMMA KeptFacts ==
    ASSUME TypeOK, Story, Apart, Told
    PROVE  /\ \A r \in Role : Kept(r) \in Seq(Nat) /\ Begins(Kept(r), Accepted(r))
           /\ \A r \in Role : Begins(Kept(r), Kept(Other(r))) \/ Begins(Kept(Other(r)), Kept(r))
           /\ \A r \in Role : \A x \in Proper : x.past = Accepted(r) =>
                /\ Kept(r) = Accepted(r)
                /\ Len(Kept(r)) < Len(Kept(Other(r))) => Kept(Other(r))[Len(Kept(r)) + 1] = x.id
<1>0. \A r \in Role : Accepted(r) \in Seq(Nat) /\ Other(r) \in Role /\ Begins(Accepted(r), Accepted(r))
    BY Typed, Roles, BeginsAppended
<1>1. CASE ~Refused
    <2>1. \A r \in Role : Kept(r) = Accepted(r)
        BY <1>1 DEF Kept, Accepted
    <2>2. ASSUME NEW r \in Role
          PROVE  /\ Begins(Accepted(r), Accepted(Other(r))) \/ Begins(Accepted(Other(r)), Accepted(r))
                 /\ Chained(Accepted(Other(r)), Accepted(r))
        <3>1. Begins(Accepted(r), Accepted(Other(r))) \/ Begins(Accepted(Other(r)), Accepted(r))
            BY <1>1 DEF Story, Chain
        <3>2. Other(r) \in Role /\ Other(Other(r)) = r
            BY Roles
        <3>3. Chained(Accepted(Other(r)), Accepted(Other(Other(r))))
            BY <1>1, <3>2 DEF Story, Chain
        <3> QED
            BY <3>1, <3>2, <3>3, Zenon
    <2>3. ASSUME NEW r \in Role, NEW x \in Proper, x.past = Accepted(r),
                 Len(Accepted(r)) < Len(Accepted(Other(r)))
          PROVE  Accepted(Other(r))[Len(Accepted(r)) + 1] = x.id
        <3> DEFINE a == Accepted(r)
                   b == Accepted(Other(r))
        <3>1. a \in Seq(Nat) /\ b \in Seq(Nat) /\ Len(a) < Len(b) /\ Chained(b, a) /\ x.past = a
            BY <1>0, <2>2, <2>3
        <3>2. Begins(a, b) \/ Begins(b, a)
            BY <2>2
        <3> HIDE DEF a, b
        <3>3. Begins(a, b)
            BY <3>1, <3>2, LenProperties DEF Begins
        <3>4. b[Len(a) + 1] = x.id
            BY <3>1, <3>3, NextInLonger
        <3> QED
            BY <3>4 DEF a, b
    <2> QED
        BY <1>0, <2>1, <2>2, <2>3
<1>2. CASE Refused
    <2>1. PICK e \in sent, p \in Proper : Ended(e, p)
        BY <1>2 DEF Told, RefusalEnds
    <2> DEFINE a == Accepted("maker")
               b == Path(p)
    <2>2. Kept("taker") = b /\ b \in Seq(Nat) /\ Len(b) = 1 /\ b[1] = p.id
          /\ Begins(b, Accepted("taker"))
        BY <1>2, <2>1, RefusedKept
    <2>3. Kept("maker") = a /\ a \in Seq(Nat)
        BY <1>0, Roles DEF Kept, Accepted
    <2>4. a = <<>> \/ Begins(b, a)
        BY <2>1 DEF Ended
    <2>5. Begins(a, b) \/ Begins(b, a)
        <3>1. Begins(<<>>, b)
            BY <2>2, EmptySeq DEF Begins
        <3> QED
            BY <2>4, <3>1
    <2>6. \A x \in Proper : x.past # Accepted("taker")
        BY <1>2, <2>1, NothingFollows DEF Told
    <2>7. ASSUME NEW x \in Proper, x.past = a, Len(a) < Len(b) PROVE b[Len(a) + 1] = x.id
        <3>1. a = <<>> /\ Len(a) = 0
            <4>1. ~Begins(b, a)
                BY <2>2, <2>3, <2>7, LenProperties DEF Begins
            <4> QED
                BY <2>4, <4>1, EmptySeq
        <3>2. x = p
            BY <2>1, <2>7, <3>1 DEF Ended, Story, Places, OneSuccessor
        <3> QED
            BY <2>2, <3>1, <3>2
    <2> HIDE DEF a, b
    <2>8. Begins(a, a) /\ a = Accepted("maker")
        BY <1>0, Roles DEF a
    <2> QED
        BY <2>2, <2>3, <2>5, <2>6, <2>7, <2>8, Roles DEF Role
<1> QED
    BY <1>1, <1>2

Still == \A r \in Role : Kept(r)' = Kept(r)
Grown(r, x) ==
    /\ x.past = Accepted(r) /\ Kept(r)' = Path(x) /\ Kept(Other(r))' = Kept(Other(r))
    /\ x \in sent' /\ Proper' = Proper

LEMMA MoveKept ==
    ASSUME TypeOK, Story, Apart, Told, Move
    PROVE  \/ Still /\ (Proper' = Proper \/ sent' = sent)
           \/ \E r \in Role, x \in Proper : Grown(r, x)
<1>0. ASSUME Refused, Accepted("taker")' = Accepted("taker") PROVE Refused'
    BY <1>0, MoveFacts DEF Refused, Accepted
<1>1. ASSUME Quiet \/ \E r \in Role, m \in Message : Stages(r, m)
      PROVE  Still /\ (Proper' = Proper \/ sent' = sent)
    <2>1. \A r \in Role : Accepted(r)' = Accepted(r)
        BY <1>1, QuietFacts, StagesFacts
    <2>2. Refused' <=> Refused
        BY <1>0, <1>1, <2>1, QuietRefused, Roles
    <2>3. Still
        BY <2>1, <2>2 DEF Still, Kept, Accepted
    <2> QED
        BY <1>1, <2>3, QuietFacts DEF Stages
<1>2. ASSUME NEW r \in Role, NEW x \in Proper, x.past = Accepted(r), Takes(r, x)
      PROVE  Grown(r, x)
    <2>1. /\ Proper' = Proper /\ x \in sent' /\ Accepted(r)' = Path(x)
          /\ Accepted(Other(r))' = Accepted(Other(r))
        BY <1>2, TakesFacts DEF Takes
    <2>2. r = "taker" => ~Refused /\ ~Refused'
        <3> SUFFICES ASSUME Refused, r = "taker" PROVE FALSE
            BY <1>2, TakesRefused
        <3>1. PICK e \in sent, p \in Proper : Ended(e, p)
            BY DEF Told, RefusalEnds
        <3> QED
            BY <1>2, <3>1, NothingFollows DEF Told
    <2>3. r = "maker" => (Refused' <=> Refused)
        BY <1>0, <1>2, <2>1, Roles, TakesRefused
    <2>4. Kept(r)' = Path(x) /\ Kept(Other(r))' = Kept(Other(r))
        BY <2>1, <2>2, <2>3, Roles DEF Kept, Accepted, Role
    <2> QED
        BY <1>2, <2>1, <2>4 DEF Grown
<1>3. ASSUME NEW x \in sent, Ends(x) PROVE Still /\ sent' = sent
    <2>1. ~Refused
        BY <1>3, EndsFacts DEF Apart, RefusedIsOver
    <2>2. /\ Accepted("taker")' = Path(x) /\ Accepted("maker")' = Accepted("maker")
          /\ x.past = Accepted("taker") /\ x.id \in Nat /\ Accepted("taker") \in Seq(Nat)
          /\ sent' = sent /\ x.type = "error"
        BY <1>3, EndsFacts, Typed, Roles DEF Ends
    <2>3. Refused'
        <3>1. x.id \in ToSet(Path(x))
            BY <2>2, Elements DEF Path
        <3> QED
            BY <2>2, <3>1 DEF Refused, Accepted
    <2>4. Front(Accepted("taker"))' = Accepted("taker")
        <3>1. Front(Path(x)) = Accepted("taker")
            BY <2>2, FrontAppended DEF Path
        <3> QED
            BY <2>2, <3>1
    <2>5. Kept("taker")' = Kept("taker") /\ Kept("maker")' = Kept("maker")
        BY <2>1, <2>2, <2>3, <2>4 DEF Kept, Accepted
    <2> QED
        BY <2>2, <2>5 DEF Still, Role
<1> QED
    BY <1>1, <1>2, <1>3 DEF Move

-----------------------------------------------------------------------------
(* Every step is one of the conversation *)

LEMMA LongestFacts ==
    ASSUME TypeOK, Story, Apart, Told
    PROVE  /\ Longest \in Seq(Nat)
           /\ \A r \in Role : Begins(Kept(r), Longest) /\ Len(Kept(r)) \in Nat
           /\ \A r \in Role : Longest = Kept(r) \/ (Longest = Kept(Other(r)) /\ Len(Kept(r)) < Len(Longest))
           /\ \E r \in Role : Begins(Longest, Accepted(r))
<1> DEFINE a == Kept("maker")
           b == Kept("taker")
<1>1. a \in Seq(Nat) /\ b \in Seq(Nat) /\ (Begins(a, b) \/ Begins(b, a))
      /\ Begins(a, a) /\ Begins(b, b) /\ Len(a) \in Nat /\ Len(b) \in Nat
      /\ Begins(a, Accepted("maker")) /\ Begins(b, Accepted("taker"))
    BY KeptFacts, Roles, BeginsAppended, LenProperties
<1>2. ASSUME Begins(a, Longest), Begins(b, Longest), Longest \in Seq(Nat),
             \/ Longest = a /\ (b = a \/ Len(b) < Len(a)) /\ Begins(Longest, Accepted("maker"))
             \/ Longest = b /\ (a = b \/ Len(a) < Len(b)) /\ Begins(Longest, Accepted("taker"))
      PROVE  /\ \A r \in Role : Begins(Kept(r), Longest) /\ Len(Kept(r)) \in Nat
             /\ \A r \in Role : Longest = Kept(r) \/ (Longest = Kept(Other(r)) /\ Len(Kept(r)) < Len(Longest))
             /\ \E r \in Role : Begins(Longest, Accepted(r))
    <2>1. \A r \in Role : Begins(Kept(r), Longest) /\ Len(Kept(r)) \in Nat
        BY <1>1, <1>2 DEF Role
    <2>2. \A r \in Role : Longest = Kept(r) \/ (Longest = Kept(Other(r)) /\ Len(Kept(r)) < Len(Longest))
        <3>1. Longest = a \/ (Longest = b /\ Len(a) < Len(Longest))
            BY <1>2
        <3>2. Longest = b \/ (Longest = a /\ Len(b) < Len(Longest))
            BY <1>2
        <3> QED
            BY <3>1, <3>2, Roles DEF Role
    <2>3. \E r \in Role : Begins(Longest, Accepted(r))
        BY <1>2, Roles
    <2> QED
        BY <2>1, <2>2, <2>3
<1>3. CASE Len(a) >= Len(b)
    <2>1. Longest = a
        BY <1>3 DEF Longest
    <2>2. Begins(b, a)
        BY <1>1, <1>3 DEF Begins
    <2>3. b = a \/ Len(b) < Len(a)
        BY <1>1, <1>3, <2>2, BothBegin
    <2> HIDE DEF a, b
    <2> QED
        BY <1>1, <1>2, <2>1, <2>2, <2>3
<1>4. CASE ~(Len(a) >= Len(b))
    <2>1. Longest = b /\ Len(a) < Len(b)
        BY <1>1, <1>4 DEF Longest
    <2>2. Begins(a, b)
        BY <1>1, <1>4 DEF Begins
    <2> HIDE DEF a, b
    <2> QED
        BY <1>1, <1>2, <2>1, <2>2
<1> QED
    BY <1>3, <1>4

\* What was said last was sent.
LEMMA SpokenFacts ==
    ASSUME TypeOK, Story, Apart, Told
    PROVE  Spoken = {m \in Proper : Path(m) = Longest}
<1>1. ASSUME NEW m \in Proper, Path(m) = Longest PROVE m \in Spoken
    <2>1. m \in sent
        BY <1>1, LongestFacts DEF Told, Delivered
    <2>2. m.type # "error"
        BY ProperIsNoError DEF Story
    <2> QED
        BY <1>1, <2>1, <2>2 DEF Spoken, Path
<1>2. ASSUME NEW m \in Spoken PROVE m \in Proper /\ Path(m) = Longest
    BY DEF Spoken, Path, Proper
<1> QED
    BY <1>1, <1>2

LEMMA SpokenStays ==
    ASSUME TypeOK, Story, Apart, Told, Move, Longest' = Longest, Proper' = Proper \/ sent' = sent
    PROVE  LastWord' = LastWord
<1>1. ASSUME NEW m \in Spoken PROVE m \in Spoken'
    BY MoveFacts DEF Spoken
<1>2. ASSUME NEW m \in Spoken' PROVE m \in Spoken
    <2>1. m \in sent' /\ m.type # "error" /\ Path(m) = Longest
        BY DEF Spoken, Path
    <2>2. CASE sent' = sent
        BY <2>1, <2>2 DEF Spoken, Path
    <2>3. CASE Proper' = Proper
        <3>1. m \in Proper
            BY <2>1, <2>3 DEF Proper
        <3> QED
            BY <2>1, <3>1, SpokenFacts
    <2> QED
        BY <2>2, <2>3
<1>3. Spoken' = Spoken
    BY <1>1, <1>2
<1> QED
    BY <1>3 DEF LastWord

LEMMA StillStutters ==
    ASSUME TypeOK, Story, Apart, Told, Move, Still, Proper' = Proper \/ sent' = sent
    PROVE  UNCHANGED Talk!vars
<1>1. Longest' = Longest
    BY Roles DEF Still, Longest
<1>2. [r \in Role |-> Kept(r)]' = [r \in Role |-> Kept(r)]
    BY DEF Still
<1> QED
    BY <1>1, <1>2, SpokenStays DEF Talk!vars

\* The writer of the next message knows all of the story.
LEMMA WriterKnows ==
    ASSUME TypeOK, Story, Apart, Told, NEW r \in Role, NEW x \in Proper,
           x.past = Accepted(r), Kept(r) = Longest
    PROVE  Kept(Writer(x.type)) = Longest
<1> DEFINE w == Writer(x.type)
           a == Accepted(r)
<1>1. w \in Role /\ (w = r \/ w = Other(r)) /\ Kept(r) = a
    BY Writers, KeptFacts DEF Role, Other
<1>2. CASE x \in Says(w)
    <2>1. x.past = Accepted(w)
        BY <1>1, <1>2 DEF Story, StagedContinues
    <2>2. Kept(w) = Accepted(w)
        BY <1>1, <2>1, KeptFacts
    <2> QED
        BY <1>1, <2>1, <2>2
<1>3. CASE x \notin Says(w)
    <2>1. Begins(Path(x), Accepted(w))
        <3>1. x \in sent \/ \E p \in Role : x \in Says(p)
            BY Roles DEF Proper
        <3>2. x \in sent
            BY <1>3, <3>1 DEF Story, StagedContinues
        <3>3. x.type # "error"
            BY ProperIsNoError DEF Story
        <3> QED
            BY <1>3, <3>2, <3>3 DEF Story, SentIsSaid
    <2>2. x \in Message /\ Len(x.past) \in Nat /\ Len(Path(x)) = Len(a) + 1 /\ Path(x) \in Seq(Nat)
        BY Typed, PathFacts
    <2>3. Len(Kept(w)) <= Len(a) /\ Len(Kept(w)) \in Nat
        BY <1>1, LongestFacts DEF Begins
    <2>4. CASE ~Refused \/ w = "maker"
        <3>1. Kept(w) = Accepted(w)
            BY <2>4, Roles DEF Kept, Accepted
        <3> QED
            BY <2>1, <2>2, <2>3, <3>1 DEF Begins
    \* A refused taker wrote only what it keeps.
    <2>5. CASE Refused /\ w = "taker"
        <3>1. PICK e \in sent, p \in Proper : Ended(e, p)
            BY <2>5 DEF Told, RefusalEnds
        <3> DEFINE b == Path(p)
        <3>2. b \in Seq(Nat) /\ Kept(w) = b /\ Accepted(w) = Append(b, e.id) /\ e.id \in Nat
            BY <2>5, <3>1, RefusedKept, Typed DEF Ended
        <3>3. Path(x) # Append(b, e.id)
            <4>1. x.id # e.id
                BY <3>1 DEF Apart, RefusalsApart, Ended
            <4> QED
                BY <4>1, <2>2, <3>2, Typed, AppendIsInjective DEF Path
        <3> HIDE DEF b
        <3>4. Begins(Path(x), b)
            BY <2>1, <2>2, <3>2, <3>3, BeginsLonger
        <3> QED
            BY <2>2, <2>3, <3>2, <3>4 DEF Begins
    <2> QED
        BY <1>1, <2>4, <2>5 DEF Role
<1> QED
    BY <1>2, <1>3

\* Where one side's transcript goes, the story goes if it is the longer.
LEMMA LongestOf ==
    ASSUME NEW r \in Role, NEW p \in Seq(Nat), NEW q \in Seq(Nat),
           Kept(r)' = p, Kept(Other(r))' = q
    PROVE  /\ Len(p) > Len(q) => Longest' = p
           /\ Len(p) < Len(q) => Longest' = q
           /\ p = q => Longest' = q
<1>1. Len(p) \in Nat /\ Len(q) \in Nat
    BY LenProperties
<1>2. CASE r = "maker"
    <2>1. Longest' = IF Len(p) >= Len(q) THEN p ELSE q
        BY <1>2, Roles DEF Longest
    <2> QED
        BY <1>1, <2>1
<1>3. CASE r = "taker"
    <2>1. Longest' = IF Len(q) >= Len(p) THEN q ELSE p
        BY <1>3, Roles DEF Longest
    <2> QED
        BY <1>1, <2>1
<1> QED
    BY <1>2, <1>3 DEF Role

\* What answers a message that wants an answer may follow it.
LEMMA MayFollow ==
    ASSUME TypeOK, Story, Apart, Told, NEW x \in Proper, x.past = Longest
    PROVE  Talk!May(x.type)
<1>1. CASE \E k \in Proper : Answers(x.past, k)
    <2>1. PICK k \in Proper : Answers(x.past, k)
        BY <1>1
    <2>2. Path(k) = Longest /\ After[k.type] \in DOMAIN Expected /\ k.type \in Type
        BY <2>1, Typed DEF Answers
    <2>3. Spoken = {k}
        BY <2>2, SpokenFacts, SamePath
    <2>4. LastWord = k.type
        BY <2>3 DEF LastWord
    <2>5. x.type = Expected[After[k.type]]
        BY <2>1 DEF Answers, Story, Places, AnswerIsExpected
    <2>6. k.type # "none"
        BY <2>2, TypeTable
    <2> QED
        BY <2>2, <2>4, <2>5, <2>6 DEF Talk!May
<1>2. CASE ~\E k \in Proper : Answers(x.past, k)
    <2>1. Len(x.past) <= 1 /\ x.type \in Openings
        BY <1>2 DEF Told, Rooted
    <2>2. CASE Spoken = {}
        BY <2>1, <2>2 DEF Talk!May, LastWord, Openings
    <2>3. CASE Spoken # {}
        <3>1. PICK k \in Proper : Path(k) = x.past
            BY <2>3, SpokenFacts
        <3>2. k \in Message /\ Len(k.past) \in Nat /\ Len(Path(k)) = Len(k.past) + 1
            BY Typed, PathFacts
        <3>3. \A j \in Proper : k.past # Path(j)
            <4> SUFFICES ASSUME NEW j \in Proper, k.past = Path(j) PROVE FALSE
                OBVIOUS
            <4>1. j \in Message /\ Len(j.past) \in Nat /\ Len(Path(j)) = Len(j.past) + 1
                BY Typed, PathFacts
            <4>2. Len(k.past) = Len(Path(j)) /\ Len(Path(k)) <= 1
                BY <2>1, <3>1
            <4> QED
                BY <3>2, <4>1, <4>2
        <3>4. k.type \in Openings
            BY <3>3 DEF Told, Rooted, Answers
        <3>5. After[k.type] \in DOMAIN Expected
            BY <3>4, TranscriptAssumption, AfterTable, ExpectedTable DEF Openings
        <3> QED
            BY <1>2, <3>1, <3>5 DEF Answers
    <2> QED
        BY <2>2, <2>3
<1> QED
    BY <1>1, <1>2

LEMMA GrownTalks ==
    ASSUME TypeOK, Story, Apart, Told, Move,
           NEW r \in Role, NEW x \in Proper, Grown(r, x)
    PROVE  Talk!Say(r) \/ Talk!Learn(r)
<1> DEFINE a == Kept(r)
           b == Kept(Other(r))
           k == [p \in Role |-> Kept(p)]
<1>1. /\ a = Accepted(r) /\ x.past = a /\ a \in Seq(Nat) /\ x.id \in Nat /\ Path(x) = Append(a, x.id)
      /\ a' = Path(x) /\ b' = b /\ b \in Seq(Nat) /\ Longest \in Seq(Nat) /\ Proper' = Proper
      /\ Len(Path(x)) = Len(a) + 1 /\ Len(a) \in Nat /\ Path(x) \in Seq(Nat)
    <2>1. x.past = Accepted(r) /\ a' = Path(x) /\ b' = b /\ Proper' = Proper
        BY DEF Grown
    <2>2. a = Accepted(r) /\ a \in Seq(Nat) /\ b \in Seq(Nat)
        BY <2>1, KeptFacts, Roles
    <2>3. x \in Message
        BY Typed
    <2>4. /\ x.id \in Nat /\ Len(x.past) \in Nat /\ Len(Path(x)) = Len(x.past) + 1
          /\ Path(x) \in Seq(Nat)
        BY <2>3, PathFacts
    <2>5. Path(x) = Append(x.past, x.id) /\ Longest \in Seq(Nat)
        BY LongestFacts DEF Path
    <2> HIDE DEF a, b
    <2> QED
        BY <2>1, <2>2, <2>4, <2>5
<1>2. /\ k' = [k EXCEPT ![r] = Path(x)] /\ k[r] = a /\ \A p \in Role : k[p] = Kept(p)
    <2>1. \A p \in Role : p # r => Kept(p)' = Kept(p)
        BY DEF Grown, Role, Other
    <2> QED
        BY <1>1, <2>1
<1>3. CASE a # Longest
    <2>1. Longest = b /\ Len(a) < Len(b)
        BY <1>3, LongestFacts
    <2>2. b[Len(a) + 1] = x.id
        BY <1>1, <2>1, KeptFacts DEF Grown
    <2>3. Longest' = Longest
        <3>1. Begins(a, b) /\ Len(b) \in Nat
            BY <2>1, LongestFacts, Roles
        <3>2. Begins(Path(x), b)
            <4>1. \A i \in 1..Len(a) : Append(a, x.id)[i] = a[i]
                BY <1>1, Appended
            <4>2. Append(a, x.id)[Len(a) + 1] = x.id
                BY <1>1, Appended
            <4> HIDE DEF a, b
            <4> QED
                BY <1>1, <2>1, <2>2, <3>1, <4>1, <4>2 DEF Begins
        <3>3. Path(x) = b \/ Len(Path(x)) < Len(b)
            BY <1>1, <3>1, <3>2, BothBegin DEF Begins
        <3> QED
            BY <1>1, <2>1, <3>3, LongestOf
    <2>4. LastWord' = LastWord
        BY <1>1, <2>3, SpokenStays
    <2>5. k' = [k EXCEPT ![r] = Append(@, Longest[Len(@) + 1])]
        BY <1>1, <1>2, <2>1, <2>2
    <2> HIDE DEF k
    <2>6. Len(k[r]) < Len(Longest)
        BY <1>2, <2>1
    <2> QED
        BY <2>3, <2>4, <2>5, <2>6 DEF Talk!Learn, k
<1>4. CASE a = Longest
    <2>1. Longest' = Path(x)
        <3>1. Len(b) <= Len(a) /\ Len(b) \in Nat
            BY <1>1, <1>4, LongestFacts, Roles DEF Begins
        <3>2. Len(Path(x)) > Len(b)
            BY <1>1, <3>1
        <3> QED
            BY <1>1, <3>2, LongestOf
    <2>2. LastWord' = x.type
        <3>1. Spoken' = {x}
            <4>1. x \in sent' /\ x.type # "error"
                BY ProperIsNoError DEF Story, Grown
            <4>2. x \in Spoken'
                BY <2>1, <4>1 DEF Spoken, Path
            <4>3. ASSUME NEW m \in Spoken' PROVE m = x
                <5>1. m \in Proper' /\ Path(m) = Path(x)
                    BY <2>1 DEF Spoken, Path, Proper
                <5> QED
                    BY <1>1, <5>1, SamePath
            <4> QED
                BY <4>2, <4>3
        <3> QED
            BY <3>1 DEF LastWord
    <2>3. Talk!May(x.type)
        BY <1>1, <1>4, MayFollow
    <2>4. Kept(Writer(x.type)) = Longest /\ Writer(x.type) \in Role
        BY <1>1, <1>4, WriterKnows, Writers
    <2>5. \A i \in 1..Len(Longest) : Longest[i] # x.id
        <3>1. \A i \in 1..Len(a) : a[i] < x.id /\ a[i] \in Nat
            BY <1>1, ElementOfSeq DEF Told, Rising
        <3> QED
            BY <1>1, <1>4, <3>1
    <2>6. /\ Len(Path(x)) = Len(Longest) + 1 /\ Path(x)[Len(Path(x))] = x.id
          /\ Path(x) = Append(Longest, x.id)
        BY <1>1, <1>4, Appended
    <2>7. k[r] = Longest /\ k[Writer(x.type)] = Longest
        BY <1>2, <1>4, <2>4
    <2> HIDE DEF k
    <2> QED
        BY <1>2, <2>1, <2>2, <2>3, <2>5, <2>6, <2>7 DEF Talk!Say, k
<1> QED
    BY <1>3, <1>4

LEMMA InitTalk ==
    ASSUME Init
    PROVE  Talk!Init
<1>1. Inv /\ Told
    BY InitInv, InitTold
<1>2. PICK s \in {<<>>, <<1>>} : \A r \in Role : Accepted(r) = s
    <2>1. New.accepted = <<>> /\ \A phase \in Resumed : Old(phase).accepted = <<1>>
        BY DEF New, Old
    <2>2. ASSUME session = [r \in Role |-> New] PROVE \A r \in Role : Accepted(r) = <<>>
        BY <2>1, <2>2 DEF Accepted
    <2>3. ASSUME NEW phase \in Resumed, session = [r \in Role |-> Old(phase)]
          PROVE  \A r \in Role : Accepted(r) = <<1>>
        BY <2>1, <2>3 DEF Accepted
    <2> QED
        BY <2>2, <2>3 DEF Init
<1>3. ~Refused /\ Spoken = {}
    BY DEF Init, Refused, Spoken
<1>4. \A r \in Role : Kept(r) = s
    BY <1>2, <1>3 DEF Kept, Accepted
<1>5. Longest = s
    BY <1>4, Roles DEF Longest
<1>6. s \in Seq(Nat) /\ Len(s) <= 1
    <2>1. <<>> \in Seq(Nat) /\ Len(<<>>) = 0 /\ <<1>> \in Seq(Nat) /\ Len(<<1>>) = 1
        BY EmptySeq
    <2>2. CASE s = <<>>
        BY <2>1, <2>2
    <2>3. CASE s = <<1>>
        <3>1. s \in Seq(Nat)
            BY <2>1, <2>3, Zenon
        <3>2. Len(s) = 1
            BY <2>1, <2>3, Zenon
        <3> QED
            BY <3>1, <3>2
    <2> QED
        BY <1>2, <2>2, <2>3, Zenon
<1> QED
    BY <1>3, <1>4, <1>5, <1>6 DEF Talk!Init, LastWord

\* Whatever is lost, repeated, rerouted, refused or recovered from, the messages of a
\* trade are one conversation in turns: the two transcripts are beginnings of one story,
\* and every message in it was written by a side that knew all before it, once, and of
\* the type that the choreography wants next.
THEOREM ConversationImplemented == Spec => ImplementsConversation
<1> DEFINE I == Inv /\ Terms /\ Apart /\ Told
<1>1. Init => I /\ Talk!Init
    BY InitInv, InitTerms, InitApart, InitTold, InitTalk
<1>2. I /\ [Next]_vars => I'
    BY InvIsInductive, TermsAreInductive, ApartIsInductive, ToldIsInductive
<1>3. I /\ [Next]_vars => [Talk!Next]_(Talk!vars)
    <2> SUFFICES ASSUME I, [Next]_vars PROVE [Talk!Next]_(Talk!vars)
        OBVIOUS
    <2>1. TypeOK /\ Story /\ Apart /\ Told /\ Move
        BY InvAndMove DEF Inv
    <2>2. CASE Still /\ (Proper' = Proper \/ sent' = sent)
        BY <2>1, <2>2, StillStutters
    <2>3. ASSUME NEW r \in Role, NEW x \in Proper, Grown(r, x) PROVE Talk!Next
        BY <2>1, <2>3, GrownTalks DEF Talk!Next
    <2> QED
        BY <2>1, <2>2, <2>3, MoveKept
<1> QED
    BY <1>1, <1>2, <1>3, PTL DEF Spec, ImplementsConversation, Talk!Spec
=================================================================================
