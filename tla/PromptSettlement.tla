--------------------------- MODULE PromptSettlement ---------------------------
(***************************************************************************)
(* The settlement of TradeSettlement under the scheduling its parties can  *)
(* rely on.  An actor that is fair is driven again and again: the          *)
(* controller's driveUntilSettled loop advances a session until it is      *)
(* done, and the session is driven again whenever the page is opened; a    *)
(* mint processes the requests it receives.  An actor that is prompt is    *)
(* fast as well: time does not pass an instant at which it still has       *)
(* something to do.  A behaviour keeps one of Schedulings.                 *)
(***************************************************************************)
EXTENDS TradeSettlement

Actor == Role \cup {"mint"}

CONSTANT Schedulings

ASSUME SchedulingAssumption ==
    /\ Schedulings \subseteq [fair : SUBSET Actor, prompt : SUBSET Actor]
    /\ \A s \in Schedulings : s.prompt \subseteq s.fair

VARIABLE scheduling

promptVars == <<vars, scheduling>>

Step(p) ==
    CASE p = "mint"  -> \E q \in Request : MintProcess(q)
      [] p = "maker" -> SessionStep("maker") \/ MakerAccepts
      [] p = "taker" -> SessionStep("taker")

PromptTick ==
    /\ \A p \in scheduling.prompt : ~ENABLED <<Step(p)>>_vars
    /\ Tick

PromptInit == Init /\ scheduling \in Schedulings

PromptNext ==
    /\ UNCHANGED scheduling
    /\ \/ \E r \in Role : SessionStep(r) \/ Crash(r)
       \/ MakerInboxStep
       \/ \E q \in Request : MintProcess(q) \/ LoseRequest(q)
       \/ PromptTick

PromptSpec ==
    /\ PromptInit /\ [][PromptNext]_promptVars
    /\ WF_vars(PromptTick)
    /\ \A p \in Actor : WF_vars(p \in scheduling.fair /\ Step(p))

-----------------------------------------------------------------------------
(* What those who are driven can rely on *)

Driven(r) == r \in scheduling.fair
Rejected == "error" \in relay
Filled(r) == session[r].phase = "filled"
OrderSays(operation) == order = [operation |-> operation, published |-> TRUE]

\* When everyone acts in time a trade that is accepted is settled, whatever
\* result or request is lost on the way: both are paid, both sessions know it
\* and the order book says so.
PromptTradesSettle == <>(Rejected \/ ((\A r \in Role : Filled(r)) /\ OrderSays("fill") /\ BothClaimed))

\* A maker that acts in time never leaves its offer locked: it is claimed, or
\* refunded after the long locktime, however slow the taker is.
OfferIsResolved == Driven("maker") /\ mint["base"] = "locked" ~> mint["base"] # "locked"

\* A taker that acts in time never leaves its payment locked, however slow the
\* maker is.
PaymentIsResolved == Driven("taker") /\ mint["quote"] = "locked" ~> mint["quote"] # "locked"

\* A taker that acts in time collects the offer once its payment is claimed: it
\* never finds the payment gone and the offer taken back.
ClaimedPaymentIsAnswered == Driven("taker") /\ Claimed("quote") ~> Claimed("base")

=============================================================================
