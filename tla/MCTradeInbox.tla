----------------------------- MODULE MCTradeInbox -----------------------------
(* Two messages of the peer, the second without an answer to the first.     *)
EXTENDS TradeInbox

MCEarly == {2}
=============================================================================
