--------------------------- MODULE MCTradeTranscript ---------------------------
(* A message lives for two instants, so that it may expire before or after   *)
(* the first deadline; the maker starts at once or an instant later.         *)
EXTENDS TradeTranscript
=============================================================================
