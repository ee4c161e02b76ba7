-------------------------- MODULE MCTradeCoordinator --------------------------
EXTENDS TradeCoordinator
=============================================================================
