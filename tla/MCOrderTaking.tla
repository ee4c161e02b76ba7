---------------------------- MODULE MCOrderTaking -----------------------------
(* One taker that clicks twice: the clicks share a session, or their sessions *)
(* compete.  The maker has a subscription and a reconnected one.              *)
EXTENDS OrderTaking

CONSTANTS alice, tab

MCTakerOf == [c \in Call |-> alice]
MCTabOf == [u \in Subscription |-> tab]
=============================================================================
