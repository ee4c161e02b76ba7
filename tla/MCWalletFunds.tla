---------------------------- MODULE MCWalletFunds ----------------------------
(* Two sessions that pay from one pocket, and two proofs that come in. *)
EXTENDS WalletFunds

CONSTANTS s1, s2, c1, c2, sat, usd

PaySat == [s \in {s1, s2} |-> sat]
GetUsd == [s \in {s1, s2} |-> usd]
SatCoins == [c \in {c1, c2} |-> sat]
=============================================================================
