SPECIFICATION DrivenSpec
CONSTANTS
    s1 = s1
    s2 = s2
    c1 = c1
    c2 = c2
    Sessions = {s1, s2}
    Coins = {c1, c2}
    sat = sat
    usd = usd
    Pockets = {sat, usd}
    Pays <- PaySat
    Gets <- GetUsd
    CoinPocket <- SatCoins
    MaxFaults = 1
    NoSession = NoSession
    NoOperation = NoOperation
INVARIANTS
    InputsAreExclusive
    FundsAreKept
    LockIsKept
PROPERTIES
    FundsArrive
\* Sessions stop at a cutoff, and every proof is spent in the end.
CHECK_DEADLOCK FALSE
