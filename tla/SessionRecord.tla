----------------------------- MODULE SessionRecord -----------------------------
(***************************************************************************)
(* What the coordinator promises of one stored trade session, without      *)
(* pages, snapshots or locks: the settlement moves one position at a time, *)
(* and the receipts of what was announced move forward beside it.  Neither *)
(* of the two ever takes the other back.                                   *)
(***************************************************************************)

CONSTANTS
    Start,    \* the position of a new session
    Moves,    \* <<from, to>>: positions that follow each other
    Stages,   \* <<from, to, operation>>: moves that stage an order projection
    Closes    \* <<from, to, operation>>: moves that come with its receipt

VARIABLES
    progress,    \* position of the settlement
    inbox,       \* "unregistered", "staged" or "registered"
    operation,   \* the order projection the session staged last
    receipt      \* whether relays acknowledged it

vars == <<progress, inbox, operation, receipt>>

Init ==
    /\ progress = Start
    /\ inbox = "unregistered"
    /\ operation = "none"
    /\ receipt = FALSE

StageInbox ==
    /\ inbox = "unregistered" /\ inbox' = "staged"
    /\ UNCHANGED <<progress, operation, receipt>>

InboxReceipt ==
    /\ inbox = "staged" /\ inbox' = "registered"
    /\ UNCHANGED <<progress, operation, receipt>>

Settle ==
    /\ <<progress, progress'>> \in Moves
    /\ UNCHANGED <<inbox, operation, receipt>>

\* A projection that relays have already is staged with its receipt.
StageOrder ==
    /\ <<progress, progress', operation'>> \in Stages
    /\ operation' # operation
    /\ receipt' \in BOOLEAN
    /\ UNCHANGED inbox

OrderReceipt ==
    /\ operation # "none" /\ ~receipt /\ receipt'
    /\ IF \E move \in Closes : move[1] = progress /\ move[3] = operation
       THEN <<progress, progress', operation>> \in Closes
       ELSE progress' = progress
    /\ UNCHANGED <<inbox, operation>>

Next == StageInbox \/ InboxReceipt \/ Settle \/ StageOrder \/ OrderReceipt

Spec == Init /\ [][Next]_vars

================================================================================
