------------------------------ MODULE Conversation ------------------------------
(***************************************************************************)
(* What the private messages of a trade amount to, without relays, routes, *)
(* outboxes, polls or retries: one story that two sides tell in turns.     *)
(* Only a side that knows all of it continues it, with a word that may     *)
(* follow the last one; the story is never taken back, forked or repeated, *)
(* and what a side knows of it is its beginning.                           *)
(***************************************************************************)
EXTENDS Naturals, Sequences

CONSTANTS
    Side,
    Opening,    \* the words a story may open with
    Follows,    \* <<word, next word>>
    Speaker(_)  \* the side that says a word

VARIABLES
    story,      \* the IDs of the messages both sides count, or will count, as said
    last,       \* the word said last, "none" before the first
    known       \* what each side knows of the story

vars == <<story, last, known>>

\* A trade that an older version began is one entry both sides know.
Init ==
    /\ story \in Seq(Nat) /\ Len(story) <= 1
    /\ last = "none"
    /\ known = [side \in Side |-> story]

May(word) == IF last = "none" THEN word \in Opening ELSE <<last, word>> \in Follows

\* A new message enters the story once one side counts it as said: its author, who
\* knows everything before it, or the other side before its author learns of it.
Say(side) ==
    /\ known[side] = story /\ known[Speaker(last')] = story
    /\ May(last')
    /\ Len(story') = Len(story) + 1
    /\ LET id == story'[Len(story')] IN
         /\ \A i \in 1..Len(story) : story[i] # id
         /\ story' = Append(story, id)
    /\ known' = [known EXCEPT ![side] = story']

\* The other side reads it, or its author learns that a relay has it.
Learn(side) ==
    /\ Len(known[side]) < Len(story)
    /\ known' = [known EXCEPT ![side] = Append(@, story[Len(@) + 1])]
    /\ UNCHANGED <<story, last>>

Next == \E side \in Side : Say(side) \/ Learn(side)

Spec == Init /\ [][Next]_vars

=================================================================================
