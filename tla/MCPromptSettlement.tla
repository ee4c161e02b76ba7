-------------------------- MODULE MCPromptSettlement --------------------------
EXTENDS PromptSettlement

InTime(actors) == [fair |-> actors, prompt |-> actors]

EveryoneInTime == {InTime(Actor)}
\* Nobody is driven, or one party is and the other may stop anywhere.
AtMostOneInTime == {InTime({}), InTime({"maker", "mint"}), InTime({"taker", "mint"})}
MakerInTime == {InTime({"maker", "mint"})}
=============================================================================
