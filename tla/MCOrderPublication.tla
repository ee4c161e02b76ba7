------------------------- MODULE MCOrderPublication -------------------------
(* Two calls in one page. *)
EXTENDS OrderPublication
CONSTANTS user, coordinator, page
OnePage == [c \in {user, coordinator} |-> page]
=============================================================================
