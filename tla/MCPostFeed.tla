----------------------------- MODULE MCPostFeed ------------------------------
(* Instances of PostFeed for TLC: some posts share a title, and blocking one  *)
(* of them blocks the other.                                                  *)
EXTENDS PostFeed, TLC

MCTitle  == <<"hello", "hello", "news", "news", "more">>
MCBanned == {2}

JobSymmetry == Permutations(Jobs)
=============================================================================
