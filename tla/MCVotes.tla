------------------------------- MODULE MCVotes -------------------------------
(* Instances of Votes for TLC.  The containers are interchangeable but for    *)
(* home, the posts and servers for all a dictionary knows.                    *)
EXTENDS Votes, TLC

VotesSymmetry == Permutations(Posts) \cup Permutations(Servers) \cup Permutations(Containers)
=============================================================================
