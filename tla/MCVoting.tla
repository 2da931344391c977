------------------------------ MODULE MCVoting ------------------------------
(* Two users with an order each before the season, one of them with another
   that puts it ahead, and a prize list that may be replaced. *)
EXTENDS Voting, TLC

CONSTANTS o1, o2, o3, j1, j2, r1, r2, t1, t2

MCOwner == o1 :> 1 @@ o2 :> 2 @@ o3 :> 1
MCPoints == o1 :> 1 @@ o2 :> 2 @@ o3 :> 2
MCEditions == <<{1, 2}, {3}>>
WorkerSymmetry == Permutations({j1, j2}) \cup Permutations({r1, r2}) \cup Permutations({t1, t2})
=============================================================================
