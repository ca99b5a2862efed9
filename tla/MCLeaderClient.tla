----------------------------- MODULE MCLeaderClient -----------------------------
(***************************************************************************)
(* A small instance of LeaderClient for TLC.                               *)
(***************************************************************************)
EXTENDS LeaderClient, TLC

CONSTANTS c1, c2

\* The goroutines are alike.
Goroutines == Permutations(Caller)

=============================================================================
