------------------------------ MODULE MCVoting ------------------------------
(***************************************************************************)
(* Four roots, one of them faulty with every vote it could ever cast out   *)
(* from the start (the tallies only grow, so nothing it does later adds a  *)
(* behaviour), two blocks.                                                 *)
(***************************************************************************)
EXTENDS Voting, TLC

CONSTANTS n1, n2, n3, f1, A, B

MCValidators == {n1, n2, n3, f1}
MCFaulty     == {f1}
MCValues     == {A, B}
MCRounds     == 0..1
MCPublished  == FaultyVote

Symmetry == Permutations({n1, n2, n3}) \union Permutations({A, B})
=============================================================================
