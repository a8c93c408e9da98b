----------------------------- MODULE MCReplica -----------------------------
(***************************************************************************)
(* The store for TLC where one insert or one eviction is cut short: a post *)
(* and its reply, or two heads with the same sequence.                     *)
(***************************************************************************)
EXTENDS Replica

PostAndReply == <<0, 1>>
NoParents    == <<0, 0>>
NoHeads      == <<0, 0>>
TwoHeads     == <<1, 1>>
=============================================================================
