-------------------------- MODULE FinalizedHeight --------------------------
(***************************************************************************)
(* What a node with an archive promises of the heights it reports: a       *)
(* height is on disk before anyone is told of it, and neither what is on   *)
(* disk nor what was told ever goes back.  Crashes, restarts and replays   *)
(* do not show.                                                            *)
(***************************************************************************)
EXTENDS Naturals

VARIABLES
  durable,      \* the height a restart would come back at
  announced     \* the highest height the node has reported

vars == <<durable, announced>>

Init == durable = 0 /\ announced = 0

(* ConsensusNode::commit and apply_state_sync: the archive first ... *)
Persist == durable' \in Nat /\ durable' > durable /\ UNCHANGED announced

(* ... then the chain swap and Emit::Committed. *)
Announce == announced' \in announced + 1 .. durable /\ UNCHANGED durable

Next == Persist \/ Announce

Spec == Init /\ [][Next]_vars
=============================================================================
