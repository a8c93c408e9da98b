------------------------------- MODULE MCMesh -------------------------------
(***************************************************************************)
(* Mesh for TLC: every topology over four nodes that respond at once, over *)
(* five all links or all but one, and every topology over four nodes of    *)
(* which one is mute and the others may be slow.                           *)
(***************************************************************************)
EXTENDS Mesh

AllOver(S) == SUBSET ({{i, j} : i, j \in S} \ {{i} : i \in S})

Dense(S) == {T \in AllOver(S) : Cardinality(T) >= 9}

MCTopologies == AllOver({0, 2, 3, 4}) \union Dense(Nodes \ Mute) \union AllOver(0..3)
MCSlow       == AllOver(0..3)

(* A peer whose silence fails one node, which leaves a third waiting.      *)
Bystander == {{{1, 2}, {0, 2}, {0, 3}}}
=============================================================================
