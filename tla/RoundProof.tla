----------------------------- MODULE RoundProof -----------------------------
(***************************************************************************)
(* The theorems about the Tendermint driver of module Round, for every     *)
(* value of the constants.                                                 *)
(***************************************************************************)
EXTENDS RoundSteps, FiniteSetTheorems

(* The facts about finite sets and numbers that the lemmas are stated      *)
(* under: they hold of any constants that satisfy RoundAssumption.         *)
LEMMA ValidatorsCount == IsFiniteSet(Validators) /\ Cardinality(Validators) = N
<1>1. N \in Nat /\ N > 0 /\ N - 1 \in Int /\ 0 \in Int /\ 0 <= N - 1 /\ N - 1 - 0 + 1 = N
  BY RoundAssumption
<1>2. IsFiniteSet(0 .. N - 1) /\ Cardinality(0 .. N - 1) = IF 0 > N - 1 THEN 0 ELSE N - 1 - 0 + 1
  BY <1>1, FS_Interval, Zenon
<1> QED BY <1>1, <1>2 DEF Validators

(* They are theorems about finite sets and the order of the naturals. *)
LEMMA ArithmeticHolds == Arithmetic
<1>1. \A S \in SUBSET Validators : IsFiniteSet(S)
  BY ValidatorsCount, FS_Subset, Zenon
<1>2. \A S \in SUBSET Validators : Cardinality(S) \in Nat
  BY <1>1, FS_CardinalityType, Zenon
<1>3. \A S, T \in SUBSET Validators : S \subseteq T => Cardinality(S) <= Cardinality(T)
  BY <1>1, FS_Subset, Zenon
<1>4. \A S, T \in SUBSET Validators : Cardinality(S \union T) = Cardinality(S) + Cardinality(T) - Cardinality(S \cap T)
  BY <1>1, FS_Union, Zenon
<1>5. ASSUME NEW S \in SUBSET Rounds, S # {} PROVE \E r \in S : \A q \in S : r <= q
  <2>1. S \subseteq Nat
    BY Sizes, Zenon
  <2>2. PICK r \in S : \A q \in S : <<q, r>> \notin OpToRel(<, Nat)
    BY <1>5, <2>1, NatLessThanWellFounded, WFMin, Zenon
  <2>3. \A q \in S : ~(q < r)
    BY <2>1, <2>2, Zenon DEF OpToRel
  <2>4. r \in Nat /\ \A q \in S : q \in Nat
    BY <2>1, <2>2, Zenon
  <2>5. \A q \in S : r <= q
    BY ONLY <2>3, <2>4
  <2> QED BY <2>5, Zenon
<1>6. ASSUME NEW x, NEW S, S \subseteq {x} PROVE Cardinality(S) <= 1
  <2>1. IsFiniteSet({x}) /\ Cardinality({x}) = 1
    BY FS_Singleton, Zenon
  <2>2. Cardinality(S) <= Cardinality({x})
    BY <1>6, <2>1, FS_Subset, Zenon
  <2> QED BY <2>1, <2>2, Zenon
<1>7. Cardinality({}) = 0
  BY FS_EmptySet, Zenon
<1> QED BY <1>2, <1>3, <1>4, <1>5, <1>6, <1>7, ValidatorsCount, Zenon DEF Arithmetic

-----------------------------------------------------------------------------
(* Every behaviour of the driver keeps Inv. *)
THEOREM InvHolds == Spec => []Inv
<1>1. Init => Inv
  BY ArithmeticHolds, InitInv, Zenon
<1>2. Inv /\ [Next]_vars => Inv'
  BY ArithmeticHolds, NextInv, Zenon
<1> QED BY <1>1, <1>2, PTL DEF Spec

(* Every handler leaves its node settled: the rules of `evaluate` are at   *)
(* their fixed point and every action they asked for is done.              *)
THEOREM SettledHolds == Spec => []SettledInv
<1>1. Init => SettledInv
  BY ArithmeticHolds, InitSettled, Zenon
<1>2. SettledInv /\ [Next]_vars => SettledInv'
  BY ArithmeticHolds, NextSettled, Zenon
<1> QED BY <1>1, <1>2, PTL DEF Spec

(* on_vote's evidence of equivocation never names a validator that keeps   *)
(* to the protocol, whatever the network duplicates or reorders.           *)
THEOREM EvidenceSound == Spec => []EvidenceIsSound
<1>1. Inv => EvidenceIsSound
  BY Zenon DEF Inv, Local, Counted, EvidenceIsSound
<1> QED BY <1>1, InvHolds, PTL

(* build_proposal and commit always find the block they need: neither ever *)
(* returns Err(Stalled).                                                   *)
THEOREM NeverStalled == Spec => []NeverStalls
<1>1. Inv => NeverStalls
  BY Zenon DEF Inv, Local, BlocksHeld, AtHand, NeverStalls, Running
<1> QED BY <1>1, InvHolds, PTL

(* The certificate that commit hands to apply_finalized_block holds 2f+1   *)
(* precommits that were really cast for a block the chain can reproduce.   *)
THEOREM CertificateVerified == Spec => []CertificateVerifies
<1>1. Inv => CertificateVerifies
  BY InvVerifies, Zenon
<1> QED BY <1>1, InvHolds, PTL

(* No handler ever gives up a lock for an older one, or keeps a validValue *)
(* older than the lock.                                                    *)
THEOREM LockMonotone == Spec => LockAdvances
<1> DEFINE Advance(n) == /\ st'[n].locked_round >= st[n].locked_round
                         /\ st'[n].locked_round = st[n].locked_round =>
                              st'[n].locked_value = st[n].locked_value
                         /\ st'[n].valid_round >= st'[n].locked_round
<1>1. Inv /\ [Next]_vars => [\A n \in Honest : Advance(n)]_vars
  <2> SUFFICES ASSUME Inv, [Next]_vars, NEW n \in Honest PROVE Advance(n)
    BY Zenon
  <2>1. Inv' /\ Later(st[n], st'[n]) /\ st'[n].locked_round <= st'[n].valid_round
    BY ArithmeticHolds, NextInv, Zenon
  <2>2. st[n] \in RoundState /\ st'[n] \in RoundState
    BY <2>1, Zenon DEF Inv
  <2>3. st[n].locked_round \in Int /\ st'[n].locked_round \in Int /\ st'[n].valid_round \in Int
    BY <2>2, Numbers, Zenon
  <2> QED BY ONLY <2>1, <2>3, Zenon DEF Later
<1> QED BY <1>1, InvHolds, PTL DEF Spec, LockAdvances

(* Between handlers no `upon` rule is left enabled and no intent is left   *)
(* undone: the loops of `evaluate` and `drive` always reach their end.     *)
THEOREM RunsComplete == Spec => []RunsToCompletion
<1>1. SettledInv => RunsToCompletion
  BY InvWaits, Zenon
<1> QED BY <1>1, SettledHolds, PTL

(* A node that waits always has a timer that will wake it, whatever the    *)
(* network loses.                                                          *)
THEOREM TimersArmed == Spec => []TimerArmed
<1>1. SettledInv => TimerArmed
  BY InvWaits, Zenon
<1> QED BY <1>1, SettledHolds, PTL

(* If no faulty proposal's valid_round exceeds the width of a round        *)
(* number, a node that precommitted one block prevotes another only on     *)
(* 2f+1 prevotes for it from the lock's round or a later one: what the     *)
(* round.rs tests call the "Safety core".                                  *)
THEOREM LockHeld == ASSUME Narrow PROVE Spec => []LockHolds
<1>1. Inv => LockHolds
  BY InvLocks, Zenon
<1> QED BY <1>1, InvHolds, PTL

(* Agreement of the driver itself: with fewer than a third of the roots    *)
(* faulty, and no proposal whose valid_round overflows a round number, no  *)
(* two honest validators commit different blocks, whatever is lost,        *)
(* duplicated, reordered or timed out.                                     *)
THEOREM Agreement ==
  ASSUME Narrow, 3 * Cardinality(Faulty) < N
  PROVE  Spec => []Agreed
<1>1. Inv => Agreed
  BY ArithmeticHolds, InvAgrees, Zenon
<1> QED BY <1>1, InvHolds, PTL

(* Under the same hypothesis on valid_round the driver implements Voting:  *)
(* each handler, with the loops of `evaluate` and `drive` inside it, is    *)
(* one step of the abstract voting discipline, or changes nothing of it.   *)
THEOREM Implements == ASSUME Narrow PROVE Spec => ImplementsVoting
<1>1. Init => V!Init
  BY InitVotes, Zenon
<1>2. SettledInv /\ [Next]_vars => [\E n \in Honest : VotingStep(n)]_(V!vars)
  BY ArithmeticHolds, NextVotes, Zenon
<1> QED BY <1>1, <1>2, SettledHolds, PTL DEF Spec, ImplementsVoting
=============================================================================
