----------------------------- MODULE VotingProof -----------------------------
(***************************************************************************)
(* Agreement of Voting for every validator set with fewer than a third of  *)
(* its roots faulty, every set of rounds and every set of blocks.          *)
(***************************************************************************)
EXTENDS Voting, FiniteSetTheorems, TLAPS

Quorums == {Q \in SUBSET Validators : Cardinality(Q) >= quorum_threshold}

(* Quorum Q's honest members all voted v at r: what a certificate leaves   *)
(* once the faulty roots, who may sign anything, are discounted.           *)
BackedBy(V, k, r, v) ==
  \E Q \in Quorums : \A n \in Q \ Faulty : <<n, k, r, v>> \in V

Backed(k, r, v) == BackedBy(votes, k, r, v)

(* n has not precommitted at r and may still do so. *)
Open(n, r) == round[n] <= r /\ ~HasVoted(n, "precommit", r)

(* v may have been decided at r, or may still be. *)
Choosable(r, v) ==
  \E Q \in Quorums : \A n \in Q \ Faulty :
     <<n, "precommit", r, v>> \in votes \/ Open(n, r)

(* Honest validators vote in rounds they have reached. *)
VotesReached ==
  \A n \in Honest, k \in Kinds, r \in Rounds, v \in Ids :
    <<n, k, r, v>> \in votes => r <= round[n]

(* An honest validator casts one vote in a phase of a round. *)
NoDoubleVote ==
  \A n \in Honest, k \in Kinds, r \in Rounds, v, w \in Ids :
    <<n, k, r, v>> \in votes /\ <<n, k, r, w>> \in votes => v = w

(* Every honest precommit for a block stands on 2f+1 prevotes for it. *)
PrecommitBacked ==
  \A n \in Honest, r \in Rounds, v \in Values :
    <<n, "precommit", r, v>> \in votes => Backed("prevote", r, v)

(* An honest prevote against an earlier precommit of the same validator    *)
(* stands on 2f+1 prevotes at least as late as that precommit.             *)
PrevoteJustified ==
  \A n \in Honest, r0, r \in Rounds, v0, v \in Values :
    /\ <<n, "precommit", r0, v0>> \in votes
    /\ <<n, "prevote", r, v>> \in votes
    /\ r0 < r
    /\ v0 # v
    => \E vr \in Rounds : r0 <= vr /\ vr < r /\ Backed("prevote", vr, v)

(* 2f+1 prevotes for v at r rule out every other block before r. *)
BackedExcludes ==
  \A r0, r \in Rounds, v0, v \in Values :
    Backed("prevote", r, v) /\ r0 < r /\ v0 # v => ~Choosable(r0, v0)

DecisionBacked ==
  \A n \in Honest :
    decision[n] # None => \E r \in Rounds : Backed("precommit", r, decision[n])

Inv ==
  /\ TypeOK
  /\ NoDoubleVote
  /\ VotesReached
  /\ PrecommitBacked
  /\ PrevoteJustified
  /\ BackedExcludes
  /\ DecisionBacked

-----------------------------------------------------------------------------
(* Two sets of more than two thirds of the roots share an honest root: the *)
(* fact behind every quorum_threshold comparison in round.rs.              *)
LEMMA QuorumsMeet ==
  ASSUME NEW P \in Quorums, NEW Q \in Quorums
  PROVE  \E n \in Honest : n \in P /\ n \in Q
<1> DEFINE nv == Cardinality(Validators)
           nf == Cardinality(Faulty)
           np == Cardinality(P)
           nq == Cardinality(Q)
<1>1. /\ IsFiniteSet(Validators) /\ IsFiniteSet(Faulty)
      /\ IsFiniteSet(P) /\ IsFiniteSet(Q)
      /\ P \subseteq Validators /\ Q \subseteq Validators
  BY ValidatorsAssumption, FS_Subset DEF Quorums
<1>2. /\ nv \in Nat /\ nf \in Nat /\ np \in Nat /\ nq \in Nat
      /\ IsFiniteSet(P \cap Q) /\ Cardinality(P \cap Q) \in Nat
  BY <1>1, FS_CardinalityType, FS_Intersection, Zenon
<1>3. /\ Cardinality(P \cup Q) = np + nq - Cardinality(P \cap Q)
      /\ IsFiniteSet(P \cup Q)
  BY <1>1, FS_Union
<1>4. Cardinality(P \cup Q) <= nv
  <2>1. P \cup Q \subseteq Validators
    BY <1>1
  <2> QED BY <2>1, <1>1, FS_Subset
<1>5. np >= (2 * nv) \div 3 + 1 /\ nq >= (2 * nv) \div 3 + 1
  BY DEF Quorums, quorum_threshold
<1>6. Cardinality(P \cap Q) > nf
  <2>1. 3 * ((2 * nv) \div 3) + 2 >= 2 * nv
    BY <1>2
  <2>2. (2 * nv) \div 3 \in Int
    BY <1>2
  <2>3. 3 * nf < nv
    BY FaultBound
  <2>4. Cardinality(P \cup Q) \in Nat
    BY <1>3, FS_CardinalityType
  <2> HIDE DEF nv, nf, np, nq
  <2> QED BY <1>2, <1>3, <1>4, <1>5, <2>1, <2>2, <2>3, <2>4
<1>7. ~(P \cap Q \subseteq Faulty)
  <2>1. P \cap Q \subseteq Faulty => Cardinality(P \cap Q) <= nf
    BY <1>1, FS_Subset
  <2> QED BY <2>1, <1>6, <1>2
<1> QED BY <1>7, <1>1 DEF Honest

(* 2f+1 votes counted by `prevote_count` or `precommit_count` back a       *)
(* value, before a handler and after it.                                   *)
LEMMA CertifiedIsBacked ==
  ASSUME NEW k, NEW r, NEW v
  PROVE  /\ Certified(k, r, v) => BackedBy(votes, k, r, v)
         /\ Certified(k, r, v)' => BackedBy(votes', k, r, v)
<1>1. Certified(k, r, v) => Voters(k, r, v) \in Quorums
  BY DEF Certified, Voters, Quorums
<1>2. Certified(k, r, v)' => Voters(k, r, v)' \in Quorums
  BY DEF Certified, Voters, Quorums, quorum_threshold
<1> QED BY <1>1, <1>2 DEF BackedBy, Voters

(* A backed value has an honest voter. *)
LEMMA BackedHasHonest ==
  ASSUME NEW V, NEW k, NEW r, NEW v, BackedBy(V, k, r, v)
  PROVE  \E n \in Honest : <<n, k, r, v>> \in V
<1>1. PICK Q \in Quorums : \A n \in Q \ Faulty : <<n, k, r, v>> \in V
  BY DEF BackedBy
<1> QED BY <1>1, QuorumsMeet DEF Honest

(* Where no honest root votes twice, one value at most is backed. *)
LEMMA BackedUnique ==
  ASSUME NEW V, NEW k, NEW r, NEW v \in Ids, NEW w \in Ids,
         \A n \in Honest, x, y \in Ids :
            <<n, k, r, x>> \in V /\ <<n, k, r, y>> \in V => x = y,
         BackedBy(V, k, r, v), BackedBy(V, k, r, w)
  PROVE  v = w
<1>1. PICK P \in Quorums : \A n \in P \ Faulty : <<n, k, r, v>> \in V
  BY DEF BackedBy
<1>2. PICK Q \in Quorums : \A n \in Q \ Faulty : <<n, k, r, w>> \in V
  BY DEF BackedBy
<1>3. PICK n \in Honest : n \in P /\ n \in Q
  BY QuorumsMeet
<1> QED BY <1>1, <1>2, <1>3, Zenon DEF Honest

(* A value backed by precommits was choosable. *)
LEMMA BackedIsChoosable ==
  ASSUME NEW r, NEW v, Backed("precommit", r, v)
  PROVE  Choosable(r, v)
BY DEF Backed, BackedBy, Choosable

-----------------------------------------------------------------------------
(* What a handler of n that ends in round r may change. *)
Changes(n, r, pv, pc) ==
  /\ votes \subseteq votes'
  /\ round[n] <= r /\ round'[n] = r
  /\ \A m \in Honest : m # n => round'[m] = round[m]
  /\ \A m \in Honest, k \in Kinds, q \in Rounds, v \in Ids :
       <<m, k, q, v>> \in votes' =>
          \/ <<m, k, q, v>> \in votes
          \/ m = n /\ q = r /\ k = "prevote" /\ v = pv
          \/ m = n /\ q = r /\ k = "precommit" /\ v = pc

(* What one handler changes: the honest votes it adds are its own prevote  *)
(* and precommit in the round it ends in, each the first of its phase.     *)
LEMMA StepChanges ==
  ASSUME TypeOK, NEW n \in Honest, NEW r \in Rounds,
         NEW pv \in Ids \union {None}, NEW pc \in Ids \union {None},
         NEW d \in Values \union {None},
         NEW fv \in SUBSET FaultyVote,
         Step(n, r, pv, pc, d, fv)
  PROVE  TypeOK' /\ Changes(n, r, pv, pc)
<1>1. fv \subseteq FaultyVote
  OBVIOUS
<1>2. Cast(n, "prevote", r, pv) \subseteq Vote
  BY DEF Cast, Vote, Kinds, Honest
<1>3. Cast(n, "precommit", r, pc) \subseteq Vote
  BY DEF Cast, Vote, Kinds, Honest
<1>4. FaultyVote \subseteq Vote
  BY ValidatorsAssumption DEF FaultyVote, Vote
<1>5. TypeOK'
  BY <1>1, <1>2, <1>3, <1>4 DEF TypeOK, Step
<1>6. ASSUME NEW m \in Honest, NEW k \in Kinds, NEW q \in Rounds,
             NEW v \in Ids, <<m, k, q, v>> \in votes'
      PROVE  \/ <<m, k, q, v>> \in votes
             \/ m = n /\ q = r /\ k = "prevote" /\ v = pv
             \/ m = n /\ q = r /\ k = "precommit" /\ v = pc
  <2>1. <<m, k, q, v>> \notin fv
    BY <1>1 DEF FaultyVote, Honest
  <2> QED BY <1>6, <2>1 DEF Step, Cast
<1>7. /\ votes \subseteq votes'
      /\ round[n] <= r /\ round'[n] = r
      /\ \A m \in Honest : m # n => round'[m] = round[m]
  BY RoundsAssumption DEF Step, TypeOK
<1> QED BY <1>5, <1>6, <1>7 DEF Changes

(* What a quorum has backed stays backed: votes are never withdrawn. *)
LEMMA BackedStable ==
  ASSUME votes \subseteq votes', NEW k, NEW r, NEW v, BackedBy(votes, k, r, v)
  PROVE  BackedBy(votes', k, r, v)
BY DEF BackedBy

(* A handler never reopens a value: what is choosable after it was         *)
(* choosable before.                                                       *)
LEMMA ChoosableStable ==
  ASSUME TypeOK, NEW n \in Honest, NEW r \in Rounds,
         NEW pv \in Ids \union {None}, NEW pc \in Ids \union {None},
         NEW d \in Values \union {None},
         NEW fv \in SUBSET FaultyVote,
         Step(n, r, pv, pc, d, fv),
         NEW q \in Rounds, NEW v \in Values, Choosable(q, v)'
  PROVE  Choosable(q, v)
<1>a. TypeOK' /\ Changes(n, r, pv, pc)
  BY StepChanges
<1>0. /\ TypeOK'
      /\ votes \subseteq votes'
      /\ round[n] <= r /\ round'[n] = r
      /\ \A m \in Honest : m # n => round'[m] = round[m]
      /\ \A m \in Honest, w \in Ids :
           <<m, "precommit", q, w>> \in votes' =>
              <<m, "precommit", q, w>> \in votes \/ (m = n /\ q = r /\ w = pc)
  BY <1>a DEF Changes, Kinds
<1>1. PICK Q \in Quorums : \A m \in Q \ Faulty :
             <<m, "precommit", q, v>> \in votes' \/ Open(m, q)'
  BY DEF Choosable, Quorums, quorum_threshold
<1>2. ASSUME NEW m \in Q \ Faulty
      PROVE  <<m, "precommit", q, v>> \in votes \/ Open(m, q)
  <2>1. m \in Honest
    BY DEF Quorums, Honest
  <2>2. CASE Open(m, q)'
    <3>1. /\ m # n => round'[m] = round[m]
          /\ round[n] <= r /\ round'[n] = r
          /\ votes \subseteq votes'
          /\ TypeOK'
      BY <2>1, <1>0
    <3>2. round[m] \in Nat /\ round'[m] \in Nat /\ q \in Nat /\ r \in Nat
      BY <2>1, <3>1, RoundsAssumption, Zenon DEF TypeOK
    <3>3. round'[m] <= q
      BY <2>2 DEF Open
    <3>4. round[m] <= q
      BY <3>1, <3>2, <3>3
    <3>5. ~HasVoted(m, "precommit", q)
      BY <2>2, <3>1 DEF Open, HasVoted
    <3> QED BY <3>4, <3>5 DEF Open
  <2>3. CASE <<m, "precommit", q, v>> \in votes'
    <3>1. CASE <<m, "precommit", q, v>> \in votes
      BY <3>1
    <3>2. CASE <<m, "precommit", q, v>> \notin votes
      <4>1. m = n /\ q = r /\ v = pc /\ round[n] <= r
        BY <2>1, <2>3, <3>2, <1>0 DEF Ids
      <4>2. pc # None
        BY <4>1, IdsAssumption DEF Ids
      <4>3. ~HasVoted(n, "precommit", r)
        BY <4>2 DEF Step, PrecommitAllowed
      <4> QED BY <4>1, <4>3 DEF Open
    <3> QED BY <3>1, <3>2
  <2> QED BY <1>1, <2>2, <2>3
<1> QED BY <1>2 DEF Choosable

(* The inductive invariant holds before the first vote. *)
LEMMA InvInit == Init => Inv
<1> SUFFICES ASSUME Init PROVE Inv
  OBVIOUS
<1>1. TypeOK
  BY IdsAssumption, RoundsAssumption, ValidatorsAssumption
  DEF Init, TypeOK, FaultyVote, Vote
<1>2. \A n \in Honest : \A k, r, v : <<n, k, r, v>> \notin votes
  BY IdsAssumption DEF Init, FaultyVote, Honest
<1>3. \A k, r, v : ~Backed(k, r, v)
  BY <1>2, BackedHasHonest, Zenon DEF Backed
<1>4. DecisionBacked
  BY DEF Init, DecisionBacked
<1> QED BY <1>1, <1>2, <1>3, <1>4
  DEF Inv, NoDoubleVote, VotesReached, PrecommitBacked, PrevoteJustified,
      BackedExcludes

(* Every handler of an honest validator, whatever faulty vote it counts on *)
(* the way, keeps the inductive invariant.                                 *)
LEMMA InvStep ==
  ASSUME Inv, NEW n \in Honest, NEW r \in Rounds,
         NEW pv \in Ids \union {None}, NEW pc \in Ids \union {None},
         NEW d \in Values \union {None}, NEW fv \in SUBSET FaultyVote,
         Step(n, r, pv, pc, d, fv)
  PROVE  Inv'
<1> USE RoundsAssumption
<1>1. TypeOK' /\ Changes(n, r, pv, pc)
  BY StepChanges, Zenon DEF Inv
<1>2. /\ TypeOK /\ NoDoubleVote /\ VotesReached /\ PrecommitBacked
      /\ PrevoteJustified /\ BackedExcludes /\ DecisionBacked
  BY DEF Inv
<1>3. votes \subseteq votes'
  BY <1>1 DEF Changes
<1>4. NoDoubleVote'
  <2> SUFFICES ASSUME NEW m \in Honest, NEW k \in Kinds, NEW q \in Rounds,
                      NEW v \in Ids, NEW w \in Ids,
                      <<m, k, q, v>> \in votes', <<m, k, q, w>> \in votes'
               PROVE  v = w
    BY DEF NoDoubleVote
  <2>1. CASE <<m, k, q, v>> \in votes /\ <<m, k, q, w>> \in votes
    BY <2>1, <1>2 DEF NoDoubleVote
  <2>2. CASE k = "prevote"
    <3>1. v \in Ids /\ w \in Ids /\ v # None /\ w # None
      BY IdsAssumption
    <3>2. pv # None => \A x \in Ids : <<n, "prevote", r, x>> \notin votes
      BY DEF Step, PrevoteAllowed, HasVoted
    <3>3. \A x \in Ids : <<m, k, q, x>> \in votes' =>
             <<m, k, q, x>> \in votes \/ (m = n /\ q = r /\ x = pv)
      BY <1>1, <2>2 DEF Changes
    <3> QED BY <2>1, <2>2, <3>1, <3>2, <3>3
  <2>3. CASE k = "precommit"
    <3>1. v \in Ids /\ w \in Ids /\ v # None /\ w # None
      BY IdsAssumption
    <3>2. pc # None => \A x \in Ids : <<n, "precommit", r, x>> \notin votes
      BY DEF Step, PrecommitAllowed, HasVoted
    <3>3. \A x \in Ids : <<m, k, q, x>> \in votes' =>
             <<m, k, q, x>> \in votes \/ (m = n /\ q = r /\ x = pc)
      BY <1>1, <2>3 DEF Changes
    <3> QED BY <2>1, <2>3, <3>1, <3>2, <3>3
  <2> QED BY <2>2, <2>3 DEF Kinds
<1>5. VotesReached'
  <2> SUFFICES ASSUME NEW m \in Honest, NEW k \in Kinds, NEW q \in Rounds,
                      NEW v \in Ids, <<m, k, q, v>> \in votes'
               PROVE  q <= round'[m]
    BY DEF VotesReached
  <2>1. /\ q \in Nat /\ r \in Nat /\ round[m] \in Nat /\ round[n] \in Nat
        /\ round[n] <= r /\ round'[n] = r
        /\ m # n => round'[m] = round[m]
    BY <1>1, <1>2, Zenon DEF TypeOK, Changes
  <2>2. CASE <<m, k, q, v>> \in votes
    <3>1. q <= round[m]
      BY <2>2, <1>2 DEF VotesReached
    <3> QED BY <2>1, <3>1
  <2>3. CASE <<m, k, q, v>> \notin votes
    BY <2>1, <2>3, <1>1 DEF Changes
  <2> QED BY <2>2, <2>3
<1>6. PrecommitBacked'
  <2> SUFFICES ASSUME NEW m \in Honest, NEW q \in Rounds, NEW v \in Values,
                      <<m, "precommit", q, v>> \in votes'
               PROVE  BackedBy(votes', "prevote", q, v)
    BY DEF PrecommitBacked, Backed
  <2>1. CASE <<m, "precommit", q, v>> \in votes
    BY <2>1, <1>2, <1>3, BackedStable DEF PrecommitBacked, Backed
  <2>2. CASE <<m, "precommit", q, v>> \notin votes
    <3>1. q = r /\ v = pc
      <4>1. /\ "precommit" \in Kinds /\ "precommit" # "prevote"
            /\ v \in Ids
        BY DEF Kinds, Ids
      <4> QED BY <2>2, <4>1, <1>1 DEF Changes
    <3>2. pc # None /\ pc \in Values
      BY <3>1, IdsAssumption DEF Ids
    <3>3. Certified("prevote", r, pc)'
      BY <3>2 DEF Step, PrecommitAllowed
    <3> QED BY <3>1, <3>3, CertifiedIsBacked
  <2> QED BY <2>1, <2>2
<1>7. PrevoteJustified'
  <2> SUFFICES ASSUME NEW m \in Honest, NEW r0 \in Rounds, NEW q \in Rounds,
                      NEW v0 \in Values, NEW v \in Values,
                      <<m, "precommit", r0, v0>> \in votes',
                      <<m, "prevote", q, v>> \in votes',
                      r0 < q, v0 # v
               PROVE  \E vr \in Rounds :
                        r0 <= vr /\ vr < q /\ BackedBy(votes', "prevote", vr, v)
    BY DEF PrevoteJustified, Backed
  <2>1. /\ "precommit" \in Kinds /\ "prevote" \in Kinds
        /\ "precommit" # "prevote" /\ v0 \in Ids /\ v \in Ids
        /\ r0 \in Nat /\ q \in Nat /\ r \in Nat /\ round[n] \in Nat
    BY <1>2, Zenon DEF Kinds, Ids, TypeOK
  <2>2. <<m, "precommit", r0, v0>> \in votes
    <3> SUFFICES ASSUME <<m, "precommit", r0, v0>> \notin votes
                 PROVE  FALSE
      OBVIOUS
    <3>1. m = n /\ r0 = r
      BY <2>1, <1>1 DEF Changes
    <3>2. <<m, "prevote", q, v>> \in votes
      BY <3>1, <2>1, <1>1 DEF Changes
    <3>3. q <= round[n] /\ round[n] <= r
      BY <3>1, <3>2, <2>1, <1>1, <1>2 DEF VotesReached, Changes
    <3> QED BY <3>1, <3>3, <2>1
  <2>3. CASE <<m, "prevote", q, v>> \in votes
    <3>1. PICK vr \in Rounds :
             r0 <= vr /\ vr < q /\ BackedBy(votes, "prevote", vr, v)
      BY <2>2, <2>3, <1>2 DEF PrevoteJustified, Backed
    <3> QED BY <3>1, <1>3, BackedStable
  <2>4. CASE <<m, "prevote", q, v>> \notin votes
    <3>1. m = n /\ q = r /\ v = pv
      BY <2>1, <2>4, <1>1 DEF Changes
    <3>2. pv # None /\ pv \in Values
      BY <3>1, <2>1, IdsAssumption
    <3>3. PICK vr \in Rounds :
             r0 <= vr /\ vr < r /\ Certified("prevote", vr, v)'
      BY <3>1, <3>2, <2>2 DEF Step, PrevoteAllowed
    <3> QED BY <3>1, <3>3, CertifiedIsBacked
  <2> QED BY <2>3, <2>4
<1>8. BackedExcludes'
  <2> SUFFICES ASSUME NEW r0 \in Rounds, NEW q \in Rounds,
                      NEW v0 \in Values, NEW v \in Values,
                      BackedBy(votes', "prevote", q, v), r0 < q, v0 # v,
                      Choosable(r0, v0)'
               PROVE  FALSE
    BY DEF BackedExcludes, Backed
  <2>1. Choosable(r0, v0)
    BY <1>2, ChoosableStable, Zenon
  <2>2. ~BackedBy(votes, "prevote", q, v)
    BY <2>1, <1>2 DEF BackedExcludes, Backed
  <2>3. /\ "precommit" \in Kinds /\ "prevote" \in Kinds
        /\ "precommit" # "prevote" /\ v0 \in Ids /\ v \in Ids
        /\ r0 \in Nat /\ q \in Nat /\ r \in Nat
    BY DEF Kinds, Ids
  <2>4. q = r
    <3>1. PICK m \in Honest : /\ <<m, "prevote", q, v>> \in votes'
                              /\ <<m, "prevote", q, v>> \notin votes
      BY <2>2 DEF BackedBy, Quorums, Honest
    <3> QED BY <3>1, <2>3, <1>1 DEF Changes
  <2>5. PICK P \in Quorums : \A m \in P \ Faulty : <<m, "prevote", q, v>> \in votes'
    BY DEF BackedBy
  <2>6. PICK Q \in Quorums : \A m \in Q \ Faulty :
             <<m, "precommit", r0, v0>> \in votes' \/ Open(m, r0)'
    BY DEF Choosable, Quorums, quorum_threshold
  <2>7. PICK h \in Honest : h \in P /\ h \in Q
    BY QuorumsMeet
  <2>8. <<h, "prevote", q, v>> \in votes'
    BY <2>5, <2>7 DEF Honest
  <2>9. <<h, "precommit", r0, v0>> \in votes'
    <3>1. q <= round'[h] /\ round'[h] \in Nat
      BY <2>8, <2>3, <1>1, <1>5, Zenon DEF VotesReached, TypeOK
    <3>2. ~Open(h, r0)'
      BY <3>1, <2>3 DEF Open
    <3> QED BY <3>2, <2>6, <2>7 DEF Honest
  <2>10. PICK vr \in Rounds :
            r0 <= vr /\ vr < q /\ BackedBy(votes', "prevote", vr, v)
    BY <2>8, <2>9, <1>7 DEF PrevoteJustified, Backed
  <2>11. CASE vr = r0
    <3>1. BackedBy(votes', "prevote", r0, v0)
      BY <2>9, <1>6 DEF PrecommitBacked, Backed
    <3>2. BackedBy(votes', "prevote", r0, v)
      BY <2>10, <2>11
    <3>3. \A m \in Honest, x, y \in Ids :
             <<m, "prevote", r0, x>> \in votes' /\ <<m, "prevote", r0, y>> \in votes'
               => x = y
      BY <1>4, <2>3 DEF NoDoubleVote
    <3> QED BY <3>1, <3>2, <3>3, <2>3, BackedUnique
  <2>12. CASE vr # r0
    <3>1. BackedBy(votes, "prevote", vr, v)
      <4>1. \A m \in Honest : <<m, "prevote", vr, v>> \in votes' =>
                                  <<m, "prevote", vr, v>> \in votes
        BY <2>3, <2>4, <2>10, <1>1 DEF Changes
      <4> QED BY <4>1, <2>10 DEF BackedBy, Quorums, Honest
    <3>2. r0 < vr
      BY <2>10, <2>12, <2>3
    <3> QED BY <3>1, <3>2, <2>1, <1>2 DEF BackedExcludes, Backed
  <2> QED BY <2>11, <2>12
<1>9. DecisionBacked'
  <2> SUFFICES ASSUME NEW m \in Honest, decision'[m] # None
               PROVE  \E q \in Rounds : BackedBy(votes', "precommit", q, decision'[m])
    BY DEF DecisionBacked, Backed
  <2>1. CASE m = n
    <3>1. decision'[m] = d
      BY <2>1, <1>2 DEF Step, TypeOK
    <3>2. PICK q \in Rounds : Certified("precommit", q, d)'
      BY <3>1 DEF Step, DecideAllowed
    <3> QED BY <3>1, <3>2, CertifiedIsBacked
  <2>2. CASE m # n
    <3>1. decision'[m] = decision[m]
      BY <2>2, <1>2 DEF Step, TypeOK
    <3>2. PICK q \in Rounds : BackedBy(votes, "precommit", q, decision[m])
      BY <3>1, <1>2 DEF DecisionBacked, Backed
    <3> QED BY <3>1, <3>2, <1>3, BackedStable
  <2> QED BY <2>1, <2>2
<1> QED BY <1>1, <1>4, <1>5, <1>6, <1>7, <1>8, <1>9 DEF Inv

-----------------------------------------------------------------------------
(* Inv is an invariant: typing, single votes and the certificate facts     *)
(* hold in every reachable state of a height.                              *)
THEOREM InvHolds == Spec => []Inv
<1>1. Inv /\ [Next]_vars => Inv'
  <2> SUFFICES ASSUME Inv, [Next]_vars PROVE Inv'
    OBVIOUS
  <2>1. CASE Next
    <3>1. PICK n \in Honest, r \in Rounds, pv \in Ids \union {None},
               pc \in Ids \union {None}, d \in Values \union {None},
               fv \in {{}} \union {{m} : m \in FaultyVote \ votes} :
                 Step(n, r, pv, pc, d, fv)
      BY <2>1, Zenon DEF Next
    <3>2. fv \in SUBSET FaultyVote
      OBVIOUS
    <3> QED BY <3>1, <3>2, InvStep, Zenon
  <2>2. CASE UNCHANGED vars
    <3> USE <2>2 DEF vars
    <3>1. TypeOK' /\ NoDoubleVote' /\ VotesReached'
      BY DEF Inv, TypeOK, NoDoubleVote, VotesReached
    <3>2. \A k, r, v : Backed(k, r, v)' <=> Backed(k, r, v)
      BY DEF Backed
    <3>3. PrecommitBacked' /\ PrevoteJustified' /\ DecisionBacked'
      BY <3>2 DEF Inv, PrecommitBacked, PrevoteJustified, DecisionBacked
    <3>4. \A r, v : Choosable(r, v)' => Choosable(r, v)
      BY Zenon DEF Choosable, Open, HasVoted, Quorums, quorum_threshold
    <3>5. BackedExcludes'
      BY <3>2, <3>4 DEF Inv, BackedExcludes
    <3> QED BY <3>1, <3>3, <3>5 DEF Inv
  <2> QED BY <2>1, <2>2
<1> QED BY <1>1, InvInit, PTL DEF Spec

(* Round's state stays well typed: rounds, votes and decisions. *)
THEOREM TypeCorrect == Spec => []TypeOK
<1>1. Inv => TypeOK
  BY DEF Inv
<1> QED BY <1>1, InvHolds, PTL

(* A block that 2f+1 precommits may have decided is the only one that any  *)
(* later round can gather 2f+1 prevotes for: what locking buys.            *)
THEOREM LockingHolds == Spec => []DecisionLocksLaterRounds
<1>1. Inv => DecisionLocksLaterRounds
  <2> SUFFICES ASSUME Inv, NEW r0 \in Rounds, NEW r \in Rounds,
                      NEW v0 \in Values, NEW v \in Values,
                      Certified("precommit", r0, v0), r0 < r,
                      Certified("prevote", r, v)
               PROVE  v = v0
    BY DEF DecisionLocksLaterRounds
  <2>1. Backed("precommit", r0, v0) /\ Backed("prevote", r, v)
    BY CertifiedIsBacked DEF Backed
  <2>2. Choosable(r0, v0)
    BY <2>1, BackedIsChoosable
  <2> QED BY <2>1, <2>2 DEF Inv, BackedExcludes
<1> QED BY <1>1, InvHolds, PTL

(* Two honest validators never commit different blocks at one height, for  *)
(* every validator set with fewer than a third of its roots faulty.        *)
THEOREM Safety == Spec => []Agreement
<1>1. ASSUME Inv, NEW n \in Honest, NEW m \in Honest,
             decision[n] # None, decision[m] # None,
             decision[n] # decision[m],
             NEW p \in Rounds, Backed("precommit", p, decision[n]),
             NEW q \in Rounds, Backed("precommit", q, decision[m]),
             p < q
      PROVE  FALSE
  <2>1. decision[n] \in Values /\ decision[m] \in Values
    BY <1>1 DEF Inv, TypeOK
  <2>2. PICK h \in Honest : <<h, "precommit", q, decision[m]>> \in votes
    BY <1>1, BackedHasHonest DEF Backed
  <2>3. Backed("prevote", q, decision[m])
    BY <1>1, <2>1, <2>2 DEF Inv, PrecommitBacked
  <2>4. Choosable(p, decision[n])
    BY <1>1, BackedIsChoosable
  <2> QED BY <1>1, <2>1, <2>3, <2>4 DEF Inv, BackedExcludes
<1>2. Inv => Agreement
  <2> SUFFICES ASSUME Inv, NEW n \in Honest, NEW m \in Honest,
                      decision[n] # None, decision[m] # None,
                      decision[n] # decision[m]
               PROVE  FALSE
    BY DEF Agreement
  <2>1. PICK p \in Rounds : Backed("precommit", p, decision[n])
    BY DEF Inv, DecisionBacked
  <2>2. PICK q \in Rounds : Backed("precommit", q, decision[m])
    BY DEF Inv, DecisionBacked
  <2>3. CASE p = q
    <3>1. /\ decision[n] \in Ids /\ decision[m] \in Ids
          /\ "precommit" \in Kinds
      BY DEF Inv, TypeOK, Ids, Kinds
    <3>2. \A h \in Honest, x, y \in Ids :
             <<h, "precommit", p, x>> \in votes /\ <<h, "precommit", p, y>> \in votes
               => x = y
      BY <3>1 DEF Inv, NoDoubleVote
    <3> QED BY <2>1, <2>2, <2>3, <3>1, <3>2, BackedUnique DEF Backed
  <2>4. CASE p < q
    BY <1>1, <2>1, <2>2, <2>4
  <2>5. CASE q < p
    BY <1>1, <2>1, <2>2, <2>5
  <2>6. p \in Nat /\ q \in Nat
    BY RoundsAssumption
  <2> QED BY <2>3, <2>4, <2>5, <2>6
<1> QED BY <1>2, InvHolds, PTL
=============================================================================
