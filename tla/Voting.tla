------------------------------- MODULE Voting -------------------------------
(***************************************************************************)
(* What one height of mini-consensus promises: the voting discipline that  *)
(* `Round` (round.rs) imposes on a correct validator, with everything that *)
(* only serves to keep to it (tallies, locks, timers, once-guards) left    *)
(* out.  One step is one handler of one validator: it enters a round and   *)
(* may cast a prevote, cast a precommit and decide in it.  Validators in   *)
(* Faulty may cast any votes at all.                                       *)
(***************************************************************************)
EXTENDS Integers, FiniteSets

CONSTANTS
  Validators,   \* the identity roots of the ValidatorSet
  Faulty,       \* the roots bound by no rule
  Rounds,       \* the rounds of the height
  Values,       \* block hashes
  NIL,          \* the vote for "no block this round"
  None,         \* no vote, no decision
  Published     \* votes Faulty roots have out before the height starts

Honest == Validators \ Faulty
Ids    == Values \union {NIL}
Kinds  == {"prevote", "precommit"}

(* A vote: who, in which phase, of which round, for what. *)
Vote       == Validators \X Kinds \X Rounds \X Ids
FaultyVote == Faulty \X Kinds \X Rounds \X Ids

ASSUME ValidatorsAssumption ==
  IsFiniteSet(Validators) /\ Faulty \subseteq Validators

ASSUME FaultBound == 3 * Cardinality(Faulty) < Cardinality(Validators)

ASSUME RoundsAssumption == Rounds \subseteq Nat /\ 0 \in Rounds

ASSUME IdsAssumption ==
  /\ NIL \notin Values
  /\ None \notin Ids
  /\ Published \subseteq FaultyVote

VARIABLES
  round,        \* the round each honest validator is in
  votes,        \* every vote cast so far
  decision      \* what each honest validator has decided

vars == <<round, votes, decision>>

-----------------------------------------------------------------------------
(* ValidatorSet::quorum_threshold: more than two thirds of the roots. *)
quorum_threshold == (2 * Cardinality(Validators)) \div 3 + 1

(* The roots with a vote of this kind for v at r, and 2f+1 of them. *)
Voters(k, r, v)    == {n \in Validators : <<n, k, r, v>> \in votes}
Certified(k, r, v) == Cardinality(Voters(k, r, v)) >= quorum_threshold

HasVoted(n, k, r) == \E v \in Ids : <<n, k, r, v>> \in votes

Cast(n, k, r, v) == IF v = None THEN {} ELSE {<<n, k, r, v>>}

PrevoteUnlocked(n, r, v) == ~HasVoted(n, "prevote", r)

(* A validator that precommitted another value prevotes v only if v has    *)
(* gathered 2f+1 prevotes since: in that round or a later one, before r.   *)
PrevoteAllowed(n, r, v) ==
  /\ ~HasVoted(n, "prevote", r)
  /\ v \in Values =>
       \A r0 \in Rounds, v0 \in Values \ {v} :
         <<n, "precommit", r0, v0>> \in votes =>
            \E vr \in Rounds : r0 <= vr /\ vr < r /\ Certified("prevote", vr, v)'

(* A value is precommitted only on 2f+1 prevotes for it in the same round. *)
PrecommitAllowed(n, r, v) ==
  /\ ~HasVoted(n, "precommit", r)
  /\ v \in Values => Certified("prevote", r, v)'

DecideOnPrevotes(v) == \E r \in Rounds : Certified("prevote", r, v)'

DecideAllowed(v) == \E r \in Rounds : Certified("precommit", r, v)'

-----------------------------------------------------------------------------
Init ==
  /\ round = [n \in Honest |-> 0]
  /\ votes = Published
  /\ decision = [n \in Honest |-> None]

(* One handler of validator n, during which it learns at most one vote     *)
(* that a faulty root had not shown before (fv).                           *)
Step(n, r, pv, pc, d, fv) ==
  /\ decision[n] = None
  /\ r >= round[n]
  /\ round' = [round EXCEPT ![n] = r]
  /\ votes' = votes \union Cast(n, "prevote", r, pv)
                    \union Cast(n, "precommit", r, pc) \union fv
  /\ decision' = [decision EXCEPT ![n] = d]
  /\ pv # None => PrevoteAllowed(n, r, pv)
  /\ pc # None => PrecommitAllowed(n, r, pc)
  /\ d # None => DecideAllowed(d)

Next ==
  \E n \in Honest, r \in Rounds, pv, pc \in Ids \union {None},
     d \in Values \union {None},
     fv \in {{}} \union {{m} : m \in FaultyVote \ votes} :
        Step(n, r, pv, pc, d, fv)

Spec == Init /\ [][Next]_vars

-----------------------------------------------------------------------------
TypeOK ==
  /\ round \in [Honest -> Rounds]
  /\ votes \subseteq Vote
  /\ decision \in [Honest -> Values \union {None}]

(* Two honest validators never decide different blocks at one height.  The *)
(* claim of round.rs: "Safety - never two conflicting decisions at one     *)
(* height - is what locking buys".                                         *)
Agreement ==
  \A n, m \in Honest :
    decision[n] # None /\ decision[m] # None => decision[n] = decision[m]

(* Once a value can have been decided in a round, no other value gathers   *)
(* 2f+1 prevotes in a later one, whatever later rounds propose.            *)
DecisionLocksLaterRounds ==
  \A r0, r \in Rounds, v0, v \in Values :
    Certified("precommit", r0, v0) /\ r0 < r /\ Certified("prevote", r, v)
      => v = v0
=============================================================================
