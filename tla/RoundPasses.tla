---------------------------- MODULE RoundPasses -----------------------------
(***************************************************************************)
(* What one evaluate of module Round leaves undone, for every value of the *)
(* constants.                                                              *)
(*                                                                         *)
(* RoundRules follows what a rule may not disturb.  Here the lemmas say    *)
(* which rules are due (their guards), what each does when it is, and that *)
(* after one pass over the rules none is due.  The bound of two passes in  *)
(* Round is discharged here.                                               *)
(***************************************************************************)
EXTENDS RoundRules

(* The guards of the rules. *)
FreshDue(s) ==
  /\ s.step = Propose /\ s.round \notin s.prevoted_rounds
  /\ s.proposals[s.round] # None /\ s.proposals[s.round].valid_round = -1

PolcDue(s) ==
  /\ s.step = Propose /\ s.round \notin s.prevoted_rounds
  /\ s.proposals[s.round] # None /\ s.proposals[s.round].valid_round >= 0
  /\ AsU32(s.proposals[s.round].valid_round) < s.round
  /\ prevote_count(s, AsU32(s.proposals[s.round].valid_round), s.proposals[s.round].id) >= quorum

PrevoteTimerDue(s) ==
  /\ s.step = Prevote /\ s.round \notin s.prevote_timeout_armed
  /\ total_prevotes(s, s.round) >= quorum

PolkaDue(s) ==
  /\ s.step >= Prevote /\ s.round \notin s.prevote_quorum_seen
  /\ s.proposals[s.round] # None /\ s.proposals[s.round].valid
  /\ prevote_count(s, s.round, s.proposals[s.round].id) >= quorum

NilDue(s) ==
  /\ s.step = Prevote /\ s.round \notin s.precommitted_rounds
  /\ prevote_count(s, s.round, NIL) >= quorum

PrecommitTimerDue(s) ==
  /\ s.round \notin s.precommit_timeout_armed
  /\ total_precommits(s, s.round) >= quorum

(* The rounds rule_skip_round would enter. *)
Ahead(s) == {r \in Rounds : r > s.round /\ Cardinality(participants(s, r)) >= f_plus_1}

(* Rules 1 to 6 are done. *)
NoneDue(s) ==
  /\ ~FreshDue(s) /\ ~PolcDue(s) /\ ~PrevoteTimerDue(s)
  /\ ~PolkaDue(s) /\ ~NilDue(s) /\ ~PrecommitTimerDue(s)

(* Nothing is left for evaluate to do. *)
Quiet(s) == s.decided \/ (NoneDue(s) /\ DecidableRounds(s) = {} /\ Ahead(s) = {})

(* The pushes left in a round: what is queued, a vote per step still to    *)
(* come, a decision.                                                       *)
Effort(s) == Len(s.work) + (2 - s.step) + (IF s.decided THEN 0 ELSE 1)

-----------------------------------------------------------------------------
(* A rule that is not due does nothing. *)
LEMMA Idles ==
  ASSUME NEW s
  PROVE  /\ ~FreshDue(s) => rule_propose_fresh(s) = s
         /\ ~PolcDue(s) => rule_propose_polc(s) = s
         /\ ~PrevoteTimerDue(s) => rule_prevote_timeout(s) = s
         /\ ~PolkaDue(s) => rule_prevote_quorum(s) = s
         /\ ~NilDue(s) => rule_prevote_nil(s) = s
         /\ ~PrecommitTimerDue(s) => rule_precommit_timeout(s) = s
         /\ DecidableRounds(s) = {} => rule_decide(s) = s
         /\ Ahead(s) = {} => rule_skip_round(s) = s
<1>1. ~FreshDue(s) => rule_propose_fresh(s) = s
  BY Zenon DEF FreshDue, rule_propose_fresh
<1>2. ~PolcDue(s) => rule_propose_polc(s) = s
  BY Zenon DEF PolcDue, rule_propose_polc
<1>3. ~PrevoteTimerDue(s) => rule_prevote_timeout(s) = s
  BY Zenon DEF PrevoteTimerDue, rule_prevote_timeout
<1>4. ~PolkaDue(s) => rule_prevote_quorum(s) = s
  BY Zenon DEF PolkaDue, rule_prevote_quorum
<1>5. ~NilDue(s) => rule_prevote_nil(s) = s
  BY Zenon DEF NilDue, rule_prevote_nil
<1>6. ~PrecommitTimerDue(s) => rule_precommit_timeout(s) = s
  BY Zenon DEF PrecommitTimerDue, rule_precommit_timeout
<1>7. DecidableRounds(s) = {} => rule_decide(s) = s
  BY Zenon DEF rule_decide
<1>8. Ahead(s) = {} => rule_skip_round(s) = s
  BY Zenon DEF Ahead, rule_skip_round
<1> QED BY <1>1, <1>2, <1>3, <1>4, <1>5, <1>6, <1>7, <1>8, Zenon

(* The six first rules of pass, and the seventh. *)
six(s) ==
  rule_precommit_timeout(rule_prevote_nil(rule_prevote_quorum(rule_prevote_timeout(
    rule_propose_polc(rule_propose_fresh(s))))))

(* With no rule due, the six rules before the decision change nothing. *)
LEMMA SixIdles == ASSUME NEW s, NoneDue(s) PROVE six(s) = s
BY Idles DEF six, NoneDue

(* With nothing due, decidable or ahead, a pass of `evaluate` changes      *)
(* nothing.                                                                *)
LEMMA QuietIsFixed == ASSUME NEW s, Quiet(s) PROVE pass(s) = s
BY SixIdles, Idles, Zenon DEF pass, six, Quiet

(* The guards read the round, its proposal and the votes. *)
SameView(s, t) == t.round = s.round /\ t.proposals = s.proposals /\ t.votes = s.votes

(* The counts a rule tests depend on the node's view alone. *)
LEMMA ViewKeeps ==
  ASSUME NEW s, NEW t, SameView(s, t)
  PROVE  /\ \A r, v : prevote_count(t, r, v) = prevote_count(s, r, v)
         /\ \A r : total_prevotes(t, r) = total_prevotes(s, r)
         /\ \A r : total_precommits(t, r) = total_precommits(s, r)
         /\ DecidableRounds(t) = DecidableRounds(s)
         /\ Ahead(t) = Ahead(s)
<1>1. /\ \A k, r, v : VotersFor(t, k, r, v) = VotersFor(s, k, r, v)
      /\ \A k, r : VotersAt(t, k, r) = VotersAt(s, k, r)
  BY Zenon DEF SameView, VotersFor, VotersAt
<1>2. /\ \A r, v : prevote_count(t, r, v) = prevote_count(s, r, v)
      /\ \A r, v : precommit_count(t, r, v) = precommit_count(s, r, v)
      /\ \A r : total_prevotes(t, r) = total_prevotes(s, r)
      /\ \A r : total_precommits(t, r) = total_precommits(s, r)
      /\ \A r : participants(t, r) = participants(s, r)
  BY <1>1, Zenon DEF prevote_count, precommit_count, total_prevotes, total_precommits, participants
<1>3. DecidableRounds(t) = DecidableRounds(s)
  BY <1>2, Zenon DEF DecidableRounds, SameView
<1>4. Ahead(t) = Ahead(s)
  BY <1>2 DEF Ahead, SameView
<1> QED BY <1>2, <1>3, <1>4, Zenon

-----------------------------------------------------------------------------
(* What a rule that fires does to the record. *)
Casts(s, t, k) ==
  /\ SameInputs(s, t) /\ SameRound(s, t) /\ t.decided = s.decided
  /\ t.prevote_timeout_armed = s.prevote_timeout_armed
  /\ t.precommit_timeout_armed = s.precommit_timeout_armed /\ t.timers = s.timers
  /\ s.step = (IF k = "prevote" THEN Propose ELSE Prevote)
  /\ t.step = (IF k = "prevote" THEN Prevote ELSE Precommit)
  /\ t.prevoted_rounds = s.prevoted_rounds \union (IF k = "prevote" THEN {s.round} ELSE {})
  /\ t.precommitted_rounds = s.precommitted_rounds \union (IF k = "precommit" THEN {s.round} ELSE {})
  /\ \E v \in Ids : t.work = Append(s.work, [act |-> k, round |-> s.round, id |-> v])

Arms(s, t, step) ==
  /\ SameInputs(s, t) /\ SameLock(s, t) /\ SameRound(s, t) /\ SamePhase(s, t)
  /\ t.decided = s.decided /\ t.work = s.work /\ t.prevote_quorum_seen = s.prevote_quorum_seen
  /\ t.timers = s.timers \union {<<step, s.round>>}
  /\ t.prevote_timeout_armed = s.prevote_timeout_armed \union (IF step = Prevote THEN {s.round} ELSE {})
  /\ t.precommit_timeout_armed = s.precommit_timeout_armed \union (IF step = Precommit THEN {s.round} ELSE {})

(* The fields that rule_prevote_quorum sets beside the precommit. *)
SeesPolka(s, t) ==
  /\ t.prevote_quorum_seen = s.prevote_quorum_seen \union {s.round}
  /\ t.valid_value = s.proposals[s.round].id /\ t.valid_round = s.round

Decides(s, t) ==
  /\ SameInputs(s, t) /\ SameLock(s, t) /\ SameRound(s, t) /\ SamePhase(s, t) /\ SameTimers(s, t)
  /\ t.decided
  /\ \E a \in Decisions : t.work = Append(s.work, a)

(* `prevote` casts one prevote and touches neither lock nor polka flag. *)
LEMMA PrevoteCasts ==
  ASSUME NEW s \in RoundState, s.step = Propose, NEW v \in Ids
  PROVE  LET t == prevote(s, s.round, v) IN
         /\ t \in RoundState /\ Casts(s, t, "prevote") /\ SameLock(s, t)
         /\ t.prevote_quorum_seen = s.prevote_quorum_seen
<1> DEFINE t == prevote(s, s.round, v)
<1>1. /\ t \in RoundState
      /\ SameInputs(s, t) /\ SameLock(s, t) /\ SameRound(s, t) /\ SameTimers(s, t)
      /\ t.step = Prevote /\ t.decided = s.decided
      /\ t.prevoted_rounds = s.prevoted_rounds \union {s.round}
      /\ t.precommitted_rounds = s.precommitted_rounds
      /\ t.work = Append(s.work, [act |-> "prevote", round |-> s.round, id |-> v])
  BY PrevoteFields, Zenon
<1> HIDE DEF t
<1>2. Casts(s, t, "prevote")
  BY <1>1, Zenon DEF Casts, SameTimers
<1> QED BY <1>1, <1>2, Zenon DEF t, SameTimers

(* `precommit` casts one precommit and touches neither lock nor polka      *)
(* flag.                                                                   *)
LEMMA PrecommitCasts ==
  ASSUME NEW s \in RoundState, s.step = Prevote, NEW v \in Ids
  PROVE  LET t == precommit(s, s.round, v) IN
         /\ t \in RoundState /\ Casts(s, t, "precommit") /\ SameLock(s, t)
         /\ t.prevote_quorum_seen = s.prevote_quorum_seen
<1> DEFINE t == precommit(s, s.round, v)
<1>1. /\ t \in RoundState
      /\ SameInputs(s, t) /\ SameLock(s, t) /\ SameRound(s, t) /\ SameTimers(s, t)
      /\ t.step = Precommit /\ t.decided = s.decided
      /\ t.prevoted_rounds = s.prevoted_rounds
      /\ t.precommitted_rounds = s.precommitted_rounds \union {s.round}
      /\ t.work = Append(s.work, [act |-> "precommit", round |-> s.round, id |-> v])
  BY PrecommitFields, Zenon
<1> HIDE DEF t
<1>2. Casts(s, t, "precommit")
  BY <1>1, Zenon DEF Casts, SameTimers
<1> QED BY <1>1, <1>2, Zenon DEF t, SameTimers

(* A due fresh-proposal rule casts one prevote. *)
LEMMA FreshFires ==
  ASSUME NEW s \in RoundState, FreshDue(s)
  PROVE  LET t == rule_propose_fresh(s) IN
         t \in RoundState /\ Casts(s, t, "prevote") /\ SameLock(s, t) /\ t.prevote_quorum_seen = s.prevote_quorum_seen
<1> DEFINE p == s.proposals[s.round]
           free == s.locked_round = -1 \/ s.locked_value = p.id
           v == IF p.valid /\ free THEN p.id ELSE NIL
<1>1. v \in Ids
  BY Zenon DEF FreshDue, RoundState, Proposals, Ids
<1>2. rule_propose_fresh(s) = prevote(s, s.round, v)
  BY Zenon DEF FreshDue, rule_propose_fresh
<1> HIDE DEF v
<1> QED BY <1>1, <1>2, PrevoteCasts DEF FreshDue

(* A due proof-of-lock rule casts one prevote. *)
LEMMA PolcFires ==
  ASSUME NEW s \in RoundState, PolcDue(s)
  PROVE  LET t == rule_propose_polc(s) IN
         t \in RoundState /\ Casts(s, t, "prevote") /\ SameLock(s, t) /\ t.prevote_quorum_seen = s.prevote_quorum_seen
<1> DEFINE p == s.proposals[s.round]
           v == IF p.valid /\ polc_unlocks(s, p) THEN p.id ELSE NIL
<1>1. v \in Ids
  BY Zenon DEF PolcDue, RoundState, Proposals, Ids
<1>2. rule_propose_polc(s) = prevote(s, s.round, v)
  BY Zenon DEF PolcDue, rule_propose_polc
<1> HIDE DEF v
<1> QED BY <1>1, <1>2, PrevoteCasts DEF PolcDue

(* A due prevote-timeout rule arms that timer. *)
LEMMA PrevoteTimerFires ==
  ASSUME NEW s \in RoundState, PrevoteTimerDue(s)
  PROVE  LET t == rule_prevote_timeout(s) IN t \in RoundState /\ Arms(s, t, Prevote)
<1> DEFINE t == [s EXCEPT !.prevote_timeout_armed = @ \union {s.round},
                          !.timers = @ \union {<<Prevote, s.round>>}]
<1>1. rule_prevote_timeout(s) = t
  BY Zenon DEF PrevoteTimerDue, rule_prevote_timeout, ScheduleTimeout, RoundState
<1>2. Prevote \in Steps /\ s.round \in Rounds /\ Prevote # Precommit
  BY DEF Steps, RoundState, Prevote, Precommit
<1>3. s.timers \union {<<Prevote, s.round>>} \in SUBSET (Steps \X Rounds)
  BY <1>2 DEF RoundState
<1>4. t \in RoundState
  BY <1>2, <1>3, Zenon DEF RoundState
<1>5. Arms(s, t, Prevote)
  BY <1>2, Zenon DEF Arms, RoundState, SameInputs, SameLock, SameRound, SamePhase
<1> QED BY <1>1, <1>4, <1>5, Zenon

(* A due precommit-timeout rule arms that timer. *)
LEMMA PrecommitTimerFires ==
  ASSUME NEW s \in RoundState, PrecommitTimerDue(s)
  PROVE  LET t == rule_precommit_timeout(s) IN t \in RoundState /\ Arms(s, t, Precommit)
<1> DEFINE t == [s EXCEPT !.precommit_timeout_armed = @ \union {s.round},
                          !.timers = @ \union {<<Precommit, s.round>>}]
<1>1. rule_precommit_timeout(s) = t
  BY Zenon DEF PrecommitTimerDue, rule_precommit_timeout, ScheduleTimeout, RoundState
<1>2. Precommit \in Steps /\ s.round \in Rounds /\ Prevote # Precommit
  BY DEF Steps, RoundState, Prevote, Precommit
<1>3. s.timers \union {<<Precommit, s.round>>} \in SUBSET (Steps \X Rounds)
  BY <1>2 DEF RoundState
<1>4. t \in RoundState
  BY <1>2, <1>3, ZenonT(30) DEF RoundState
<1>5. Arms(s, t, Precommit)
  BY <1>2, Zenon DEF Arms, RoundState, SameInputs, SameLock, SameRound, SamePhase
<1> QED BY <1>1, <1>4, <1>5, Zenon

(* A due nil rule casts one precommit. *)
LEMMA NilFires ==
  ASSUME NEW s \in RoundState, NilDue(s)
  PROVE  LET t == rule_prevote_nil(s) IN
         t \in RoundState /\ Casts(s, t, "precommit") /\ SameLock(s, t) /\ t.prevote_quorum_seen = s.prevote_quorum_seen
<1>1. rule_prevote_nil(s) = precommit(s, s.round, NIL) /\ NIL \in Ids
  BY Zenon DEF NilDue, rule_prevote_nil, Ids
<1> QED BY <1>1, PrecommitCasts, Zenon DEF NilDue

(* A due polka rule marks the polka as seen, and in the prevote step casts *)
(* one precommit.                                                          *)
LEMMA PolkaFires ==
  ASSUME NEW s \in RoundState, PolkaDue(s)
  PROVE  LET t == rule_prevote_quorum(s) IN
         /\ t \in RoundState /\ SeesPolka(s, t)
         /\ \/ Casts(s, t, "precommit")
            \/ /\ SameInputs(s, t) /\ SameRound(s, t) /\ SamePhase(s, t) /\ t.decided = s.decided /\ t.work = s.work
               /\ t.prevote_timeout_armed = s.prevote_timeout_armed
               /\ t.precommit_timeout_armed = s.precommit_timeout_armed /\ t.timers = s.timers
<1> DEFINE p == s.proposals[s.round]
           seen == [s EXCEPT !.prevote_quorum_seen = @ \union {s.round},
                             !.valid_value = p.id, !.valid_round = s.round]
           lock == [seen EXCEPT !.locked_value = p.id, !.locked_round = s.round]
           t == rule_prevote_quorum(s)
<1>1. s.round \in Rounds /\ s.round \in Past /\ p.id \in Blocks /\ p.id \in Ids
  BY Zenon DEF PolkaDue, RoundState, Past, Proposals, Blocks, Ids
<1>2. t = seen \/ (s.step = Prevote /\ t = precommit(lock, s.round, p.id))
  BY Zenon DEF PolkaDue, rule_prevote_quorum
<1> HIDE DEF p, t
<1>3. /\ seen \in RoundState /\ SameInputs(s, seen) /\ SameRound(s, seen) /\ SamePhase(s, seen)
      /\ seen.decided = s.decided /\ seen.work = s.work
      /\ seen.prevote_timeout_armed = s.prevote_timeout_armed
      /\ seen.precommit_timeout_armed = s.precommit_timeout_armed /\ seen.timers = s.timers
      /\ SeesPolka(s, seen)
  BY <1>1, ZenonT(30) DEF RoundState, SameInputs, SameRound, SamePhase, SeesPolka, p
<1> HIDE DEF seen
<1>4. CASE t = seen
  BY <1>3, <1>4, Zenon DEF t
<1>5. CASE s.step = Prevote /\ t = precommit(lock, s.round, p.id)
  <2>1. /\ lock \in RoundState /\ SameInputs(seen, lock) /\ SameRound(seen, lock) /\ SamePhase(seen, lock)
        /\ SameTimers(seen, lock) /\ lock.decided = seen.decided /\ lock.work = seen.work
        /\ lock.valid_value = seen.valid_value /\ lock.valid_round = seen.valid_round
    BY <1>1, <1>3, ZenonT(30) DEF RoundState, SameInputs, SameRound, SamePhase, SameTimers
  <2> HIDE DEF lock
  <2>2. lock.round = s.round /\ lock.step = Prevote
    BY <1>3, <1>5, <2>1, Zenon DEF SameRound, SamePhase
  <2>3. /\ t \in RoundState /\ Casts(lock, t, "precommit") /\ SameLock(lock, t)
        /\ t.prevote_quorum_seen = lock.prevote_quorum_seen
    BY <1>1, <1>5, <2>1, <2>2, PrecommitCasts
  <2>4. SeesPolka(s, t)
    BY <1>3, <2>1, <2>3, Zenon DEF SeesPolka, SameLock, SameTimers
  <2>5. Casts(s, t, "precommit")
    BY <1>3, <2>1, <2>3 DEF Casts, SameInputs, SameRound, SamePhase, SameTimers
  <2> QED BY <2>3, <2>4, <2>5, Zenon DEF t
<1> QED BY <1>2, <1>4, <1>5, Zenon

(* A decidable round is decided. *)
LEMMA DecideFires ==
  ASSUME NEW s \in RoundState, DecidableRounds(s) # {}
  PROVE  LET t == rule_decide(s) IN t \in RoundState /\ Decides(s, t)
<1> DEFINE r == CHOOSE q \in DecidableRounds(s) : TRUE
           id == s.proposals[r].id
           a == [act |-> "decided", round |-> r, id |-> id, signers |-> VotersFor(s, "precommit", r, id)]
           d == [s EXCEPT !.decided = TRUE]
           t == Push(d, a)
<1>1. r \in DecidableRounds(s) /\ rule_decide(s) = t
  BY Zenon DEF rule_decide
<1> HIDE DEF r
<1>2. r \in Rounds /\ id \in Values
  BY <1>1, Zenon DEF DecidableRounds, RoundState, Proposals
<1> HIDE DEF id
<1>3. a \in Decisions /\ a \in Actions
  BY <1>2, VotersType, Zenon DEF Actions, Decisions
<1> HIDE DEF a
<1>4. /\ d \in RoundState /\ SameInputs(s, d) /\ SameLock(s, d) /\ SameRound(s, d) /\ SamePhase(s, d)
      /\ SameTimers(s, d) /\ d.decided /\ d.work = s.work
  BY Zenon DEF RoundState, SameInputs, SameLock, SameRound, SamePhase, SameTimers
<1> HIDE DEF d
<1>5. t \in RoundState
  BY <1>3, <1>4, PushType, Zenon
<1>6. /\ SameInputs(s, t) /\ SameLock(s, t) /\ SameRound(s, t) /\ SamePhase(s, t) /\ SameTimers(s, t)
      /\ t.decided /\ t.work = Append(s.work, a)
  BY <1>4, Zenon DEF Push, RoundState, SameInputs, SameLock, SameRound, SamePhase, SameTimers
<1> HIDE DEF t
<1> QED BY <1>1, <1>3, <1>5, <1>6, Zenon DEF Decides

-----------------------------------------------------------------------------
(* A pass over the rules stays in its round, pushes only votes for it and  *)
(* a decision, and never adds to the effort left.                          *)
Moves(s, t) ==
  /\ t \in RoundState /\ SameInputs(s, t) /\ SameRound(s, t)
  /\ Effort(t) <= Effort(s)
  /\ \A a \in Intents(t) : a \in Intents(s) \/ a.act = "decided" \/ (a.act \in Kinds /\ a.round = s.round)

(* The measure of the work left is a number that bounds the intents        *)
(* queued.                                                                 *)
LEMMA EffortType ==
  ASSUME NEW s \in RoundState
  PROVE  Effort(s) \in Int /\ Len(s.work) \in Nat /\ Len(s.work) <= Effort(s)
<1>1. Len(s.work) \in Nat /\ s.step \in {0, 1, 2}
  BY Numbers DEF RoundState
<1> QED BY ONLY <1>1 DEF Effort

(* Doing nothing is a move. *)
LEMMA MovesReflexive == ASSUME NEW s \in RoundState PROVE Moves(s, s)
BY EffortType DEF Moves, SameInputs, SameRound

(* Moves of a node compose. *)
LEMMA MovesTransitive ==
  ASSUME NEW s \in RoundState, NEW t, NEW u, Moves(s, t), Moves(t, u)
  PROVE  Moves(s, u)
<1>1. Effort(s) \in Int /\ Effort(t) \in Int /\ Effort(u) \in Int
  BY EffortType, Zenon DEF Moves
<1>2. Effort(u) <= Effort(s)
  BY ONLY <1>1, Moves(s, t), Moves(t, u) DEF Moves
<1> QED BY <1>2, Zenon DEF Moves, SameInputs, SameRound

(* Casting a vote spends a step of the round, so the work left does not    *)
(* grow.                                                                   *)
LEMMA CastsMoves ==
  ASSUME NEW s \in RoundState, NEW t \in RoundState, NEW k \in Kinds, Casts(s, t, k)
  PROVE  Moves(s, t) /\ t.decided = s.decided
<1>1. PICK v \in Ids : t.work = Append(s.work, [act |-> k, round |-> s.round, id |-> v])
  BY Zenon DEF Casts
<1> DEFINE a == [act |-> k, round |-> s.round, id |-> v]
<1>2. Intents(t) = Intents(s) \union {a} /\ a.act = k /\ a.round = s.round
  <2>1. a.act = k /\ a.round = s.round
    BY Zenon
  <2>2. t.work = Append(s.work, a)
    BY <1>1, Zenon
  <2> HIDE DEF a
  <2> QED BY <2>1, <2>2, IntentsPush, Zenon
<1>3. Len(t.work) = Len(s.work) + 1 /\ Len(s.work) \in Nat
  BY <1>1 DEF RoundState
<1> HIDE DEF a
<1>4. t.step = s.step + 1 /\ s.step \in {0, 1, 2} /\ t.decided = s.decided
  BY Numbers DEF Casts, Kinds, Propose, Prevote, Precommit
<1>5. Effort(t) = Effort(s)
  BY ONLY <1>3, <1>4 DEF Effort
<1> QED BY <1>2, <1>4, <1>5, EffortType DEF Moves, Casts

(* A rule that casts nothing leaves the work left as it was. *)
LEMMA StillMoves ==
  ASSUME NEW s \in RoundState, NEW t \in RoundState, SameInputs(s, t), SameRound(s, t), SamePhase(s, t),
         t.decided = s.decided, t.work = s.work
  PROVE  Moves(s, t) /\ t.decided = s.decided
<1>1. Intents(t) = Intents(s) /\ Effort(t) = Effort(s)
  BY Zenon DEF Intents, Effort, SamePhase
<1> QED BY <1>1, EffortType DEF Moves

(* Deciding spends the decision, so the work left does not grow. *)
LEMMA DecidesMoves ==
  ASSUME NEW s \in RoundState, NEW t \in RoundState, ~s.decided, Decides(s, t)
  PROVE  Moves(s, t) /\ t.decided
<1>1. PICK a \in Decisions : t.work = Append(s.work, a)
  BY Zenon DEF Decides
<1>2. Intents(t) = Intents(s) \union {a} /\ a.act = "decided"
  BY <1>1, IntentsPush, Zenon DEF Decisions
<1>3. Len(t.work) = Len(s.work) + 1 /\ Len(s.work) \in Nat
  BY <1>1 DEF RoundState, Actions
<1>4. t.step = s.step /\ s.step \in {0, 1, 2} /\ t.decided /\ ~s.decided
  BY Numbers, Zenon DEF Decides, SamePhase
<1>5. Effort(t) = Effort(s)
  BY ONLY <1>3, <1>4 DEF Effort
<1> QED BY <1>2, <1>4, <1>5, EffortType DEF Moves, Decides

(* After the first six rules none of them is due. *)
LEMMA SixDone ==
  ASSUME NEW s \in RoundState
  PROVE  Moves(s, six(s)) /\ six(s).decided = s.decided /\ NoneDue(six(s))
<1> DEFINE s1 == rule_propose_fresh(s)
           s2 == rule_propose_polc(s1)
           s3 == rule_prevote_timeout(s2)
           s4 == rule_prevote_quorum(s3)
           s5 == rule_prevote_nil(s4)
           s6 == rule_precommit_timeout(s5)
<1>0. \A u, w : Moves(u, w) => w \in RoundState /\ SameView(u, w)
  BY Zenon DEF Moves, SameView, SameInputs, SameRound
<1>k. "prevote" \in Kinds /\ "precommit" \in Kinds
  BY Zenon DEF Kinds
<1>1. Moves(s, s1) /\ s1.decided = s.decided /\ ~FreshDue(s1)
  <2>1. CASE FreshDue(s)
    <3>1. s1 \in RoundState /\ Casts(s, s1, "prevote")
      BY <2>1, FreshFires, Zenon
    <3> HIDE DEF s1
    <3>2. ~FreshDue(s1)
      BY <3>1 DEF Casts, FreshDue, Propose, Prevote
    <3> QED BY <1>k, <3>1, <3>2, CastsMoves, Zenon
  <2>2. CASE ~FreshDue(s)
    <3>1. s1 = s
      BY <2>2, Idles, Zenon
    <3> QED BY <2>2, <3>1, MovesReflexive, Zenon
  <2> QED BY <2>1, <2>2, Zenon
<1> HIDE DEF s1
<1>2. Moves(s1, s2) /\ s2.decided = s1.decided /\ ~FreshDue(s2) /\ ~PolcDue(s2)
  <2>0. s1 \in RoundState
    BY <1>0, <1>1, Zenon
  <2>1. CASE PolcDue(s1)
    <3>1. s2 \in RoundState /\ Casts(s1, s2, "prevote")
      BY <2>0, <2>1, PolcFires, Zenon
    <3> HIDE DEF s2
    <3>2. ~FreshDue(s2) /\ ~PolcDue(s2)
      BY <3>1 DEF Casts, FreshDue, PolcDue, Propose, Prevote
    <3> QED BY <1>k, <2>0, <3>1, <3>2, CastsMoves, Zenon
  <2>2. CASE ~PolcDue(s1)
    <3>1. s2 = s1
      BY <2>2, Idles, Zenon
    <3> QED BY <1>1, <2>0, <2>2, <3>1, MovesReflexive, Zenon
  <2> QED BY <2>1, <2>2, Zenon
<1> HIDE DEF s2
<1>3. Moves(s2, s3) /\ s3.decided = s2.decided /\ ~FreshDue(s3) /\ ~PolcDue(s3) /\ ~PrevoteTimerDue(s3)
  <2>0. s2 \in RoundState
    BY <1>0, <1>2, Zenon
  <2>1. CASE PrevoteTimerDue(s2)
    <3>1. s3 \in RoundState /\ Arms(s2, s3, Prevote)
      BY <2>0, <2>1, PrevoteTimerFires, Zenon
    <3> HIDE DEF s3
    <3>2. s3.step = Prevote /\ s3.round \in s3.prevote_timeout_armed
      BY <2>1, <3>1, Zenon DEF Arms, SamePhase, SameRound, PrevoteTimerDue
    <3>3. ~FreshDue(s3) /\ ~PolcDue(s3) /\ ~PrevoteTimerDue(s3)
      BY <3>2 DEF FreshDue, PolcDue, PrevoteTimerDue, Propose, Prevote
    <3> QED BY <2>0, <3>1, <3>3, StillMoves, Zenon DEF Arms
  <2>2. CASE ~PrevoteTimerDue(s2)
    <3>1. s3 = s2
      BY <2>2, Idles, Zenon
    <3> QED BY <1>2, <2>0, <2>2, <3>1, MovesReflexive, Zenon
  <2> QED BY <2>1, <2>2, Zenon
<1> HIDE DEF s3
<1>4. /\ Moves(s3, s4) /\ s4.decided = s3.decided
      /\ ~FreshDue(s4) /\ ~PolcDue(s4) /\ ~PrevoteTimerDue(s4) /\ ~PolkaDue(s4)
  <2>0. s3 \in RoundState
    BY <1>0, <1>3, Zenon
  <2>1. CASE PolkaDue(s3)
    <3>1. /\ s4 \in RoundState /\ SeesPolka(s3, s4)
          /\ \/ Casts(s3, s4, "precommit")
             \/ /\ SameInputs(s3, s4) /\ SameRound(s3, s4) /\ SamePhase(s3, s4)
                /\ s4.decided = s3.decided /\ s4.work = s3.work
                /\ s4.prevote_timeout_armed = s3.prevote_timeout_armed
      BY <2>0, <2>1, PolkaFires, Zenon
    <3> HIDE DEF s4
    <3>2. Moves(s3, s4) /\ s4.decided = s3.decided
      BY <1>k, <2>0, <3>1, CastsMoves, StillMoves, Zenon
    <3>3. s4.round \in s4.prevote_quorum_seen
      BY <3>1, <3>2, Zenon DEF SeesPolka, Moves, SameRound
    <3>4. s3.step \in {1, 2} /\ (s4.step = 2 \/ (s4.step = s3.step /\ s4.prevote_timeout_armed = s3.prevote_timeout_armed))
      BY <2>0, <2>1, <3>1, Numbers DEF PolkaDue, Casts, SamePhase, Prevote, Precommit
    <3>5. ~PrevoteTimerDue(s4)
      <4>1. total_prevotes(s4, s4.round) = total_prevotes(s3, s3.round) /\ s4.round = s3.round
        BY <1>0, <3>2, ViewKeeps DEF SameView
      <4> QED BY <1>3, <3>4, <4>1 DEF PrevoteTimerDue, Prevote
    <3> QED BY <3>2, <3>3, <3>4, <3>5 DEF FreshDue, PolcDue, PolkaDue, Propose
  <2>2. CASE ~PolkaDue(s3)
    <3>1. s4 = s3
      BY <2>2, Idles, Zenon
    <3> QED BY <1>3, <2>0, <2>2, <3>1, MovesReflexive, Zenon
  <2> QED BY <2>1, <2>2, Zenon
<1> HIDE DEF s4
<1>5. /\ Moves(s4, s5) /\ s5.decided = s4.decided
      /\ ~FreshDue(s5) /\ ~PolcDue(s5) /\ ~PrevoteTimerDue(s5) /\ ~PolkaDue(s5) /\ ~NilDue(s5)
  <2>0. s4 \in RoundState
    BY <1>0, <1>4, Zenon
  <2>1. CASE NilDue(s4)
    <3>1. s5 \in RoundState /\ Casts(s4, s5, "precommit") /\ s5.prevote_quorum_seen = s4.prevote_quorum_seen
      BY <2>0, <2>1, NilFires, Zenon
    <3> HIDE DEF s5
    <3>2. Moves(s4, s5) /\ s5.decided = s4.decided
      BY <1>k, <2>0, <3>1, CastsMoves, Zenon
    <3>3. s4.step = 1 /\ s5.step = 2
      BY <2>1, <3>1, Zenon DEF NilDue, Casts, Prevote, Precommit
    <3>4. ~PolkaDue(s5)
      <4>1. SameView(s4, s5) /\ \A r, v : prevote_count(s5, r, v) = prevote_count(s4, r, v)
        BY <1>0, <3>2, ViewKeeps, Zenon
      <4> QED BY <1>4, <3>1, <3>3, <4>1 DEF PolkaDue, SameView, Prevote
    <3> QED BY <3>2, <3>3, <3>4 DEF FreshDue, PolcDue, PrevoteTimerDue, NilDue, Propose, Prevote
  <2>2. CASE ~NilDue(s4)
    <3>1. s5 = s4
      BY <2>2, Idles, Zenon
    <3> QED BY <1>4, <2>0, <2>2, <3>1, MovesReflexive, Zenon
  <2> QED BY <2>1, <2>2, Zenon
<1> HIDE DEF s5
<1>6. Moves(s5, s6) /\ s6.decided = s5.decided /\ NoneDue(s6)
  <2>0. s5 \in RoundState
    BY <1>0, <1>5, Zenon
  <2>1. CASE PrecommitTimerDue(s5)
    <3>1. s6 \in RoundState /\ Arms(s5, s6, Precommit)
      BY <2>0, <2>1, PrecommitTimerFires, Zenon
    <3> HIDE DEF s6
    <3>2. Moves(s5, s6) /\ s6.decided = s5.decided
      BY <2>0, <3>1, StillMoves, Zenon DEF Arms
    <3>3. /\ SameView(s5, s6) /\ \A r, v : prevote_count(s6, r, v) = prevote_count(s5, r, v)
          /\ \A r : total_prevotes(s6, r) = total_prevotes(s5, r)
      BY <1>0, <3>2, ViewKeeps, Zenon
    <3>4. /\ SamePhase(s5, s6) /\ s6.prevote_quorum_seen = s5.prevote_quorum_seen
          /\ s6.prevote_timeout_armed = s5.prevote_timeout_armed
          /\ s6.round \in s6.precommit_timeout_armed
      BY <3>1 DEF Arms, SameRound, Prevote, Precommit
    <3>5. ~FreshDue(s6) /\ ~PolcDue(s6)
      BY <1>5, <3>3, <3>4, Zenon DEF SameView, SamePhase, FreshDue, PolcDue
    <3>6. ~PrevoteTimerDue(s6) /\ ~PolkaDue(s6) /\ ~NilDue(s6) /\ ~PrecommitTimerDue(s6)
      BY <1>5, <3>3, <3>4 DEF SameView, SamePhase, PrevoteTimerDue, PolkaDue, NilDue, PrecommitTimerDue
    <3> QED BY <3>2, <3>5, <3>6, Zenon DEF NoneDue
  <2>2. CASE ~PrecommitTimerDue(s5)
    <3>1. s6 = s5
      BY <2>2, Idles, Zenon
    <3> QED BY <1>5, <2>0, <2>2, <3>1, MovesReflexive, Zenon DEF NoneDue
  <2> QED BY <2>1, <2>2, Zenon
<1>7. six(s) = s6
  BY Zenon DEF six, s1, s2, s3, s4, s5
<1> HIDE DEF s6
<1>8. Moves(s, s3)
  <2>1. Moves(s, s2)
    BY <1>1, <1>2, MovesTransitive, Zenon
  <2> QED BY <1>3, <2>1, MovesTransitive, Zenon
<1>9. Moves(s, s5)
  <2>1. Moves(s, s4)
    BY <1>4, <1>8, MovesTransitive, Zenon
  <2> QED BY <1>5, <2>1, MovesTransitive, Zenon
<1>10. Moves(s, s6)
  BY <1>6, <1>9, MovesTransitive, Zenon
<1> QED BY <1>1, <1>2, <1>3, <1>4, <1>5, <1>6, <1>7, <1>10, Zenon

-----------------------------------------------------------------------------
(* What a handler that is not done yet still keeps to, beyond Local: the   *)
(* phases of a round follow each other,                                    *)
PhasesFollow(s) ==
  /\ s.precommitted_rounds \subseteq s.prevoted_rounds
  /\ s.step # Propose => s.round \in s.prevoted_rounds

(* a round marked as prevoted has a prevote,                               *)
PrevotesBacked(s, M) == \A r \in s.prevoted_rounds : \E v \in Ids : Voted(s, M, "prevote", r, v)

(* a timer once armed stays armed while the node waits for it,             *)
TimersStand(s) ==
  /\ s.round \in s.prevote_timeout_armed =>
       s.step # Propose /\ (s.step = Prevote => <<Prevote, s.round>> \in s.timers)
  /\ s.round \in s.precommit_timeout_armed => <<Precommit, s.round>> \in s.timers
  /\ s.prevote_timeout_armed \subseteq s.started_rounds
  /\ s.precommit_timeout_armed \subseteq s.started_rounds

(* validValue and a proposal to make stand on 2f+1 prevotes, and the       *)
(* proposal comes first in the queue,                                      *)
ValidBacked(s) ==
  s.valid_value # None => s.valid_round \in Rounds /\ Quorate(s, "prevote", s.valid_round, s.valid_value)

Ready(s, a) ==
  /\ a.round = s.round /\ s.proposals[s.round] = None
  /\ IF a.reuse = None THEN a.valid_round = -1
     ELSE /\ a.valid_round \in Rounds /\ a.valid_round < s.round
          /\ Quorate(s, "prevote", a.valid_round, a.reuse)

ProposalFirst(s) ==
  \A i \in 1 .. Len(s.work) : s.work[i].act = "propose" => i = 1 /\ Ready(s, s.work[i])

(* nobody proposes in this node's rounds but itself,                       *)
OwnProposals(s, M) ==
  /\ \A r \in Rounds : proposer_for(r) = s.local_root /\ s.proposals[r] # None => r \in s.started_rounds
  /\ \A m \in M \union s.out : m.kind = "proposal" /\ m.from = s.local_root => s.proposals[m.round] # None

(* and a decision is on its way to commit.                                 *)
DecisionQueued(s) == s.decided => \E a \in Intents(s) : a.act = "decided"

Watch(s, M) ==
  /\ PhasesFollow(s) /\ PrevotesBacked(s, M) /\ TimersStand(s) /\ ValidBacked(s)
  /\ ProposalFirst(s) /\ OwnProposals(s, M) /\ DecisionQueued(s)

(* A node in its propose step has a timer to leave it by, or a proposal to *)
(* make.                                                                   *)
Woken(s) ==
  ~s.decided /\ s.step = Propose =>
    \/ <<Propose, s.round>> \in s.timers
    \/ s.work # << >> /\ s.work[1].act = "propose"

(* An action pushed behind what is queued. *)
LEMMA QueueKeeps ==
  ASSUME NEW s \in RoundState, NEW t \in RoundState, SameInputs(s, t), SameRound(s, t),
         \/ t.work = s.work
         \/ \E a \in Actions : a.act # "propose" /\ t.work = Append(s.work, a)
  PROVE  /\ ProposalFirst(s) => ProposalFirst(t)
         /\ s.work # << >> => t.work # << >> /\ t.work[1] = s.work[1]
         /\ Intents(s) \subseteq Intents(t)
<1>1. \A a : Ready(s, a) => Ready(t, a)
  BY SameInputsKeeps, Zenon DEF Ready, SameInputs, SameRound
<1>2. CASE t.work = s.work
  BY <1>1, <1>2, Zenon DEF ProposalFirst, Intents
<1>3. ASSUME NEW a \in Actions, a.act # "propose", t.work = Append(s.work, a)
      PROVE  /\ ProposalFirst(s) => ProposalFirst(t)
             /\ s.work # << >> => t.work # << >> /\ t.work[1] = s.work[1]
             /\ Intents(s) \subseteq Intents(t)
  <2>1. /\ Len(s.work) \in Nat /\ Len(t.work) = Len(s.work) + 1
        /\ \A i \in 1 .. Len(s.work) : t.work[i] = s.work[i]
        /\ t.work[Len(s.work) + 1] = a
        /\ s.work # << >> => Len(s.work) > 0
    BY <1>3 DEF RoundState
  <2>2. \A i \in 1 .. Len(t.work) : i \in 1 .. Len(s.work) \/ i = Len(s.work) + 1
    BY <2>1
  <2>3. ProposalFirst(s) => ProposalFirst(t)
    BY <1>1, <1>3, <2>1, <2>2, Zenon DEF ProposalFirst
  <2>4. s.work # << >> => t.work # << >> /\ t.work[1] = s.work[1]
    <3>1. t.work # << >>
      BY <2>1
    <3> QED BY <2>1, <3>1
  <2>5. Intents(s) \subseteq Intents(t)
    BY <1>3, IntentsPush
  <2> QED BY <2>3, <2>4, <2>5, Zenon
<1> QED BY <1>2, <1>3, Zenon

(* What a rule has to see to. *)
LEMMA RuleWatched ==
  ASSUME NEW s \in RoundState, NEW t \in RoundState, NEW M, SameInputs(s, t), SameRound(s, t), Watch(s, M),
         \/ t.work = s.work
         \/ \E a \in Actions : a.act # "propose" /\ t.work = Append(s.work, a),
         PhasesFollow(t), TimersStand(t), ValidBacked(t),
         \A r \in t.prevoted_rounds : r \in s.prevoted_rounds \/ \E v \in Ids : Voted(t, M, "prevote", r, v),
         t.decided => s.decided \/ \E a \in Intents(t) : a.act = "decided",
         Woken(s) => t.decided \/ t.step # Propose \/ (~s.decided /\ s.step = Propose /\ s.timers \subseteq t.timers)
  PROVE  Watch(t, M) /\ (Woken(s) => Woken(t))
<1>1. /\ ProposalFirst(t)
      /\ s.work # << >> => t.work # << >> /\ t.work[1] = s.work[1]
      /\ Intents(s) \subseteq Intents(t)
  BY QueueKeeps, Zenon DEF Watch
<1>2. \A k, r, v : Voted(s, M, k, r, v) => Voted(t, M, k, r, v)
  BY <1>1, Zenon DEF Voted, SameInputs
<1>3. PrevotesBacked(t, M)
  BY <1>2, Zenon DEF Watch, PrevotesBacked
<1>4. OwnProposals(t, M)
  BY Zenon DEF Watch, OwnProposals, SameInputs, SameRound
<1>5. DecisionQueued(t)
  BY <1>1, Zenon DEF Watch, DecisionQueued
<1>6. Woken(s) => Woken(t)
  BY <1>1, Zenon DEF Woken, SameRound
<1> QED BY <1>1, <1>3, <1>4, <1>5, <1>6, Zenon DEF Watch

Watched(s, M) == Watch(s, M) /\ s.round \in s.started_rounds

(* A cast vote keeps the watch over guards and timers. *)
LEMMA CastsWatched ==
  ASSUME NEW s \in RoundState, NEW t \in RoundState, NEW M, NEW k \in Kinds, Casts(s, t, k), Watched(s, M),
         SameLock(s, t) \/ (PolkaDue(s) /\ SeesPolka(s, t))
  PROVE  Watched(t, M) /\ (Woken(s) => Woken(t))
<1>0. SameInputs(s, t) /\ SameRound(s, t) /\ s.round \in Rounds
  BY Zenon DEF Casts, RoundState
<1>1. PICK v \in Ids : t.work = Append(s.work, [act |-> k, round |-> s.round, id |-> v])
  BY Zenon DEF Casts
<1>2. \E a \in Actions : a.act # "propose" /\ t.work = Append(s.work, a)
  <2> DEFINE a == [act |-> k, round |-> s.round, id |-> v]
  <2>1. a \in Actions /\ a.act # "propose"
    BY <1>0, Zenon DEF Actions, VoteActs, Kinds
  <2> QED BY <1>1, <2>1, Zenon
<1>3. Voted(t, M, k, s.round, v)
  BY <1>0, <1>1, VotedPush
<1>4. PhasesFollow(t)
  BY Zenon DEF Watched, Watch, PhasesFollow, Casts, SameRound, Kinds, Propose, Prevote
<1>5. TimersStand(t)
  BY DEF Watched, Watch, TimersStand, Casts, SameRound, Kinds, Propose, Prevote, Precommit
<1>6. ValidBacked(t)
  <2>1. CASE SameLock(s, t)
    BY <1>0, <2>1, SameInputsKeeps, Zenon DEF Watched, Watch, ValidBacked, SameLock
  <2>2. CASE PolkaDue(s) /\ SeesPolka(s, t)
    <3>1. Quorate(s, "prevote", s.round, s.proposals[s.round].id)
      BY <2>2, Zenon DEF PolkaDue, prevote_count, Quorate
    <3> QED BY <1>0, <2>2, <3>1, SameInputsKeeps, Zenon DEF ValidBacked, SeesPolka
  <2> QED BY <2>1, <2>2, Zenon
<1>7. \A r \in t.prevoted_rounds : r \in s.prevoted_rounds \/ \E w \in Ids : Voted(t, M, "prevote", r, w)
  BY <1>3, Zenon DEF Casts
<1>8. t.decided = s.decided /\ t.step # Propose
  BY DEF Casts, Propose, Prevote, Precommit
<1>9. Watch(s, M)
  BY Zenon DEF Watched
<1>10. Watch(t, M) /\ (Woken(s) => Woken(t))
  BY ONLY <1>0, <1>2, <1>4, <1>5, <1>6, <1>7, <1>8, <1>9, s \in RoundState, t \in RoundState, RuleWatched
<1> QED BY <1>0, <1>10, Zenon DEF Watched, SameRound

(* A rule that pushes no vote. *)
LEMMA StillWatched ==
  ASSUME NEW s \in RoundState, NEW t \in RoundState, NEW M, Watched(s, M),
         SameInputs(s, t), SameRound(s, t), SamePhase(s, t), s.timers \subseteq t.timers,
         t.work = s.work \/ \E a \in Decisions : t.work = Append(s.work, a),
         TimersStand(t), SameLock(s, t) \/ (PolkaDue(s) /\ SeesPolka(s, t)),
         t.decided => s.decided \/ \E a \in Decisions : t.work = Append(s.work, a),
         s.decided => t.decided
  PROVE  Watched(t, M) /\ (Woken(s) => Woken(t))
<1>0. s.round \in Rounds /\ Watch(s, M)
  BY Zenon DEF RoundState, Watched
<1>1. \/ t.work = s.work
      \/ \E a \in Actions : a.act # "propose" /\ t.work = Append(s.work, a)
  BY Zenon DEF Actions, Decisions
<1>2. PhasesFollow(t)
  BY <1>0, Zenon DEF Watch, PhasesFollow, SameRound, SamePhase
<1>3. ValidBacked(t)
  <2>1. CASE SameLock(s, t)
    BY <1>0, <2>1, SameInputsKeeps, Zenon DEF Watch, ValidBacked, SameLock
  <2>2. CASE PolkaDue(s) /\ SeesPolka(s, t)
    <3>1. Quorate(s, "prevote", s.round, s.proposals[s.round].id)
      BY <2>2, Zenon DEF PolkaDue, prevote_count, Quorate
    <3> QED BY <1>0, <2>2, <3>1, SameInputsKeeps, Zenon DEF ValidBacked, SeesPolka
  <2> QED BY <2>1, <2>2, Zenon
<1>4. \A r \in t.prevoted_rounds : r \in s.prevoted_rounds
  BY Zenon DEF SamePhase
<1>5. t.decided => s.decided \/ \E a \in Intents(t) : a.act = "decided"
  <2>1. ASSUME NEW a \in Decisions, t.work = Append(s.work, a) PROVE \E b \in Intents(t) : b.act = "decided"
    BY <2>1, IntentsPush DEF Decisions
  <2> QED BY <2>1, Zenon
<1>6. t.decided \/ t.step # Propose \/ (~s.decided /\ s.step = Propose /\ s.timers \subseteq t.timers)
  BY Zenon DEF SamePhase
<1>7. Watch(t, M) /\ (Woken(s) => Woken(t))
  BY ONLY <1>0, <1>1, <1>2, <1>3, <1>4, <1>5, <1>6, s \in RoundState, t \in RoundState, SameInputs(s, t),
          SameRound(s, t), TimersStand(t), RuleWatched, Zenon
<1> QED BY <1>7, Zenon DEF Watched, SameRound

(* An armed timer keeps the watch over guards and timers. *)
LEMMA ArmsWatched ==
  ASSUME NEW s \in RoundState, NEW t \in RoundState, NEW M, Watched(s, M),
         NEW step \in {Prevote, Precommit}, Arms(s, t, step), step = Prevote => s.step = Prevote
  PROVE  Watched(t, M) /\ (Woken(s) => Woken(t))
<1>1. TimersStand(t)
  <2>1. TimersStand(s) /\ s.round \in s.started_rounds
    BY Zenon DEF Watched, Watch
  <2> QED BY <2>1 DEF TimersStand, Arms, SameRound, SamePhase, Propose, Prevote, Precommit
<1> QED BY <1>1, StillWatched, Zenon DEF Arms

(* The six rules before the decision keep the watch. *)
LEMMA SixWatched ==
  ASSUME NEW s \in RoundState, NEW M, Watched(s, M)
  PROVE  Watched(six(s), M) /\ (Woken(s) => Woken(six(s)))
<1> DEFINE s1 == rule_propose_fresh(s)
           s2 == rule_propose_polc(s1)
           s3 == rule_prevote_timeout(s2)
           s4 == rule_prevote_quorum(s3)
           s5 == rule_prevote_nil(s4)
           s6 == rule_precommit_timeout(s5)
<1>k. "prevote" \in Kinds /\ "precommit" \in Kinds
  BY Zenon DEF Kinds
<1>1. s1 \in RoundState /\ Watched(s1, M) /\ (Woken(s) => Woken(s1))
  <2>1. CASE FreshDue(s)
    <3>1. s1 \in RoundState /\ Casts(s, s1, "prevote") /\ SameLock(s, s1)
      BY <2>1, FreshFires, Zenon
    <3> HIDE DEF s1
    <3> QED BY <1>k, <3>1, CastsWatched, Zenon
  <2>2. CASE ~FreshDue(s)
    BY <2>2, Idles, Zenon
  <2> QED BY <2>1, <2>2, Zenon
<1> HIDE DEF s1
<1>2. s2 \in RoundState /\ Watched(s2, M) /\ (Woken(s1) => Woken(s2))
  <2>1. CASE PolcDue(s1)
    <3>1. s2 \in RoundState /\ Casts(s1, s2, "prevote") /\ SameLock(s1, s2)
      BY <1>1, <2>1, PolcFires, Zenon
    <3> HIDE DEF s2
    <3> QED BY <1>k, <1>1, <3>1, CastsWatched, Zenon
  <2>2. CASE ~PolcDue(s1)
    BY <1>1, <2>2, Idles, Zenon
  <2> QED BY <2>1, <2>2, Zenon
<1> HIDE DEF s2
<1>3. s3 \in RoundState /\ Watched(s3, M) /\ (Woken(s2) => Woken(s3))
  <2>1. CASE PrevoteTimerDue(s2)
    <3>1. s3 \in RoundState /\ Arms(s2, s3, Prevote)
      BY <1>2, <2>1, PrevoteTimerFires, Zenon
    <3> HIDE DEF s3
    <3> QED BY <1>2, <2>1, <3>1, ArmsWatched, Zenon DEF PrevoteTimerDue
  <2>2. CASE ~PrevoteTimerDue(s2)
    BY <1>2, <2>2, Idles, Zenon
  <2> QED BY <2>1, <2>2, Zenon
<1> HIDE DEF s3
<1>4. s4 \in RoundState /\ Watched(s4, M) /\ (Woken(s3) => Woken(s4))
  <2>1. CASE PolkaDue(s3)
    <3>1. /\ s4 \in RoundState /\ SeesPolka(s3, s4)
          /\ \/ Casts(s3, s4, "precommit")
             \/ /\ SameInputs(s3, s4) /\ SameRound(s3, s4) /\ SamePhase(s3, s4)
                /\ s4.decided = s3.decided /\ s4.work = s3.work
                /\ s4.prevote_timeout_armed = s3.prevote_timeout_armed
                /\ s4.precommit_timeout_armed = s3.precommit_timeout_armed /\ s4.timers = s3.timers
      BY <1>3, <2>1, PolkaFires, Zenon
    <3> HIDE DEF s4
    <3>2. CASE Casts(s3, s4, "precommit")
      BY <1>k, <1>3, <2>1, <3>1, <3>2, CastsWatched, Zenon
    <3>3. CASE /\ SameInputs(s3, s4) /\ SameRound(s3, s4) /\ SamePhase(s3, s4)
               /\ s4.decided = s3.decided /\ s4.work = s3.work
               /\ s4.prevote_timeout_armed = s3.prevote_timeout_armed
               /\ s4.precommit_timeout_armed = s3.precommit_timeout_armed /\ s4.timers = s3.timers
      <4>1. TimersStand(s4)
        BY <1>3, <3>3, Zenon DEF Watched, Watch, TimersStand, SameRound, SamePhase
      <4>2. s3.timers \subseteq s4.timers
        BY <3>3, Zenon
      <4> QED BY ONLY <1>3, <2>1, <3>1, <3>3, <4>1, <4>2, StillWatched, Zenon
    <3> QED BY <3>1, <3>2, <3>3, Zenon
  <2>2. CASE ~PolkaDue(s3)
    BY <1>3, <2>2, Idles, Zenon
  <2> QED BY <2>1, <2>2, Zenon
<1> HIDE DEF s4
<1>5. s5 \in RoundState /\ Watched(s5, M) /\ (Woken(s4) => Woken(s5))
  <2>1. CASE NilDue(s4)
    <3>1. s5 \in RoundState /\ Casts(s4, s5, "precommit") /\ SameLock(s4, s5)
      BY <1>4, <2>1, NilFires, Zenon
    <3> HIDE DEF s5
    <3> QED BY <1>k, <1>4, <3>1, CastsWatched, Zenon
  <2>2. CASE ~NilDue(s4)
    BY <1>4, <2>2, Idles, Zenon
  <2> QED BY <2>1, <2>2, Zenon
<1> HIDE DEF s5
<1>6. s6 \in RoundState /\ Watched(s6, M) /\ (Woken(s5) => Woken(s6))
  <2>1. CASE PrecommitTimerDue(s5)
    <3>1. s6 \in RoundState /\ Arms(s5, s6, Precommit) /\ Precommit # Prevote
      BY <1>5, <2>1, PrecommitTimerFires DEF Prevote, Precommit
    <3> HIDE DEF s6
    <3> QED BY <1>5, <3>1, ArmsWatched, Zenon
  <2>2. CASE ~PrecommitTimerDue(s5)
    BY <1>5, <2>2, Idles, Zenon
  <2> QED BY <2>1, <2>2, Zenon
<1>7. six(s) = s6
  BY Zenon DEF six, s1, s2, s3, s4, s5
<1> HIDE DEF s6
<1> QED BY <1>1, <1>2, <1>3, <1>4, <1>5, <1>6, <1>7, Zenon

-----------------------------------------------------------------------------
(* A handler's votes are all for the round it ends in, once no round ahead *)
(* calls it on.                                                            *)
Steady(s) ==
  /\ s.decided \/ Ahead(s) = {}
  /\ \A a \in Intents(s) : a.act \in Kinds => a.round = s.round
  /\ \A m \in s.out : m.kind \in Kinds => m.round = s.round

(* Then one pass leaves nothing due, and evaluate is that pass. *)
LEMMA PassDone ==
  ASSUME NEW s \in RoundState, NEW M, Watched(s, M), Steady(s)
  PROVE  /\ Moves(s, pass(s)) /\ Steady(pass(s)) /\ Quiet(pass(s))
         /\ Watched(pass(s), M) /\ (Woken(s) => Woken(pass(s)))
<1> DEFINE u == six(s)
           d == rule_decide(u)
           t == rule_skip_round(d)
<1>1. CASE s.decided
  <2>1. pass(s) = s
    BY <1>1, Zenon DEF pass
  <2> QED BY <1>1, <2>1, MovesReflexive, Zenon DEF Quiet
<1>2. CASE ~s.decided
  <2>1. pass(s) = t
    BY <1>2, Zenon DEF pass, six
  <2>2. Moves(s, u) /\ u.decided = s.decided /\ NoneDue(u) /\ Watched(u, M) /\ (Woken(s) => Woken(u))
    BY SixDone, SixWatched, Zenon
  <2> HIDE DEF u
  <2>3. u \in RoundState /\ ~u.decided
    BY <1>2, <2>2, Zenon DEF Moves
  <2>4. Moves(u, d) /\ Watched(d, M) /\ (Woken(u) => Woken(d)) /\ (d.decided \/ (d = u /\ DecidableRounds(u) = {}))
    <3>1. CASE DecidableRounds(u) = {}
      BY <2>2, <2>3, <3>1, Idles, MovesReflexive, Zenon
    <3>2. CASE DecidableRounds(u) # {}
      <4>1. d \in RoundState /\ Decides(u, d)
        BY <2>3, <3>2, DecideFires, Zenon
      <4> HIDE DEF d
      <4>2. TimersStand(d)
        BY <2>2, <4>1, Zenon DEF Watched, Watch, TimersStand, Decides, SameRound, SamePhase, SameTimers
      <4>3. u.timers \subseteq d.timers
        BY <4>1, Zenon DEF Decides, SameTimers
      <4>4. Watched(d, M) /\ (Woken(u) => Woken(d))
        BY ONLY <2>2, <2>3, <4>1, <4>2, <4>3, StillWatched, Zenon DEF Decides
      <4> QED BY <2>3, <4>1, <4>4, DecidesMoves, Zenon
    <3> QED BY <3>1, <3>2, Zenon
  <2> HIDE DEF d
  <2>5. Moves(s, d) /\ d \in RoundState
    BY <2>2, <2>4, MovesTransitive, Zenon DEF Moves
  <2>6. Ahead(s) = {} /\ Ahead(d) = {}
    <3>1. SameView(s, d)
      BY <2>5, Zenon DEF Moves, SameView, SameInputs, SameRound
    <3>2. Ahead(s) = {}
      BY <1>2, Zenon DEF Steady
    <3> QED BY <3>1, <3>2, ViewKeeps, Zenon
  <2>7. t = d
    BY <2>6, Idles, Zenon
  <2>8. Quiet(d)
    BY <2>2, <2>4, <2>6, Zenon DEF Quiet
  <2>9. Steady(d)
    <3>1. d.round = s.round /\ d.out = s.out
      BY <2>5, Zenon DEF Moves, SameInputs, SameRound
    <3>2. \A a \in Intents(d) : a.act \in Kinds => a.round = d.round
      BY <2>5, <3>1, Zenon DEF Moves, Steady, Kinds
    <3> QED BY <2>6, <3>1, <3>2, Zenon DEF Steady
  <2> HIDE DEF t
  <2> QED BY <2>1, <2>2, <2>4, <2>5, <2>7, <2>8, <2>9, Zenon
<1> QED BY <1>1, <1>2, Zenon

(* `evaluate` reaches its fixed point in one pass of a watched, steady     *)
(* node.                                                                   *)
LEMMA EvaluateDone ==
  ASSUME NEW s \in RoundState, NEW M, Watched(s, M), Steady(s)
  PROVE  /\ Moves(s, evaluate(s)) /\ Steady(evaluate(s)) /\ Quiet(evaluate(s))
         /\ Watched(evaluate(s), M) /\ (Woken(s) => Woken(evaluate(s)))
         /\ evaluate(s) = pass(s)
<1>1. Quiet(pass(s))
  BY PassDone, Zenon
<1>2. evaluate(s) = pass(s)
  BY <1>1, QuietIsFixed, Zenon DEF evaluate
<1> QED BY <1>2, PassDone, Zenon

(* The record that enter_round_core builds. *)
LEMMA EnterFields ==
  ASSUME NEW s \in RoundState, NEW r \in Rounds, ~s.decided, r \notin s.started_rounds
  PROVE  LET t == enter_round_core(s, r) IN
         /\ t \in RoundState /\ SameInputs(s, t) /\ SameLock(s, t) /\ ~t.decided
         /\ t.round = r /\ t.step = Propose /\ t.started_rounds = s.started_rounds \union {r}
         /\ t.prevoted_rounds = s.prevoted_rounds /\ t.precommitted_rounds = s.precommitted_rounds
         /\ t.prevote_timeout_armed = s.prevote_timeout_armed
         /\ t.precommit_timeout_armed = s.precommit_timeout_armed
         /\ \/ t.work = s.work /\ <<Propose, r>> \in t.timers
            \/ /\ proposer_for(r) = s.local_root
               /\ \E a \in Proposes :
                    /\ t.work = Append(s.work, a)
                    /\ a.round = r /\ a.reuse = s.valid_value
                    /\ a.valid_round = IF s.valid_value = None THEN -1 ELSE s.valid_round
<1> DEFINE e == [s EXCEPT !.started_rounds = @ \union {r}, !.timers = {}, !.round = r, !.step = Propose]
           vr == IF s.valid_value = None THEN -1 ELSE s.valid_round
           a == [act |-> "propose", round |-> r, reuse |-> s.valid_value, valid_round |-> vr]
           t == enter_round_core(s, r)
<1>1. vr \in Past
  BY Zenon DEF RoundState, Past
<1>2. t = IF proposer_for(r) = s.local_root THEN Push(e, a) ELSE ScheduleTimeout(e, Propose, r)
  BY Zenon DEF enter_round_core
<1> HIDE DEF vr
<1>3. a \in Proposes /\ a \in Actions /\ a.round = r /\ a.reuse = s.valid_value /\ a.valid_round = vr
  BY <1>1, Zenon DEF Actions, Proposes, RoundState
<1> HIDE DEF a
<1>4. /\ e \in RoundState /\ SameInputs(s, e) /\ SameLock(s, e) /\ ~e.decided /\ e.work = s.work
      /\ e.round = r /\ e.step = Propose /\ e.started_rounds = s.started_rounds \union {r}
      /\ e.prevoted_rounds = s.prevoted_rounds /\ e.precommitted_rounds = s.precommitted_rounds
      /\ e.prevote_timeout_armed = s.prevote_timeout_armed
      /\ e.precommit_timeout_armed = s.precommit_timeout_armed
  BY ZenonT(30) DEF RoundState, SameInputs, SameLock, Steps
<1> HIDE DEF e, t
<1>5. CASE proposer_for(r) = s.local_root
  <2>1. t = Push(e, a) /\ t \in RoundState
    BY <1>2, <1>3, <1>4, <1>5, PushType, Zenon
  <2>2. /\ SameInputs(e, t) /\ SameLock(e, t) /\ t.decided = e.decided /\ t.work = Append(s.work, a)
        /\ t.round = e.round /\ t.step = e.step /\ t.started_rounds = e.started_rounds
        /\ t.prevoted_rounds = e.prevoted_rounds /\ t.precommitted_rounds = e.precommitted_rounds
        /\ t.prevote_timeout_armed = e.prevote_timeout_armed
        /\ t.precommit_timeout_armed = e.precommit_timeout_armed
    BY <1>4, <2>1 DEF Push, RoundState, SameInputs, SameLock
  <2>3. SameInputs(s, t) /\ SameLock(s, t)
    BY <1>4, <2>2, Zenon DEF SameInputs, SameLock
  <2> QED BY <1>3, <1>4, <1>5, <2>1, <2>2, <2>3, Zenon DEF t, vr
<1>6. CASE proposer_for(r) # s.local_root
  <2>1. t = ScheduleTimeout(e, Propose, r) /\ <<Propose, r>> \in Steps \X Rounds
    BY <1>2, <1>6, Zenon DEF Steps
  <2>2. /\ t \in RoundState
        /\ SameInputs(e, t) /\ SameLock(e, t) /\ t.decided = e.decided /\ t.work = s.work
        /\ t.round = e.round /\ t.step = e.step /\ t.started_rounds = e.started_rounds
        /\ t.prevoted_rounds = e.prevoted_rounds /\ t.precommitted_rounds = e.precommitted_rounds
        /\ t.prevote_timeout_armed = e.prevote_timeout_armed
        /\ t.precommit_timeout_armed = e.precommit_timeout_armed
        /\ <<Propose, r>> \in t.timers
    BY <1>4, <2>1 DEF ScheduleTimeout, RoundState, SameInputs, SameLock
  <2>3. SameInputs(s, t) /\ SameLock(s, t)
    BY <1>4, <2>2, Zenon DEF SameInputs, SameLock
  <2> QED BY <1>4, <2>2, <2>3, Zenon DEF t
<1> QED BY <1>5, <1>6, Zenon

(* A node that enters a round has at most four turns of `drive` before it. *)
LEMMA EffortAtStart ==
  ASSUME NEW s, Len(s.work) \in Nat, Len(s.work) <= 1, s.step = 0, ~s.decided
  PROVE  Effort(s) <= 4
<1> DEFINE l == Len(s.work)
           d == IF s.decided THEN 0 ELSE 1
<1>1. d = 1 /\ Effort(s) = l + (2 - s.step) + d
  BY Zenon DEF Effort
<1>2. l \in Nat /\ l <= 1 /\ s.step = 0
  BY Zenon
<1> HIDE DEF l, d
<1> QED BY ONLY <1>1, <1>2

(* A round is entered with nothing queued. *)
LEMMA EnterDone ==
  ASSUME NEW s \in RoundState, NEW M, Watch(s, M), Rounded(s), Locks(s, M), s.work = << >>, ~s.decided,
         \A m \in s.out : m.kind \notin Kinds,
         NEW r \in Rounds, r \notin s.started_rounds, r >= s.round, \A q \in Ahead(s) : q <= r,
         s.valid_value # None => s.valid_round < r
  PROVE  LET t == enter_round_core(s, r) IN
         /\ t \in RoundState /\ Watched(t, M) /\ Woken(t) /\ Steady(t) /\ Effort(t) <= 4
         /\ SameInputs(s, t) /\ ~t.decided
<1> DEFINE t == enter_round_core(s, r)
<1>1. /\ t \in RoundState /\ SameInputs(s, t) /\ SameLock(s, t) /\ ~t.decided
      /\ t.round = r /\ t.step = Propose /\ t.started_rounds = s.started_rounds \union {r}
      /\ t.prevoted_rounds = s.prevoted_rounds /\ t.precommitted_rounds = s.precommitted_rounds
      /\ t.prevote_timeout_armed = s.prevote_timeout_armed
      /\ t.precommit_timeout_armed = s.precommit_timeout_armed
      /\ \/ t.work = s.work /\ <<Propose, r>> \in t.timers
         \/ /\ proposer_for(r) = s.local_root
            /\ \E a \in Proposes :
                 /\ t.work = Append(s.work, a)
                 /\ a.round = r /\ a.reuse = s.valid_value
                 /\ a.valid_round = IF s.valid_value = None THEN -1 ELSE s.valid_round
  BY EnterFields, Zenon
<1> HIDE DEF t
<1>2. Intents(s) = {}
  BY DEF Intents
<1>3. \A k \in Kinds : \A q, v : Voted(s, M, k, q, v) => Voted(t, M, k, q, v)
  BY <1>1, <1>2, Zenon DEF Voted, SameInputs
<1>4. PhasesFollow(t) /\ PrevotesBacked(t, M)
  BY <1>1, <1>3, Zenon DEF Watch, PhasesFollow, PrevotesBacked, Kinds
<1>5. TimersStand(t)
  BY <1>1, Zenon DEF Watch, TimersStand
<1>6. \A k, q, v : Quorate(t, k, q, v) <=> Quorate(s, k, q, v)
  BY <1>1, SameInputsKeeps, Zenon
<1>7. ValidBacked(t)
  BY <1>1, <1>6, Zenon DEF Watch, ValidBacked, SameLock
<1>8. OwnProposals(t, M) /\ DecisionQueued(t)
  BY <1>1, Zenon DEF Watch, OwnProposals, DecisionQueued, SameInputs
<1>9. Ahead(t) = {}
  <2>1. \A q \in Rounds : participants(t, q) = participants(s, q)
    BY <1>1, Zenon DEF participants, VotersAt, SameInputs
  <2>2. \A q \in Ahead(t) : q \in Ahead(s) /\ q > r
    <3> TAKE q \in Ahead(t)
    <3>1. q \in Rounds /\ q > r /\ Cardinality(participants(s, q)) >= f_plus_1
      BY <1>1, <2>1, Zenon DEF Ahead
    <3>2. q > s.round
      BY ONLY <3>1, r >= s.round, Numbers, s \in RoundState, r \in Rounds, RoundsAreInts
    <3> QED BY <3>1, <3>2, Zenon DEF Ahead
  <2>3. \A q \in Ahead(t) : FALSE
    <3> TAKE q \in Ahead(t)
    <3>1. q <= r /\ q > r /\ q \in Rounds
      BY <2>2, Zenon DEF Ahead
    <3> QED BY ONLY <3>1, r \in Rounds, RoundsAreInts
  <2> QED BY <2>3, Zenon
<1>10. Intents(t) \subseteq Proposes /\ Len(t.work) \in 0 .. 1 /\ ProposalFirst(t) /\ Woken(t)
  <2>1. CASE t.work = s.work /\ <<Propose, r>> \in t.timers
    <3>1. Intents(t) = {} /\ Len(t.work) = 0
      BY <2>1 DEF Intents
    <3> QED BY <1>1, <2>1, <3>1 DEF ProposalFirst, Woken
  <2>2. ASSUME proposer_for(r) = s.local_root, NEW a \in Proposes, t.work = Append(s.work, a),
               a.round = r, a.reuse = s.valid_value,
               a.valid_round = IF s.valid_value = None THEN -1 ELSE s.valid_round
        PROVE  Intents(t) \subseteq Proposes /\ Len(t.work) \in 0 .. 1 /\ ProposalFirst(t) /\ Woken(t)
    <3>1. t.work = <<a>> /\ Len(t.work) = 1 /\ t.work[1] = a
      BY <2>2
    <3>2. Intents(t) = {a}
      BY <3>1 DEF Intents
    <3>3. s.proposals[r] = None
      BY <2>2, Zenon DEF Watch, OwnProposals
    <3>4. Ready(t, a)
      BY <1>1, <1>7, <2>2, <3>3, Zenon DEF Ready, ValidBacked, SameInputs, SameLock
    <3>5. a.act = "propose"
      BY Zenon DEF Proposes
    <3> QED BY <3>1, <3>2, <3>4, <3>5 DEF ProposalFirst, Woken
  <2> QED BY <1>1, <2>1, <2>2, Zenon
<1>11. Steady(t)
  <2>1. \A a \in Intents(t) : a.act \notin Kinds
    BY <1>10, Zenon DEF Proposes, Kinds
  <2> QED BY <1>1, <1>9, <2>1, Zenon DEF Steady, SameInputs
<1>12. Effort(t) <= 4
  <2>1. Len(t.work) \in Nat /\ Len(t.work) <= 1 /\ t.step = 0 /\ ~t.decided
    BY <1>1, <1>10 DEF Propose
  <2> QED BY ONLY <2>1, EffortAtStart, Zenon
<1>13. Watched(t, M)
  BY <1>1, <1>4, <1>5, <1>7, <1>8, <1>10, Zenon DEF Watched, Watch
<1> QED BY <1>1, <1>10, <1>11, <1>12, <1>13, Zenon DEF t

-----------------------------------------------------------------------------
(* The votes a node sent are those it counted for itself. *)
OwnCounted(s, M) ==
  \A m \in M \union s.out : m.kind \in Kinds /\ m.from = s.local_root =>
    s.votes[m.kind][m.round][m.from] = m.id

(* Whatever drive does, it counts nobody else's vote. *)
SameOthers(s, t) ==
  /\ t.local_root = s.local_root
  /\ \A k \in Kinds, r \in Rounds, v \in Validators :
       v # s.local_root => t.votes[k][r][v] = s.votes[k][r][v]

(* A node between two steps of drive. *)
Working(s, M) ==
  Live(s, M) /\ Watch(s, M) /\ Steady(s) /\ Quiet(s) /\ Woken(s) /\ OwnCounted(s, M)

(* An input leaves the timers and the phases to the rules. *)
Adds(s, t) ==
  /\ SameLock(s, t) /\ SameRound(s, t) /\ SamePhase(s, t) /\ SameTimers(s, t)
  /\ t.decided = s.decided /\ t.local_root = s.local_root
  /\ \A k \in Kinds, r \in Rounds, v \in Validators :
       s.votes[k][r][v] # None => t.votes[k][r][v] = s.votes[k][r][v]

(* What a node hears keeps the watch over guards and timers. *)
LEMMA InputWatched ==
  ASSUME Arithmetic, NEW s \in RoundState, NEW t \in RoundState, NEW M, Watched(s, M), Adds(s, t),
         \A r \in Rounds, v \in Ids : Voted(s, M, "prevote", r, v) => Voted(t, M, "prevote", r, v),
         \A a \in Intents(s) : a.act = "decided" => a \in Intents(t),
         \A a \in Intents(t) : a.act # "propose",
         OwnProposals(t, M)
  PROVE  Watched(t, M)
<1>0. /\ Watch(s, M) /\ SameLock(s, t) /\ SameRound(s, t) /\ SamePhase(s, t) /\ SameTimers(s, t)
      /\ t.decided = s.decided
  BY Zenon DEF Watched, Adds
<1>1. PhasesFollow(t)
  BY <1>0, Zenon DEF Watch, PhasesFollow, SameRound, SamePhase
<1>2. PrevotesBacked(t, M)
  BY <1>0, Zenon DEF Watch, PrevotesBacked, SamePhase, RoundState
<1>3. TimersStand(t)
  BY <1>0, Zenon DEF Watch, TimersStand, SameRound, SamePhase, SameTimers
<1>4. ValidBacked(t)
  <2> SUFFICES ASSUME t.valid_value # None
               PROVE  t.valid_round \in Rounds /\ Quorate(t, "prevote", t.valid_round, t.valid_value)
    BY Zenon DEF ValidBacked
  <2>1. s.valid_value # None /\ s.valid_round \in Rounds /\ Quorate(s, "prevote", s.valid_round, s.valid_value)
    BY <1>0, Zenon DEF Watch, ValidBacked, SameLock
  <2>2. \A n \in Validators : s.votes["prevote"][s.valid_round][n] # None =>
           t.votes["prevote"][s.valid_round][n] = s.votes["prevote"][s.valid_round][n]
    BY <2>1, Zenon DEF Adds, Kinds
  <2>3. Quorate(t, "prevote", s.valid_round, s.valid_value)
    BY <2>1, <2>2, QuorateStable, Zenon
  <2> QED BY <1>0, <2>1, <2>3, Zenon DEF SameLock
<1>5. ProposalFirst(t)
  BY Zenon DEF ProposalFirst, Intents
<1>6. DecisionQueued(t)
  BY <1>0, Zenon DEF Watch, DecisionQueued
<1> QED BY <1>0, <1>1, <1>2, <1>3, <1>4, <1>5, <1>6, Zenon DEF Watched, Watch, SameRound

(* Nothing is due that was not, while the guards read the same. *)
LEMMA QuietStays ==
  ASSUME NEW s, NEW t, SameView(s, t), SamePhase(s, t), t.decided = s.decided,
         t.prevote_timeout_armed = s.prevote_timeout_armed,
         t.precommit_timeout_armed = s.precommit_timeout_armed,
         t.prevote_quorum_seen = s.prevote_quorum_seen, Quiet(s)
  PROVE  Quiet(t)
<1>1. CASE s.decided
  BY <1>1, Zenon DEF Quiet
<1>2. CASE NoneDue(s) /\ DecidableRounds(s) = {} /\ Ahead(s) = {}
  <2>1. DecidableRounds(t) = {} /\ Ahead(t) = {}
    BY <1>2, ViewKeeps, Zenon
  <2>2. ~FreshDue(t) /\ ~PolcDue(t)
    BY <1>2, ViewKeeps DEF NoneDue, SameView, SamePhase, FreshDue, PolcDue
  <2>3. ~PrevoteTimerDue(t) /\ ~PolkaDue(t) /\ ~NilDue(t) /\ ~PrecommitTimerDue(t)
    BY <1>2, ViewKeeps DEF NoneDue, SameView, SamePhase, PrevoteTimerDue, PolkaDue, NilDue, PrecommitTimerDue
  <2> QED BY <2>1, <2>2, <2>3, Zenon DEF Quiet, NoneDue
<1> QED BY <1>1, <1>2, Zenon DEF Quiet

(* evaluate on a node with its inputs in place. *)
LEMMA EvaluateWorks ==
  ASSUME Arithmetic, NEW s, NEW M, Live(s, M), Watched(s, M), Steady(s), OwnCounted(s, M), Woken(evaluate(s))
  PROVE  /\ Working(evaluate(s), M) /\ Effort(evaluate(s)) <= Effort(s)
         /\ SameInputs(s, evaluate(s))
<1> DEFINE t == evaluate(s)
<1>1. s \in RoundState
  BY Zenon DEF Live, Local
<1>2. Moves(s, t) /\ Steady(t) /\ Quiet(t) /\ Watched(t, M)
  BY <1>1, EvaluateDone, Zenon
<1>3. Live(t, M)
  BY EvaluateKeeps, Zenon
<1> HIDE DEF t
<1>4. OwnCounted(t, M)
  BY <1>2, Zenon DEF OwnCounted, Moves, SameInputs
<1> QED BY <1>2, <1>3, <1>4, Zenon DEF Working, Watched, Moves, t

-----------------------------------------------------------------------------
(* drive1.  What is left on the queue behind its head. *)
LEMMA TailPlain ==
  ASSUME NEW s \in RoundState, s.work # << >>, ProposalFirst(s), NEW o \in RoundState, o.work = Tail(s.work)
  PROVE  /\ \A a \in Intents(o) : a.act # "propose"
         /\ Intents(s) = Intents(o) \union {Head(s.work)} /\ Head(s.work) = s.work[1]
         /\ o.step = s.step /\ o.decided = s.decided => Effort(o) = Effort(s) - 1
<1>1. /\ Len(o.work) = Len(s.work) - 1 /\ Len(s.work) \in Nat \ {0} /\ Head(s.work) = s.work[1]
      /\ \A i \in 1 .. Len(o.work) : o.work[i] = s.work[i + 1]
  BY DEF RoundState
<1>2. \A i \in 1 .. Len(o.work) : i + 1 \in 1 .. Len(s.work) /\ i + 1 # 1
  BY <1>1
<1>3. \A a \in Intents(o) : a.act # "propose"
  BY <1>1, <1>2, Zenon DEF Intents, ProposalFirst
<1>4. ASSUME o.step = s.step, o.decided = s.decided PROVE Effort(o) = Effort(s) - 1
  <2> DEFINE d == IF s.decided THEN 0 ELSE 1
             l == Len(s.work)
             k == Len(o.work)
  <2>1. s.step \in Int /\ d \in Int /\ k = l - 1 /\ l \in Int
    BY <1>1, Numbers
  <2>2. Effort(o) = k + (2 - s.step) + d /\ Effort(s) = l + (2 - s.step) + d
    BY <1>4, Zenon DEF Effort
  <2> HIDE DEF d, l, k
  <2> QED BY ONLY <2>1, <2>2
<1> QED BY <1>1, <1>3, <1>4, IntentsTail, Zenon

(* The votes of later rounds alone decide whether a node must skip ahead. *)
LEMMA AheadSame ==
  ASSUME NEW s \in RoundState, NEW t \in RoundState, t.round = s.round,
         \A k \in Kinds, q \in Rounds, v \in Validators :
           q > s.round => t.votes[k][q][v] = s.votes[k][q][v]
  PROVE  Ahead(t) = Ahead(s)
<1>1. \A q \in Rounds : q > s.round => participants(t, q) = participants(s, q)
  BY Zenon DEF participants, VotersAt, Kinds
<1> QED BY <1>1, Zenon DEF Ahead

(* What was sent is a vote or a proposal. *)
LEMMA SentType ==
  ASSUME NEW s \in RoundState, NEW M, Messages(M), NEW m \in M \union s.out, m.kind \in Kinds
  PROVE  m.from \in Validators /\ m.round \in Rounds /\ m.id \in Ids /\ m.id # None
<1>1. m \in HonestMsgs
  BY Zenon DEF Messages, RoundState
<1>2. m \in HonestVotes
  BY <1>1, Zenon DEF HonestMsgs, HonestProposals, Kinds
<1> QED BY <1>2, RoundAssumption, Zenon DEF HonestVotes, Honest

(* drive leaves nothing undone. *)
Settled(s, M) ==
  /\ s.work = << >> /\ OwnCounted(s, M)
  /\ s.committed = None => Quiet(s) /\ Watch(s, M) /\ (s.started_rounds # {} => Woken(s))

-----------------------------------------------------------------------------
(* The handlers, on a node with nothing queued. *)
LEMMA EffortOfIdle == ASSUME NEW s \in RoundState, s.work = << >> PROVE Effort(s) <= 4
<1> DEFINE d == IF s.decided THEN 0 ELSE 1
<1>1. Effort(s) = 0 + (2 - s.step) + d /\ d \in {0, 1} /\ s.step \in {0, 1, 2}
  BY Numbers, Zenon DEF Effort
<1>2. d \in Int /\ d <= 1 /\ s.step \in Int /\ s.step >= 0
  BY <1>1
<1> HIDE DEF d
<1> QED BY ONLY <1>1, <1>2

(* on_timeout: the timer that ran out moves the node on, or no rule of the *)
(* step it is in waits for it.                                             *)
Expired(s, step, r) == [s EXCEPT !.timers = @ \ {<<step, r>>}]

(* A timer that runs out leaves the timers, and nothing else changes. *)
LEMMA ExpiredFields ==
  ASSUME NEW s, NEW M, Live(s, M), NEW step, NEW r
  PROVE  LET h == Expired(s, step, r) IN
         /\ Live(h, M) /\ h \in RoundState
         /\ SameInputs(s, h) /\ SameLock(s, h) /\ SameRound(s, h) /\ SamePhase(s, h)
         /\ h.work = s.work /\ h.decided = s.decided /\ h.timers = s.timers \ {<<step, r>>}
         /\ h.prevote_timeout_armed = s.prevote_timeout_armed
         /\ h.precommit_timeout_armed = s.precommit_timeout_armed
         /\ h.prevote_quorum_seen = s.prevote_quorum_seen
<1> DEFINE h == Expired(s, step, r)
<1>0. s \in RoundState /\ Local(s, M)
  BY Zenon DEF Live, Local
<1>1. /\ h \in RoundState
      /\ SameInputs(s, h) /\ SameLock(s, h) /\ SameRound(s, h) /\ SamePhase(s, h)
      /\ h.work = s.work /\ h.decided = s.decided /\ h.timers = s.timers \ {<<step, r>>}
      /\ h.prevote_timeout_armed = s.prevote_timeout_armed
      /\ h.precommit_timeout_armed = s.precommit_timeout_armed
      /\ h.prevote_quorum_seen = s.prevote_quorum_seen
  BY <1>0, ZenonT(30) DEF Expired, RoundState, SameInputs, SameLock, SameRound, SamePhase
<1> HIDE DEF h
<1>2. Local(h, M)
  BY <1>0, <1>1, FrameKeeps, Zenon
<1> QED BY <1>1, <1>2, Zenon DEF Live, SameInputs, SameRound, h

(* enter_round_core clears the timers of the round left behind. *)
LEMMA EnterExpired ==
  ASSUME NEW s \in RoundState, NEW step, NEW r, NEW q
  PROVE  ~s.decided => enter_round_core(Expired(s, step, r), q) = enter_round_core(s, q) \/ q \in s.started_rounds
<1> SUFFICES ASSUME ~s.decided, q \notin s.started_rounds
             PROVE  enter_round_core(Expired(s, step, r), q) = enter_round_core(s, q)
  BY Zenon
<1> DEFINE h == Expired(s, step, r)
<1>1. /\ h.started_rounds = s.started_rounds /\ h.decided = s.decided /\ h.local_root = s.local_root
      /\ h.valid_value = s.valid_value /\ h.valid_round = s.valid_round
  BY Zenon DEF Expired, RoundState
<1>2. [h EXCEPT !.started_rounds = @ \union {q}, !.timers = {}, !.round = q, !.step = Propose]
      = [s EXCEPT !.started_rounds = @ \union {q}, !.timers = {}, !.round = q, !.step = Propose]
  BY Zenon DEF Expired, RoundState
<1> HIDE DEF h
<1> QED BY <1>1, <1>2, Zenon DEF enter_round_core, h

(* The watch survives a change of the timers that still leaves the needed  *)
(* ones armed.                                                             *)
LEMMA WatchTimers ==
  ASSUME NEW s \in RoundState, NEW t \in RoundState, NEW M, Watched(s, M),
         SameInputs(s, t), SameLock(s, t), SameRound(s, t), SamePhase(s, t),
         t.work = s.work, t.decided = s.decided, TimersStand(t)
  PROVE  Watched(t, M)
<1>0. Watch(s, M)
  BY Zenon DEF Watched
<1>1. Intents(t) = Intents(s) /\ \A k, r, v : Voted(t, M, k, r, v) <=> Voted(s, M, k, r, v)
  BY Zenon DEF Intents, Voted, SameInputs
<1>2. PhasesFollow(t) /\ PrevotesBacked(t, M)
  BY <1>0, <1>1, Zenon DEF Watch, PhasesFollow, PrevotesBacked, SamePhase, SameRound
<1>3. ValidBacked(t)
  BY <1>0, SameInputsKeeps, Zenon DEF Watch, ValidBacked, SameLock
<1>4. ProposalFirst(t)
  BY <1>0, SameInputsKeeps DEF Watch, ProposalFirst, Ready, SameInputs, SameRound
<1>5. OwnProposals(t, M) /\ DecisionQueued(t)
  BY <1>0, <1>1, Zenon DEF Watch, OwnProposals, DecisionQueued, SameInputs, SameRound
<1> QED BY <1>2, <1>3, <1>4, <1>5 DEF Watched, Watch, SameRound

(* A move leaves a steady node steady. *)
LEMMA MovesSteady ==
  ASSUME NEW s, NEW t, Moves(s, t), Steady(s), s.decided => t.decided
  PROVE  Steady(t)
<1>1. SameView(s, t) /\ t.round = s.round /\ t.out = s.out
  BY Zenon DEF Moves, SameView, SameInputs, SameRound
<1>2. Ahead(t) = Ahead(s)
  BY <1>1, ViewKeeps, Zenon
<1>3. \A a \in Intents(t) : a.act \in Kinds => a.round = t.round
  BY <1>1, Zenon DEF Moves, Steady, Kinds
<1> QED BY <1>1, <1>2, <1>3, Zenon DEF Steady

(* The rules of a round read no vote of a later one. *)
LEMMA NoneDueStays ==
  ASSUME NEW s \in RoundState, NEW t \in RoundState, SamePhase(s, t), SameTimers(s, t), t.round = s.round,
         t.proposals = s.proposals, NoneDue(s),
         \A k \in Kinds, q \in Rounds, v \in Validators : q <= s.round => t.votes[k][q][v] = s.votes[k][q][v]
  PROVE  NoneDue(t)
<1>0. s.round \in Rounds /\ s.round <= s.round /\ s.round \in Int
  BY Numbers DEF RoundState
<1>1. \A q \in Rounds : q <= s.round =>
        /\ \A v : prevote_count(t, q, v) = prevote_count(s, q, v)
        /\ total_prevotes(t, q) = total_prevotes(s, q)
        /\ total_precommits(t, q) = total_precommits(s, q)
  BY Zenon DEF prevote_count, total_prevotes, total_precommits, VotersFor, VotersAt, Kinds
<1>2. ~FreshDue(t)
  BY Zenon DEF NoneDue, FreshDue, SamePhase
<1>3. ~PolcDue(t)
  <2> SUFFICES ASSUME PolcDue(t) PROVE FALSE
    BY Zenon
  <2> DEFINE p == s.proposals[s.round]
             q == AsU32(p.valid_round)
  <2>1. p # None /\ p.valid_round >= 0 /\ q < s.round /\ prevote_count(t, q, p.id) >= quorum
    BY Zenon DEF PolcDue
  <2>2. p.valid_round \in Int
    BY <1>0, <2>1, Zenon DEF RoundState, Proposals
  <2>3. q \in Rounds /\ q <= s.round
    <3>1. U32 \in Nat /\ U32 > 0 /\ MaxRound \in Nat
      <4>1. U32 \in Nat /\ U32 > MaxRound /\ MaxRound \in Nat
        BY RoundAssumption, Zenon
      <4> QED BY ONLY <4>1
    <3>2. q \in Nat
      <4> HIDE DEF p
      <4> QED BY ONLY <2>2, <3>1 DEF AsU32
    <3>3. s.round <= MaxRound
      BY <1>0, <3>1 DEF Rounds
    <3>4. q \in 0 .. MaxRound /\ q <= s.round
      <4> HIDE DEF q
      <4> QED BY ONLY <1>0, <2>1, <3>1, <3>2, <3>3
    <3> QED BY <3>4, Zenon DEF Rounds
  <2>4. prevote_count(s, q, p.id) >= quorum
    BY <1>1, <2>1, <2>3, Zenon
  <2> QED BY <2>1, <2>4, Zenon DEF NoneDue, PolcDue, SamePhase
<1>4. ~PrevoteTimerDue(t) /\ ~PrecommitTimerDue(t)
  BY <1>0, <1>1, Zenon DEF NoneDue, PrevoteTimerDue, PrecommitTimerDue, SamePhase, SameTimers
<1>5. ~PolkaDue(t) /\ ~NilDue(t)
  BY <1>0, <1>1 DEF NoneDue, PolkaDue, NilDue, SamePhase, SameTimers
<1> QED BY <1>2, <1>3, <1>4, <1>5 DEF NoneDue

(* What a settled node that runs looks like. *)
LEMMA SettledRuns ==
  ASSUME NEW s, NEW M, Live(s, M), Settled(s, M), s.out = {}
  PROVE  /\ s \in RoundState /\ Watched(s, M) /\ NoneDue(s) /\ DecidableRounds(s) = {} /\ Ahead(s) = {}
         /\ Woken(s) /\ OwnCounted(s, M) /\ Intents(s) = {} /\ ~s.decided /\ Steady(s) /\ s.work = << >>
<1>1. /\ s \in RoundState /\ s.work = << >> /\ Watch(s, M) /\ Watched(s, M) /\ Quiet(s) /\ Woken(s)
      /\ OwnCounted(s, M)
  BY Zenon DEF Live, Local, Settled, Watched
<1>2. Intents(s) = {}
  BY <1>1 DEF Intents
<1>3. ~s.decided
  BY <1>1, <1>2, Zenon DEF Watch, DecisionQueued
<1> QED BY <1>1, <1>2, <1>3, Zenon DEF Quiet, Steady

-----------------------------------------------------------------------------
(* What the rules of a handler make of s: v has only to be driven. *)
Handled(s, v, M) == Working(v, M) /\ Effort(v) <= 4 /\ SameOthers(s, v)

(* After `evaluate`, `drive` can finish what is left. *)
LEMMA EvaluateHandled ==
  ASSUME Arithmetic, NEW h, NEW M, Live(h, M), Watched(h, M), Steady(h), OwnCounted(h, M), Woken(h), Effort(h) <= 4
  PROVE  Handled(h, evaluate(h), M)
<1> DEFINE t == evaluate(h)
<1>0. h \in RoundState
  BY Zenon DEF Live, Local
<1>1. Woken(t)
  BY <1>0, EvaluateDone, Zenon
<1>2. Working(t, M) /\ Effort(t) <= Effort(h) /\ SameInputs(h, t)
  BY <1>1, EvaluateWorks, Zenon
<1> HIDE DEF t
<1>3. Effort(t) <= 4
  <2>1. Effort(h) \in Int /\ Effort(t) \in Int
    BY <1>0, <1>2, EffortType, Zenon DEF Working, Live, Local
  <2> QED BY ONLY <1>2, <2>1, Effort(h) <= 4
<1> QED BY <1>2, <1>3, Zenon DEF SameOthers, SameInputs, Handled, t

(* The rules of a node that heard, through e, nothing from others. *)
LEMMA SameHandled ==
  ASSUME NEW s, NEW e, NEW v, NEW M, SameInputs(s, e), Handled(e, v, M)
  PROVE  Handled(s, v, M)
BY ZenonT(40) DEF Handled, SameOthers, SameInputs

(* A handler that leaves the rules nothing to do. *)
LEMMA StillHandled ==
  ASSUME NEW s, NEW h, NEW M, Live(s, M), Live(h, M), Settled(s, M), s.out = {}, h.out = {}, h.work = << >>,
         SameView(s, h), SamePhase(s, h), SameLock(s, h), SameRound(s, h),
         h.decided = s.decided, h.local_root = s.local_root,
         h.prevote_timeout_armed = s.prevote_timeout_armed,
         h.precommit_timeout_armed = s.precommit_timeout_armed,
         h.prevote_quorum_seen = s.prevote_quorum_seen, TimersStand(h), Woken(h)
  PROVE  Handled(s, h, M)
<1>0. s \in RoundState /\ h \in RoundState /\ Watch(s, M) /\ Quiet(s)
  BY Zenon DEF Live, Local, Settled
<1>2. Quiet(h)
  BY <1>0, QuietStays, Zenon
<1>3. Intents(s) = {} /\ Intents(h) = {}
  BY DEF Settled, Intents
<1>4. \A k, r, v : Voted(h, M, k, r, v) <=> Voted(s, M, k, r, v)
  BY <1>3, Zenon DEF Voted
<1>5. PhasesFollow(h) /\ PrevotesBacked(h, M)
  BY <1>0, <1>4, Zenon DEF Watch, PhasesFollow, PrevotesBacked, SamePhase, SameRound
<1>6. ValidBacked(h)
  BY <1>0, Zenon DEF Watch, ValidBacked, SameLock, Quorate, VotersFor, SameView
<1>7. ProposalFirst(h) /\ DecisionQueued(h)
  BY <1>0, <1>3 DEF Watch, ProposalFirst, DecisionQueued
<1>8. OwnProposals(h, M)
  BY <1>0, Zenon DEF Watch, OwnProposals, SameView, SameRound
<1>9. Watch(h, M)
  BY <1>5, <1>6, <1>7, <1>8, Zenon DEF Watch
<1>10. OwnCounted(h, M)
  BY Zenon DEF Settled, OwnCounted, SameView
<1>11. ~h.decided
  BY <1>0, <1>3, Zenon DEF Watch, DecisionQueued
<1>12. Steady(h)
  BY <1>2, <1>3, <1>11, Zenon DEF Quiet, Steady
<1>13. Effort(h) <= 4
  BY <1>0, <1>11, EffortOfIdle, Zenon
<1> QED BY <1>2, <1>9, <1>10, <1>12, <1>13, Zenon DEF Working, Handled, SameOthers, SameView

(* start. *)
LEMMA StartHandled ==
  ASSUME Arithmetic, NEW s, NEW M, Local(s, M), Idle(s), s.started_rounds = {}, Settled(s, M), s.out = {}
  PROVE  Handled(s, evaluate(enter_round_core(s, 0)), M)
<1> DEFINE e == enter_round_core(s, 0)
<1>0. s \in RoundState /\ s.round = 0 /\ ~s.decided /\ s.committed = None /\ s.valid_value = None /\ 0 \in Rounds
  BY Sizes, Zenon DEF Local, Idle
<1>1. Watch(s, M) /\ Rounded(s) /\ Locks(s, M) /\ s.work = << >> /\ Ahead(s) = {}
  BY <1>0, Zenon DEF Settled, Local, Quiet
<1>2. Live(e, M)
  BY <1>0, EnterLive
<1>3. /\ e \in RoundState /\ Watched(e, M) /\ Woken(e) /\ Steady(e) /\ Effort(e) <= 4
      /\ SameInputs(s, e) /\ ~e.decided
  <2>1. 0 \notin s.started_rounds /\ 0 >= s.round /\ \A m \in s.out : m.kind \notin Kinds
    BY <1>0
  <2>2. (\A q \in Ahead(s) : q <= 0) /\ (s.valid_value # None => s.valid_round < 0)
    BY <1>0, <1>1, Zenon
  <2> QED BY ONLY <1>0, <1>1, <2>1, <2>2, EnterDone
<1> HIDE DEF e
<1>4. OwnCounted(e, M)
  BY <1>3 DEF Settled, OwnCounted, SameInputs
<1>5. Handled(e, evaluate(e), M)
  BY <1>2, <1>3, <1>4, EvaluateHandled, Zenon
<1> QED BY <1>3, <1>5, SameHandled, Zenon DEF e

(* on_timeout. *)
LEMMA TimeoutHandled ==
  ASSUME Arithmetic, NEW s, NEW M, Live(s, M), Settled(s, M), s.out = {},
         NEW step \in Steps, NEW r \in Rounds, ~(step = Precommit /\ r = MaxRound)
  PROVE  Handled(s, on_timeout(Expired(s, step, r), step, r), M)
<1> DEFINE h == Expired(s, step, r)
           v == on_timeout(h, step, r)
<1>0. /\ s \in RoundState /\ Local(s, M) /\ s.round \in s.started_rounds /\ s.committed = None
      /\ s.work = << >> /\ Watch(s, M) /\ Watched(s, M) /\ Quiet(s) /\ Woken(s) /\ OwnCounted(s, M)
      /\ NIL \in Ids /\ NIL \notin Values /\ s.step \in Steps
  BY RoundAssumption, Zenon DEF Live, Local, Settled, Watched, Ids, RoundState
<1>1. Intents(s) = {} /\ ~s.decided /\ Ahead(s) = {} /\ Steady(s)
  <2>1. Intents(s) = {}
    BY <1>0 DEF Intents
  <2>2. ~s.decided
    BY <1>0, <2>1, Zenon DEF Watch, DecisionQueued
  <2> QED BY <1>0, <2>1, <2>2, Zenon DEF Quiet, Steady
<1>2. /\ Live(h, M) /\ h \in RoundState
      /\ SameInputs(s, h) /\ SameLock(s, h) /\ SameRound(s, h) /\ SamePhase(s, h)
      /\ h.work = s.work /\ h.decided = s.decided /\ h.timers = s.timers \ {<<step, r>>}
      /\ h.prevote_timeout_armed = s.prevote_timeout_armed
      /\ h.precommit_timeout_armed = s.precommit_timeout_armed
      /\ h.prevote_quorum_seen = s.prevote_quorum_seen
  BY ExpiredFields
<1>3. ~h.decided /\ h.round = s.round /\ h.step = s.step /\ h.out = {} /\ h.local_root = s.local_root
  BY <1>1, <1>2, Zenon DEF SameRound, SamePhase, SameInputs
<1>4. Local(h, M) /\ h.round \in h.started_rounds /\ h.committed = None
  BY <1>2, Zenon DEF Live
<1>5. CASE r = s.round /\ step = Precommit
  <2> DEFINE e == enter_round_core(s, r + 1)
  <2>1. r + 1 \in Rounds /\ r + 1 >= s.round /\ r + 1 \notin s.started_rounds /\ s.valid_round < r + 1
    <3>1. r + 1 \in Rounds
      BY <1>5, RoundAssumption DEF Rounds
    <3>2. (\A q \in s.started_rounds : q <= s.round) /\ s.valid_round <= s.round
      BY <1>0, Zenon DEF Local, Rounded, Locks
    <3>3. s.round \in Int /\ s.valid_round \in Int /\ s.started_rounds \subseteq Int
      BY <1>0, Numbers, Zenon
    <3> QED BY ONLY <1>5, <3>1, <3>2, <3>3
  <2>2. v = evaluate(e)
    <3>1. v = evaluate(enter_round_core(h, r + 1))
      BY <1>3, <1>5 DEF on_timeout, Propose, Prevote, Precommit
    <3>2. enter_round_core(h, r + 1) = e
      BY <1>0, <1>1, <2>1, EnterExpired
    <3> QED BY <3>1, <3>2, Zenon
  <2>3. Live(e, M)
    BY <1>0, <2>1, EnterLive, Zenon
  <2>4. /\ e \in RoundState /\ Watched(e, M) /\ Woken(e) /\ Steady(e) /\ Effort(e) <= 4
        /\ SameInputs(s, e)
    <3>1. Rounded(s) /\ Locks(s, M)
      BY <1>0, Zenon DEF Local
    <3>2. \A m \in s.out : m.kind \notin Kinds
      BY Zenon
    <3>3. (\A q \in Ahead(s) : q <= r + 1) /\ (s.valid_value # None => s.valid_round < r + 1)
      BY <1>1, <2>1, Zenon
    <3> QED BY ONLY <1>0, <1>1, <2>1, <3>1, <3>2, <3>3, EnterDone
  <2> HIDE DEF e
  <2>5. OwnCounted(e, M)
    BY <1>0, <2>4, Zenon DEF OwnCounted, SameInputs
  <2>6. Handled(e, evaluate(e), M)
    BY <2>3, <2>4, <2>5, EvaluateHandled, Zenon
  <2> QED BY <2>2, <2>4, <2>6, SameHandled, Zenon
<1>6. CASE r = s.round /\ step = Propose /\ s.step = Propose
  <2> DEFINE e == prevote(h, h.round, NIL)
  <2>1. v = evaluate(e)
    BY <1>3, <1>6, Zenon DEF on_timeout
  <2>2. Local(e, M) /\ SameInputs(h, e) /\ SameRound(h, e)
    BY <1>0, <1>3, <1>4, <1>6, PrevoteKeeps, Zenon
  <2>3. e \in RoundState /\ Casts(h, e, "prevote") /\ SameLock(h, e)
    BY <1>0, <1>2, <1>3, <1>6, PrevoteCasts, Zenon
  <2> HIDE DEF e
  <2>4. Live(e, M)
    BY <1>4, <2>2, Zenon DEF Live, SameInputs, SameRound
  <2>5. TimersStand(h)
    BY <1>0, <1>2, <1>3, <1>6 DEF Watch, TimersStand, SameRound, Propose, Prevote, Precommit
  <2>6. Watched(h, M)
    BY <1>0, <1>2, <2>5, WatchTimers, Zenon
  <2>7. Watched(e, M)
    BY <1>2, <2>3, <2>6, CastsWatched, Zenon DEF Kinds
  <2>8. Woken(e)
    BY <2>3 DEF Casts, Woken, Propose, Prevote
  <2>9. Moves(h, e) /\ e.decided = h.decided
    BY <1>2, <2>3, CastsMoves, Zenon DEF Kinds
  <2>10. Moves(s, h)
    BY <1>0, <1>2, StillMoves, Zenon
  <2>11. Moves(s, e) /\ Effort(e) <= 4
    <3>1. Moves(s, e)
      BY <1>0, <2>9, <2>10, MovesTransitive
    <3>2. Effort(e) <= Effort(s) /\ Effort(s) <= 4
      BY <1>0, <3>1, EffortOfIdle, Zenon DEF Moves
    <3>3. Effort(e) \in Int /\ Effort(s) \in Int
      BY <1>0, <2>3, EffortType, Zenon
    <3> QED BY ONLY <3>1, <3>2, <3>3
  <2>12. Steady(e)
    BY <1>1, <1>3, <2>9, <2>11, MovesSteady
  <2>13. OwnCounted(e, M)
    BY <1>0, <2>11, Zenon DEF OwnCounted, Moves, SameInputs
  <2>14. Handled(e, evaluate(e), M)
    BY <2>4, <2>7, <2>8, <2>11, <2>12, <2>13, EvaluateHandled, Zenon
  <2> QED BY <2>1, <2>11, <2>14, SameHandled, Zenon DEF Moves
<1>7. CASE r = s.round /\ step = Prevote /\ s.step = Prevote
  <2> DEFINE e == precommit(h, h.round, NIL)
             f == precommit(s, s.round, NIL)
  <2>1. v = evaluate(e)
    BY <1>3, <1>7 DEF on_timeout, Propose, Prevote
  <2>2. /\ e \in RoundState /\ SameInputs(h, e) /\ SameLock(h, e) /\ SameRound(h, e) /\ SameTimers(h, e)
        /\ e.step = Precommit /\ e.decided = h.decided
        /\ e.prevoted_rounds = h.prevoted_rounds
        /\ e.precommitted_rounds = h.precommitted_rounds \union {h.round}
        /\ e.work = Append(h.work, [act |-> "precommit", round |-> h.round, id |-> NIL])
    <3>1. h \in RoundState /\ h.step = Prevote /\ NIL \in Ids
      BY <1>0, <1>2, <1>3, <1>7
    <3> HIDE DEF h
    <3> QED BY <3>1, PrecommitFields, Zenon
  <2>3. /\ f \in RoundState /\ SameInputs(s, f) /\ SameLock(s, f) /\ SameRound(s, f)
        /\ f.step = Precommit /\ f.decided = s.decided
        /\ f.prevoted_rounds = s.prevoted_rounds
        /\ f.precommitted_rounds = s.precommitted_rounds \union {s.round}
        /\ f.work = Append(s.work, [act |-> "precommit", round |-> s.round, id |-> NIL])
    BY <1>0, <1>7, PrecommitFields, Zenon
  <2>4. Casts(s, f, "precommit")
    BY <1>0, <1>7, PrecommitCasts, Zenon
  <2> HIDE DEF e, f
  <2>5. Watched(f, M)
    BY <1>0, <2>3, <2>4, CastsWatched DEF Kinds
  <2>6. /\ SameInputs(f, e) /\ SameLock(f, e) /\ SameRound(f, e) /\ SamePhase(f, e)
        /\ e.work = f.work /\ e.decided = f.decided
    BY <1>2, <1>3, <2>2, <2>3, Zenon DEF SameInputs, SameLock, SameRound, SamePhase
  <2>7. TimersStand(e)
    <3>1. TimersStand(s)
      BY <1>0, Zenon DEF Watch
    <3>2. /\ e.round = s.round /\ e.started_rounds = s.started_rounds /\ e.step = Precommit
          /\ e.prevote_timeout_armed = s.prevote_timeout_armed
          /\ e.precommit_timeout_armed = s.precommit_timeout_armed
          /\ e.timers = s.timers \ {<<Prevote, s.round>>}
      BY <1>2, <1>3, <1>7, <2>2, Zenon DEF SameRound, SameTimers
    <3> QED BY <3>1, <3>2 DEF TimersStand, Propose, Prevote, Precommit
  <2>8. Watched(e, M)
    BY <2>2, <2>3, <2>5, <2>6, <2>7, WatchTimers, Zenon
  <2>9. Woken(e)
    BY <2>2 DEF Woken, Propose, Precommit
  <2>10. Moves(s, f) /\ f.decided = s.decided
    BY <1>0, <2>3, <2>4, CastsMoves, Zenon DEF Kinds
  <2>11. Moves(s, e) /\ Effort(e) <= 4
    <3>1. Moves(f, e)
      BY <2>2, <2>3, <2>6, StillMoves, Zenon
    <3>2. Moves(s, e)
      BY <1>0, <2>10, <3>1, MovesTransitive
    <3>3. Effort(e) <= Effort(s) /\ Effort(s) <= 4
      BY <1>0, <3>2, EffortOfIdle, Zenon DEF Moves
    <3>4. Effort(e) \in Int /\ Effort(s) \in Int
      BY <1>0, <2>2, EffortType, Zenon
    <3> QED BY ONLY <3>2, <3>3, <3>4
  <2>12. Steady(e)
    BY <1>1, <2>3, <2>6, <2>11, MovesSteady
  <2>13. OwnCounted(e, M)
    BY <1>0, <2>11, Zenon DEF OwnCounted, Moves, SameInputs
  <2>14. Live(e, M)
    <3>1. Locking(h, e, NIL)
      BY <2>2, Zenon DEF Locking
    <3>2. Local(e, M)
      BY <1>0, <1>2, <1>3, <1>4, <1>7, <2>2, <3>1, PrecommitKeeps
    <3> QED BY <1>4, <2>2, <3>2, Zenon DEF Live, SameInputs, SameRound
  <2>15. Handled(e, evaluate(e), M)
    BY <2>8, <2>9, <2>11, <2>12, <2>13, <2>14, EvaluateHandled, Zenon
  <2> QED BY <2>1, <2>11, <2>15, SameHandled, Zenon DEF Moves
<1>8. CASE ~(r = s.round /\ (step = Precommit \/ step = s.step))
  <2>1. v = h
    BY <1>3, <1>8, Zenon DEF on_timeout
  <2>2. TimersStand(h) /\ Woken(h)
    <3>1. <<Propose, s.round>> \in s.timers /\ s.step = Propose => <<Propose, s.round>> \in h.timers
      BY <1>2, <1>8, Zenon
    <3>2. s.step = Prevote /\ <<Prevote, s.round>> \in s.timers => <<Prevote, s.round>> \in h.timers
      BY <1>2, <1>8, Zenon
    <3>3. <<Precommit, s.round>> \in s.timers => <<Precommit, s.round>> \in h.timers
      BY <1>2, <1>8, Zenon
    <3>4. TimersStand(h)
      BY <1>0, <1>2, <1>3, <3>2, <3>3 DEF Watch, TimersStand, SameRound
    <3>5. Woken(h)
      BY <1>0, <1>1, <1>3, <3>1 DEF Woken
    <3> QED BY <3>4, <3>5, Zenon
  <2>3. SameView(s, h)
    BY <1>2, Zenon DEF SameView, SameInputs, SameRound
  <2>4. h.work = << >>
    BY <1>0, <1>2, Zenon
  <2> HIDE DEF h
  <2>5. Handled(s, h, M)
    BY <1>2, <1>3, <2>2, <2>3, <2>4, StillHandled
  <2> QED BY <2>1, <2>5, Zenon DEF h
<1> QED BY <1>5, <1>6, <1>7, <1>8 DEF Steps

(* The vote that calls a node on to its round, or completes a decision of  *)
(* that round.                                                             *)
LEMMA SkipHandled ==
  ASSUME Arithmetic, NEW h, NEW M, Live(h, M), Watched(h, M), OwnCounted(h, M), Woken(h),
         NoneDue(h), ~h.decided, h.work = << >>, h.out = {},
         NEW q \in Rounds, q > h.round, Ahead(h) = {q}
  PROVE  Handled(h, evaluate(h), M)
<1> DEFINE d == rule_decide(h)
<1>0. h \in RoundState /\ Local(h, M) /\ Watch(h, M) /\ h.committed = None
  BY Zenon DEF Live, Local, Watched
<1>1. pass(h) = rule_skip_round(d)
  <2>1. six(h) = h
    BY SixIdles, Zenon
  <2> QED BY <2>1, Zenon DEF pass, six
<1>2. CASE DecidableRounds(h) # {}
  <2>1. d \in RoundState /\ Decides(h, d)
    BY <1>0, <1>2, DecideFires, Zenon
  <2> HIDE DEF d
  <2>2. d.decided
    BY <2>1, Zenon DEF Decides
  <2>3. rule_skip_round(d) = d
    BY <2>2, Zenon DEF rule_skip_round, enter_round_core
  <2>4. evaluate(h) = d
    BY <1>1, <2>2, <2>3, Zenon DEF evaluate, pass
  <2>5. Moves(h, d)
    BY <1>0, <2>1, DecidesMoves, Zenon
  <2>6. Live(d, M)
    BY <2>4, EvaluateKeeps, Zenon
  <2>7. Watched(d, M)
    <3>1. TimersStand(d)
      BY <1>0, <2>1, Zenon DEF Watch, TimersStand, Decides, SameRound, SamePhase, SameTimers
    <3>2. h.timers \subseteq d.timers
      BY <2>1, Zenon DEF Decides, SameTimers
    <3> QED BY ONLY <1>0, <2>1, <3>1, <3>2, Watched(h, M), ~h.decided, StillWatched DEF Decides
  <2>8. Intents(h) = {} /\ d.out = {}
    BY <2>5 DEF Intents, Moves, SameInputs
  <2>9. Steady(d) /\ Quiet(d) /\ Woken(d)
    <3>1. \A a \in Intents(d) : a.act \in Kinds => a.round = d.round
      BY <2>5, <2>8, Zenon DEF Moves, SameRound, Kinds
    <3> QED BY <2>2, <2>8, <3>1, Zenon DEF Steady, Quiet, Woken
  <2>10. OwnCounted(d, M)
    BY <2>5 DEF OwnCounted, Moves, SameInputs
  <2>11. Effort(d) <= 4
    <3>1. Effort(d) <= Effort(h) /\ Effort(h) <= 4
      BY <1>0, <2>5, EffortOfIdle, Zenon DEF Moves
    <3>2. Effort(d) \in Int /\ Effort(h) \in Int
      BY <1>0, <2>1, EffortType, Zenon
    <3> QED BY ONLY <3>1, <3>2
  <2>12. Handled(d, d, M)
    BY <2>6, <2>7, <2>9, <2>10, <2>11, Zenon DEF Handled, Working, Watched, SameOthers
  <2> QED BY <2>4, <2>5, <2>12, SameHandled, Zenon DEF Moves
<1>3. CASE DecidableRounds(h) = {}
  <2> DEFINE e == enter_round_core(h, q)
  <2>1. d = h
    BY <1>3, Idles, Zenon
  <2>2. pass(h) = e
    <3>1. rule_skip_round(h) = enter_round_core(h, CHOOSE r \in {q} : \A p \in {q} : r <= p)
      BY Zenon DEF rule_skip_round, Ahead
    <3>2. (CHOOSE r \in {q} : \A p \in {q} : r <= p) = q
      <4>1. {q} \in SUBSET Rounds
        BY Zenon
      <4> QED BY <4>1, LeastRound, Zenon
    <3> QED BY <1>1, <2>1, <3>1, <3>2, Zenon
  <2>3. q >= h.round /\ q \notin h.started_rounds /\ h.valid_round < q
    <3>1. (\A r \in h.started_rounds : r <= h.round) /\ h.valid_round <= h.round
      BY <1>0, Zenon DEF Local, Rounded, Locks
    <3>2. h.round \in Int /\ h.valid_round \in Int /\ h.started_rounds \subseteq Int /\ q \in Int
      BY <1>0, Numbers, RoundsAreInts, Zenon
    <3> QED BY ONLY <3>1, <3>2, q > h.round
  <2>4. Live(e, M)
    BY <1>0, <2>3, EnterLive, Zenon
  <2>5. /\ e \in RoundState /\ Watched(e, M) /\ Woken(e) /\ Steady(e) /\ Effort(e) <= 4
        /\ SameInputs(h, e)
    <3>1. Rounded(h) /\ Locks(h, M)
      BY <1>0, Zenon DEF Local
    <3>2. \A m \in h.out : m.kind \notin Kinds
      BY Zenon
    <3>3. (\A r \in Ahead(h) : r <= q) /\ (h.valid_value # None => h.valid_round < q)
      BY <2>3, RoundsAreInts
    <3> QED BY ONLY <1>0, <2>3, <3>1, <3>2, <3>3, h.work = << >>, ~h.decided, q \in Rounds, EnterDone
  <2> HIDE DEF e
  <2>6. OwnCounted(e, M)
    BY <2>5 DEF OwnCounted, SameInputs
  <2>7. evaluate(h) = evaluate(e)
    <3>1. evaluate(e) = pass(e)
      BY <2>5, EvaluateDone, Zenon
    <3> QED BY <2>2, <3>1, Zenon DEF evaluate
  <2>8. Handled(e, evaluate(e), M)
    BY <2>4, <2>5, <2>6, EvaluateHandled, Zenon
  <2> QED BY <2>5, <2>7, <2>8, SameHandled, Zenon
<1> QED BY <1>2, <1>3, Zenon

(* h has counted the vote m, and nothing else. *)
Counts(s, h, m) ==
  \A k \in Kinds, r \in Rounds, v \in Validators :
    h.votes[k][r][v] = IF k = m.kind /\ r = m.round /\ v = m.from THEN m.id ELSE s.votes[k][r][v]

(* A vote counted for a later round may call the node there; one for its   *)
(* own round or an earlier one is left to the rules of the round.          *)
LEMMA TallyHandled ==
  ASSUME Arithmetic, NEW s, NEW M, Live(s, M), Messages(M), Settled(s, M), s.out = {}, NEW h, NEW m,
         m.kind \in Kinds, m.from \in Validators, m.round \in Rounds, m.id \in Ids,
         s.votes[m.kind][m.round][m.from] = None,
         Live(h, M), Adds(s, h), h.work = s.work, h.out = s.out, h.proposals = s.proposals, Counts(s, h, m)
  PROVE  Handled(h, evaluate(h), M)
<1>0. /\ s \in RoundState /\ Watched(s, M) /\ NoneDue(s) /\ Ahead(s) = {}
      /\ Woken(s) /\ OwnCounted(s, M) /\ Intents(s) = {} /\ ~s.decided /\ s.work = << >> /\ s.round \in Rounds
  BY SettledRuns DEF RoundState
<1>2. /\ h.work = s.work /\ h.out = s.out /\ h.proposals = s.proposals
      /\ \A k \in Kinds, r \in Rounds, v \in Validators :
           h.votes[k][r][v] = IF k = m.kind /\ r = m.round /\ v = m.from THEN m.id ELSE s.votes[k][r][v]
  BY Zenon DEF Counts
<1>3. /\ h \in RoundState /\ h.round = s.round /\ ~h.decided /\ h.local_root = s.local_root /\ Adds(s, h)
      /\ SameRound(s, h) /\ SamePhase(s, h) /\ SameTimers(s, h)
  BY <1>0, Zenon DEF Live, Local, SameRound, Adds
<1>4. Watched(h, M)
  <2>1. /\ \A r \in Rounds, v \in Ids : Voted(s, M, "prevote", r, v) => Voted(h, M, "prevote", r, v)
        /\ Intents(h) = {}
    BY <1>0, <1>2, <1>3 DEF Voted, Intents
  <2>2. OwnProposals(h, M)
    BY <1>0, <1>2, <1>3 DEF Watched, Watch, OwnProposals, SameRound
  <2> QED BY <1>0, <1>3, <2>1, <2>2, InputWatched, Zenon
<1>5. Woken(h)
  BY <1>0, <1>2, <1>3, Zenon DEF Woken, SamePhase, SameTimers
<1>6. OwnCounted(h, M)
  <2>0. h.local_root = s.local_root
    BY <1>3, Zenon
  <2> SUFFICES ASSUME NEW x \in M, x.kind \in Kinds, x.from = s.local_root
               PROVE  h.votes[x.kind][x.round][x.from] = x.id
    BY <2>0, Zenon DEF OwnCounted
  <2>1. x.from \in Validators /\ x.round \in Rounds /\ x.id # None
    BY <1>0, SentType, Zenon
  <2>2. s.votes[x.kind][x.round][x.from] = x.id
    BY <1>0, Zenon DEF OwnCounted
  <2>3. ~(x.kind = m.kind /\ x.round = m.round /\ x.from = m.from)
    BY <2>1, <2>2, Zenon
  <2>4. h.votes[x.kind][x.round][x.from] = s.votes[x.kind][x.round][x.from]
    BY <1>2, <2>1, <2>3, Zenon
  <2> QED BY <2>2, <2>4, Zenon
<1>7. Effort(h) <= 4
  BY <1>0, <1>2, <1>3, EffortOfIdle
<1>9. CASE Ahead(h) = {}
  <2>1. Steady(h)
    BY <1>0, <1>2, <1>9 DEF Steady, Intents
  <2> QED BY <1>4, <1>5, <1>6, <1>7, <2>1, EvaluateHandled, Zenon
<1>10. CASE Ahead(h) # {}
  <2>1. m.round > s.round
    <3> SUFFICES ASSUME ~(m.round > s.round) PROVE FALSE
      BY Zenon
    <3>1. \A k \in Kinds, q \in Rounds, v \in Validators : q > s.round => h.votes[k][q][v] = s.votes[k][q][v]
      BY <1>2
    <3>2. Ahead(h) = Ahead(s)
      BY ONLY <1>0, <1>3, <3>1, AheadSame, Zenon
    <3> QED BY <1>0, <1>10, <3>2, Zenon
  <2>2. Ahead(h) = {m.round}
    <3> SUFFICES ASSUME NEW q \in Ahead(h), q # m.round PROVE FALSE
      BY <1>10
    <3>1. q \in Rounds /\ q > s.round
      BY <1>3, Zenon DEF Ahead
    <3>2. participants(h, q) = participants(s, q)
      BY <1>2, <3>1 DEF participants, VotersAt, Kinds
    <3>3. q \in Ahead(s)
      BY <1>3, <3>1, <3>2, Zenon DEF Ahead
    <3> QED BY <1>0, <3>3, Zenon
  <2>3. NoneDue(h)
    <3>1. \A k \in Kinds, q \in Rounds, v \in Validators : q <= s.round => h.votes[k][q][v] = s.votes[k][q][v]
      <4>1. \A q \in Rounds : q <= s.round => q # m.round
        BY <1>0, <2>1, RoundsAreInts
      <4> QED BY <1>2, <4>1
    <3> QED BY ONLY <1>0, <1>2, <1>3, <3>1, NoneDueStays, Zenon
  <2>4. h.work = << >> /\ h.out = {} /\ m.round > h.round
    BY <1>0, <1>2, <1>3, <2>1, Zenon
  <2> QED BY <1>3, <1>4, <1>5, <1>6, <2>2, <2>3, <2>4, SkipHandled, Zenon
<1> QED BY <1>9, <1>10, Zenon

(* A round's first proposal is left to the rules.  No root hears its own   *)
(* proposal first from others.                                             *)
LEMMA ProposalHandled ==
  ASSUME Arithmetic, NEW s, NEW M, Live(s, M), Messages(M), Settled(s, M), s.out = {}, NEW g, NEW m,
         m.round \in Rounds, m.kind = "proposal", m.from = proposer_for(m.round), m.from \in Faulty \/ m \in M,
         s.proposals[m.round] = None,
         Live(g, M), Adds(s, g), g.work = s.work, g.out = s.out, g.votes = s.votes,
         \A q \in Rounds : q # m.round => g.proposals[q] = s.proposals[q]
  PROVE  Handled(s, evaluate(g), M)
<1>1. /\ s \in RoundState /\ Watched(s, M) /\ Watch(s, M) /\ NoneDue(s) /\ DecidableRounds(s) = {} /\ Ahead(s) = {}
      /\ Woken(s) /\ OwnCounted(s, M) /\ Intents(s) = {} /\ ~s.decided /\ s.work = << >>
  BY SettledRuns, Zenon DEF Watched
<1>2. /\ g \in RoundState /\ g.local_root = s.local_root /\ ~g.decided /\ g.round = s.round
      /\ SameRound(s, g) /\ SamePhase(s, g) /\ SameTimers(s, g) /\ g.work = << >> /\ g.out = {}
  BY <1>1, Zenon DEF Live, Local, Adds, SameRound
<1>3. Intents(g) = {}
  BY <1>2 DEF Intents
<1>4. proposer_for(m.round) # s.local_root
  <2> SUFFICES ASSUME m.from = s.local_root PROVE FALSE
    BY Zenon
  <2>1. m \in M
    BY <1>1, Zenon DEF RoundState, Honest
  <2> QED BY <1>1, <2>1 DEF Watch, OwnProposals
<1>5. OwnProposals(g, M)
  <2>1. \A r \in Rounds : s.proposals[r] # None => g.proposals[r] = s.proposals[r]
    BY Zenon
  <2>2. \A x \in M : x.round \in Rounds
    BY Zenon DEF Messages, HonestMsgs, HonestVotes, HonestProposals
  <2> QED BY <1>1, <1>2, <1>4, <2>1, <2>2 DEF Watch, OwnProposals, SameRound
<1>6. Watched(g, M)
  <2>1. \A r \in Rounds, w \in Ids : Voted(s, M, "prevote", r, w) => Voted(g, M, "prevote", r, w)
    BY <1>1, <1>2, Zenon DEF Voted
  <2> QED BY <1>1, <1>2, <1>3, <1>5, <2>1, InputWatched, Zenon
<1>7. Steady(g)
  <2>1. Ahead(g) = Ahead(s)
    BY <1>1, <1>2, AheadSame, Zenon
  <2> QED BY <1>1, <1>2, <1>3, <2>1, Zenon DEF Steady
<1>8. OwnCounted(g, M) /\ Woken(g)
  BY <1>1, <1>2, Zenon DEF OwnCounted, Woken, SamePhase, SameTimers
<1>9. Effort(g) <= 4
  BY <1>2, EffortOfIdle, Zenon
<1>10. Handled(g, evaluate(g), M)
  BY <1>6, <1>7, <1>8, <1>9, EvaluateHandled, Zenon
<1> QED BY <1>2, <1>10 DEF Handled, SameOthers

-----------------------------------------------------------------------------
(* Between handlers. *)
LEMMA FreshSettled ==
  ASSUME Arithmetic, NEW n \in Honest
  PROVE  Settled(NewRound(n), {})
<1> DEFINE s == NewRound(n)
<1>1. /\ s.local_root = n /\ s.round = 0 /\ s.step = Propose /\ s.valid_value = None /\ ~s.decided
      /\ s.proposals = [r \in Rounds |-> None]
      /\ s.votes = [k \in Kinds |-> [r \in Rounds |-> [v \in Validators |-> None]]]
      /\ s.started_rounds = {} /\ s.prevoted_rounds = {} /\ s.precommitted_rounds = {}
      /\ s.prevote_timeout_armed = {} /\ s.precommit_timeout_armed = {}
      /\ s.work = << >> /\ s.out = {}
  BY Zenon DEF NewRound
<1> HIDE DEF s
<1>2. /\ \A k \in Kinds, r \in Rounds : VotersAt(s, k, r) = {} /\ \A v \in Ids : VotersFor(s, k, r, v) = {}
      /\ \A r \in Rounds : s.proposals[r] = None
  BY <1>1, RoundAssumption DEF VotersAt, VotersFor
<1>3. quorum > 0 /\ f_plus_1 > 0 /\ 0 \in Rounds /\ NIL \in Ids /\ "prevote" \in Kinds /\ "precommit" \in Kinds
  BY RoundAssumption DEF quorum, f_plus_1, Rounds, Ids, Kinds
<1>4. ~(Cardinality({}) >= quorum) /\ ~(Cardinality({}) >= f_plus_1)
  <2>1. quorum \in Int /\ f_plus_1 \in Int
    BY Sizes
  <2>2. Cardinality({}) = 0
    BY Zenon DEF Arithmetic
  <2> QED BY ONLY <1>3, <2>1, <2>2
<1>5. NoneDue(s)
  <2>1. ~FreshDue(s) /\ ~PolcDue(s) /\ ~PolkaDue(s)
    BY <1>1, <1>2, <1>3, Zenon DEF FreshDue, PolcDue, PolkaDue
  <2>2. ~PrevoteTimerDue(s) /\ ~NilDue(s) /\ ~PrecommitTimerDue(s)
    BY <1>1, <1>2, <1>3, <1>4, Zenon DEF PrevoteTimerDue, NilDue, PrecommitTimerDue,
       total_prevotes, total_precommits, prevote_count
  <2> QED BY <2>1, <2>2, Zenon DEF NoneDue
<1>6. DecidableRounds(s) = {} /\ Ahead(s) = {}
  <2>1. DecidableRounds(s) = {}
    BY <1>2, Zenon DEF DecidableRounds
  <2>2. \A r \in Rounds : participants(s, r) = {}
    BY <1>2, <1>3, Zenon DEF participants
  <2> QED BY <1>4, <2>1, <2>2, Zenon DEF Ahead
<1>7. Intents(s) = {} /\ ProposalFirst(s)
  BY <1>1 DEF Intents, ProposalFirst
<1>8. Watch(s, {})
  BY <1>1, <1>2, <1>7, Zenon DEF Watch, PhasesFollow, PrevotesBacked, TimersStand, ValidBacked, OwnProposals, DecisionQueued
<1>9. OwnCounted(s, {})
  BY <1>1, Zenon DEF OwnCounted
<1> QED BY <1>1, <1>5, <1>6, <1>8, <1>9, Zenon DEF Settled, Quiet, s

(* What a handler sent is the network's when it returns. *)
LEMMA ReturnSettled ==
  ASSUME NEW s \in RoundState, NEW M, Settled(s, M)
  PROVE  Settled([s EXCEPT !.out = {}], M \union s.out)
<1> DEFINE t == [s EXCEPT !.out = {}]
           O == M \union s.out
<1>1. /\ SameView(s, t) /\ SameLock(s, t) /\ SameRound(s, t) /\ SamePhase(s, t) /\ SameTimers(s, t)
      /\ t.work = s.work /\ t.local_root = s.local_root /\ t.committed = s.committed
      /\ t.decided = s.decided /\ t.out = {}
  BY Zenon DEF RoundState, SameView, SameLock, SameRound, SamePhase, SameTimers
<1> HIDE DEF t
<1>2. OwnCounted(t, O)
  BY <1>1, Zenon DEF Settled, OwnCounted, SameView
<1>3. ASSUME s.committed = None PROVE Quiet(t) /\ Watch(t, O)
  <2>1. Quiet(s) /\ Watch(s, M)
    BY <1>3, Zenon DEF Settled
  <2>2. Quiet(t)
    BY <1>1, <2>1, QuietStays, Zenon DEF SameTimers
  <2>3. Intents(t) = Intents(s) /\ \A k, r, v : Voted(t, O, k, r, v) <=> Voted(s, M, k, r, v)
    BY <1>1, Zenon DEF Intents, Voted
  <2>4. PhasesFollow(t) /\ TimersStand(t) /\ DecisionQueued(t)
    BY <1>1, <2>1, <2>3, Zenon DEF Watch, PhasesFollow, TimersStand, DecisionQueued, SamePhase, SameRound, SameTimers
  <2>5. PrevotesBacked(t, O)
    BY <1>1, <2>1, <2>3, Zenon DEF Watch, PrevotesBacked, SamePhase
  <2>6. ValidBacked(t)
    BY <1>1, <2>1, Zenon DEF Watch, ValidBacked, SameLock, Quorate, VotersFor, SameView
  <2>7. ProposalFirst(t)
    BY <1>1 DEF Settled, ProposalFirst
  <2>8. OwnProposals(t, O)
    BY <1>1, <2>1, Zenon DEF Watch, OwnProposals, SameView, SameRound
  <2> QED BY <2>2, <2>4, <2>5, <2>6, <2>7, <2>8, Zenon DEF Watch
<1>4. s.started_rounds # {} /\ Woken(s) => Woken(t)
  BY <1>1, Zenon DEF Woken, SameRound, SamePhase, SameTimers
<1> QED BY <1>1, <1>2, <1>3, <1>4, Zenon DEF Settled, SameRound, t

(* What the others send leaves a node settled. *)
LEMMA OthersSettled ==
  ASSUME NEW s, NEW M, Settled(s, M), NEW O, \A m \in O : m.from # s.local_root
  PROVE  Settled(s, M \union O)
<1>1. \A k, r, v : VoteMsg(k, s.local_root, r, v) \notin O
  BY Zenon DEF VoteMsg
<1>2. \A k, r, v : Voted(s, M \union O, k, r, v) <=> Voted(s, M, k, r, v)
  BY <1>1, Zenon DEF Voted
<1>3. OwnCounted(s, M \union O)
  BY Zenon DEF Settled, OwnCounted
<1>4. Watch(s, M) => Watch(s, M \union O)
  BY <1>2, Zenon DEF Watch, PrevotesBacked, OwnProposals
<1> QED BY <1>3, <1>4, Zenon DEF Settled

(* What a settled node waits for. *)
LEMMA SettledWaits ==
  ASSUME NEW s, NEW M, Live(s, M), Settled(s, M), s.out = {}
  PROVE  /\ s.work = << >> /\ pass(s) = s
         /\ s.step = Propose => <<Propose, s.round>> \in s.timers
         /\ s.step = Prevote /\ total_prevotes(s, s.round) >= quorum => <<Prevote, s.round>> \in s.timers
         /\ total_precommits(s, s.round) >= quorum => <<Precommit, s.round>> \in s.timers
<1>1. /\ Watched(s, M) /\ NoneDue(s) /\ DecidableRounds(s) = {} /\ Ahead(s) = {}
      /\ Woken(s) /\ ~s.decided /\ s.work = << >>
  BY SettledRuns, Zenon
<1>2. pass(s) = s
  BY <1>1, QuietIsFixed, Zenon DEF Quiet
<1>3. TimersStand(s)
  BY <1>1, Zenon DEF Watched, Watch
<1>4. s.step = Propose => <<Propose, s.round>> \in s.timers
  BY <1>1, Zenon DEF Woken
<1>5. s.step = Prevote /\ total_prevotes(s, s.round) >= quorum => <<Prevote, s.round>> \in s.timers
  BY <1>1, <1>3, Zenon DEF NoneDue, PrevoteTimerDue, TimersStand
<1>6. total_precommits(s, s.round) >= quorum => <<Precommit, s.round>> \in s.timers
  BY <1>1, <1>3, Zenon DEF NoneDue, PrecommitTimerDue, TimersStand
<1> QED BY <1>1, <1>2, <1>4, <1>5, <1>6, Zenon

-----------------------------------------------------------------------------
(* A handler counts at most one vote that is not the node's own: the one   *)
(* it was handed.                                                          *)
Hears(s, t, m) ==
  /\ t.local_root = s.local_root
  /\ \A k \in Kinds, r \in Rounds, v \in Validators : v # s.local_root =>
       \/ t.votes[k][r][v] = s.votes[k][r][v]
       \/ k = m.kind /\ r = m.round /\ v = m.from /\ t.votes[k][r][v] = m.id

(* A step that leaves the other roots' tallies alone hears nothing more. *)
LEMMA OthersHeard ==
  ASSUME NEW s, NEW h, NEW t, NEW m, SameOthers(h, t), Hears(s, h, m)
  PROVE  Hears(s, t, m)
BY DEF SameOthers, Hears

(* One handler of n, as the whole system sees it. *)
Turn(n, m) ==
  /\ Inv /\ Inv' /\ st[n].committed = None
  /\ \A o \in Honest : o # n => st'[o] = st[o]
  /\ Later(st[n], st'[n]) /\ Hears(st[n], st'[n], m)
  /\ msgs \subseteq msgs'
  /\ \A x \in msgs' \ msgs : x.from = n /\ (x.kind \in Kinds => x.round = st'[n].round)
  /\ Settled(st[n], msgs) /\ Settled(st'[n], msgs')

(* CastVotes of the states S and the messages M. *)
CastBy(S, M) ==
  {<<m.from, m.kind, m.round, m.id>> : m \in {x \in M : x.kind \in Kinds}}
  \union
  {c \in Faulty \X Kinds \X Rounds \X Ids : \E n \in Honest : S[n].votes[c[2]][c[3]][c[1]] = c[4]}

(* An honest root's vote is cast when its message is sent. *)
LEMMA HonestCast ==
  ASSUME NEW S, NEW M \in SUBSET HonestMsgs, NEW n \in Honest, NEW k \in Kinds, NEW r, NEW v
  PROVE  <<n, k, r, v>> \in CastBy(S, M) <=> VoteMsg(k, n, r, v) \in M
<1> DEFINE c == <<n, k, r, v>>
<1>1. c[1] = n /\ c[2] = k /\ c[3] = r /\ c[4] = v
  BY Zenon
<1>2. c \notin Faulty \X Kinds \X Rounds \X Ids
  <2> SUFFICES ASSUME c \in Faulty \X Kinds \X Rounds \X Ids PROVE FALSE
    BY Zenon
  <2>1. c[1] \in Faulty
    BY Zenon
  <2> QED BY <1>1, <2>1, Zenon DEF Honest
<1>3. ASSUME NEW m \in M, m.kind \in Kinds, c = <<m.from, m.kind, m.round, m.id>> PROVE VoteMsg(k, n, r, v) = m
  <2>1. m \in HonestVotes
    BY <1>3, Zenon DEF HonestMsgs, HonestProposals, Kinds
  <2>2. m = VoteMsg(m.kind, m.from, m.round, m.id)
    BY <2>1, Zenon DEF HonestVotes, VoteMsg
  <2>3. m.from = n /\ m.kind = k /\ m.round = r /\ m.id = v
    BY <1>3, Zenon
  <2> QED BY <2>2, <2>3, Zenon
<1>4. ASSUME VoteMsg(k, n, r, v) \in M PROVE c \in CastBy(S, M)
  <2> DEFINE m == VoteMsg(k, n, r, v)
  <2>1. m.kind = k /\ m.from = n /\ m.round = r /\ m.id = v
    BY Zenon DEF VoteMsg
  <2> HIDE DEF m
  <2>2. m \in {x \in M : x.kind \in Kinds}
    BY <1>4, <2>1, Zenon DEF m
  <2> QED BY <2>1, <2>2, Zenon DEF CastBy
<1> HIDE DEF c
<1>5. ASSUME c \in CastBy(S, M) PROVE VoteMsg(k, n, r, v) \in M
  <2>1. PICK m \in {x \in M : x.kind \in Kinds} : c = <<m.from, m.kind, m.round, m.id>>
    BY <1>2, <1>5, Zenon DEF CastBy
  <2> QED BY <1>3, <2>1, Zenon
<1> QED BY <1>4, <1>5, Zenon DEF c

(* A faulty root's vote is cast when an honest node has counted it. *)
LEMMA FaultyCast ==
  ASSUME NEW S, NEW M \in SUBSET HonestMsgs, NEW n \in Faulty, NEW k \in Kinds, NEW r \in Rounds, NEW v \in Ids
  PROVE  <<n, k, r, v>> \in CastBy(S, M) <=> \E h \in Honest : S[h].votes[k][r][n] = v
<1> DEFINE c == <<n, k, r, v>>
<1>1. c[1] = n /\ c[2] = k /\ c[3] = r /\ c[4] = v /\ c \in Faulty \X Kinds \X Rounds \X Ids
  BY Zenon
<1>2. ASSUME NEW m \in M, m.kind \in Kinds, c = <<m.from, m.kind, m.round, m.id>> PROVE FALSE
  <2>1. m \in HonestVotes
    BY <1>2, Zenon DEF HonestMsgs, HonestProposals, Kinds
  <2>2. m.from = n /\ m.from \in Honest
    BY <1>2, <2>1, Zenon DEF HonestVotes
  <2> QED BY <2>2, Zenon DEF Honest
<1> HIDE DEF c
<1>3. c \in CastBy(S, M) <=> \E h \in Honest : S[h].votes[c[2]][c[3]][c[1]] = c[4]
  BY <1>1, <1>2, Zenon DEF CastBy
<1> QED BY <1>1, <1>3, Zenon DEF c

(* A cast vote names a root, a phase, a round and an id. *)
LEMMA CastType ==
  ASSUME NEW S, NEW M \in SUBSET HonestMsgs, NEW c \in CastBy(S, M)
  PROVE  \E n \in Validators, k \in Kinds, r \in Rounds, v \in Ids : c = <<n, k, r, v>>
<1>1. CASE c \in Faulty \X Kinds \X Rounds \X Ids
  BY <1>1, RoundAssumption
<1>2. ASSUME NEW m \in M, m.kind \in Kinds, c = <<m.from, m.kind, m.round, m.id>>
      PROVE  \E n \in Validators, k \in Kinds, r \in Rounds, v \in Ids : c = <<n, k, r, v>>
  <2>1. m \in HonestVotes
    BY <1>2, Zenon DEF HonestMsgs, HonestProposals, Kinds
  <2>2. m.from \in Validators /\ m.round \in Rounds /\ m.id \in Ids
    BY <2>1, Zenon DEF HonestVotes, Honest
  <2> QED BY <1>2, <2>2, Zenon
<1> QED BY <1>1, <1>2, Zenon DEF CastBy

(* 2f+1 votes counted by one honest root are 2f+1 votes cast. *)
LEMMA QuorateCast ==
  ASSUME Arithmetic, NEW S, NEW M \in SUBSET HonestMsgs, NEW h \in Honest, Local(S[h], M), S[h].out = {},
         NEW k \in Kinds, NEW r \in Rounds, NEW v \in Ids, Quorate(S[h], k, r, v)
  PROVE  Cardinality({w \in Validators : <<w, k, r, v>> \in CastBy(S, M)}) >= quorum
<1> DEFINE A == VotersFor(S[h], k, r, v)
           B == {w \in Validators : <<w, k, r, v>> \in CastBy(S, M)}
<1>1. ASSUME NEW w \in A PROVE w \in B
  <2>1. w \in Validators /\ S[h].votes[k][r][w] = v /\ v # None
    BY RoundAssumption, Zenon DEF VotersFor
  <2>2. CASE w \in Honest
    <3>1. VoteMsg(k, w, r, v) \in M
      BY <2>1, <2>2, Zenon DEF Local, Counted
    <3> QED BY <2>1, <2>2, <3>1, HonestCast, Zenon
  <2>3. CASE w \in Faulty
    BY <2>1, <2>3, FaultyCast, Zenon
  <2> QED BY <2>1, <2>2, <2>3, Zenon DEF Honest
<1>2. A \in SUBSET Validators /\ B \in SUBSET Validators /\ A \subseteq B
  BY <1>1, VotersType, Zenon
<1> DEFINE a == Cardinality(A)  b == Cardinality(B)
<1>3. a \in Nat /\ b \in Nat /\ a <= b /\ a >= quorum /\ quorum \in Nat
  BY <1>2, Sizes, Zenon DEF Arithmetic, Quorate
<1> HIDE DEF a, b
<1>4. b >= quorum
  BY ONLY <1>3
<1> QED BY <1>4, Zenon DEF b

(* What one handler adds to the votes cast: its own, in the round it ends  *)
(* in, one for each phase, and at most the faulty one it counted.          *)
LEMMA TurnStates ==
  ASSUME NEW n \in Honest, NEW m, Turn(n, m)
  PROVE  /\ msgs \in SUBSET HonestMsgs /\ msgs' \in SUBSET HonestMsgs /\ msgs \subseteq msgs'
         /\ st \in [Honest -> RoundState] /\ st' \in [Honest -> RoundState]
         /\ \A o \in Honest : /\ st[o].local_root = o /\ st[o].out = {} /\ Local(st[o], msgs)
                              /\ st'[o].local_root = o /\ st'[o].out = {} /\ Local(st'[o], msgs')
         /\ Messages(msgs')
BY Zenon DEF Turn, Inv, Messages

(* No handler takes a cast vote back. *)
LEMMA CastGrows ==
  ASSUME NEW n \in Honest, NEW m, Turn(n, m)
  PROVE  CastBy(st, msgs) \subseteq CastBy(st', msgs')
<1>0. msgs \in SUBSET HonestMsgs /\ msgs' \in SUBSET HonestMsgs /\ msgs \subseteq msgs'
  BY TurnStates, Zenon
<1> SUFFICES ASSUME NEW c \in CastBy(st, msgs) PROVE c \in CastBy(st', msgs')
  BY Zenon
<1>1. PICK w \in Validators, k \in Kinds, r \in Rounds, v \in Ids : c = <<w, k, r, v>>
  BY <1>0, CastType
<1>2. CASE w \in Honest
  <2>1. VoteMsg(k, w, r, v) \in msgs'
    BY <1>0, <1>1, <1>2, HonestCast, Zenon
  <2> QED BY <1>0, <1>1, <1>2, <2>1, HonestCast, Zenon
<1>3. CASE w \in Faulty
  <2>1. \E h \in Honest : st[h].votes[k][r][w] = v
    BY <1>0, <1>1, <1>3, FaultyCast
  <2>2. PICK h \in Honest : st[h].votes[k][r][w] = v
    BY <2>1, Zenon
  <2>3. v # None
    BY RoundAssumption, Zenon
  <2>4. st'[h].votes[k][r][w] = v
    BY <2>2, <2>3, ZenonT(40) DEF Turn, Later
  <2> QED BY <1>0, <1>1, <1>3, <2>4, FaultyCast, Zenon
<1> QED BY <1>1, <1>2, <1>3, Zenon DEF Honest

(* A new honest vote is the handler's own, of the round it ends in, and    *)
(* the only one of its phase.                                              *)
LEMMA NewOwn ==
  ASSUME NEW n \in Honest, NEW m, Turn(n, m), NEW w \in Honest, NEW k \in Kinds, NEW r \in Rounds, NEW v \in Ids,
         <<w, k, r, v>> \in CastBy(st', msgs'), <<w, k, r, v>> \notin CastBy(st, msgs)
  PROVE  /\ w = n /\ r = st'[n].round
         /\ \A u \in Ids : <<n, k, r, u>> \notin CastBy(st, msgs)
         /\ \A u \in Ids : <<n, k, r, u>> \in CastBy(st', msgs') => u = v
<1> DEFINE x == VoteMsg(k, w, r, v)
<1>0. msgs \in SUBSET HonestMsgs /\ msgs' \in SUBSET HonestMsgs /\ msgs \subseteq msgs' /\ Messages(msgs')
  BY TurnStates, Zenon
<1>1. x \in msgs' /\ x \notin msgs
  BY <1>0, HonestCast, Zenon
<1>2. \A u : VoteMsg(k, w, r, u).kind = k /\ VoteMsg(k, w, r, u).from = w /\ VoteMsg(k, w, r, u).round = r /\ VoteMsg(k, w, r, u).id = u
  BY Zenon DEF VoteMsg
<1>3. w = n /\ r = st'[n].round
  <2>1. x.from = n /\ (x.kind \in Kinds => x.round = st'[n].round)
    BY <1>1, Zenon DEF Turn
  <2> QED BY <1>2, <2>1, Zenon
<1>4. \A u \in Ids : VoteMsg(k, w, r, u) \in msgs' => u = v
  <2> SUFFICES ASSUME NEW u \in Ids, VoteMsg(k, w, r, u) \in msgs' PROVE u = v
    BY Zenon
  <2> DEFINE y == VoteMsg(k, w, r, u)
  <2>1. x.kind \in Kinds /\ y.kind = x.kind /\ y.from = x.from /\ y.round = x.round /\ y.id = u /\ x.id = v
    BY <1>2, Zenon
  <2>2. y \in msgs' /\ x \in msgs'
    BY <1>1, Zenon
  <2> HIDE DEF x, y
  <2> QED BY <1>0, <2>1, <2>2, Zenon DEF Messages
<1>5. ASSUME NEW u \in Ids, <<n, k, r, u>> \in CastBy(st, msgs) PROVE FALSE
  <2>1. VoteMsg(k, w, r, u) \in msgs
    BY <1>0, <1>3, <1>5, HonestCast, Zenon
  <2>2. u = v
    BY <1>0, <1>4, <2>1, Zenon
  <2> QED BY <1>1, <2>1, <2>2, Zenon
<1>6. ASSUME NEW u \in Ids, <<n, k, r, u>> \in CastBy(st', msgs') PROVE u = v
  <2>1. VoteMsg(k, w, r, u) \in msgs'
    BY <1>0, <1>3, <1>6, HonestCast, Zenon
  <2> QED BY <1>4, <2>1, Zenon
<1> QED BY <1>3, <1>5, <1>6, Zenon

(* A new faulty vote is the one the handler was given. *)
LEMMA NewFaulty ==
  ASSUME NEW n \in Honest, NEW m, Turn(n, m), NEW w \in Faulty, NEW k \in Kinds, NEW r \in Rounds, NEW v \in Ids,
         <<w, k, r, v>> \in CastBy(st', msgs'), <<w, k, r, v>> \notin CastBy(st, msgs)
  PROVE  <<w, k, r, v>> = <<m.from, m.kind, m.round, m.id>>
<1>0. msgs \in SUBSET HonestMsgs /\ msgs' \in SUBSET HonestMsgs
  BY TurnStates, Zenon
<1>1. /\ \E h \in Honest : st'[h].votes[k][r][w] = v
      /\ ~ \E h \in Honest : st[h].votes[k][r][w] = v
  <2>1. <<w, k, r, v>> \in CastBy(st', msgs') <=> \E h \in Honest : st'[h].votes[k][r][w] = v
    BY <1>0, FaultyCast
  <2>2. <<w, k, r, v>> \in CastBy(st, msgs) <=> \E h \in Honest : st[h].votes[k][r][w] = v
    BY <1>0, FaultyCast, Zenon
  <2> QED BY <2>1, <2>2, Zenon
<1>2. PICK h \in Honest : st'[h].votes[k][r][w] = v /\ st[h].votes[k][r][w] # v
  BY <1>1, Zenon
<1>3. h = n
  BY <1>2, Zenon DEF Turn
<1>4. w # st[n].local_root /\ w \in Validators
  BY TurnStates, RoundAssumption, Zenon DEF Honest
<1> QED BY <1>2, <1>3, <1>4, Zenon DEF Turn, Hears

(* A handler that leaves its node as it was casts nothing. *)
LEMMA StillTurn ==
  ASSUME NEW n \in Honest, NEW m, Turn(n, m), st'[n] = st[n]
  PROVE  st' = st /\ CastBy(st', msgs') = CastBy(st, msgs)
<1>0. /\ msgs \in SUBSET HonestMsgs /\ msgs' \in SUBSET HonestMsgs /\ msgs \subseteq msgs'
      /\ st \in [Honest -> RoundState] /\ st' \in [Honest -> RoundState]
      /\ st[n].local_root = n /\ st[n].out = {} /\ Local(st[n], msgs)
  BY TurnStates, Zenon
<1>1. st' = st
  <2>1. \A o \in Honest : st'[o] = st[o]
    BY Zenon DEF Turn
  <2> QED BY <1>0, <2>1
<1>2. ASSUME NEW x \in msgs', x.kind \in Kinds PROVE x \in msgs
  <2> SUFFICES ASSUME x \notin msgs PROVE FALSE
    BY Zenon
  <2>1. x \in HonestVotes /\ x.from = n
    BY <1>0, <1>2, Zenon DEF Turn, HonestMsgs, HonestProposals, Kinds
  <2>2. x.round \in Rounds /\ x.id # None /\ x = VoteMsg(x.kind, x.from, x.round, x.id)
    BY <2>1, RoundAssumption, Zenon DEF HonestVotes, VoteMsg
  <2>3. st[n].votes[x.kind][x.round][n] = x.id
    BY <1>0, <1>2, <2>1, Zenon DEF Turn, Settled, OwnCounted
  <2>4. VoteMsg(x.kind, n, x.round, x.id) \in msgs
    BY <1>0, <1>2, <2>2, <2>3, Zenon DEF Local, Counted
  <2> QED BY <2>1, <2>2, <2>4, Zenon
<1>3. {x \in msgs' : x.kind \in Kinds} = {x \in msgs : x.kind \in Kinds}
  BY <1>0, <1>2, Zenon
<1> QED BY <1>1, <1>3, Zenon DEF CastBy

(* The guards of Voting. *)
LEMMA PrecommitHolds ==
  ASSUME NEW n \in Honest, NEW m, Turn(n, m), NEW r \in Rounds, NEW v \in Values,
         <<n, "precommit", r, v>> \in CastBy(st', msgs')
  PROVE  Quorate(st'[n], "prevote", r, v)
<1>1. /\ msgs' \in SUBSET HonestMsgs /\ Local(st'[n], msgs') /\ st'[n].local_root = n
      /\ "precommit" \in Kinds
  BY TurnStates, Zenon DEF Kinds
<1>2. VoteMsg("precommit", n, r, v) \in msgs'
  BY <1>1, HonestCast, Zenon
<1>3. Voted(st'[n], msgs', "precommit", r, v)
  BY <1>1, <1>2, Zenon DEF Voted
<1> QED BY <1>1, <1>3, Zenon DEF Local, Locks

(* A prevote against an earlier precommit has 2f+1 prevotes for it in      *)
(* between.                                                                *)
LEMMA PrevoteHolds ==
  ASSUME Narrow, NEW n \in Honest, NEW m, Turn(n, m), NEW r \in Rounds, NEW v \in Values,
         <<n, "prevote", r, v>> \in CastBy(st', msgs'), <<n, "prevote", r, v>> \notin CastBy(st, msgs),
         NEW r0 \in Rounds, NEW v0 \in Values, v0 # v, <<n, "precommit", r0, v0>> \in CastBy(st, msgs)
  PROVE  \E vr \in Rounds : r0 <= vr /\ vr < r /\ Quorate(st'[n], "prevote", vr, v)
<1>0. /\ msgs \in SUBSET HonestMsgs /\ msgs' \in SUBSET HonestMsgs /\ msgs \subseteq msgs'
      /\ st[n] \in RoundState /\ st'[n] \in RoundState
      /\ st[n].local_root = n /\ Local(st[n], msgs) /\ st[n].out = {}
      /\ st'[n].local_root = n /\ Local(st'[n], msgs')
  BY TurnStates, Zenon
<1>1. "prevote" \in Kinds /\ "precommit" \in Kinds /\ v \in Ids /\ v0 \in Ids
  BY Zenon DEF Kinds, Ids
<1>2. r = st'[n].round /\ \A u \in Ids : <<n, "prevote", r, u>> \notin CastBy(st, msgs)
  BY <1>1, NewOwn, Zenon
<1>3. VoteMsg("precommit", n, r0, v0) \in msgs /\ VoteMsg("prevote", n, r, v) \in msgs'
  BY <1>0, <1>1, HonestCast, Zenon
<1>4. Voted(st'[n], msgs', "precommit", r0, v0) /\ Voted(st'[n], msgs', "prevote", r, v)
  BY <1>0, <1>3, Zenon DEF Voted
<1>5. Voted(st[n], msgs, "precommit", r0, v0) /\ r0 \in st[n].precommitted_rounds
  BY <1>0, <1>1, <1>3, Zenon DEF Voted, Local, VotesOnce
<1>6. r0 # r
  <2> SUFFICES ASSUME r0 = r PROVE FALSE
    BY Zenon
  <2>1. Watch(st[n], msgs) /\ st[n].work = << >>
    BY Zenon DEF Turn, Settled
  <2>2. r \in st[n].prevoted_rounds
    BY <1>5, <2>1, Zenon DEF Watch, PhasesFollow
  <2>3. PICK u \in Ids : Voted(st[n], msgs, "prevote", r, u)
    BY <2>1, <2>2, Zenon DEF Watch, PrevotesBacked
  <2>4. Intents(st[n]) = {}
    BY <2>1 DEF Intents
  <2>5. VoteMsg("prevote", n, r, u) \in msgs
    BY <1>0, <2>3, <2>4, Zenon DEF Voted
  <2> QED BY <1>0, <1>1, <1>2, <2>5, HonestCast, Zenon
<1>7. r0 < r
  <2>1. r0 <= st[n].round
    BY <1>0, <1>5, Zenon DEF Local, Rounded
  <2>2. st[n].round <= st'[n].round
    BY Zenon DEF Turn, Later
  <2>3. r0 \in Int /\ r \in Int /\ st[n].round \in Int
    BY <1>0, Numbers, RoundsAreInts, Zenon
  <2> QED BY ONLY <1>2, <1>6, <2>1, <2>2, <2>3
<1> QED BY Narrow, <1>0, <1>4, <1>7, Zenon DEF Local, Unlocks

(* v is the vote of phase k that n casts in this handler, None if none. *)
Picked(n, k, v) ==
  LET New(u) == <<n, k, st'[n].round, u>> \in CastBy(st', msgs') \ CastBy(st, msgs)
  IN  IF v = None THEN \A u \in Ids : ~New(u) ELSE v \in Ids /\ New(v)

(* The votes after a handler are those before it, at most one of each      *)
(* phase, and the faulty one it heard.                                     *)
LEMMA TurnCasts ==
  ASSUME NEW n \in Honest, NEW m, Turn(n, m), NEW pv, NEW pc, Picked(n, "prevote", pv), Picked(n, "precommit", pc)
  PROVE  CastBy(st', msgs') =
           CastBy(st, msgs) \union V!Cast(n, "prevote", st'[n].round, pv)
             \union V!Cast(n, "precommit", st'[n].round, pc)
             \union {t \in CastBy(st', msgs') \ CastBy(st, msgs) : t[1] \in Faulty}
<1> DEFINE A == CastBy(st, msgs)
           B == CastBy(st', msgs')
           r == st'[n].round
           F == {t \in B \ A : t[1] \in Faulty}
<1>1. A \subseteq B
  BY CastGrows, Zenon
<1>2. msgs' \in SUBSET HonestMsgs
  BY TurnStates, Zenon
<1>3. /\ pv # None => pv \in Ids /\ <<n, "prevote", r, pv>> \in B \ A
      /\ pc # None => pc \in Ids /\ <<n, "precommit", r, pc>> \in B \ A
      /\ pv = None => \A u \in Ids : <<n, "prevote", r, u>> \notin B \ A
      /\ pc = None => \A u \in Ids : <<n, "precommit", r, u>> \notin B \ A
  BY Zenon DEF Picked
<1>4. ASSUME NEW c \in B, c \notin A
      PROVE  c \in V!Cast(n, "prevote", r, pv) \/ c \in V!Cast(n, "precommit", r, pc) \/ c \in F
  <2>1. PICK w \in Validators, k \in Kinds, q \in Rounds, v \in Ids : c = <<w, k, q, v>>
    BY <1>2, CastType
  <2>2. CASE w \in Faulty
    <3>1. c[1] = w
      BY <2>1, Zenon
    <3> QED BY <1>4, <2>2, <3>1, Zenon
  <2>3. CASE w \in Honest
    <3>1. /\ w = n /\ q = r
          /\ \A u \in Ids : <<n, k, q, u>> \in B => u = v
      BY <1>4, <2>1, <2>3, NewOwn, Zenon
    <3>2. CASE k = "prevote"
      <4>1. pv # None
        BY <1>3, <1>4, <2>1, <3>1, <3>2, Zenon
      <4>2. pv = v
        BY <1>3, <3>1, <3>2, <4>1, Zenon
      <4> QED BY <2>1, <3>1, <3>2, <4>1, <4>2, Zenon DEF V!Cast
    <3>3. CASE k = "precommit"
      <4>1. pc # None
        BY <1>3, <1>4, <2>1, <3>1, <3>3, Zenon
      <4>2. pc = v
        BY <1>3, <3>1, <3>3, <4>1, Zenon
      <4> QED BY <2>1, <3>1, <3>3, <4>1, <4>2, Zenon DEF V!Cast
    <3> QED BY <3>2, <3>3, Zenon DEF Kinds
  <2> QED BY <2>2, <2>3, Zenon DEF Honest
<1>5. V!Cast(n, "prevote", r, pv) \subseteq B /\ V!Cast(n, "precommit", r, pc) \subseteq B
  BY <1>3, Zenon DEF V!Cast
<1> HIDE DEF A, B, r
<1>6. B = A \union V!Cast(n, "prevote", r, pv) \union V!Cast(n, "precommit", r, pc) \union F
  BY <1>1, <1>4, <1>5, Zenon
<1> QED BY <1>6, Zenon DEF A, B, r

(* Voting counts with the Cardinality it extends, Round with its own: the  *)
(* two definitions are the same.                                           *)
LEMMA SameCardinality == \A S : V!Cardinality(S) = Cardinality(S)
BY Zenon DEF V!Cardinality, Cardinality

(* A quorum of tallied votes, `quorum_threshold` of them, is a certificate *)
(* in the votes cast so far.                                               *)
LEMMA QuorateCertified ==
  ASSUME Arithmetic, NEW n \in Honest, NEW m, Turn(n, m), NEW k \in Kinds, NEW q \in Rounds, NEW w \in Ids,
         Quorate(st'[n], k, q, w)
  PROVE  V!Certified(k, q, w)'
<1> DEFINE P == {x \in Validators : <<x, k, q, w>> \in CastVotes'}
<1>1. /\ msgs' \in SUBSET HonestMsgs /\ Local(st'[n], msgs') /\ st'[n].out = {}
  BY TurnStates, Zenon
<1>2. Cardinality({x \in Validators : <<x, k, q, w>> \in CastBy(st', msgs')}) >= quorum
  BY <1>1, QuorateCast
<1>3. CastVotes' = CastBy(st', msgs')
  BY Zenon DEF CastVotes, CastBy
<1>4. Cardinality(P) >= quorum
  BY <1>2, <1>3, Zenon
<1>5. quorum = (2 * Cardinality(Validators)) \div 3 + 1
  BY Zenon DEF Arithmetic, quorum
<1>6. V!Cardinality(P) >= (2 * V!Cardinality(Validators)) \div 3 + 1
  BY <1>4, <1>5, SameCardinality, Zenon
<1> QED BY <1>6, Zenon DEF V!Certified, V!Voters, V!quorum_threshold

(* Voting allows each vote a handler casts. *)
LEMMA TurnAllowed ==
  ASSUME Arithmetic, Narrow, NEW n \in Honest, NEW m, Turn(n, m), NEW v \in Ids, NEW r, r = st'[n].round
  PROVE  /\ Picked(n, "prevote", v) => V!PrevoteAllowed(n, r, v)
         /\ Picked(n, "precommit", v) => V!PrecommitAllowed(n, r, v)
<1> DEFINE A == CastBy(st, msgs)
           B == CastBy(st', msgs')
<1>0. /\ CastVotes = A /\ CastVotes' = B /\ r \in Rounds /\ v # None
      /\ "prevote" \in Kinds /\ "precommit" \in Kinds /\ V!Ids = Ids
  <2>1. CastVotes = A /\ CastVotes' = B
    BY Zenon DEF CastVotes, CastBy
  <2>2. r \in Rounds
    BY TurnStates, Zenon DEF RoundState
  <2> QED BY <2>1, <2>2, RoundAssumption, Zenon DEF Kinds, V!Ids, Ids
<1>1. ASSUME NEW q \in Rounds, NEW w \in Values, Quorate(st'[n], "prevote", q, w)
      PROVE  V!Certified("prevote", q, w)'
  BY <1>0, <1>1, QuorateCertified, Zenon DEF Ids
<1>2. \A k \in Kinds : Picked(n, k, v) => <<n, k, r, v>> \in B /\ <<n, k, r, v>> \notin A
  BY <1>0, Zenon DEF Picked
<1>3. \A k \in Kinds : Picked(n, k, v) => ~V!HasVoted(n, k, r)
  <2> SUFFICES ASSUME NEW k \in Kinds, Picked(n, k, v), NEW u \in Ids, <<n, k, r, u>> \in A PROVE FALSE
    BY <1>0, Zenon DEF V!HasVoted
  <2>1. <<n, k, r, v>> \in B /\ <<n, k, r, v>> \notin A
    BY <1>2, Zenon
  <2>2. \A x \in Ids : <<n, k, r, x>> \notin A
    BY <1>0, <2>1, NewOwn
  <2> QED BY <2>2, Zenon
<1>4. ASSUME Picked(n, "prevote", v) PROVE V!PrevoteAllowed(n, r, v)
  <2>1. <<n, "prevote", r, v>> \in B /\ <<n, "prevote", r, v>> \notin A
    BY <1>0, <1>2, <1>4, Zenon
  <2>2. ASSUME v \in Values, NEW r0 \in Rounds, NEW v0 \in Values \ {v}, <<n, "precommit", r0, v0>> \in A
        PROVE  \E vr \in Rounds : r0 <= vr /\ vr < r /\ V!Certified("prevote", vr, v)'
    <3>1. PICK vr \in Rounds : r0 <= vr /\ vr < r /\ Quorate(st'[n], "prevote", vr, v)
      BY <1>0, <2>1, <2>2, PrevoteHolds, Zenon
    <3> QED BY <1>1, <2>2, <3>1, Zenon
  <2> QED BY <1>0, <1>3, <1>4, <2>2, Zenon DEF V!PrevoteAllowed
<1>5. ASSUME Picked(n, "precommit", v) PROVE V!PrecommitAllowed(n, r, v)
  <2>1. <<n, "precommit", r, v>> \in B
    BY <1>0, <1>2, <1>5, Zenon
  <2>2. ASSUME v \in Values PROVE V!Certified("prevote", r, v)'
    <3>1. Quorate(st'[n], "prevote", r, v)
      BY <1>0, <2>1, <2>2, PrecommitHolds, Zenon
    <3> QED BY <1>0, <1>1, <2>2, <3>1, Zenon
  <2> QED BY <1>0, <1>3, <1>5, <2>2, Zenon DEF V!PrecommitAllowed
<1> QED BY <1>4, <1>5, Zenon

(* A decision of Voting is one that 2f+1 cast precommits carry. *)
LEMMA TurnDecides ==
  ASSUME Arithmetic, NEW n \in Honest, NEW m, Turn(n, m), NEW d \in Values,
         st'[n].committed # None, st'[n].committed.id = d
  PROVE  V!DecideAllowed(d)
<1> DEFINE c == st'[n].committed
           W == VotersFor(st'[n], "precommit", c.round, d)
<1>1. st'[n] \in RoundState /\ Certifies(st'[n], c)
  BY TurnStates, Zenon DEF Local, DecisionsCertified
<1>2. c \in Certificates
  BY <1>1, Zenon DEF RoundState
<1>3. c.round \in Rounds /\ "precommit" \in Kinds /\ d \in Ids
  BY <1>2, Zenon DEF Certificates, Kinds, Ids
<1>4. c.signers \in SUBSET W /\ W \in SUBSET Validators
  BY <1>1, VotersType, Zenon DEF Certifies
<1> DEFINE a == Cardinality(c.signers)  b == Cardinality(W)
<1>5. a \in Nat /\ b \in Nat /\ a <= b /\ a >= quorum /\ quorum \in Nat
  BY <1>1, <1>4, Sizes, Zenon DEF Arithmetic, Certifies
<1> HIDE DEF a, b
<1>6. b >= quorum
  BY ONLY <1>5
<1>7. Quorate(st'[n], "precommit", c.round, d)
  BY <1>6, Zenon DEF Quorate, b
<1>8. PICK q \in Rounds : Quorate(st'[n], "precommit", q, d)
  BY <1>3, <1>7, Zenon
<1>9. V!Certified("precommit", q, d)'
  BY <1>3, <1>8, QuorateCertified, Zenon
<1> QED BY <1>9, Zenon DEF V!DecideAllowed

(* The one vote of a faulty root that a handler may count first. *)
LEMMA TurnHears ==
  ASSUME Arithmetic, NEW n \in Honest, NEW m, Turn(n, m)
  PROVE  Cardinality({t \in CastBy(st', msgs') \ CastBy(st, msgs) : t[1] \in Faulty}) <= 1
<1> DEFINE F == {t \in CastBy(st', msgs') \ CastBy(st, msgs) : t[1] \in Faulty}
           x == <<m.from, m.kind, m.round, m.id>>
<1>0. msgs' \in SUBSET HonestMsgs
  BY TurnStates, Zenon
<1>1. ASSUME NEW t \in F PROVE t = x
  <2>1. PICK w \in Validators, k \in Kinds, r \in Rounds, v \in Ids : t = <<w, k, r, v>>
    BY <1>0, CastType
  <2>2. t[1] = w
    BY <2>1, Zenon
  <2> QED BY <2>1, <2>2, NewFaulty, Zenon
<1>2. F \subseteq {x}
  BY <1>1, Zenon
<1> HIDE DEF F, x
<1>3. Cardinality(F) <= 1
  BY <1>2, Zenon DEF Arithmetic
<1> QED BY <1>3, Zenon DEF F

(* What the handler leaves in the round and the decision of each root. *)
LEMMA TurnMoves ==
  ASSUME NEW n \in Honest, NEW m, Turn(n, m), NEW r, r = st'[n].round
  PROVE  /\ [o \in Honest |-> st'[o].round] = [[o \in Honest |-> st[o].round] EXCEPT ![n] = r]
         /\ r >= st[n].round
<1>1. \A o \in Honest : o # n => st'[o] = st[o]
  BY Zenon DEF Turn
<1>2. st[n].round <= r /\ st[n] \in RoundState /\ st'[n] \in RoundState
  BY TurnStates, Zenon DEF Turn, Later
<1>3. st[n].round \in Int /\ r \in Int
  BY <1>2, Numbers, RoundsAreInts, Zenon
<1> DEFINE q == st[n].round
<1>4. q <= r /\ q \in Int
  BY <1>2, <1>3, Zenon
<1> HIDE DEF q
<1>5. r >= q
  BY ONLY <1>3, <1>4
<1>6. [o \in Honest |-> st'[o].round] = [[o \in Honest |-> st[o].round] EXCEPT ![n] = r]
  BY <1>1, Zenon
<1> QED BY <1>5, <1>6, Zenon DEF q

Chosen(s) == IF s.committed = None THEN None ELSE s.committed.id

(* A handler changes no decision but its own node's, which was not taken   *)
(* before.                                                                 *)
LEMMA TurnChooses ==
  ASSUME NEW n \in Honest, NEW m, Turn(n, m), NEW d, d = Chosen(st'[n])
  PROVE  /\ [o \in Honest |-> Chosen(st'[o])] = [[o \in Honest |-> Chosen(st[o])] EXCEPT ![n] = d]
         /\ Chosen(st[n]) = None
<1>1. \A o \in Honest : o # n => st'[o] = st[o]
  BY Zenon DEF Turn
<1>2. Chosen(st[n]) = None
  BY Zenon DEF Turn, Chosen
<1>3. [o \in Honest |-> Chosen(st'[o])] = [[o \in Honest |-> Chosen(st[o])] EXCEPT ![n] = d]
  BY <1>1, Zenon
<1> QED BY <1>2, <1>3, Zenon

(* A handler keeps to the discipline of Voting. *)
LEMMA TurnSteps ==
  ASSUME Arithmetic, Narrow, NEW n \in Honest, NEW m, Turn(n, m), NEW r, r = st'[n].round,
         NEW pv, NEW pc, Picked(n, "prevote", pv), Picked(n, "precommit", pc),
         NEW d, d = Chosen(st'[n]),
         NEW F, F = {t \in CastVotes' \ CastVotes : t[1] \in Faulty}
  PROVE  V!Step(n, r, pv, pc, d, F)
<1>0. CastVotes = CastBy(st, msgs) /\ CastVotes' = CastBy(st', msgs')
  BY Zenon DEF CastVotes, CastBy
<1>1. CastVotes' = CastVotes \union V!Cast(n, "prevote", r, pv) \union V!Cast(n, "precommit", r, pc) \union F
  BY <1>0, TurnCasts, Zenon
<1>2. /\ [o \in Honest |-> st'[o].round] = [[o \in Honest |-> st[o].round] EXCEPT ![n] = r]
      /\ [o \in Honest |-> st[o].round][n] = st[n].round /\ r >= st[n].round
  BY TurnMoves, Zenon
<1>3. /\ [o \in Honest |-> Chosen(st'[o])] = [[o \in Honest |-> Chosen(st[o])] EXCEPT ![n] = d]
      /\ [o \in Honest |-> Chosen(st[o])][n] = None
  BY TurnChooses, Zenon
<1>4. pv # None => V!PrevoteAllowed(n, r, pv)
  <2> SUFFICES ASSUME pv # None PROVE V!PrevoteAllowed(n, r, pv)
    BY Zenon
  <2>1. pv \in Ids
    BY Zenon DEF Picked
  <2> QED BY <2>1, TurnAllowed, Zenon
<1>5. pc # None => V!PrecommitAllowed(n, r, pc)
  <2> SUFFICES ASSUME pc # None PROVE V!PrecommitAllowed(n, r, pc)
    BY Zenon
  <2>1. pc \in Ids
    BY Zenon DEF Picked
  <2> QED BY <2>1, TurnAllowed, Zenon
<1>6. d # None => V!DecideAllowed(d)
  <2> SUFFICES ASSUME d # None PROVE V!DecideAllowed(d)
    BY Zenon
  <2>1. st'[n].committed # None /\ st'[n].committed.id = d
    BY Zenon DEF Chosen
  <2>2. Certifies(st'[n], st'[n].committed)
    BY <2>1, TurnStates, Zenon DEF Local, DecisionsCertified
  <2>3. d \in Values
    BY <2>1, <2>2, RoundAssumption, Zenon DEF Certifies
  <2> QED BY <2>1, <2>3, TurnDecides, Zenon
<1> QED BY <1>1, <1>2, <1>3, <1>4, <1>5, <1>6, Zenon DEF V!Step, Chosen

(* A handler is a step of Voting, or leaves everything Voting sees alone.  *)
LEMMA TurnVotes ==
  ASSUME Arithmetic, Narrow, NEW n \in Honest, NEW m, Turn(n, m)
  PROVE  VotingStep(n) \/ UNCHANGED V!vars
<1>0. CastVotes = CastBy(st, msgs) /\ CastVotes' = CastBy(st', msgs')
  BY Zenon DEF CastVotes, CastBy
<1>1. CASE st'[n] = st[n]
  <2>1. st' = st /\ CastVotes' = CastVotes
    BY <1>0, <1>1, StillTurn, Zenon
  <2> QED BY <2>1, Zenon DEF V!vars
<1>2. CASE st'[n] # st[n]
  <2> DEFINE new == CastVotes' \ CastVotes
             Own(k) == {v \in Ids : <<n, k, st'[n].round, v>> \in new}
             OrNone(S) == IF S = {} THEN {None} ELSE S
             chosen == {d \in Values : st'[n].committed # None /\ st'[n].committed.id = d}
  <2>1. PICK r \in {st'[n].round} : TRUE
    BY Zenon
  <2>2. PICK pv \in OrNone(Own("prevote")) : TRUE
    BY Zenon
  <2>3. PICK pc \in OrNone(Own("precommit")) : TRUE
    BY Zenon
  <2>4. PICK F \in {{t \in new : t[1] \in Faulty}} : TRUE
    BY Zenon
  <2>5. PICK d \in OrNone(chosen) : TRUE
    BY Zenon
  <2>6. Picked(n, "prevote", pv) /\ Picked(n, "precommit", pc)
    BY <1>0, <2>2, <2>3, RoundAssumption, Zenon DEF Picked
  <2>7. d = Chosen(st'[n])
    <3>1. st'[n].committed # None => st'[n].committed.id \in Values
      <4> SUFFICES ASSUME st'[n].committed # None PROVE st'[n].committed.id \in Values
        BY Zenon
      <4>1. Certifies(st'[n], st'[n].committed)
        BY TurnStates, Zenon DEF Local, DecisionsCertified
      <4> QED BY <4>1, RoundAssumption, Zenon DEF Certifies
    <3> QED BY <2>5, <3>1, Zenon DEF Chosen
  <2>8. Cardinality(F) <= 1
    BY <1>0, <2>4, TurnHears, Zenon
  <2>9. V!Step(n, r, pv, pc, d, F)
    BY <2>1, <2>4, <2>6, <2>7, TurnSteps, Zenon
  <2> QED BY <1>2, <2>1, <2>2, <2>3, <2>4, <2>5, <2>8, <2>9, ZenonT(40) DEF VotingStep
<1> QED BY <1>1, <1>2, Zenon
=============================================================================
