-------------------------------- MODULE Round --------------------------------
(***************************************************************************)
(* One consensus height of mini-consensus: the Tendermint driver `Round`   *)
(* (round.rs) of every validator, run by `ConsensusNode` (node.rs), over a *)
(* network that delivers any message to anyone, at any time, any number of *)
(* times or never.                                                         *)
(*                                                                         *)
(* A handler (start, on_message, on_timeout) is one action.  It applies    *)
(* the input, lets `evaluate` fire the `upon` rules to a fixed point, and  *)
(* lets `drive` sign what they ask for and feed the node's own votes back. *)
(* The rules and helpers below carry their source's names and act on one   *)
(* validator's state record s.                                             *)
(***************************************************************************)
EXTENDS Integers, FiniteSets, Sequences

CONSTANTS
  N,            \* number of roots in the ValidatorSet
  Height,       \* the height being decided
  MaxRound,     \* bound on the rounds explored
  U32,          \* 2^w, the width of a round number on the wire
  Faulty,       \* roots whose messages obey no rule
  Values,       \* block hashes
  ValidValues,  \* those whose block the local chain can reproduce
  Fresh,        \* what the body source of a round's proposer builds
  FaultyMsgs,   \* what faulty roots may send, in their own name or another's
  NIL, None

Validators == 0 .. N - 1
Honest     == Validators \ Faulty
Rounds     == 0 .. MaxRound
Ids        == Values \union {NIL}
Kinds      == {"prevote", "precommit"}

Propose   == 0
Prevote   == 1
Precommit == 2

(* The messages.  `authentic` is the outcome of verify_vote or             *)
(* verify_proposal on the signature and the KELs: a message that merely    *)
(* claims to come from a root has it FALSE.                                *)
VoteMsg(k, n, r, v) ==
  [kind |-> k, from |-> n, round |-> r, id |-> v, authentic |-> TRUE]
ProposalMsg(n, r, v, vr) ==
  [kind |-> "proposal", from |-> n, round |-> r, id |-> v,
   valid_round |-> vr, authentic |-> TRUE]

ASSUME RoundAssumption ==
  /\ N \in Nat \ {0} /\ Height \in Nat /\ MaxRound \in Nat
  /\ U32 \in Nat /\ U32 > MaxRound
  /\ Faulty \subseteq Validators
  /\ ValidValues \subseteq Values
  /\ Fresh \in [Rounds -> ValidValues]
  /\ NIL \notin Values /\ None \notin Ids

ASSUME FaultyMsgsAssumption ==
  \A m \in FaultyMsgs :
    /\ m.authentic => m.from \in Faulty
    /\ m.from \in Validators /\ m.round \in Rounds
    /\ \/ m.kind \in Kinds /\ m.id \in Ids
       \/ m.kind = "proposal" /\ m.id \in Values /\ m.valid_round \in Int

(* A proposal as received, and what commit hands over. *)
Proposals    == [id : Values, valid_round : Int, valid : BOOLEAN]
Certificates == [round : Rounds, id : Values, signers : SUBSET Validators]

(* None stands for nothing else. *)
ASSUME NoneAssumption == None \notin Proposals /\ None \notin Certificates

VARIABLES
  st,           \* each honest validator's Round and node state
  msgs          \* every message an honest validator has sent

vars == <<st, msgs>>

-----------------------------------------------------------------------------
quorum   == (2 * N) \div 3 + 1
f_plus_1 == N - quorum + 1

proposer_for(r) == (Height + r) % N

(* Round::new, with the node's values, armed timers and outbox. *)
NewRound(n) ==
  [local_root |-> n, round |-> 0, step |-> Propose,
   locked_value |-> None, locked_round |-> -1,
   valid_value |-> None, valid_round |-> -1, decided |-> FALSE,
   proposals |-> [r \in Rounds |-> None],
   votes |-> [k \in Kinds |-> [r \in Rounds |-> [v \in Validators |-> None]]],
   prevoted_rounds |-> {}, precommitted_rounds |-> {},
   prevote_timeout_armed |-> {}, precommit_timeout_armed |-> {},
   prevote_quorum_seen |-> {}, started_rounds |-> {},
   work |-> <<>>, values |-> {}, timers |-> {}, out |-> {},
   evidence |-> {}, stalled |-> FALSE, committed |-> None]

VotersFor(s, k, r, v) == {n \in Validators : s.votes[k][r][n] = v}
prevote_count(s, r, v)   == Cardinality(VotersFor(s, "prevote", r, v))
precommit_count(s, r, v) == Cardinality(VotersFor(s, "precommit", r, v))

VotersAt(s, k, r) == {n \in Validators : s.votes[k][r][n] # None}
total_prevotes(s, r)   == Cardinality(VotersAt(s, "prevote", r))
total_precommits(s, r) == Cardinality(VotersAt(s, "precommit", r))

(* The roots heard from at r in either phase. *)
participants(s, r) == VotersAt(s, "prevote", r) \union VotersAt(s, "precommit", r)

(* actions.push(action): what drive will do next, in order. *)
Push(s, action) == [s EXCEPT !.work = Append(@, action)]
ScheduleTimeout(s, step, r) == [s EXCEPT !.timers = @ \union {<<step, r>>}]

StepMax(a, b) == IF a < b THEN b ELSE a

prevote(s, r, target) ==
  Push([s EXCEPT !.prevoted_rounds = @ \union {r},
                 !.step = IF r = s.round THEN StepMax(@, Prevote) ELSE @],
       [act |-> "prevote", round |-> r, id |-> target])

precommit(s, r, target) ==
  Push([s EXCEPT !.precommitted_rounds = @ \union {r},
                 !.step = IF r = s.round THEN StepMax(@, Precommit) ELSE @],
       [act |-> "precommit", round |-> r, id |-> target])

enter_round_core(s, r) ==
  LET entered == [s EXCEPT !.started_rounds = @ \union {r}, !.timers = {},
                           !.round = r, !.step = Propose]
  IN  IF s.decided \/ r \in s.started_rounds THEN s
      ELSE IF proposer_for(r) = s.local_root
           THEN Push(entered, [act |-> "propose", round |-> r,
                               reuse |-> s.valid_value,
                               valid_round |-> IF s.valid_value = None
                                               THEN -1 ELSE s.valid_round])
           ELSE ScheduleTimeout(entered, Propose, r)

-----------------------------------------------------------------------------
(* The `upon` rules, in the order evaluate tries them. *)

rule_propose_fresh(s) ==
  LET p == s.proposals[s.round]
      free == s.locked_round = -1 \/ s.locked_value = p.id
  IN  IF /\ s.step = Propose
         /\ s.round \notin s.prevoted_rounds
         /\ p # None
         /\ p.valid_round = -1
      THEN prevote(s, s.round, IF p.valid /\ free THEN p.id ELSE NIL)
      ELSE s

(* valid_round is an i64; `vr as u32` drops what does not fit the width.   *)
AsU32(vr) == vr % U32

polc_ignores_lock(s, p) == TRUE

(* Whether the lock lets a proposal carrying valid_round vr through. *)
polc_unlocks(s, p) == s.locked_round <= p.valid_round \/ s.locked_value = p.id

rule_propose_polc(s) ==
  LET p == s.proposals[s.round]
  IN  IF /\ s.step = Propose
         /\ s.round \notin s.prevoted_rounds
         /\ p # None
         /\ p.valid_round >= 0
         /\ AsU32(p.valid_round) < s.round
         /\ prevote_count(s, AsU32(p.valid_round), p.id) >= quorum
      THEN prevote(s, s.round, IF p.valid /\ polc_unlocks(s, p) THEN p.id ELSE NIL)
      ELSE s

prevote_timeout_on_nil(s) ==
  IF /\ s.step = Prevote
     /\ s.round \notin s.prevote_timeout_armed
     /\ prevote_count(s, s.round, NIL) >= quorum
  THEN ScheduleTimeout([s EXCEPT !.prevote_timeout_armed = @ \union {s.round}],
                       Prevote, s.round)
  ELSE s

prevote_timeout_on_everyone(s) ==
  IF /\ s.step = Prevote
     /\ s.round \notin s.prevote_timeout_armed
     /\ total_prevotes(s, s.round) = N
  THEN ScheduleTimeout([s EXCEPT !.prevote_timeout_armed = @ \union {s.round}],
                       Prevote, s.round)
  ELSE s

rule_prevote_timeout(s) ==
  IF /\ s.step = Prevote
     /\ s.round \notin s.prevote_timeout_armed
     /\ total_prevotes(s, s.round) >= quorum
  THEN ScheduleTimeout([s EXCEPT !.prevote_timeout_armed = @ \union {s.round}],
                       Prevote, s.round)
  ELSE s

prevote_quorum_keeps_valid(s) ==
  LET p == s.proposals[s.round]
      seen == [s EXCEPT !.prevote_quorum_seen = @ \union {s.round}]
  IN  IF /\ s.step >= Prevote
         /\ s.round \notin s.prevote_quorum_seen
         /\ p # None
         /\ p.valid
         /\ prevote_count(s, s.round, p.id) >= quorum
      THEN IF s.step = Prevote /\ s.round \notin s.precommitted_rounds
           THEN precommit([seen EXCEPT !.locked_value = p.id,
                                       !.locked_round = s.round],
                          s.round, p.id)
           ELSE seen
      ELSE s

rule_prevote_quorum(s) ==
  LET p == s.proposals[s.round]
      seen == [s EXCEPT !.prevote_quorum_seen = @ \union {s.round},
                        !.valid_value = p.id, !.valid_round = s.round]
  IN  IF /\ s.step >= Prevote
         /\ s.round \notin s.prevote_quorum_seen
         /\ p # None
         /\ p.valid
         /\ prevote_count(s, s.round, p.id) >= quorum
      THEN IF s.step = Prevote /\ s.round \notin s.precommitted_rounds
           THEN precommit([seen EXCEPT !.locked_value = p.id,
                                       !.locked_round = s.round],
                          s.round, p.id)
           ELSE seen
      ELSE s

rule_prevote_nil(s) ==
  IF /\ s.step = Prevote
     /\ s.round \notin s.precommitted_rounds
     /\ prevote_count(s, s.round, NIL) >= quorum
  THEN precommit(s, s.round, NIL)
  ELSE s

rule_precommit_timeout(s) ==
  IF /\ s.round \notin s.precommit_timeout_armed
     /\ total_precommits(s, s.round) >= quorum
  THEN ScheduleTimeout([s EXCEPT !.precommit_timeout_armed = @ \union {s.round}],
                       Precommit, s.round)
  ELSE s

DecidableOnAnyPrecommits(s) ==
  {r \in Rounds : /\ s.proposals[r] # None
                  /\ s.proposals[r].valid
                  /\ total_precommits(s, r) >= quorum}

(* The rounds, past ones included, in which the proposal is certified. *)
DecidableRounds(s) ==
  {r \in Rounds : /\ s.proposals[r] # None
                  /\ s.proposals[r].valid
                  /\ precommit_count(s, r, s.proposals[r].id) >= quorum}

rule_decide(s) ==
  IF DecidableRounds(s) = {} THEN s
  ELSE LET r  == CHOOSE q \in DecidableRounds(s) : TRUE
           id == s.proposals[r].id
       IN  Push([s EXCEPT !.decided = TRUE],
                [act |-> "decided", round |-> r, id |-> id,
                 signers |-> VotersFor(s, "precommit", r, id)])

rule_skip_round(s) ==
  LET ahead == {r \in Rounds : r > s.round /\ Cardinality(participants(s, r)) >= f_plus_1}
  IN  IF ahead = {} THEN s
      ELSE enter_round_core(s, CHOOSE r \in ahead : \A q \in ahead : r <= q)

(* One turn of the loop in evaluate. *)
pass(s) ==
  IF s.decided THEN s
  ELSE rule_skip_round(rule_decide(rule_precommit_timeout(rule_prevote_nil(
         rule_prevote_quorum(rule_prevote_timeout(rule_propose_polc(
           rule_propose_fresh(s))))))))

evaluate_once(s) == pass(s)

(* A handler enters one round at most, so the loop is at its fixed point   *)
(* after two turns; RunsToCompletion checks it.                            *)
evaluate(s) == pass(pass(s))

-----------------------------------------------------------------------------
(* The inputs of Round. *)

on_proposal(s, r, id, vr, valid) ==
  evaluate(IF s.proposals[r] = None
           THEN [s EXCEPT !.proposals[r] =
                   [id |-> id, valid_round |-> vr, valid |-> valid]]
           ELSE s)

accept_any_vote(m) == m.from \in Validators

accept_vote(m) == m.authentic /\ m.from \in Validators

(* A root's first vote of a phase counts; a different second one is        *)
(* evidence of equivocation and is not tallied.                            *)
on_vote(s, m) ==
  LET prior == s.votes[m.kind][m.round][m.from]
  IN  IF ~accept_vote(m) \/ prior = m.id THEN s
      ELSE IF prior # None
           THEN [s EXCEPT !.evidence = @ \union {m.from}]
           ELSE evaluate([s EXCEPT !.votes[m.kind][m.round][m.from] = m.id])

on_timeout(s, step, r) ==
  IF s.decided \/ r # s.round THEN s
  ELSE IF step = Propose /\ s.step = Propose THEN evaluate(prevote(s, r, NIL))
  ELSE IF step = Prevote /\ s.step = Prevote THEN evaluate(precommit(s, r, NIL))
  ELSE IF step = Precommit THEN evaluate(enter_round_core(s, r + 1))
  ELSE s

-----------------------------------------------------------------------------
(* ConsensusNode. *)

Send(s, m) == [s EXCEPT !.out = @ \union {m}]
Stall(s)   == [s EXCEPT !.stalled = TRUE, !.work = <<>>]

(* build_proposal: the held value to re-propose, or a fresh block. *)
build_proposal(s, a) ==
  LET id == IF a.reuse = None THEN Fresh[a.round] ELSE a.reuse
      m  == ProposalMsg(s.local_root, a.round, id, a.valid_round)
  IN  IF a.reuse # None /\ a.reuse \notin s.values THEN Stall(s)
      ELSE on_proposal([Send(s, m) EXCEPT !.values = @ \union {id}],
                       a.round, id, a.valid_round, TRUE)

SignVote(s, a) ==
  LET m == VoteMsg(a.act, s.local_root, a.round, a.id)
  IN  on_vote(Send(s, m), m)

(* The height ends here; the next one starts from a new Round. *)
commit(s, a) ==
  IF a.id \notin s.values THEN Stall(s)
  ELSE [s EXCEPT !.committed = [round |-> a.round, id |-> a.id, signers |-> a.signers],
                 !.work = <<>>, !.values = {}, !.timers = {}]

drive1(s) ==
  IF s.work = <<>> THEN s
  ELSE LET a == Head(s.work)
           t == [s EXCEPT !.work = Tail(@)]
       IN  CASE a.act = "propose" -> build_proposal(t, a)
             [] a.act \in Kinds   -> SignVote(t, a)
             [] a.act = "decided" -> commit(t, a)

(* A handler queues at most a proposal, a prevote, a precommit and a       *)
(* decision; RunsToCompletion checks it.                                   *)
drive(s) == drive1(drive1(drive1(drive1(s))))

(* validate_proposal: whether the block applies to the local chain. *)
validate_proposal(m) == m.id \in ValidValues

proposal_is_authentic(m) == m.from = proposer_for(m.round) /\ m.authentic

ingest_without_values(s, m) ==
  IF m.kind \in Kinds THEN drive(on_vote(s, m))
  ELSE IF ~proposal_is_authentic(m) THEN s
  ELSE drive(on_proposal(s, m.round, m.id, m.valid_round, validate_proposal(m)))

ingest(s, m) ==
  IF m.kind \in Kinds THEN drive(on_vote(s, m))
  ELSE IF ~proposal_is_authentic(m) THEN s
  ELSE LET valid == validate_proposal(m)
           held  == IF valid THEN s.values \union {m.id} ELSE s.values
       IN  drive(on_proposal([s EXCEPT !.values = held],
                             m.round, m.id, m.valid_round, valid))

-----------------------------------------------------------------------------
Init ==
  /\ st = [n \in Honest |-> NewRound(n)]
  /\ msgs = {}

(* The handler's broadcasts reach the network when it returns. *)
Finish(n, s) ==
  /\ st' = [st EXCEPT ![n] = [s EXCEPT !.out = {}]]
  /\ msgs' = msgs \union s.out

Running(n) ==
  /\ st[n].started_rounds # {}
  /\ ~st[n].stalled
  /\ st[n].committed = None

Start(n) ==
  /\ st[n].started_rounds = {}
  /\ Finish(n, drive(evaluate(enter_round_core(st[n], 0))))

OnMessage(n, m) ==
  /\ Running(n)
  /\ Finish(n, ingest(st[n], m))

(* A timer the node armed runs out.  s.timers holds the current round's;   *)
(* those of rounds left behind stay with the host and may go off any time. *)
Armed(s) ==
  s.timers \union
  {<<step, r>> : step \in {Propose, Prevote, Precommit},
                 r \in {q \in s.started_rounds : q < s.round}}

(* MaxRound bounds the exploration. *)
OnTimeout(n, t) ==
  /\ Running(n)
  /\ ~(t[1] = Precommit /\ t[2] = MaxRound)
  /\ Finish(n, drive(on_timeout([st[n] EXCEPT !.timers = @ \ {t}], t[1], t[2])))

Next ==
  \E n \in Honest :
    \/ Start(n)
    \/ \E m \in msgs \union FaultyMsgs : OnMessage(n, m)
    \/ \E t \in Armed(st[n]) : OnTimeout(n, t)

Spec == Init /\ [][Next]_vars

-----------------------------------------------------------------------------
(* The votes cast, as Voting sees them: those honest validators sent, and  *)
(* of the faulty ones' those that somebody has counted.                    *)
CastVotes ==
  {<<m.from, m.kind, m.round, m.id>> : m \in {x \in msgs : x.kind \in Kinds}}
  \union
  {c \in Faulty \X Kinds \X Rounds \X Ids :
     \E n \in Honest : st[n].votes[c[2]][c[3]][c[1]] = c[4]}

V == INSTANCE Voting WITH
       votes     <- CastVotes,
       round     <- [n \in Honest |-> st[n].round],
       decision  <- [n \in Honest |-> IF st[n].committed = None THEN None
                                      ELSE st[n].committed.id],
       Published <- {}

(* The step of Voting that a handler of n takes: the round it ends in, the *)
(* votes it adds, the faulty vote it counts.                               *)
VotingStep(n) ==
  LET new == CastVotes' \ CastVotes
      Own(k) == {v \in Ids : <<n, k, st'[n].round, v>> \in new}
      OrNone(S) == IF S = {} THEN {None} ELSE S
      chosen == {d \in Values : st'[n].committed # None
                                /\ st'[n].committed.id = d}
  IN  /\ st'[n] # st[n]
      /\ \E r \in {st'[n].round} :
         \E pv \in OrNone(Own("prevote")), pc \in OrNone(Own("precommit")) :
         \E d \in OrNone(chosen) :
         \E heard \in {{t \in new : t[1] \in Faulty}} :
            /\ Cardinality(heard) <= 1
            /\ V!Step(n, r, pv, pc, d, heard)

(* Every handler of round.rs and node.rs keeps to the voting discipline:   *)
(* the once-guards, the lock and the certificates it checks are enough for *)
(* each of its votes and for its decision.  This is V!Spec with the        *)
(* quantified step of V!Next named.                                        *)
ImplementsVoting == V!Init /\ [][\E n \in Honest : VotingStep(n)]_(V!vars)

(* Between handlers no rule is left enabled and no intent is left undone:  *)
(* nothing a node has heard waits for an unrelated input to take effect.   *)
RunsToCompletion ==
  \A n \in Honest :
    Running(n) => st[n].work = <<>> /\ pass(st[n]) = st[n]

(* The block behind validValue, and behind a decision, is always at hand:  *)
(* build_proposal and commit never return Err(Stalled).                    *)
NeverStalls ==
  \A n \in Honest :
    /\ ~st[n].stalled
    /\ Running(n) /\ st[n].valid_value # None => st[n].valid_value \in st[n].values

(* What commit hands to apply_finalized_block passes verify_finality:      *)
(* 2f+1 distinct roots really did precommit that block in that round.      *)
CertificateVerifies ==
  \A n \in Honest :
    st[n].committed # None =>
      LET c == st[n].committed
      IN  /\ Cardinality(c.signers) >= quorum
          /\ c.id \in ValidValues
          /\ \A v \in c.signers : <<v, "precommit", c.round, c.id>> \in CastVotes

(* Evidence of equivocation never names a root that kept to the protocol.  *)
EvidenceIsSound ==
  \A n \in Honest : st[n].evidence \subseteq Faulty

(* A node that waits can always be woken: in the propose step, after 2f+1  *)
(* prevotes in the prevote step, and after 2f+1 precommits, the timer that *)
(* moves it on is still armed.                                             *)
TimerArmed ==
  \A n \in Honest :
    Running(n) =>
      LET s == st[n] IN
      /\ s.step = Propose => <<Propose, s.round>> \in s.timers
      /\ s.step = Prevote /\ total_prevotes(s, s.round) >= quorum =>
           <<Prevote, s.round>> \in s.timers
      /\ total_precommits(s, s.round) >= quorum =>
           <<Precommit, s.round>> \in s.timers

(* A node that precommitted one block prevotes another later only on 2f+1  *)
(* prevotes for it from the lock's round or a later one.  The round.rs     *)
(* test a_locked_node_prevotes_nil_for_a_different_value_in_a_later_round  *)
(* calls it the "Safety core".                                             *)
LockHolds ==
  \A p \in msgs, q \in msgs :
    /\ q.kind = "precommit" /\ p.kind = "prevote" /\ q.from = p.from
    /\ q.id # NIL /\ p.id \notin {q.id, NIL} /\ q.round < p.round
    => \E vr \in q.round .. p.round - 1 :
         prevote_count(st[p.from], vr, p.id) >= quorum

(* A lock is only ever replaced by one from a later round, and validValue  *)
(* is never older than the lock.                                           *)
LockAdvances ==
  [][\A n \in Honest :
       /\ st'[n].locked_round >= st[n].locked_round
       /\ st'[n].locked_round = st[n].locked_round =>
            st'[n].locked_value = st[n].locked_value
       /\ st'[n].valid_round >= st'[n].locked_round]_vars
=============================================================================
