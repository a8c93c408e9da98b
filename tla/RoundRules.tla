----------------------------- MODULE RoundRules -----------------------------
(***************************************************************************)
(* The inductive invariant of the Tendermint driver of module Round, for   *)
(* every number of validators, every set of faulty roots and every message *)
(* they may send, every set of blocks and every bound on the rounds; and   *)
(* that each rule of evaluate keeps it.                                    *)
(*                                                                         *)
(* A handler is a composition of rules on one validator's record s.  The   *)
(* lemmas below follow it rule by rule: each rule keeps Local(s, M), where *)
(* M holds what honest validators sent before the handler began, and only  *)
(* ever moves s forward (Later).                                           *)
(***************************************************************************)
EXTENDS Round, TLAPS

Steps  == {Propose, Prevote, Precommit}
Blocks == Values \union {None}
Past   == Rounds \union {-1}

(* What drive finds in s.work. *)
Proposes  == [act : {"propose"}, round : Rounds, reuse : Blocks, valid_round : Past]
VoteActs  == [act : Kinds, round : Rounds, id : Ids]
Decisions == [act : {"decided"}, round : Rounds, id : Values, signers : SUBSET Validators]
Actions   == Proposes \union VoteActs \union Decisions

(* What an honest validator sends. *)
HonestVotes     == [kind : Kinds, from : Honest, round : Rounds, id : Ids, authentic : {TRUE}]
HonestProposals == [kind : {"proposal"}, from : Honest, round : Rounds, id : Values,
                    valid_round : Past, authentic : {TRUE}]
HonestMsgs      == HonestVotes \union HonestProposals

Votes == [Kinds -> [Rounds -> [Validators -> Ids \union {None}]]]

RoundState ==
  [local_root : Honest, round : Rounds, step : Steps,
   locked_value : Blocks, locked_round : Past, valid_value : Blocks, valid_round : Past,
   decided : BOOLEAN, proposals : [Rounds -> Proposals \union {None}], votes : Votes,
   prevoted_rounds : SUBSET Rounds, precommitted_rounds : SUBSET Rounds,
   prevote_timeout_armed : SUBSET Rounds, precommit_timeout_armed : SUBSET Rounds,
   prevote_quorum_seen : SUBSET Rounds, started_rounds : SUBSET Rounds,
   work : Seq(Actions), values : SUBSET Values, timers : SUBSET (Steps \X Rounds),
   out : SUBSET HonestMsgs, evidence : SUBSET Validators, stalled : BOOLEAN,
   committed : Certificates \union {None}]

-----------------------------------------------------------------------------
(* What s.local_root has undertaken: the votes it has sent, in this        *)
(* handler (s.out) or before (M), and those drive has still to sign.       *)
Intents(s) == {s.work[i] : i \in 1 .. Len(s.work)}

Voted(s, M, k, r, v) ==
  \/ VoteMsg(k, s.local_root, r, v) \in M \union s.out
  \/ [act |-> k, round |-> r, id |-> v] \in Intents(s)

Quorate(s, k, r, v) == Cardinality(VotersFor(s, k, r, v)) >= quorum

(* Rounds are entered in order, and the step tells which votes of the      *)
(* current round are out.                                                  *)
Rounded(s) ==
  /\ \A r \in s.started_rounds : r <= s.round
  /\ s.started_rounds # {} => s.round \in s.started_rounds
  /\ s.prevoted_rounds \subseteq s.started_rounds
  /\ s.precommitted_rounds \subseteq s.started_rounds
  /\ s.round \in s.prevoted_rounds => s.step # Propose
  /\ s.round \in s.precommitted_rounds => s.step = Precommit

(* The once-guards cover every vote, and no vote is cast twice. *)
VotesOnce(s, M) ==
  \A r \in Rounds, v \in Ids :
    /\ Voted(s, M, "prevote", r, v) =>
         r \in s.prevoted_rounds /\ \A w \in Ids : Voted(s, M, "prevote", r, w) => w = v
    /\ Voted(s, M, "precommit", r, v) =>
         r \in s.precommitted_rounds /\ \A w \in Ids : Voted(s, M, "precommit", r, w) => w = v

(* A block is precommitted on 2f+1 prevotes counted, and the lock is the   *)
(* latest block precommitted.                                              *)
Locks(s, M) ==
  /\ \A r \in Rounds, v \in Values : Voted(s, M, "precommit", r, v) =>
       Quorate(s, "prevote", r, v) /\ r <= s.locked_round
  /\ s.committed = None /\ s.locked_round # -1 =>
       s.locked_value \in Values /\ Voted(s, M, "precommit", s.locked_round, s.locked_value)
  /\ s.locked_round <= s.valid_round /\ s.valid_round <= s.round

(* What the faulty roots propose fits the width of a round number. *)
Narrow == \A m \in FaultyMsgs : m.kind = "proposal" => m.valid_round < U32

(* Then a block is prevoted against an earlier precommit only on 2f+1      *)
(* prevotes since.                                                         *)
Unlocks(s, M) ==
  Narrow =>
    /\ \A r \in Rounds : s.proposals[r] # None => s.proposals[r].valid_round < U32
    /\ \A r0, r \in Rounds, v0, v \in Values :
         /\ Voted(s, M, "precommit", r0, v0) /\ Voted(s, M, "prevote", r, v)
         /\ r0 < r /\ v0 # v
         => \E vr \in Rounds : r0 <= vr /\ vr < r /\ Quorate(s, "prevote", vr, v)

(* Every valid block the node may propose or commit is at hand. *)
AtHand(s, v) == v \in s.values /\ v \in ValidValues

BlocksHeld(s) ==
  s.committed = None =>
    /\ \A r \in Rounds : s.proposals[r] # None /\ s.proposals[r].valid => AtHand(s, s.proposals[r].id)
    /\ s.valid_value # None => AtHand(s, s.valid_value)
    /\ \A a \in Intents(s) :
         /\ a.act = "propose" /\ a.reuse # None => AtHand(s, a.reuse)
         /\ a.act = "decided" => AtHand(s, a.id)

(* A decision stands on 2f+1 precommits counted. *)
Certifies(s, c) ==
  /\ c.id \in ValidValues
  /\ c.signers \subseteq VotersFor(s, "precommit", c.round, c.id)
  /\ Cardinality(c.signers) >= quorum

DecisionsCertified(s) ==
  /\ \A a \in Intents(s) : a.act = "decided" => Certifies(s, a)
  /\ s.committed # None => Certifies(s, s.committed)

(* An honest validator's vote is counted only after it was sent, and none  *)
(* is ever accused.                                                        *)
Counted(s, M) ==
  /\ \A k \in Kinds, r \in Rounds, v \in Honest : s.votes[k][r][v] # None =>
       VoteMsg(k, v, r, s.votes[k][r][v]) \in M \union s.out
  /\ s.evidence \subseteq Faulty

Local(s, M) ==
  /\ s \in RoundState /\ ~s.stalled
  /\ \A m \in s.out : m.from = s.local_root
  /\ Rounded(s) /\ VotesOnce(s, M) /\ Locks(s, M) /\ Unlocks(s, M)
  /\ BlocksHeld(s) /\ DecisionsCertified(s) /\ Counted(s, M)

(* A node that has begun its height and not finished it. *)
Live(s, M) == Local(s, M) /\ s.round \in s.started_rounds /\ s.committed = None

(* What honest validators sent before: no two votes of one validator in    *)
(* one phase of a round differ.                                            *)
Messages(M) ==
  /\ M \subseteq HonestMsgs
  /\ \A p, q \in M :
       p.kind \in Kinds /\ q.kind = p.kind /\ q.from = p.from /\ q.round = p.round => q.id = p.id

(* What no rule ever takes back. *)
Later(s, t) ==
  /\ t.local_root = s.local_root
  /\ s.round <= t.round
  /\ s.started_rounds \subseteq t.started_rounds
  /\ s.locked_round <= t.locked_round
  /\ s.locked_round = t.locked_round => t.locked_value = s.locked_value
  /\ \A k \in Kinds, r \in Rounds, v \in Validators :
       s.votes[k][r][v] # None => t.votes[k][r][v] = s.votes[k][r][v]
  /\ s.out \subseteq t.out

(* A node that has not begun its height. *)
Idle(s) == s.started_rounds = {} => s.round = 0 /\ ~s.decided /\ s.committed = None /\ s.valid_value = None

Inv ==
  /\ st \in [Honest -> RoundState] /\ Messages(msgs)
  /\ \A n \in Honest : st[n].local_root = n /\ st[n].out = {} /\ Idle(st[n]) /\ Local(st[n], msgs)

-----------------------------------------------------------------------------
(* Counting validators and comparing rounds.  The lemmas that need these   *)
(* facts about finite sets and numbers take them as a hypothesis;          *)
(* RoundProof proves them from the library.                                *)
Arithmetic ==
  /\ Cardinality({}) = 0 /\ Cardinality(Validators) = N
  /\ \A x, S : S \subseteq {x} => Cardinality(S) <= 1
  /\ \A S \in SUBSET Validators : Cardinality(S) \in Nat
  /\ \A S, T \in SUBSET Validators : S \subseteq T => Cardinality(S) <= Cardinality(T)
  /\ \A S, T \in SUBSET Validators :
       Cardinality(S \union T) = Cardinality(S) + Cardinality(T) - Cardinality(S \cap T)
  /\ \A S \in SUBSET Rounds : S # {} => \E r \in S : \A q \in S : r <= q

(* The thresholds and the rounds are numbers; -1, `no round`, is none of   *)
(* the rounds.                                                             *)
LEMMA Sizes ==
  /\ quorum \in Nat /\ f_plus_1 \in Int
  /\ Rounds \subseteq Nat /\ 0 \in Rounds /\ -1 \notin Rounds
<1>1. N \in Nat /\ MaxRound \in Nat
  BY RoundAssumption
<1>2. quorum \in Nat /\ f_plus_1 \in Int
  BY <1>1 DEF quorum, f_plus_1
<1> QED BY <1>1, <1>2 DEF Rounds

(* A round is an integer. *)
LEMMA RoundsAreInts == \A r \in Rounds : r \in Int
BY DEF Rounds

(* Only roots of the ValidatorSet are ever counted. *)
LEMMA VotersType == \A s, k, r, v : VotersFor(s, k, r, v) \in SUBSET Validators
BY Zenon DEF VotersFor

(* Counts only grow while votes are never replaced. *)
LEMMA QuorateStable ==
  ASSUME Arithmetic, NEW s, NEW t, NEW k, NEW r, NEW v, v # None,
         \A n \in Validators : s.votes[k][r][n] # None => t.votes[k][r][n] = s.votes[k][r][n]
  PROVE  /\ VotersFor(s, k, r, v) \subseteq VotersFor(t, k, r, v)
         /\ Quorate(s, k, r, v) => Quorate(t, k, r, v)
<1>1. VotersFor(s, k, r, v) \subseteq VotersFor(t, k, r, v)
  BY Zenon DEF VotersFor
<1> DEFINE m == Cardinality(VotersFor(s, k, r, v))
           n == Cardinality(VotersFor(t, k, r, v))
<1>2. m \in Nat /\ n \in Nat /\ m <= n
  BY <1>1, VotersType, Zenon DEF Arithmetic
<1>3. (Quorate(s, k, r, v) <=> m >= quorum) /\ (Quorate(t, k, r, v) <=> n >= quorum) /\ quorum \in Nat
  BY Sizes, Zenon DEF Quorate
<1> HIDE DEF m, n
<1> QED BY <1>1, <1>2, <1>3

(* The intents after an action is pushed, and after drive takes one. *)
LEMMA IntentsPush ==
  ASSUME NEW s \in RoundState, NEW t, NEW a, t.work = Append(s.work, a)
  PROVE  Intents(t) = Intents(s) \union {a}
BY DEF Intents, RoundState

(* Taking the first action of the work list leaves the others. *)
LEMMA IntentsTail ==
  ASSUME NEW s \in RoundState, s.work # << >>, NEW t, t.work = Tail(s.work)
  PROVE  Intents(s) = Intents(t) \union {Head(s.work)} /\ Head(s.work) \in Actions
<1>1. /\ Head(s.work) \in Actions /\ Head(s.work) = s.work[1]
      /\ Tail(s.work) \in Seq(Actions) /\ Len(Tail(s.work)) = Len(s.work) - 1
      /\ \A i \in 1 .. Len(Tail(s.work)) : Tail(s.work)[i] = s.work[i + 1]
      /\ Len(s.work) \in Nat \ {0}
  BY DEF RoundState
<1>2. \A i \in 1 .. Len(s.work) : i = 1 \/ (i - 1 \in 1 .. Len(t.work) /\ s.work[i] = t.work[i - 1])
  BY <1>1
<1>3. \A i \in 1 .. Len(t.work) : i + 1 \in 1 .. Len(s.work) /\ t.work[i] = s.work[i + 1]
  BY <1>1
<1> QED BY <1>1, <1>2, <1>3 DEF Intents

(* What is queued is an action of `Action`. *)
LEMMA IntentsType == ASSUME NEW s \in RoundState PROVE Intents(s) \subseteq Actions
BY DEF Intents, RoundState

-----------------------------------------------------------------------------
(* What the rules of evaluate leave alone. *)
SameInputs(s, t) ==
  /\ t.local_root = s.local_root /\ t.votes = s.votes /\ t.proposals = s.proposals
  /\ t.values = s.values /\ t.out = s.out /\ t.evidence = s.evidence
  /\ t.stalled = s.stalled /\ t.committed = s.committed

SameLock(s, t) ==
  /\ t.locked_value = s.locked_value /\ t.locked_round = s.locked_round
  /\ t.valid_value = s.valid_value /\ t.valid_round = s.valid_round

SameRound(s, t) ==
  /\ t.round = s.round /\ t.started_rounds = s.started_rounds

SamePhase(s, t) ==
  /\ t.step = s.step
  /\ t.prevoted_rounds = s.prevoted_rounds /\ t.precommitted_rounds = s.precommitted_rounds

SameTimers(s, t) ==
  /\ t.prevote_timeout_armed = s.prevote_timeout_armed
  /\ t.precommit_timeout_armed = s.precommit_timeout_armed /\ t.timers = s.timers
  /\ t.prevote_quorum_seen = s.prevote_quorum_seen

(* A rule that leaves what the node has heard alone changes no count and   *)
(* no certificate.                                                         *)
LEMMA SameInputsKeeps ==
  ASSUME NEW s \in RoundState, NEW t, SameInputs(s, t)
  PROVE  /\ \A k, r, v : VotersFor(t, k, r, v) = VotersFor(s, k, r, v)
         /\ \A k, r, v : Quorate(t, k, r, v) <=> Quorate(s, k, r, v)
         /\ \A v : AtHand(t, v) <=> AtHand(s, v)
         /\ \A c : Certifies(t, c) <=> Certifies(s, c)
         /\ \A M : Counted(s, M) => Counted(t, M)
BY Zenon DEF SameInputs, VotersFor, Quorate, AtHand, Certifies, Counted

(* The numeric fields of a Round are integers. *)
LEMMA Numbers ==
  ASSUME NEW s \in RoundState
  PROVE  /\ s.round \in Int /\ s.locked_round \in Int /\ s.valid_round \in Int
         /\ s.step \in {0, 1, 2} /\ s.started_rounds \subseteq Int
<1>1. /\ s.round \in Rounds /\ s.locked_round \in Past /\ s.valid_round \in Past
      /\ s.step \in Steps /\ s.started_rounds \subseteq Rounds
  BY Zenon DEF RoundState
<1>2. Rounds \subseteq Int /\ Past \subseteq Int
  BY Sizes DEF Past
<1>3. Steps = {0, 1, 2}
  BY Zenon DEF Steps, Propose, Prevote, Precommit
<1> QED BY ONLY <1>1, <1>2, <1>3, Zenon

(* A state with the same inputs, lock and round is no step back. *)
LEMMA SameIsLater ==
  ASSUME NEW s \in RoundState, NEW t, SameInputs(s, t), SameLock(s, t), SameRound(s, t)
  PROVE  Later(s, t)
BY Numbers DEF Later, SameInputs, SameLock, SameRound

(* A step that only arms timers or remembers having armed them. *)
LEMMA FrameKeeps ==
  ASSUME NEW s, NEW t \in RoundState, NEW M, Local(s, M),
         SameInputs(s, t), SameLock(s, t), SameRound(s, t), SamePhase(s, t), t.work = s.work
  PROVE  Local(t, M) /\ Later(s, t)
<1>1. s \in RoundState
  BY Zenon DEF Local
<1>2. /\ Intents(t) = Intents(s)
      /\ \A k, r, v : Voted(t, M, k, r, v) <=> Voted(s, M, k, r, v)
  BY Zenon DEF Intents, Voted, SameInputs
<1>3. Rounded(t) /\ VotesOnce(t, M)
  BY <1>2, Zenon DEF Local, Rounded, VotesOnce, SameRound, SamePhase
<1>4. Locks(t, M) /\ Unlocks(t, M)
  BY <1>1, <1>2, SameInputsKeeps DEF Local, Locks, Unlocks, SameLock, SameInputs, SameRound
<1>5. BlocksHeld(t) /\ DecisionsCertified(t) /\ Counted(t, M)
  BY <1>1, <1>2, SameInputsKeeps DEF Local, BlocksHeld, DecisionsCertified, SameLock, SameInputs
<1>6. Later(s, t)
  BY <1>1, SameIsLater, Zenon
<1> QED BY <1>3, <1>4, <1>5, <1>6, Zenon DEF Local, SameInputs

-----------------------------------------------------------------------------
(* prevote and precommit: an intent to vote in the current round. *)
LEMMA VotedPush ==
  ASSUME NEW s \in RoundState, NEW t, NEW M, SameInputs(s, t),
         NEW k0, NEW r0, NEW v0, t.work = Append(s.work, [act |-> k0, round |-> r0, id |-> v0])
  PROVE  /\ Intents(t) = Intents(s) \union {[act |-> k0, round |-> r0, id |-> v0]}
         /\ \A k, r, v : Voted(t, M, k, r, v) <=> Voted(s, M, k, r, v) \/ (k = k0 /\ r = r0 /\ v = v0)
<1> DEFINE a(k, r, v) == [act |-> k, round |-> r, id |-> v]
<1>1. Intents(t) = Intents(s) \union {a(k0, r0, v0)}
  BY IntentsPush, Zenon
<1>2. \A k, r, v : a(k, r, v) = a(k0, r0, v0) <=> k = k0 /\ r = r0 /\ v = v0
  BY Zenon
<1> HIDE DEF a
<1>3. \A k, r, v : Voted(t, M, k, r, v) <=> Voted(s, M, k, r, v) \/ (k = k0 /\ r = r0 /\ v = v0)
  BY <1>1, <1>2, Zenon DEF Voted, SameInputs, a
<1> QED BY <1>1, <1>3, Zenon DEF a

(* The record that prevote and precommit build. *)
LEMMA PushType == ASSUME NEW s \in RoundState, NEW a \in Actions PROVE Push(s, a) \in RoundState
<1>1. s.work \in Seq(Actions)
  BY Zenon DEF RoundState
<1>2. Append(s.work, a) \in Seq(Actions)
  BY <1>1
<1> QED BY <1>2, Zenon DEF Push, RoundState

(* What `prevote` changes: the step, the once-guard of the round, and one  *)
(* intent.                                                                 *)
LEMMA PrevoteFields ==
  ASSUME NEW s \in RoundState, s.step = Propose, NEW v \in Ids
  PROVE  LET t == prevote(s, s.round, v) IN
         /\ t \in RoundState
         /\ SameInputs(s, t) /\ SameLock(s, t) /\ SameRound(s, t) /\ SameTimers(s, t)
         /\ t.step = Prevote /\ t.decided = s.decided
         /\ t.prevoted_rounds = s.prevoted_rounds \union {s.round}
         /\ t.precommitted_rounds = s.precommitted_rounds
         /\ t.work = Append(s.work, [act |-> "prevote", round |-> s.round, id |-> v])
<1> DEFINE a == [act |-> "prevote", round |-> s.round, id |-> v]
           t == prevote(s, s.round, v)
<1>1. StepMax(s.step, Prevote) = Prevote
  BY DEF StepMax, Propose, Prevote
<1> DEFINE u == [s EXCEPT !.prevoted_rounds = @ \union {s.round}, !.step = Prevote]
<1>2. t = Push(u, a)
  BY <1>1, Zenon DEF prevote
<1>3. a \in Actions /\ Prevote \in Steps
  BY Zenon DEF Actions, VoteActs, Kinds, RoundState, Steps
<1>4. u \in RoundState
  BY <1>3, Zenon DEF RoundState
<1>5. t \in RoundState
  BY <1>2, <1>3, <1>4, PushType, Zenon
<1>6. /\ SameInputs(s, t) /\ SameLock(s, t) /\ SameRound(s, t) /\ SameTimers(s, t)
      /\ t.step = Prevote /\ t.decided = s.decided
      /\ t.prevoted_rounds = s.prevoted_rounds \union {s.round}
      /\ t.precommitted_rounds = s.precommitted_rounds
      /\ t.work = Append(s.work, a)
  BY <1>2 DEF Push, RoundState, SameInputs, SameLock, SameRound, SameTimers
<1> QED BY <1>5, <1>6, Zenon

(* What `precommit` changes: the step, the once-guard of the round, and    *)
(* one intent.                                                             *)
LEMMA PrecommitFields ==
  ASSUME NEW s \in RoundState, s.step = Prevote, NEW v \in Ids
  PROVE  LET t == precommit(s, s.round, v) IN
         /\ t \in RoundState
         /\ SameInputs(s, t) /\ SameLock(s, t) /\ SameRound(s, t) /\ SameTimers(s, t)
         /\ t.step = Precommit /\ t.decided = s.decided
         /\ t.prevoted_rounds = s.prevoted_rounds
         /\ t.precommitted_rounds = s.precommitted_rounds \union {s.round}
         /\ t.work = Append(s.work, [act |-> "precommit", round |-> s.round, id |-> v])
<1> DEFINE a == [act |-> "precommit", round |-> s.round, id |-> v]
           t == precommit(s, s.round, v)
<1>1. StepMax(s.step, Precommit) = Precommit
  BY DEF StepMax, Prevote, Precommit
<1> DEFINE u == [s EXCEPT !.precommitted_rounds = @ \union {s.round}, !.step = Precommit]
<1>2. t = Push(u, a)
  BY <1>1, Zenon DEF precommit
<1>3. a \in Actions /\ Precommit \in Steps
  BY Zenon DEF Actions, VoteActs, Kinds, RoundState, Steps
<1>4. u \in RoundState
  BY <1>3, Zenon DEF RoundState
<1>5. t \in RoundState
  BY <1>2, <1>3, <1>4, PushType, Zenon
<1>6. /\ SameInputs(s, t) /\ SameLock(s, t) /\ SameRound(s, t) /\ SameTimers(s, t)
      /\ t.step = Precommit /\ t.decided = s.decided
      /\ t.prevoted_rounds = s.prevoted_rounds
      /\ t.precommitted_rounds = s.precommitted_rounds \union {s.round}
      /\ t.work = Append(s.work, a)
  BY <1>2 DEF Push, RoundState, SameInputs, SameLock, SameRound, SameTimers
<1> QED BY <1>5, <1>6, Zenon

(* A vote pushed says nothing of blocks. *)
LEMMA VoteKeepsBlocks ==
  ASSUME NEW s \in RoundState, NEW t, NEW M, SameInputs(s, t), SameLock(s, t),
         NEW k \in Kinds, NEW r, NEW v, Intents(t) = Intents(s) \union {[act |-> k, round |-> r, id |-> v]},
         BlocksHeld(s), DecisionsCertified(s), Counted(s, M)
  PROVE  BlocksHeld(t) /\ DecisionsCertified(t) /\ Counted(t, M)
<1>1. \A a \in Intents(t) : a.act \in {"propose", "decided"} => a \in Intents(s)
  BY DEF Kinds
<1>2. /\ \A w : AtHand(t, w) <=> AtHand(s, w)
      /\ \A c : Certifies(t, c) <=> Certifies(s, c)
      /\ Counted(t, M)
  BY SameInputsKeeps, Zenon
<1>3. BlocksHeld(t)
  BY <1>1, <1>2, Zenon DEF BlocksHeld, SameInputs, SameLock
<1>4. DecisionsCertified(t)
  BY <1>1, <1>2, Zenon DEF DecisionsCertified, SameInputs
<1> QED BY <1>2, <1>3, <1>4, Zenon

(* The lock lets v be prevoted in the current round. *)
LockFree(s, M, v) ==
  Narrow => \A r0 \in Rounds, v0 \in Values :
              Voted(s, M, "precommit", r0, v0) /\ v0 # v =>
                \E vr \in Rounds : r0 <= vr /\ vr < s.round /\ Quorate(s, "prevote", vr, v)

(* `prevote` keeps the local invariant when the lock leaves the value      *)
(* free.                                                                   *)
LEMMA PrevoteKeeps ==
  ASSUME NEW s, NEW M, Local(s, M), s.round \in s.started_rounds, s.step = Propose,
         NEW v \in Ids, v \in Values => LockFree(s, M, v)
  PROVE  /\ Local(prevote(s, s.round, v), M) /\ Later(s, prevote(s, s.round, v))
         /\ SameInputs(s, prevote(s, s.round, v)) /\ SameRound(s, prevote(s, s.round, v))
<1> DEFINE t == prevote(s, s.round, v)
<1>0. s \in RoundState /\ s.round \in Rounds
  BY Zenon DEF Local, RoundState
<1>1. /\ t \in RoundState
      /\ SameInputs(s, t) /\ SameLock(s, t) /\ SameRound(s, t)
      /\ t.step = Prevote /\ t.decided = s.decided
      /\ t.prevoted_rounds = s.prevoted_rounds \union {s.round}
      /\ t.precommitted_rounds = s.precommitted_rounds
      /\ t.work = Append(s.work, [act |-> "prevote", round |-> s.round, id |-> v])
  BY <1>0, PrevoteFields, Zenon
<1> HIDE DEF t
<1>2. /\ Intents(t) = Intents(s) \union {[act |-> "prevote", round |-> s.round, id |-> v]}
      /\ \A k, r, w : Voted(t, M, k, r, w) <=>
           Voted(s, M, k, r, w) \/ (k = "prevote" /\ r = s.round /\ w = v)
  BY <1>0, <1>1, VotedPush
<1>3. Rounded(t)
  BY <1>1 DEF Local, Rounded, SameRound, Propose, Prevote, Precommit
<1>4. s.round \notin s.prevoted_rounds
  BY Zenon DEF Local, Rounded
<1>5. VotesOnce(t, M)
  BY <1>1, <1>2, <1>4 DEF Local, VotesOnce
<1>6. Locks(t, M)
  BY <1>0, <1>1, <1>2, SameInputsKeeps, Zenon DEF Local, Locks, SameLock, SameRound, SameInputs
<1>7. Unlocks(t, M)
  <2>1. Unlocks(s, M)
    BY Zenon DEF Local
  <2>2. t.proposals = s.proposals
    BY <1>1, Zenon DEF SameInputs
  <2>3. \A k, r, w : Quorate(t, k, r, w) <=> Quorate(s, k, r, w)
    BY <1>0, <1>1, SameInputsKeeps, Zenon
  <2> SUFFICES ASSUME Narrow, NEW r0 \in Rounds, NEW r \in Rounds, NEW v0 \in Values, NEW w \in Values,
                      Voted(t, M, "precommit", r0, v0), Voted(t, M, "prevote", r, w), r0 < r, v0 # w
               PROVE  \E vr \in Rounds : r0 <= vr /\ vr < r /\ Quorate(s, "prevote", vr, w)
    BY <2>1, <2>2, <2>3, Zenon DEF Unlocks
  <2>4. Voted(s, M, "precommit", r0, v0)
    BY <1>2
  <2>5. CASE Voted(s, M, "prevote", r, w)
    BY <2>1, <2>4, <2>5, Zenon DEF Unlocks
  <2>6. CASE r = s.round /\ w = v
    BY <2>4, <2>6, Zenon DEF LockFree
  <2> QED BY <1>2, <2>5, <2>6
<1>8. BlocksHeld(t) /\ DecisionsCertified(t) /\ Counted(t, M)
  BY <1>0, <1>1, <1>2, VoteKeepsBlocks, Zenon DEF Local, Kinds
<1>9. Later(s, t)
  BY <1>0, <1>1, SameIsLater, Zenon
<1>10. Local(t, M)
  BY <1>1, <1>3, <1>5, <1>6, <1>7, <1>8, Zenon DEF Local, SameInputs
<1> QED BY <1>1, <1>9, <1>10, Zenon DEF t

(* A precommit: for NIL, or for a block that 2f+1 prevoted, which becomes  *)
(* the lock and validValue.                                                *)
Locking(s, t, v) ==
  \/ v = NIL /\ SameLock(s, t)
  \/ /\ v \in Values /\ Quorate(s, "prevote", s.round, v) /\ AtHand(s, v)
     /\ t.locked_value = v /\ t.locked_round = s.round
     /\ t.valid_value = v /\ t.valid_round = s.round

(* `precommit` keeps the local invariant when the node locks what it       *)
(* precommits.                                                             *)
LEMMA PrecommitKeeps ==
  ASSUME NEW s, NEW t \in RoundState, NEW M, Live(s, M), s.step = Prevote,
         SameInputs(s, t), SameRound(s, t), t.step = Precommit,
         t.prevoted_rounds = s.prevoted_rounds,
         t.precommitted_rounds = s.precommitted_rounds \union {s.round},
         NEW v \in Ids, Locking(s, t, v),
         t.work = Append(s.work, [act |-> "precommit", round |-> s.round, id |-> v])
  PROVE  Local(t, M) /\ Later(s, t)
<1> Local(s, M) /\ s.round \in s.started_rounds /\ s.committed = None
  BY Zenon DEF Live
<1>0. s \in RoundState /\ s.round \in Rounds /\ NIL \notin Values
  BY RoundAssumption, Zenon DEF Local, RoundState
<1>1. /\ Intents(t) = Intents(s) \union {[act |-> "precommit", round |-> s.round, id |-> v]}
      /\ \A k, r, w : Voted(t, M, k, r, w) <=>
           Voted(s, M, k, r, w) \/ (k = "precommit" /\ r = s.round /\ w = v)
  BY ONLY <1>0, SameInputs(s, t), VotedPush,
          t.work = Append(s.work, [act |-> "precommit", round |-> s.round, id |-> v])
<1>2. Rounded(t)
  BY DEF Local, Rounded, SameRound, Propose, Precommit
<1>3. s.round \notin s.precommitted_rounds
  BY DEF Local, Rounded, Prevote, Precommit
<1>4. VotesOnce(t, M)
  BY <1>1, <1>3 DEF Local, VotesOnce
<1>5. /\ \A k, r, w : Quorate(t, k, r, w) <=> Quorate(s, k, r, w)
      /\ \A w : AtHand(t, w) <=> AtHand(s, w)
  BY <1>0, SameInputsKeeps, Zenon
<1>6. s.locked_round < s.round /\ s.valid_round <= s.round
  <2>1. s.locked_round # s.round
    BY <1>0, <1>3, Sizes, Zenon DEF Local, Locks, VotesOnce, Ids
  <2> QED BY <1>0, <2>1, Numbers DEF Local, Locks
<1>7. Locks(t, M)
  <2>1. CASE v = NIL /\ SameLock(s, t)
    BY <1>0, <1>1, <1>5, <2>1, Zenon DEF Local, Locks, SameLock, SameRound, SameInputs
  <2>2. CASE /\ v \in Values /\ Quorate(s, "prevote", s.round, v)
             /\ t.locked_value = v /\ t.locked_round = s.round
             /\ t.valid_value = v /\ t.valid_round = s.round
    <3>1. \A r \in Rounds, w \in Values : Voted(s, M, "precommit", r, w) => r <= s.round
      <4>1. \A r \in Rounds, w \in Values : Voted(s, M, "precommit", r, w) => r <= s.locked_round
        BY Zenon DEF Local, Locks
      <4>2. s.locked_round \in Int /\ s.round \in Int /\ Rounds \subseteq Int
        BY <1>0, Numbers, Sizes
      <4> QED BY ONLY <1>6, <4>1, <4>2
    <3>2. \A r \in Rounds, w \in Values : Voted(s, M, "precommit", r, w) => Quorate(s, "prevote", r, w)
      BY Zenon DEF Local, Locks
    <3>3. s.round <= s.round
      BY <1>0, Numbers
    <3> QED BY <1>0, <1>1, <1>5, <2>2, <3>1, <3>2, <3>3, Zenon DEF Locks, SameRound
  <2> QED BY <2>1, <2>2, Zenon DEF Locking
<1>8. Unlocks(t, M)
  <2>1. Unlocks(s, M)
    BY Zenon DEF Local
  <2> SUFFICES ASSUME Narrow, NEW r0 \in Rounds, NEW r \in Rounds, NEW v0 \in Values, NEW w \in Values,
                      Voted(t, M, "precommit", r0, v0), Voted(t, M, "prevote", r, w), r0 < r, v0 # w
               PROVE  \E vr \in Rounds : r0 <= vr /\ vr < r /\ Quorate(s, "prevote", vr, w)
    BY <1>5, <2>1, Zenon DEF Unlocks, SameInputs
  <2>2. Voted(s, M, "prevote", r, w)
    BY <1>1
  <2>3. r <= s.round
    BY <2>2, Zenon DEF Local, VotesOnce, Rounded, Ids
  <2>4. Voted(s, M, "precommit", r0, v0)
    <3>1. r0 # s.round
      BY <1>0, <2>3, Sizes
    <3> QED BY <1>1, <3>1, Zenon
  <2> QED BY <2>1, <2>2, <2>4, Zenon DEF Unlocks
<1>9. BlocksHeld(t) /\ DecisionsCertified(t) /\ Counted(t, M)
  <2>1. \A a \in Intents(t) : a.act \in {"propose", "decided"} => a \in Intents(s)
    BY <1>1
  <2>2. DecisionsCertified(t) /\ Counted(t, M)
    BY <1>0, <2>1, SameInputsKeeps, Zenon DEF Local, DecisionsCertified, SameInputs
  <2>3. BlocksHeld(s) /\ (t.valid_value # None => AtHand(s, t.valid_value) \/ t.valid_value = s.valid_value)
    BY Zenon DEF Local, Locking, SameLock
  <2>4. BlocksHeld(t)
    BY <1>5, <2>1, <2>3, Zenon DEF BlocksHeld, SameInputs
  <2> QED BY <2>2, <2>4, Zenon
<1>10. Later(s, t)
  BY <1>0, <1>6, Numbers DEF Later, SameInputs, SameRound, SameLock, Locking
<1> QED BY <1>2, <1>4, <1>7, <1>8, <1>9, <1>10, Zenon DEF Local, SameInputs

(* enter_round_core: a round not entered before, above those that were. *)
LEMMA EnterKeeps ==
  ASSUME NEW s, NEW M, Local(s, M), NEW r \in Rounds, r >= s.round
  PROVE  /\ Local(enter_round_core(s, r), M) /\ Later(s, enter_round_core(s, r))
<1> DEFINE e == [s EXCEPT !.started_rounds = @ \union {r}, !.timers = {}, !.round = r, !.step = Propose]
           a == [act |-> "propose", round |-> r, reuse |-> s.valid_value,
                 valid_round |-> IF s.valid_value = None THEN -1 ELSE s.valid_round]
           t == enter_round_core(s, r)
<1>0. s \in RoundState /\ s.round \in Rounds /\ s.locked_round \in Int /\ s.valid_round \in Int
  BY Sizes DEF Local, RoundState, Past
<1>1. CASE s.decided \/ r \in s.started_rounds
  <2>1. t = s
    BY <1>1, Zenon DEF enter_round_core
  <2> QED BY <1>0, <2>1, SameIsLater, Zenon DEF SameInputs, SameLock, SameRound
<1>2. CASE ~(s.decided \/ r \in s.started_rounds)
  <2>1. /\ e \in RoundState
        /\ SameInputs(s, e) /\ SameLock(s, e) /\ e.work = s.work
        /\ e.round = r /\ e.step = Propose /\ e.started_rounds = s.started_rounds \union {r}
        /\ e.prevoted_rounds = s.prevoted_rounds /\ e.precommitted_rounds = s.precommitted_rounds
    BY <1>0, ZenonT(30) DEF RoundState, SameInputs, SameLock, Steps
  <2>2. a \in Actions
    <3>1. (IF s.valid_value = None THEN -1 ELSE s.valid_round) \in Past
      BY <1>0, Zenon DEF RoundState, Past
    <3> QED BY <1>0, <3>1, Zenon DEF Actions, Proposes, RoundState
  <2>3. t = Push(e, a) \/ t = ScheduleTimeout(e, Propose, r)
    BY <1>2, Zenon DEF enter_round_core
  <2> HIDE DEF e, t
  <2>4. /\ t \in RoundState
        /\ SameInputs(s, t) /\ SameLock(s, t) /\ (t.work = s.work \/ t.work = Append(s.work, a))
        /\ t.round = r /\ t.step = Propose /\ t.started_rounds = s.started_rounds \union {r}
        /\ t.prevoted_rounds = s.prevoted_rounds /\ t.precommitted_rounds = s.precommitted_rounds
    <3>1. CASE t = Push(e, a)
      <4>1. t \in RoundState
        BY <2>1, <2>2, <3>1, PushType, Zenon
      <4> HIDE DEF a
      <4> QED BY <2>1, <3>1, <4>1, ZenonT(30) DEF Push, RoundState, SameInputs, SameLock
    <3>2. CASE t = ScheduleTimeout(e, Propose, r)
      <4>1. <<Propose, r>> \in Steps \X Rounds
        BY Zenon DEF Steps
      <4> QED BY <2>1, <3>2, <4>1 DEF ScheduleTimeout, RoundState, SameInputs, SameLock
    <3> QED BY <2>3, <3>1, <3>2, Zenon
  <2>5. /\ Intents(s) \subseteq Intents(t) /\ Intents(t) \subseteq Intents(s) \union {a}
        /\ a.act = "propose" /\ a.reuse = s.valid_value
    BY <1>0, <2>4, IntentsPush DEF Intents
  <2> HIDE DEF a
  <2>6. \A k \in Kinds : \A q, w : Voted(t, M, k, q, w) <=> Voted(s, M, k, q, w)
    <3>1. \A k \in Kinds : \A q, w : [act |-> k, round |-> q, id |-> w] # a
      BY <2>5 DEF Kinds
    <3> QED BY <2>4, <2>5, <3>1 DEF Voted, SameInputs
  <2>7. Rounded(t)
    <3>1. r \notin s.prevoted_rounds /\ r \notin s.precommitted_rounds
      BY <1>2, Zenon DEF Local, Rounded
    <3>2. \A q \in s.started_rounds : q <= r
      BY <1>0, Numbers, Sizes DEF Local, Rounded
    <3>3. r <= r
      BY Sizes
    <3> QED BY <2>4, <3>1, <3>2, <3>3, Zenon DEF Local, Rounded
  <2>8. VotesOnce(t, M)
    BY <2>4, <2>6, Zenon DEF Local, VotesOnce, Kinds
  <2>9. \A k, q, w : Quorate(t, k, q, w) <=> Quorate(s, k, q, w)
    BY <1>0, <2>4, SameInputsKeeps, Zenon
  <2>10. Locks(t, M)
    <3>1. s.valid_round <= s.round /\ s.round \in Int /\ r \in Int
      BY <1>0, Sizes, Numbers DEF Local, Locks
    <3>2. s.valid_round <= r
      BY <1>0, <3>1
    <3> QED BY <2>4, <2>6, <2>9, <3>2, Zenon DEF Local, Locks, SameLock, SameInputs, Kinds
  <2>11. Unlocks(t, M)
    BY <2>4, <2>6, <2>9, Zenon DEF Local, Unlocks, SameInputs, Kinds
  <2>12. BlocksHeld(t)
    <3>1. \A w : AtHand(t, w) <=> AtHand(s, w)
      BY <1>0, <2>4, SameInputsKeeps, Zenon
    <3>2. BlocksHeld(s)
      BY Zenon DEF Local
    <3> QED BY ONLY <2>4, <2>5, <3>1, <3>2, Zenon DEF BlocksHeld, SameInputs, SameLock
  <2>13. DecisionsCertified(t) /\ Counted(t, M)
    BY <1>0, <2>4, <2>5, SameInputsKeeps, Zenon DEF Local, DecisionsCertified, SameInputs
  <2>14. Later(s, t)
    BY <1>0, <2>4 DEF Later, SameInputs, SameLock
  <2>15. Local(t, M)
    BY <2>4, <2>7, <2>8, <2>10, <2>11, <2>12, <2>13, Zenon DEF Local, SameInputs
  <2> QED BY <2>14, <2>15, Zenon DEF t
<1> QED BY <1>1, <1>2, Zenon

-----------------------------------------------------------------------------
(* The rules of evaluate. *)

(* Progress of a node is transitive. *)
LEMMA LaterTransitive ==
  ASSUME NEW s \in RoundState, NEW t \in RoundState, NEW u \in RoundState, Later(s, t), Later(t, u)
  PROVE  Later(s, u)
<1>1. /\ s.round \in Int /\ t.round \in Int /\ u.round \in Int
      /\ s.locked_round \in Int /\ t.locked_round \in Int /\ u.locked_round \in Int
  BY Numbers, Zenon
<1>2. s.round <= u.round /\ s.locked_round <= u.locked_round
  BY ONLY <1>1, Later(s, t), Later(t, u) DEF Later
<1>3. s.locked_round = u.locked_round => u.locked_value = s.locked_value
  BY ONLY <1>1, Later(s, t), Later(t, u) DEF Later
<1> QED BY ONLY <1>2, <1>3, Later(s, t), Later(t, u) DEF Later

(* While the current round is not precommitted, the lock is from an        *)
(* earlier round, and the locked block may be prevoted again.              *)
LEMMA LockedIsFree ==
  ASSUME NEW s, NEW M, Live(s, M), s.step = Propose, NEW v \in Values,
         s.locked_round = -1 \/ s.locked_value = v
  PROVE  LockFree(s, M, v)
<1> Local(s, M) /\ s.round \in s.started_rounds /\ s.committed = None
  BY Zenon DEF Live
<1>0. s \in RoundState
  BY Zenon DEF Local
<1> SUFFICES ASSUME NEW r0 \in Rounds, NEW v0 \in Values, Voted(s, M, "precommit", r0, v0), v0 # v
             PROVE  \E vr \in Rounds : r0 <= vr /\ vr < s.round /\ Quorate(s, "prevote", vr, v)
  BY Zenon DEF LockFree
<1>1. r0 <= s.locked_round
  BY Zenon DEF Local, Locks
<1>2. s.locked_round # -1 /\ s.locked_round \in Rounds /\ s.locked_value = v
  <2>1. s.locked_round # -1
    BY <1>1, Sizes
  <2> QED BY <1>0, <2>1, Zenon DEF RoundState, Past
<1>3. Voted(s, M, "precommit", s.locked_round, v)
  BY <1>2, Zenon DEF Local, Locks
<1>4. Quorate(s, "prevote", s.locked_round, v)
  BY <1>2, <1>3, Zenon DEF Local, Locks
<1>5. s.locked_round # s.round
  <2>1. s.round \notin s.precommitted_rounds
    BY DEF Local, Rounded, Propose, Precommit
  <2> QED BY <1>2, <1>3, <2>1, Zenon DEF Local, VotesOnce, Ids
<1>6. s.locked_round < s.round
  BY <1>0, <1>5, Numbers DEF Local, Locks
<1> QED BY <1>1, <1>2, <1>4, <1>6, Zenon

(* `upon` a fresh proposal in the propose step. *)
LEMMA FreshKeeps ==
  ASSUME NEW s, NEW M, Live(s, M)
  PROVE  Live(rule_propose_fresh(s), M) /\ Later(s, rule_propose_fresh(s))
<1> DEFINE p == s.proposals[s.round]
           v == IF p.valid /\ (s.locked_round = -1 \/ s.locked_value = p.id) THEN p.id ELSE NIL
<1>0. Local(s, M) /\ s \in RoundState /\ s.round \in s.started_rounds /\ s.committed = None
  BY Zenon DEF Live, Local
<1>1. CASE s.step = Propose /\ p # None /\ rule_propose_fresh(s) = prevote(s, s.round, v)
  <2>1. p \in Proposals
    BY <1>0, <1>1, Zenon DEF RoundState
  <2>2. v \in Ids /\ (v \in Values => s.locked_round = -1 \/ s.locked_value = v)
    BY <2>1, RoundAssumption, Zenon DEF Proposals, Ids
  <2> HIDE DEF v
  <2>3. v \in Values => LockFree(s, M, v)
    BY <1>0, <1>1, <2>2, LockedIsFree, Zenon
  <2>4. /\ Local(prevote(s, s.round, v), M) /\ Later(s, prevote(s, s.round, v))
        /\ SameInputs(s, prevote(s, s.round, v)) /\ SameRound(s, prevote(s, s.round, v))
    BY <1>0, <1>1, <2>2, <2>3, PrevoteKeeps, Zenon
  <2> QED BY <1>0, <1>1, <2>4, Zenon DEF Live, SameInputs, SameRound
<1>2. CASE rule_propose_fresh(s) = s
  BY <1>0, <1>2, SameIsLater, Zenon DEF Live, SameInputs, SameLock, SameRound
<1> QED BY <1>1, <1>2, Zenon DEF rule_propose_fresh

(* `upon` a re-proposal that carries a proof-of-lock round. *)
LEMMA PolcKeeps ==
  ASSUME NEW s, NEW M, Live(s, M)
  PROVE  Live(rule_propose_polc(s), M) /\ Later(s, rule_propose_polc(s))
<1> DEFINE p == s.proposals[s.round]
           v == IF p.valid /\ polc_unlocks(s, p) THEN p.id ELSE NIL
<1>0. Local(s, M) /\ s \in RoundState /\ s.round \in s.started_rounds /\ s.committed = None
  BY Zenon DEF Live, Local
<1>1. CASE /\ s.step = Propose /\ p # None
           /\ p.valid_round >= 0 /\ AsU32(p.valid_round) < s.round
           /\ prevote_count(s, AsU32(p.valid_round), p.id) >= quorum
           /\ rule_propose_polc(s) = prevote(s, s.round, v)
  <2>1. p \in Proposals /\ s.round \in Rounds
    BY <1>0, <1>1, Zenon DEF RoundState
  <2>2. v \in Ids /\ (v \in Values => v = p.id /\ polc_unlocks(s, p))
    BY <2>1, RoundAssumption, Zenon DEF Proposals, Ids
  <2>3. v \in Values => LockFree(s, M, v)
    <3>0. SUFFICES ASSUME v \in Values PROVE LockFree(s, M, v)
      BY Zenon
    <3>1. CASE s.locked_value = p.id
      BY <1>0, <1>1, <2>2, <3>0, <3>1, LockedIsFree, Zenon
    <3>2. CASE s.locked_round <= p.valid_round
      <4> SUFFICES ASSUME Narrow, NEW r0 \in Rounds, NEW v0 \in Values, Voted(s, M, "precommit", r0, v0)
                   PROVE  \E vr \in Rounds : r0 <= vr /\ vr < s.round /\ Quorate(s, "prevote", vr, v)
        BY Zenon DEF LockFree
      <4>1. p.valid_round \in Nat /\ p.valid_round < U32
        <5>1. p.valid_round < U32
          BY <1>0, <1>1, <2>1, Zenon DEF Local, Unlocks
        <5> QED BY <1>1, <2>1, <5>1 DEF Proposals
      <4>2. AsU32(p.valid_round) = p.valid_round
        BY <4>1, RoundAssumption DEF AsU32
      <4>3. p.valid_round \in Rounds
        BY <1>1, <2>1, <4>1, <4>2, RoundAssumption DEF Rounds
      <4>4. r0 <= s.locked_round
        BY <1>0, Zenon DEF Local, Locks
      <4>5. r0 \in Int /\ s.locked_round \in Int /\ p.valid_round \in Int
        BY <1>0, <4>1, Numbers, Sizes
      <4>6. r0 <= p.valid_round
        BY ONLY <3>2, <4>4, <4>5
      <4> QED BY <1>1, <2>2, <3>0, <4>2, <4>3, <4>6, Zenon DEF prevote_count, Quorate
    <3> QED BY <2>2, <3>0, <3>1, <3>2, Zenon DEF polc_unlocks
  <2> HIDE DEF v
  <2>4. /\ Local(prevote(s, s.round, v), M) /\ Later(s, prevote(s, s.round, v))
        /\ SameInputs(s, prevote(s, s.round, v)) /\ SameRound(s, prevote(s, s.round, v))
    BY <1>0, <1>1, <2>2, <2>3, PrevoteKeeps, Zenon
  <2> QED BY <1>0, <1>1, <2>4, Zenon DEF Live, SameInputs, SameRound
<1>2. CASE rule_propose_polc(s) = s
  BY <1>0, <1>2, SameIsLater, Zenon DEF Live, SameInputs, SameLock, SameRound
<1> QED BY <1>1, <1>2, Zenon DEF rule_propose_polc

(* A timer armed once. *)
LEMMA ScheduleKeeps ==
  ASSUME NEW s, NEW t \in RoundState, NEW M, Live(s, M),
         SameInputs(s, t), SameLock(s, t), SameRound(s, t), SamePhase(s, t), t.work = s.work
  PROVE  Live(t, M) /\ Later(s, t)
BY FrameKeeps, Zenon DEF Live, SameInputs, SameRound

(* Scheduling a timeout changes the timers and nothing else. *)
LEMMA ScheduleFields ==
  ASSUME NEW u \in RoundState, NEW step \in Steps, NEW r \in Rounds
  PROVE  LET t == ScheduleTimeout(u, step, r) IN
         /\ t \in RoundState /\ SameInputs(u, t) /\ SameLock(u, t) /\ SameRound(u, t) /\ SamePhase(u, t)
         /\ t.work = u.work
<1>1. u.timers \union {<<step, r>>} \in SUBSET (Steps \X Rounds)
  BY DEF RoundState
<1>2. ScheduleTimeout(u, step, r) \in RoundState
  BY <1>1, Zenon DEF ScheduleTimeout, RoundState
<1> QED BY <1>2, Zenon DEF ScheduleTimeout, RoundState, SameInputs, SameLock, SameRound, SamePhase

(* `upon` 2f+1 prevotes of any kind in the prevote step. *)
LEMMA PrevoteTimeoutKeeps ==
  ASSUME NEW s, NEW M, Live(s, M)
  PROVE  Live(rule_prevote_timeout(s), M) /\ Later(s, rule_prevote_timeout(s))
<1> DEFINE u == [s EXCEPT !.prevote_timeout_armed = @ \union {s.round}]
           t == ScheduleTimeout(u, Prevote, s.round)
<1>0. s \in RoundState /\ s.round \in Rounds /\ Prevote \in Steps
  BY Zenon DEF Live, Local, RoundState, Steps
<1>1. CASE rule_prevote_timeout(s) = s
  BY <1>0, <1>1, SameIsLater, Zenon DEF SameInputs, SameLock, SameRound
<1>2. CASE rule_prevote_timeout(s) = t
  <2>1. u \in RoundState /\ SameInputs(s, u) /\ SameLock(s, u) /\ SameRound(s, u) /\ SamePhase(s, u)
        /\ u.work = s.work
    BY <1>0, Zenon DEF RoundState, SameInputs, SameLock, SameRound, SamePhase
  <2> HIDE DEF u
  <2>2. /\ t \in RoundState /\ SameInputs(u, t) /\ SameLock(u, t) /\ SameRound(u, t) /\ SamePhase(u, t)
        /\ t.work = u.work
    BY <1>0, <2>1, ScheduleFields, Zenon
  <2> HIDE DEF t
  <2>3. SameInputs(s, t) /\ SameLock(s, t) /\ SameRound(s, t) /\ SamePhase(s, t)
    BY <2>1, <2>2, Zenon DEF SameInputs, SameLock, SameRound, SamePhase
  <2> QED BY <1>2, <2>1, <2>2, <2>3, ScheduleKeeps, Zenon
<1> QED BY <1>1, <1>2, Zenon DEF rule_prevote_timeout

(* `upon` 2f+1 precommits of any kind. *)
LEMMA PrecommitTimeoutKeeps ==
  ASSUME NEW s, NEW M, Live(s, M)
  PROVE  Live(rule_precommit_timeout(s), M) /\ Later(s, rule_precommit_timeout(s))
<1> DEFINE u == [s EXCEPT !.precommit_timeout_armed = @ \union {s.round}]
           t == ScheduleTimeout(u, Precommit, s.round)
<1>0. s \in RoundState /\ s.round \in Rounds /\ Precommit \in Steps
  BY Zenon DEF Live, Local, RoundState, Steps
<1>1. CASE rule_precommit_timeout(s) = s
  BY <1>0, <1>1, SameIsLater, Zenon DEF SameInputs, SameLock, SameRound
<1>2. CASE rule_precommit_timeout(s) = t
  <2>1. u \in RoundState /\ SameInputs(s, u) /\ SameLock(s, u) /\ SameRound(s, u) /\ SamePhase(s, u)
        /\ u.work = s.work
    BY <1>0, Zenon DEF RoundState, SameInputs, SameLock, SameRound, SamePhase
  <2> HIDE DEF u
  <2>2. /\ t \in RoundState /\ SameInputs(u, t) /\ SameLock(u, t) /\ SameRound(u, t) /\ SamePhase(u, t)
        /\ t.work = u.work
    BY <1>0, <2>1, ScheduleFields, Zenon
  <2> HIDE DEF t
  <2>3. SameInputs(s, t) /\ SameLock(s, t) /\ SameRound(s, t) /\ SamePhase(s, t)
    BY <2>1, <2>2, Zenon DEF SameInputs, SameLock, SameRound, SamePhase
  <2> QED BY <1>2, <2>1, <2>2, <2>3, ScheduleKeeps, Zenon
<1> QED BY <1>1, <1>2, Zenon DEF rule_precommit_timeout

(* validValue moves to the current round without a lock. *)
LEMMA ValidKeeps ==
  ASSUME NEW s, NEW t \in RoundState, NEW M, Live(s, M),
         SameInputs(s, t), SameRound(s, t), SamePhase(s, t), t.work = s.work,
         t.locked_value = s.locked_value, t.locked_round = s.locked_round,
         AtHand(s, t.valid_value), t.valid_round = s.round
  PROVE  Live(t, M) /\ Later(s, t)
<1>0. Local(s, M) /\ s \in RoundState
  BY Zenon DEF Live, Local
<1>1. /\ Intents(t) = Intents(s)
      /\ \A k, r, v : Voted(t, M, k, r, v) <=> Voted(s, M, k, r, v)
  BY Zenon DEF Intents, Voted, SameInputs
<1>2. Rounded(t) /\ VotesOnce(t, M)
  BY <1>0, <1>1, Zenon DEF Local, Rounded, VotesOnce, SameRound, SamePhase
<1>3. /\ \A k, r, v : Quorate(t, k, r, v) <=> Quorate(s, k, r, v)
      /\ \A v : AtHand(t, v) <=> AtHand(s, v)
      /\ \A c : Certifies(t, c) <=> Certifies(s, c)
      /\ Counted(t, M)
  BY <1>0, SameInputsKeeps, Zenon DEF Local
<1>4. Locks(t, M)
  <2>1. t.locked_round <= t.valid_round /\ t.valid_round <= t.round
    BY <1>0, Numbers DEF Local, Locks, SameRound
  <2> QED BY <1>0, <1>1, <1>3, <2>1, Zenon DEF Local, Locks, SameInputs
<1>5. Unlocks(t, M)
  BY <1>0, <1>1, <1>3, Zenon DEF Local, Unlocks, SameInputs
<1>6. BlocksHeld(t) /\ DecisionsCertified(t)
  BY <1>0, <1>1, <1>3, Zenon DEF Local, BlocksHeld, DecisionsCertified, SameInputs
<1>7. Later(s, t)
  BY <1>0, Numbers DEF Later, SameInputs, SameRound
<1>8. Local(t, M)
  BY <1>0, <1>2, <1>3, <1>4, <1>5, <1>6, Zenon DEF Local, SameInputs
<1> QED BY <1>7, <1>8, Zenon DEF Live, SameInputs, SameRound

(* `upon` 2f+1 prevotes for a valid proposal: the rule that locks. *)
LEMMA PrevoteQuorumKeeps ==
  ASSUME NEW s, NEW M, Live(s, M)
  PROVE  Live(rule_prevote_quorum(s), M) /\ Later(s, rule_prevote_quorum(s))
<1> DEFINE p == s.proposals[s.round]
           seen == [s EXCEPT !.prevote_quorum_seen = @ \union {s.round},
                             !.valid_value = p.id, !.valid_round = s.round]
           lock == [seen EXCEPT !.locked_value = p.id, !.locked_round = s.round]
           t == rule_prevote_quorum(s)
<1>0. Local(s, M) /\ s \in RoundState /\ s.round \in Rounds /\ s.round \in s.started_rounds
  BY Zenon DEF Live, Local, RoundState
<1>1. CASE t = s
  BY <1>0, <1>1, SameIsLater, Zenon DEF SameInputs, SameLock, SameRound
<1>2. CASE /\ p # None /\ p.valid /\ prevote_count(s, s.round, p.id) >= quorum
           /\ t = seen \/ (s.step = Prevote /\ t = precommit(lock, s.round, p.id))
  <2>1. p \in Proposals
    BY <1>0, <1>2, Zenon DEF RoundState
  <2>2. p.id \in Values /\ p.id \in Blocks /\ p.id \in Ids /\ s.round \in Past
    BY <1>0, <2>1, Zenon DEF Proposals, Blocks, Ids, Past
  <2>3. AtHand(s, p.id)
    BY <1>0, <1>2, Zenon DEF Live, Local, BlocksHeld
  <2>4. Quorate(s, "prevote", s.round, p.id)
    BY <1>2, Zenon DEF prevote_count, Quorate
  <2>5. /\ seen \in RoundState /\ SameInputs(s, seen) /\ SameRound(s, seen) /\ SamePhase(s, seen)
        /\ seen.work = s.work /\ seen.locked_value = s.locked_value /\ seen.locked_round = s.locked_round
        /\ seen.valid_value = p.id /\ seen.valid_round = s.round
    <3> HIDE DEF p
    <3> QED BY <1>0, <2>2, ZenonT(30) DEF RoundState, SameInputs, SameRound, SamePhase
  <2>6. CASE t = seen
    <3> HIDE DEF seen
    <3> QED BY <2>3, <2>5, <2>6, ValidKeeps, Zenon
  <2>7. CASE s.step = Prevote /\ t = precommit(lock, s.round, p.id)
    <3> HIDE DEF seen, p
    <3>1. /\ lock \in RoundState /\ SameInputs(s, lock) /\ SameRound(s, lock) /\ SamePhase(s, lock)
          /\ lock.work = s.work /\ lock.locked_value = p.id /\ lock.locked_round = s.round
          /\ lock.valid_value = p.id /\ lock.valid_round = s.round
      BY <1>0, <2>2, <2>5, ZenonT(30) DEF RoundState, SameInputs, SameRound, SamePhase
    <3> DEFINE u == precommit(lock, lock.round, p.id)
    <3> HIDE DEF lock
    <3>2. lock.round = s.round /\ lock.step = Prevote
      BY <2>7, <3>1, Zenon DEF SameRound, SamePhase
    <3>3. /\ u \in RoundState /\ SameInputs(lock, u) /\ SameLock(lock, u) /\ SameRound(lock, u)
          /\ u.step = Precommit /\ u.prevoted_rounds = lock.prevoted_rounds
          /\ u.precommitted_rounds = lock.precommitted_rounds \union {lock.round}
          /\ u.work = Append(lock.work, [act |-> "precommit", round |-> lock.round, id |-> p.id])
      BY <2>2, <3>1, <3>2, PrecommitFields, Zenon
    <3>4. t = u
      BY <2>7, <3>2, Zenon
    <3> HIDE DEF u, t
    <3>5. /\ SameInputs(s, u) /\ SameRound(s, u)
          /\ u.prevoted_rounds = s.prevoted_rounds
          /\ u.precommitted_rounds = s.precommitted_rounds \union {s.round}
          /\ u.work = Append(s.work, [act |-> "precommit", round |-> s.round, id |-> p.id])
          /\ u.locked_value = p.id /\ u.locked_round = s.round
          /\ u.valid_value = p.id /\ u.valid_round = s.round
      BY <3>1, <3>2, <3>3, Zenon DEF SameInputs, SameLock, SameRound, SamePhase
    <3>6. Locking(s, u, p.id)
      BY <2>2, <2>3, <2>4, <3>5, Zenon DEF Locking
    <3>7. Local(u, M) /\ Later(s, u)
      BY <1>0, <2>2, <2>7, <3>3, <3>5, <3>6, PrecommitKeeps, Zenon
    <3> QED BY <3>4, <3>5, <3>7, Zenon DEF Live, SameInputs, SameRound, t
  <2> QED BY <1>2, <2>6, <2>7, Zenon
<1> QED BY <1>1, <1>2, Zenon DEF rule_prevote_quorum

(* `upon` 2f+1 prevotes for nil. *)
LEMMA PrevoteNilKeeps ==
  ASSUME NEW s, NEW M, Live(s, M)
  PROVE  Live(rule_prevote_nil(s), M) /\ Later(s, rule_prevote_nil(s))
<1> DEFINE t == precommit(s, s.round, NIL)
<1>0. Local(s, M) /\ s \in RoundState /\ s.round \in s.started_rounds /\ NIL \in Ids
  BY Zenon DEF Live, Local, Ids
<1>1. CASE rule_prevote_nil(s) = s
  BY <1>0, <1>1, SameIsLater, Zenon DEF SameInputs, SameLock, SameRound
<1>2. CASE s.step = Prevote /\ rule_prevote_nil(s) = t
  <2>1. /\ t \in RoundState /\ SameInputs(s, t) /\ SameLock(s, t) /\ SameRound(s, t)
        /\ t.step = Precommit /\ t.prevoted_rounds = s.prevoted_rounds
        /\ t.precommitted_rounds = s.precommitted_rounds \union {s.round}
        /\ t.work = Append(s.work, [act |-> "precommit", round |-> s.round, id |-> NIL])
    BY <1>0, <1>2, PrecommitFields, Zenon
  <2> HIDE DEF t
  <2>2. Locking(s, t, NIL)
    BY <2>1, Zenon DEF Locking
  <2>3. Local(t, M) /\ Later(s, t)
    BY <1>0, <1>2, <2>1, <2>2, PrecommitKeeps, Zenon
  <2> QED BY <1>2, <2>1, <2>3, Zenon DEF Live, SameInputs, SameRound
<1> QED BY <1>1, <1>2, Zenon DEF rule_prevote_nil

(* rule_decide: the certificate it hands over is the one it counted. *)
LEMMA DecideKeeps ==
  ASSUME NEW s, NEW M, Live(s, M)
  PROVE  Live(rule_decide(s), M) /\ Later(s, rule_decide(s))
<1> DEFINE r == CHOOSE q \in DecidableRounds(s) : TRUE
           id == s.proposals[r].id
           a == [act |-> "decided", round |-> r, id |-> id, signers |-> VotersFor(s, "precommit", r, id)]
           d == [s EXCEPT !.decided = TRUE]
           t == Push(d, a)
<1>0. Local(s, M) /\ s \in RoundState /\ s.round \in s.started_rounds /\ s.committed = None
  BY Zenon DEF Live, Local
<1>1. CASE DecidableRounds(s) = {}
  BY <1>0, <1>1, SameIsLater, Zenon DEF SameInputs, SameLock, SameRound, rule_decide
<1>2. CASE DecidableRounds(s) # {}
  <2>1. r \in DecidableRounds(s)
    BY <1>2, Zenon
  <2>2. rule_decide(s) = t
    BY <1>2, Zenon DEF rule_decide
  <2> HIDE DEF r
  <2>3. /\ r \in Rounds /\ s.proposals[r] # None /\ s.proposals[r].valid
        /\ Cardinality(VotersFor(s, "precommit", r, id)) >= quorum
    BY <2>1, Zenon DEF DecidableRounds, precommit_count
  <2>4. id \in Values
    BY <1>0, <2>3, Zenon DEF RoundState, Proposals
  <2>5. AtHand(s, id)
    BY <1>0, <2>3, Zenon DEF Local, BlocksHeld
  <2> HIDE DEF id
  <2>6. a \in Actions /\ a.act = "decided" /\ a.id = id
    BY <2>3, <2>4, VotersType, Zenon DEF Actions, Decisions
  <2>7. Certifies(s, a)
    BY <2>3, <2>5, Zenon DEF Certifies, AtHand
  <2> HIDE DEF a
  <2>8. /\ d \in RoundState /\ SameInputs(s, d) /\ SameLock(s, d) /\ SameRound(s, d) /\ SamePhase(s, d)
        /\ d.work = s.work
    BY <1>0, ZenonT(30) DEF RoundState, SameInputs, SameLock, SameRound, SamePhase
  <2> HIDE DEF d
  <2>9. t \in RoundState
    BY <2>6, <2>8, PushType, Zenon
  <2>10. /\ SameInputs(s, t) /\ SameLock(s, t) /\ SameRound(s, t) /\ SamePhase(s, t)
         /\ t.work = Append(s.work, a)
    BY <2>8, Zenon DEF Push, RoundState, SameInputs, SameLock, SameRound, SamePhase
  <2> HIDE DEF t
  <2>11. Intents(t) = Intents(s) \union {a}
    BY <1>0, <2>10, IntentsPush, Zenon
  <2>12. \A k \in Kinds : \A q, w : Voted(t, M, k, q, w) <=> Voted(s, M, k, q, w)
    <3>1. \A k \in Kinds : \A q, w : [act |-> k, round |-> q, id |-> w] # a
      BY <2>6 DEF Kinds
    <3> QED BY <2>10, <2>11, <3>1, Zenon DEF Voted, SameInputs
  <2>13. /\ \A k, q, w : Quorate(t, k, q, w) <=> Quorate(s, k, q, w)
         /\ \A w : AtHand(t, w) <=> AtHand(s, w)
         /\ \A c : Certifies(t, c) <=> Certifies(s, c)
         /\ Counted(t, M)
    BY <1>0, <2>10, SameInputsKeeps, Zenon DEF Local
  <2>14. Rounded(t) /\ VotesOnce(t, M)
    BY <1>0, <2>10, <2>12, Zenon DEF Local, Rounded, VotesOnce, SameRound, SamePhase, Kinds
  <2>15. Locks(t, M) /\ Unlocks(t, M)
    BY <1>0, <2>10, <2>12, <2>13, Zenon DEF Local, Locks, Unlocks, SameLock, SameInputs, SameRound, Kinds
  <2>16. BlocksHeld(t) /\ DecisionsCertified(t)
    BY <1>0, <2>5, <2>6, <2>7, <2>10, <2>11, <2>13, Zenon DEF Local, BlocksHeld, DecisionsCertified, SameLock, SameInputs
  <2>17. Later(s, t)
    BY <1>0, <2>10, SameIsLater, Zenon
  <2>18. Local(t, M)
    BY <1>0, <2>9, <2>10, <2>13, <2>14, <2>15, <2>16, Zenon DEF Local, SameInputs
  <2> QED BY <1>0, <2>2, <2>10, <2>17, <2>18, Zenon DEF Live, SameInputs, SameRound
<1> QED BY <1>1, <1>2, Zenon

(* A set of rounds has a least member. *)
LEMMA LeastRound ==
  ASSUME Arithmetic, NEW S \in SUBSET Rounds, S # {}
  PROVE  LET r == CHOOSE r \in S : \A q \in S : r <= q
         IN  r \in S /\ \A q \in S : r <= q
BY Zenon DEF Arithmetic

(* EnterKeeps on a node that has not finished. *)
LEMMA EnterLive ==
  ASSUME NEW s, NEW M, Local(s, M), s.committed = None, NEW r \in Rounds, r >= s.round,
         s.started_rounds = {} => ~s.decided
  PROVE  Live(enter_round_core(s, r), M) /\ Later(s, enter_round_core(s, r))
<1> DEFINE t == enter_round_core(s, r)
<1>0. s \in RoundState
  BY Zenon DEF Local
<1>1. Local(t, M) /\ Later(s, t)
  BY EnterKeeps, Zenon
<1>2. t = s \/ (t.committed = s.committed /\ t.round = r /\ r \in t.started_rounds)
  BY <1>0, Zenon DEF enter_round_core, Push, ScheduleTimeout, RoundState
<1>3. t = s => s.started_rounds # {}
  <2>1. ASSUME s.started_rounds = {} PROVE t.round = r /\ r \in t.started_rounds
    BY <1>0, <2>1, Zenon DEF enter_round_core, Push, ScheduleTimeout, RoundState
  <2> QED BY <2>1, Zenon
<1>4. t = s => s.round \in s.started_rounds
  BY <1>3, Zenon DEF Local, Rounded
<1> QED BY <1>1, <1>2, <1>4, Zenon DEF Live

(* `upon` f+1 votes of a later round. *)
LEMMA SkipKeeps ==
  ASSUME Arithmetic, NEW s, NEW M, Live(s, M)
  PROVE  Live(rule_skip_round(s), M) /\ Later(s, rule_skip_round(s))
<1> DEFINE ahead == {r \in Rounds : r > s.round /\ Cardinality(participants(s, r)) >= f_plus_1}
           r0 == CHOOSE r \in ahead : \A q \in ahead : r <= q
<1>0. Local(s, M) /\ s \in RoundState /\ s.round \in s.started_rounds /\ s.committed = None
  BY Zenon DEF Live, Local
<1>1. CASE ahead = {}
  BY <1>0, <1>1, SameIsLater, Zenon DEF SameInputs, SameLock, SameRound, rule_skip_round
<1>2. CASE ahead # {}
  <2>1. r0 \in ahead
    BY <1>2, LeastRound, Zenon
  <2>2. rule_skip_round(s) = enter_round_core(s, r0)
    BY <1>2, Zenon DEF rule_skip_round
  <2>3. r0 \in Rounds /\ r0 > s.round
    BY <2>1, Zenon
  <2> HIDE DEF r0
  <2>4. r0 >= s.round
    BY <1>0, <2>3, Numbers, Sizes
  <2> QED BY <1>0, <2>2, <2>3, <2>4, EnterLive, Zenon
<1> QED BY <1>1, <1>2, Zenon

(* pass and evaluate: any number of rules. *)
LEMMA PassKeeps ==
  ASSUME Arithmetic, NEW s, NEW M, Live(s, M)
  PROVE  Live(pass(s), M) /\ Later(s, pass(s))
<1> DEFINE s1 == rule_propose_fresh(s)     s2 == rule_propose_polc(s1)
           s3 == rule_prevote_timeout(s2)  s4 == rule_prevote_quorum(s3)
           s5 == rule_prevote_nil(s4)      s6 == rule_precommit_timeout(s5)
           s7 == rule_decide(s6)           s8 == rule_skip_round(s7)
<1>0. \A u : Live(u, M) => u \in RoundState
  BY Zenon DEF Live, Local
<1>1. Live(s1, M) /\ Later(s, s1)
  BY FreshKeeps, Zenon
<1>2. Live(s2, M) /\ Later(s1, s2)
  <2> HIDE DEF s1
  <2> QED BY <1>1, PolcKeeps, Zenon
<1>3. Live(s3, M) /\ Later(s2, s3)
  <2> HIDE DEF s2
  <2> QED BY <1>2, PrevoteTimeoutKeeps, Zenon
<1>4. Live(s4, M) /\ Later(s3, s4)
  <2> HIDE DEF s3
  <2> QED BY <1>3, PrevoteQuorumKeeps, Zenon
<1>5. Live(s5, M) /\ Later(s4, s5)
  <2> HIDE DEF s4
  <2> QED BY <1>4, PrevoteNilKeeps, Zenon
<1>6. Live(s6, M) /\ Later(s5, s6)
  <2> HIDE DEF s5
  <2> QED BY <1>5, PrecommitTimeoutKeeps, Zenon
<1>7. Live(s7, M) /\ Later(s6, s7)
  <2> HIDE DEF s6
  <2> QED BY <1>6, DecideKeeps, Zenon
<1>8. Live(s8, M) /\ Later(s7, s8)
  <2> HIDE DEF s7
  <2> QED BY <1>7, SkipKeeps, Zenon
<1>9. pass(s) = s \/ pass(s) = s8
  BY Zenon DEF pass
<1> HIDE DEF s1, s2, s3, s4, s5, s6, s7, s8
<1>10. Later(s, s8)
  <2>1. Later(s, s2)
    BY <1>0, <1>1, <1>2, LaterTransitive
  <2>2. Later(s, s3)
    BY <1>0, <1>2, <1>3, <2>1, LaterTransitive, Zenon
  <2>3. Later(s, s4)
    BY <1>0, <1>3, <1>4, <2>2, LaterTransitive, Zenon
  <2>4. Later(s, s5)
    BY <1>0, <1>4, <1>5, <2>3, LaterTransitive, Zenon
  <2>5. Later(s, s6)
    BY <1>0, <1>5, <1>6, <2>4, LaterTransitive, Zenon
  <2>6. Later(s, s7)
    BY <1>0, <1>6, <1>7, <2>5, LaterTransitive, Zenon
  <2> QED BY <1>0, <1>7, <1>8, <2>6, LaterTransitive, Zenon
<1>11. Later(s, s)
  BY <1>0, SameIsLater, Zenon DEF SameInputs, SameLock, SameRound
<1> QED BY <1>8, <1>9, <1>10, <1>11, Zenon

(* The whole of `evaluate`, to its fixed point. *)
LEMMA EvaluateKeeps ==
  ASSUME Arithmetic, NEW s, NEW M, Live(s, M)
  PROVE  Live(evaluate(s), M) /\ Later(s, evaluate(s))
<1> DEFINE t == pass(s)
           u == pass(t)
<1>1. Live(t, M) /\ Later(s, t)
  BY PassKeeps, Zenon
<1> HIDE DEF t
<1>2. Live(u, M) /\ Later(t, u)
  BY <1>1, PassKeeps, Zenon
<1>3. evaluate(s) = u
  BY Zenon DEF evaluate, t
<1> HIDE DEF u
<1> QED BY <1>1, <1>2, <1>3, LaterTransitive, Zenon DEF Live, Local

=============================================================================
