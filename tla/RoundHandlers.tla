--------------------------- MODULE RoundHandlers ----------------------------
(***************************************************************************)
(* Every step of module Round keeps the invariant of RoundRules, for every *)
(* value of the constants: what a handler is handed, what drive carries    *)
(* out, and then the handlers themselves.                                  *)
(***************************************************************************)
EXTENDS RoundRules

(* The inputs: a proposal stored, a vote counted, a block or a message     *)
(* added, an intent carried out.                                           *)
Grows(s, t) ==
  /\ t.local_root = s.local_root /\ t.stalled = s.stalled /\ t.committed = s.committed
  /\ s.values \subseteq t.values /\ s.out \subseteq t.out
  /\ \A m \in t.out : m \in s.out \/ m.from = s.local_root
  /\ \A k \in Kinds, r \in Rounds, v \in Validators :
       s.votes[k][r][v] # None => t.votes[k][r][v] = s.votes[k][r][v]
  /\ \A r \in Rounds : t.proposals[r] # None =>
       \/ t.proposals[r] = s.proposals[r]
       \/ /\ t.proposals[r].valid => AtHand(t, t.proposals[r].id)
          /\ Narrow => t.proposals[r].valid_round < U32

Input(s, t) ==
  /\ SameLock(s, t) /\ SameRound(s, t) /\ SamePhase(s, t) /\ SameTimers(s, t)
  /\ t.decided = s.decided /\ Grows(s, t)

(* What a node hears adds to its tallies and its proposals; the invariant  *)
(* survives any such input.                                                *)
LEMMA InputKeeps ==
  ASSUME Arithmetic, NEW s, NEW t \in RoundState, NEW M, Local(s, M),
         SameLock(s, t), SameRound(s, t), SamePhase(s, t), Grows(s, t), Intents(t) \subseteq Intents(s),
         \A k \in Kinds : \A r \in Rounds, v \in Ids : Voted(t, M, k, r, v) <=> Voted(s, M, k, r, v),
         Counted(t, M)
  PROVE  Local(t, M) /\ Later(s, t)
<1>0. s \in RoundState /\ None \notin Ids /\ Values \subseteq Ids /\ "prevote" \in Kinds /\ "precommit" \in Kinds
  BY RoundAssumption, Zenon DEF Local, Ids, Kinds
<1>1. \A k \in Kinds, r \in Rounds, v \in Ids :
         /\ VotersFor(s, k, r, v) \subseteq VotersFor(t, k, r, v)
         /\ Quorate(s, k, r, v) => Quorate(t, k, r, v)
  <2> SUFFICES ASSUME NEW k \in Kinds, NEW r \in Rounds, NEW v \in Ids
               PROVE  /\ VotersFor(s, k, r, v) \subseteq VotersFor(t, k, r, v)
                      /\ Quorate(s, k, r, v) => Quorate(t, k, r, v)
    BY Zenon
  <2>1. \A n \in Validators : s.votes[k][r][n] # None => t.votes[k][r][n] = s.votes[k][r][n]
    BY Zenon DEF Grows
  <2> QED BY ONLY Arithmetic, <1>0, <2>1, v \in Ids, QuorateStable, Zenon
<1>2. Rounded(t) /\ VotesOnce(t, M)
  BY <1>0, Zenon DEF Local, Rounded, VotesOnce, SameRound, SamePhase
<1>3. Locks(t, M)
  BY <1>0, <1>1, Zenon DEF Local, Locks, SameLock, SameRound, Grows, RoundState, Past
<1>4. Unlocks(t, M)
  <2>1. Unlocks(s, M)
    BY Zenon DEF Local
  <2>2. Narrow => \A r \in Rounds : t.proposals[r] # None => t.proposals[r].valid_round < U32
    BY <2>1, Zenon DEF Unlocks, Grows
  <2> QED BY <1>0, <1>1, <2>1, <2>2, Zenon DEF Unlocks
<1>5. BlocksHeld(t)
  <2>1. \A v : AtHand(s, v) => AtHand(t, v)
    BY Zenon DEF AtHand, Grows
  <2> QED BY <2>1, Zenon DEF Local, BlocksHeld, Grows, SameLock
<1>6. DecisionsCertified(t)
  <2>1. \A c : c.round \in Rounds /\ c.id \in Values /\ Certifies(s, c) => Certifies(t, c)
    BY <1>0, <1>1, Zenon DEF Certifies
  <2>2. \A a \in Intents(s) : a.act = "decided" => a.round \in Rounds /\ a.id \in Values
    BY <1>0, IntentsType, Zenon DEF Actions, Proposes, VoteActs, Decisions, Kinds
  <2>3. s.committed # None => s.committed.round \in Rounds /\ s.committed.id \in Values
    BY <1>0, Zenon DEF RoundState, Certificates
  <2> QED BY <2>1, <2>2, <2>3, Zenon DEF Local, DecisionsCertified, Grows
<1>7. Later(s, t)
  BY <1>0, Numbers DEF Later, SameLock, SameRound, Grows
<1> QED BY <1>2, <1>3, <1>4, <1>5, <1>6, <1>7, Zenon DEF Local, Grows

(* The first proposal of a round is kept, *)
Stored(s, r, id, vr, valid) == [s EXCEPT !.proposals[r] = [id |-> id, valid_round |-> vr, valid |-> valid]]

(* on_proposal stores the proposal of a round. *)
LEMMA StoreKeeps ==
  ASSUME Arithmetic, NEW s, NEW M, Live(s, M), NEW r \in Rounds, NEW id \in Values, NEW vr \in Int, NEW valid \in BOOLEAN,
         valid => AtHand(s, id), Narrow => vr < U32
  PROVE  LET t == Stored(s, r, id, vr, valid) IN
         /\ Live(t, M) /\ Later(s, t) /\ Input(s, t)
         /\ t.work = s.work /\ t.out = s.out /\ t.votes = s.votes
         /\ t.proposals[r] # None /\ t.proposals[r].id = id
         /\ t.proposals[r].valid_round = vr /\ t.proposals[r].valid = valid
         /\ \A q \in Rounds : q # r => t.proposals[q] = s.proposals[q]
<1> DEFINE p == [id |-> id, valid_round |-> vr, valid |-> valid]
           t == Stored(s, r, id, vr, valid)
<1>0. Local(s, M) /\ s \in RoundState /\ s.round \in s.started_rounds /\ s.committed = None
  BY Zenon DEF Live, Local
<1>1. p \in Proposals /\ p.id = id /\ p.valid_round = vr /\ p.valid = valid /\ p # None
  BY NoneAssumption DEF Proposals
<1> HIDE DEF p
<1>2. /\ t \in RoundState
      /\ SameLock(s, t) /\ SameRound(s, t) /\ SamePhase(s, t) /\ t.work = s.work
      /\ t.local_root = s.local_root /\ t.stalled = s.stalled /\ t.committed = s.committed
      /\ t.values = s.values /\ t.out = s.out /\ t.votes = s.votes /\ t.evidence = s.evidence
      /\ \A q \in Rounds : t.proposals[q] = IF q = r THEN p ELSE s.proposals[q]
  BY <1>0, <1>1, ZenonT(30) DEF RoundState, SameLock, SameRound, SamePhase, Stored, p
<1>3. SameTimers(s, t) /\ t.decided = s.decided
  BY <1>0, Zenon DEF RoundState, SameTimers, Stored
<1> HIDE DEF t
<1>4. Grows(s, t)
  BY <1>1, <1>2, Zenon DEF Grows, AtHand
<1>5. Intents(t) = Intents(s) /\ \A k, q, v : Voted(t, M, k, q, v) <=> Voted(s, M, k, q, v)
  BY <1>2 DEF Intents, Voted
<1>6. Counted(t, M)
  BY <1>0, <1>2, Zenon DEF Local, Counted
<1>7. Local(t, M) /\ Later(s, t)
  BY ONLY Arithmetic, <1>0, <1>2, <1>4, <1>5, <1>6, InputKeeps, Zenon
<1>8. Live(t, M)
  BY <1>0, <1>2, <1>7, Zenon DEF Live, SameRound
<1> QED BY <1>1, <1>2, <1>3, <1>4, <1>7, <1>8, Zenon DEF Input, t, p

(* and on_proposal lets it take effect. *)
LEMMA ProposalKeeps ==
  ASSUME Arithmetic, NEW s, NEW M, Live(s, M), NEW r \in Rounds, NEW id \in Values, NEW vr \in Int, NEW valid \in BOOLEAN,
         valid => AtHand(s, id), Narrow => vr < U32
  PROVE  Live(on_proposal(s, r, id, vr, valid), M) /\ Later(s, on_proposal(s, r, id, vr, valid))
<1> DEFINE t == Stored(s, r, id, vr, valid)
           u == IF s.proposals[r] = None THEN t ELSE s
<1>0. s \in RoundState
  BY Zenon DEF Live, Local
<1>1. on_proposal(s, r, id, vr, valid) = evaluate(u)
  BY Zenon DEF on_proposal, Stored
<1>2. Live(t, M) /\ Later(s, t)
  BY StoreKeeps, Zenon
<1>3. Live(u, M) /\ Later(s, u)
  <2> HIDE DEF t
  <2>1. Later(s, s)
    BY <1>0, SameIsLater, Zenon DEF SameInputs, SameLock, SameRound
  <2> QED BY <1>2, <2>1, Zenon
<1> HIDE DEF u
<1>4. Live(evaluate(u), M) /\ Later(u, evaluate(u))
  BY <1>3, EvaluateKeeps, Zenon
<1> HIDE DEF evaluate
<1> QED BY <1>0, <1>1, <1>3, <1>4, LaterTransitive, Zenon DEF Live, Local

(* A vote that passes verify_vote was cast by a faulty root or sent by the *)
(* root that signs it.                                                     *)
Genuine(s, M, m) ==
  /\ m.kind \in Kinds /\ m.from \in Validators /\ m.round \in Rounds /\ m.id \in Ids
  /\ m.authentic => m.from \in Faulty \/ VoteMsg(m.kind, m.from, m.round, m.id) \in M \union s.out

(* An honest root never sends two different votes of one phase. *)
LEMMA HonestVoteIsOne ==
  ASSUME NEW s, NEW M, Local(s, M), Messages(M),
         NEW k \in Kinds, NEW n \in Honest, NEW r \in Rounds, NEW v \in Ids, NEW w \in Ids,
         VoteMsg(k, n, r, v) \in M \union s.out, VoteMsg(k, n, r, w) \in M \union s.out
  PROVE  v = w
<1>1. CASE n = s.local_root
  <2>1. Voted(s, M, k, r, v) /\ Voted(s, M, k, r, w)
    BY <1>1, Zenon DEF Voted
  <2> QED BY <2>1, Zenon DEF Local, VotesOnce, Kinds
<1>2. CASE n # s.local_root
  <2> DEFINE p == VoteMsg(k, n, r, v)
             q == VoteMsg(k, n, r, w)
  <2>1. /\ p.kind = k /\ p.from = n /\ p.round = r /\ p.id = v
        /\ q.kind = k /\ q.from = n /\ q.round = r /\ q.id = w
    BY Zenon DEF VoteMsg
  <2> HIDE DEF p, q
  <2>2. p \in M /\ q \in M
    BY <1>2, <2>1, Zenon DEF Local, p, q
  <2> QED BY <2>1, <2>2, Zenon DEF Messages
<1> QED BY <1>1, <1>2, Zenon

(* A first vote counts, *)
Tallied(s, m) == [s EXCEPT !.votes[m.kind][m.round][m.from] = m.id]

(* on_vote counts an authentic vote of a root not yet counted. *)
LEMMA CountKeeps ==
  ASSUME Arithmetic, NEW s, NEW M, Live(s, M), NEW m, Genuine(s, M, m), m.authentic,
         s.votes[m.kind][m.round][m.from] = None
  PROVE  LET t == Tallied(s, m) IN
         /\ Live(t, M) /\ Later(s, t) /\ Input(s, t)
         /\ t.work = s.work /\ t.out = s.out /\ t.proposals = s.proposals
         /\ \A k \in Kinds, r \in Rounds, v \in Validators :
              t.votes[k][r][v] = IF k = m.kind /\ r = m.round /\ v = m.from THEN m.id ELSE s.votes[k][r][v]
<1> DEFINE t == Tallied(s, m)
<1>0. Local(s, M) /\ s \in RoundState /\ s.round \in s.started_rounds /\ s.committed = None
  BY Zenon DEF Live, Local
<1>1. m.kind \in Kinds /\ m.from \in Validators /\ m.round \in Rounds /\ m.id \in Ids
  BY Zenon DEF Genuine
<1>2. /\ t \in RoundState
      /\ SameLock(s, t) /\ SameRound(s, t) /\ SamePhase(s, t) /\ t.work = s.work
      /\ t.local_root = s.local_root /\ t.stalled = s.stalled /\ t.committed = s.committed
      /\ t.values = s.values /\ t.out = s.out /\ t.proposals = s.proposals /\ t.evidence = s.evidence
      /\ SameTimers(s, t) /\ t.decided = s.decided
  <2>1. [s.votes EXCEPT ![m.kind][m.round][m.from] = m.id] \in Votes
    BY <1>0, <1>1 DEF RoundState, Votes
  <2>2. t = [s EXCEPT !.votes = [s.votes EXCEPT ![m.kind][m.round][m.from] = m.id]]
    BY <1>0, Zenon DEF RoundState, Tallied
  <2> QED BY <1>0, <2>1, <2>2, ZenonT(30) DEF RoundState, SameLock, SameRound, SamePhase, SameTimers
<1>3. \A k \in Kinds, r \in Rounds, v \in Validators :
        t.votes[k][r][v] = IF k = m.kind /\ r = m.round /\ v = m.from THEN m.id ELSE s.votes[k][r][v]
  BY <1>0, <1>1 DEF RoundState, Votes, Tallied
<1> HIDE DEF t
<1>4. Grows(s, t)
  BY <1>2, <1>3 DEF Grows
<1>5. Intents(t) = Intents(s) /\ \A k, q, v : Voted(t, M, k, q, v) <=> Voted(s, M, k, q, v)
  BY <1>2, Zenon DEF Intents, Voted
<1>6. Counted(t, M)
  <2>1. m.from \in Honest => VoteMsg(m.kind, m.from, m.round, m.id) \in M \union s.out
    BY Zenon DEF Genuine, Honest
  <2>2. Honest \subseteq Validators
    BY Zenon DEF Honest
  <2> QED BY <1>0, <1>2, <1>3, <2>1, <2>2 DEF Local, Counted
<1>7. Local(t, M) /\ Later(s, t)
  BY ONLY Arithmetic, <1>0, <1>2, <1>4, <1>5, <1>6, InputKeeps, Zenon
<1>8. Live(t, M)
  BY <1>0, <1>2, <1>7, Zenon DEF Live, SameRound
<1> QED BY <1>2, <1>3, <1>4, <1>7, <1>8, Zenon DEF Input, t

(* and on_vote takes a different second one for evidence. *)
LEMMA VoteKeeps ==
  ASSUME Arithmetic, NEW s, NEW M, Live(s, M), Messages(M), NEW m, Genuine(s, M, m)
  PROVE  Live(on_vote(s, m), M) /\ Later(s, on_vote(s, m))
<1> DEFINE prior == s.votes[m.kind][m.round][m.from]
           e == [s EXCEPT !.evidence = @ \union {m.from}]
           t == Tallied(s, m)
<1>0. Local(s, M) /\ s \in RoundState /\ s.round \in s.started_rounds /\ s.committed = None
  BY Zenon DEF Live, Local
<1>1. m.kind \in Kinds /\ m.from \in Validators /\ m.round \in Rounds /\ m.id \in Ids
  BY Zenon DEF Genuine
<1>2. prior \in Ids \union {None}
  BY <1>0, <1>1 DEF RoundState, Votes
<1>3. CASE on_vote(s, m) = s
  BY <1>0, <1>3, SameIsLater, Zenon DEF SameInputs, SameLock, SameRound
<1>4. CASE m.authentic /\ prior # m.id /\ prior # None /\ on_vote(s, m) = e
  <2>1. m.from \in Faulty
    <3> SUFFICES ASSUME m.from \in Honest PROVE FALSE
      BY <1>1, Zenon DEF Honest
    <3>1. VoteMsg(m.kind, m.from, m.round, m.id) \in M \union s.out
      BY <1>4, Zenon DEF Genuine, Honest
    <3>2. VoteMsg(m.kind, m.from, m.round, prior) \in M \union s.out
      BY <1>0, <1>1, <1>4, Zenon DEF Local, Counted
    <3> HIDE DEF prior
    <3> QED BY ONLY <1>0, <1>1, <1>2, <1>4, <3>1, <3>2, m.from \in Honest, Messages(M), HonestVoteIsOne, Zenon
  <2>2. /\ e \in RoundState
        /\ SameLock(s, e) /\ SameRound(s, e) /\ SamePhase(s, e) /\ e.work = s.work
        /\ e.local_root = s.local_root /\ e.stalled = s.stalled /\ e.committed = s.committed
        /\ e.values = s.values /\ e.out = s.out /\ e.votes = s.votes /\ e.proposals = s.proposals
        /\ e.evidence = s.evidence \union {m.from}
    BY <1>0, <1>1 DEF RoundState, SameLock, SameRound, SamePhase
  <2> HIDE DEF e, prior
  <2>3. Grows(s, e)
    BY <2>2, Zenon DEF Grows
  <2>4. Intents(e) = Intents(s) /\ \A k, q, v : Voted(e, M, k, q, v) <=> Voted(s, M, k, q, v)
    BY <2>2, Zenon DEF Intents, Voted
  <2>5. Counted(e, M)
    BY <1>0, <2>1, <2>2, Zenon DEF Local, Counted
  <2>6. Local(e, M) /\ Later(s, e)
    BY ONLY Arithmetic, <1>0, <2>2, <2>3, <2>4, <2>5, InputKeeps, Zenon
  <2> QED BY <1>0, <1>4, <2>2, <2>6, Zenon DEF Live, SameRound
<1>5. CASE m.authentic /\ prior = None /\ on_vote(s, m) = evaluate(t)
  <2>1. Live(t, M) /\ Later(s, t)
    BY <1>5, CountKeeps, Zenon
  <2> HIDE DEF t
  <2>2. Live(evaluate(t), M) /\ Later(t, evaluate(t))
    BY <2>1, EvaluateKeeps, Zenon
  <2> QED BY <1>0, <1>5, <2>1, <2>2, LaterTransitive, Zenon DEF Live, Local
<1> QED BY <1>3, <1>4, <1>5, Zenon DEF on_vote, accept_vote, Tallied

-----------------------------------------------------------------------------
(* drive.  Once the block is committed nothing is left to do. *)
Driven(s, M) ==
  /\ Local(s, M) /\ s.round \in s.started_rounds
  /\ s.committed # None => s.work = << >>

(* What drive takes off the queue. *)
Taken(s) == [s EXCEPT !.work = Tail(@)]

(* `drive` takes the first intent off the work list. *)
LEMMA TakenFields ==
  ASSUME NEW s \in RoundState, s.work # << >>
  PROVE  /\ Taken(s) \in RoundState /\ Taken(s).work = Tail(s.work)
         /\ SameInputs(s, Taken(s)) /\ SameLock(s, Taken(s)) /\ SameRound(s, Taken(s))
         /\ SamePhase(s, Taken(s)) /\ SameTimers(s, Taken(s)) /\ Taken(s).decided = s.decided
         /\ Intents(s) = Intents(Taken(s)) \union {Head(s.work)} /\ Head(s.work) \in Actions
<1>1. Tail(s.work) \in Seq(Actions)
  BY DEF RoundState
<1>2. /\ Taken(s) \in RoundState /\ Taken(s).work = Tail(s.work)
      /\ SameInputs(s, Taken(s)) /\ SameLock(s, Taken(s)) /\ SameRound(s, Taken(s))
      /\ SamePhase(s, Taken(s)) /\ SameTimers(s, Taken(s)) /\ Taken(s).decided = s.decided
  BY <1>1, ZenonT(30) DEF Taken, RoundState, SameInputs, SameLock, SameRound, SamePhase, SameTimers
<1> QED BY <1>2, IntentsTail, Zenon

(* build_proposal: the proposal is sent, and the block is at hand, *)
BuiltId(a) == IF a.reuse = None THEN Fresh[a.round] ELSE a.reuse
BuiltMsg(s, a) == ProposalMsg(s.local_root, a.round, BuiltId(a), a.valid_round)
Built(s, a) == [Send(Taken(s), BuiltMsg(s, a)) EXCEPT !.values = @ \union {BuiltId(a)}]

(* build_proposal broadcasts the node's own proposal. *)
LEMMA BuiltKeeps ==
  ASSUME Arithmetic, NEW s, NEW M, Live(s, M), s.work # << >>, Head(s.work).act = "propose"
  PROVE  LET a == Head(s.work)
             o == Built(s, a)
         IN  /\ Live(o, M) /\ Later(s, o) /\ Input(s, o)
             /\ o.work = Tail(s.work) /\ o.out = s.out \union {BuiltMsg(s, a)}
             /\ o.votes = s.votes /\ o.proposals = s.proposals
             /\ \A k \in Kinds : \A r, v : Voted(o, M, k, r, v) <=> Voted(s, M, k, r, v)
             /\ a \in Proposes /\ BuiltId(a) \in Values /\ AtHand(o, BuiltId(a))
             /\ BuiltMsg(s, a).kind = "proposal" /\ BuiltMsg(s, a).round = a.round
             /\ BuiltMsg(s, a).from = s.local_root
             /\ build_proposal(Taken(s), a) = on_proposal(o, a.round, BuiltId(a), a.valid_round, TRUE)
<1> DEFINE a == Head(s.work)
           t == Taken(s)
           id == BuiltId(a)
           m == BuiltMsg(s, a)
           o == Built(s, a)
<1>0. Local(s, M) /\ s \in RoundState /\ s.round \in s.started_rounds /\ s.committed = None
  BY Zenon DEF Live, Local
<1>1. /\ t \in RoundState /\ t.work = Tail(s.work)
      /\ SameInputs(s, t) /\ SameLock(s, t) /\ SameRound(s, t) /\ SamePhase(s, t) /\ SameTimers(s, t)
      /\ t.decided = s.decided
      /\ Intents(s) = Intents(t) \union {a} /\ a \in Actions
  BY <1>0, TakenFields, Zenon
<1>2. a \in Proposes
  BY <1>1, Zenon DEF Actions, VoteActs, Decisions, Kinds
<1> HIDE DEF t, a
<1>3. a.act = "propose" /\ a.round \in Rounds /\ a.reuse \in Blocks /\ a.valid_round \in Past
  BY <1>2, Zenon DEF Proposes
<1>4. /\ id \in Values /\ id \in ValidValues
      /\ a.reuse # None => a.reuse \in s.values
  <2>1. a.reuse # None => AtHand(s, a.reuse)
    BY <1>0, <1>1, <1>3, Zenon DEF Local, BlocksHeld
  <2> QED BY <1>3, <2>1, RoundAssumption, Zenon DEF AtHand, BuiltId
<1> HIDE DEF id
<1>5. build_proposal(t, a) = on_proposal(o, a.round, id, a.valid_round, TRUE)
  BY <1>1, <1>4, Zenon DEF build_proposal, id, SameInputs, Built, BuiltMsg, BuiltId, t
<1>6. m \in HonestMsgs /\ m.kind = "proposal" /\ m.from = s.local_root /\ m.round = a.round
  BY <1>0, <1>3, <1>4, Zenon DEF BuiltMsg, id, ProposalMsg, HonestMsgs, HonestProposals, RoundState
<1> HIDE DEF m
<1>7. o = [Send(t, m) EXCEPT !.values = @ \union {id}]
  BY Zenon DEF Built, t, m, id
<1> HIDE DEF o
<1>8. /\ o \in RoundState
      /\ SameLock(s, o) /\ SameRound(s, o) /\ SamePhase(s, o) /\ o.work = t.work
      /\ o.local_root = s.local_root /\ o.stalled = s.stalled /\ o.committed = s.committed
      /\ o.values = s.values \union {id} /\ o.out = s.out \union {m}
      /\ o.votes = s.votes /\ o.proposals = s.proposals /\ o.evidence = s.evidence
      /\ SameTimers(s, o) /\ o.decided = s.decided
  BY <1>1, <1>4, <1>6, <1>7, ZenonT(30) DEF Send, RoundState, SameInputs, SameLock, SameRound, SamePhase, SameTimers
<1>9. Intents(o) = Intents(t)
  BY <1>8, Zenon DEF Intents
<1>10. \A k \in Kinds : \A r, v : Voted(o, M, k, r, v) <=> Voted(s, M, k, r, v)
  <2>1. \A k \in Kinds : \A r, v : [act |-> k, round |-> r, id |-> v] # a
    BY <1>3 DEF Kinds
  <2>2. \A k \in Kinds : \A r, v : VoteMsg(k, s.local_root, r, v) # m
    BY <1>6 DEF VoteMsg, Kinds
  <2> QED BY <1>1, <1>8, <1>9, <2>1, <2>2 DEF Voted
<1>11. Grows(s, o) /\ Counted(o, M)
  BY <1>0, <1>6, <1>8, Zenon DEF Grows, Local, Counted
<1>12. Local(o, M) /\ Later(s, o)
  <2>1. Intents(o) \subseteq Intents(s)
    BY <1>1, <1>9, Zenon
  <2> QED BY ONLY Arithmetic, <1>0, <1>8, <1>10, <1>11, <2>1, InputKeeps, Zenon
<1>13. Live(o, M) /\ AtHand(o, id) /\ Input(s, o)
  BY <1>0, <1>4, <1>8, <1>11, <1>12, Zenon DEF Live, SameRound, AtHand, Input
<1> QED BY <1>1, <1>2, <1>4, <1>5, <1>6, <1>8, <1>10, <1>12, <1>13, Zenon DEF o, m, id, a, t

(* so that it never stalls. *)
LEMMA BuildKeeps ==
  ASSUME Arithmetic, NEW s, NEW M, Live(s, M), s.work # << >>, Head(s.work).act = "propose"
  PROVE  LET u == build_proposal(Taken(s), Head(s.work))
         IN  Live(u, M) /\ Later(s, u)
<1> DEFINE a == Head(s.work)
           o == Built(s, a)
           id == BuiltId(a)
           u == on_proposal(o, a.round, id, a.valid_round, TRUE)
<1>1. /\ Live(o, M) /\ Later(s, o) /\ AtHand(o, id) /\ id \in Values /\ a \in Proposes
      /\ build_proposal(Taken(s), a) = u
  BY BuiltKeeps, Zenon
<1> HIDE DEF o, a, id
<1>2. a.round \in Rounds /\ a.valid_round \in Int /\ a.valid_round < U32
  BY <1>1, RoundAssumption DEF Proposes, Past, Rounds
<1>3. Live(u, M) /\ Later(o, u)
  BY ONLY Arithmetic, <1>1, <1>2, ProposalKeeps, TRUE \in BOOLEAN, Zenon
<1> HIDE DEF u
<1>4. Later(s, u)
  BY <1>1, <1>3, LaterTransitive, Zenon DEF Live, Local
<1> QED BY <1>1, <1>3, <1>4, Zenon DEF u, a

(* sign_vote: the intent becomes a message, *)
SignedMsg(s, a) == VoteMsg(a.act, s.local_root, a.round, a.id)
Signed(s, a) == Send(Taken(s), SignedMsg(s, a))

(* sign_vote signs and broadcasts the node's own vote. *)
LEMMA SignedKeeps ==
  ASSUME Arithmetic, NEW s, NEW M, Live(s, M), s.work # << >>, Head(s.work).act \in Kinds
  PROVE  LET a == Head(s.work)
             o == Signed(s, a)
             m == SignedMsg(s, a)
         IN  /\ Live(o, M) /\ Later(s, o) /\ Input(s, o)
             /\ o.work = Tail(s.work) /\ o.out = s.out \union {m}
             /\ o.votes = s.votes /\ o.proposals = s.proposals
             /\ \A k \in Kinds : \A r, v : Voted(o, M, k, r, v) <=> Voted(s, M, k, r, v)
             /\ a \in VoteActs /\ Genuine(o, M, m) /\ m.authentic
             /\ m.kind = a.act /\ m.from = s.local_root /\ m.round = a.round /\ m.id = a.id
             /\ m = VoteMsg(m.kind, m.from, m.round, m.id)
             /\ SignVote(Taken(s), a) = on_vote(o, m)
<1> DEFINE a == Head(s.work)
           t == Taken(s)
           m == SignedMsg(s, a)
           o == Signed(s, a)
<1>0. Local(s, M) /\ s \in RoundState /\ s.round \in s.started_rounds /\ s.committed = None
  BY Zenon DEF Live, Local
<1>1. /\ t \in RoundState /\ t.work = Tail(s.work)
      /\ SameInputs(s, t) /\ SameLock(s, t) /\ SameRound(s, t) /\ SamePhase(s, t) /\ SameTimers(s, t)
      /\ t.decided = s.decided
      /\ Intents(s) = Intents(t) \union {a} /\ a \in Actions
  BY <1>0, TakenFields, Zenon
<1>2. a \in VoteActs
  BY <1>1, Zenon DEF Actions, Proposes, Decisions, Kinds
<1> HIDE DEF t, a
<1>3. a.act \in Kinds /\ a.round \in Rounds /\ a.id \in Ids
  BY <1>2, Zenon DEF VoteActs
<1>4. \A k, r, v : a = [act |-> k, round |-> r, id |-> v] <=> k = a.act /\ r = a.round /\ v = a.id
  BY <1>2 DEF VoteActs
<1>5. /\ m \in HonestMsgs /\ m.from = s.local_root /\ m.kind = a.act /\ m.round = a.round /\ m.id = a.id
      /\ s.local_root \in Honest /\ m.authentic
      /\ m = VoteMsg(m.kind, m.from, m.round, m.id)
  BY <1>0, <1>3, Zenon DEF SignedMsg, VoteMsg, HonestMsgs, HonestVotes, RoundState
<1>6. \A k, r, v : VoteMsg(k, s.local_root, r, v) = m <=> k = a.act /\ r = a.round /\ v = a.id
  BY Zenon DEF SignedMsg, VoteMsg
<1>7. o = Send(t, m) /\ SignVote(t, a) = on_vote(o, m)
  BY <1>1, Zenon DEF Signed, SignVote, SignedMsg, t, SameInputs
<1> HIDE DEF m, o
<1>8. /\ o \in RoundState
      /\ SameLock(s, o) /\ SameRound(s, o) /\ SamePhase(s, o) /\ o.work = t.work
      /\ o.local_root = s.local_root /\ o.stalled = s.stalled /\ o.committed = s.committed
      /\ o.values = s.values /\ o.out = s.out \union {m}
      /\ o.votes = s.votes /\ o.proposals = s.proposals /\ o.evidence = s.evidence
      /\ SameTimers(s, o) /\ o.decided = s.decided
  BY <1>1, <1>5, <1>7, ZenonT(30) DEF Send, RoundState, SameInputs, SameLock, SameRound, SamePhase, SameTimers
<1>9. Intents(o) = Intents(t)
  BY <1>8, Zenon DEF Intents
<1>10. \A k \in Kinds : \A r, v : Voted(o, M, k, r, v) <=> Voted(s, M, k, r, v)
  BY <1>1, <1>4, <1>6, <1>8, <1>9 DEF Voted
<1>11. Grows(s, o) /\ Counted(o, M)
  BY <1>0, <1>5, <1>8, Zenon DEF Grows, Local, Counted
<1>12. Local(o, M) /\ Later(s, o)
  <2>1. Intents(o) \subseteq Intents(s)
    BY <1>1, <1>9, Zenon
  <2> QED BY ONLY Arithmetic, <1>0, <1>8, <1>10, <1>11, <2>1, InputKeeps, Zenon
<1>13. Live(o, M) /\ Input(s, o)
  BY <1>0, <1>8, <1>11, <1>12, Zenon DEF Live, SameRound, Input
<1>14. Genuine(o, M, m)
  BY <1>3, <1>5, <1>8, Zenon DEF Genuine, Honest
<1> QED BY <1>1, <1>2, <1>5, <1>7, <1>8, <1>10, <1>12, <1>13, <1>14, Zenon DEF o, m, a, t

(* and the node counts it. *)
LEMMA SignKeeps ==
  ASSUME Arithmetic, NEW s, NEW M, Live(s, M), Messages(M), s.work # << >>, Head(s.work).act \in Kinds
  PROVE  LET u == SignVote(Taken(s), Head(s.work))
         IN  Live(u, M) /\ Later(s, u)
<1> DEFINE a == Head(s.work)
           m == SignedMsg(s, a)
           o == Signed(s, a)
           u == on_vote(o, m)
<1>1. Live(o, M) /\ Later(s, o) /\ Genuine(o, M, m) /\ SignVote(Taken(s), a) = u
  BY SignedKeeps, Zenon
<1> HIDE DEF o, m
<1>2. Live(u, M) /\ Later(o, u)
  BY <1>1, VoteKeeps, Zenon
<1> HIDE DEF u
<1>3. Later(s, u)
  BY <1>1, <1>2, LaterTransitive, Zenon DEF Live, Local
<1> QED BY <1>1, <1>2, <1>3, Zenon DEF u

(* commit: the decided block is at hand, and what it hands over is what    *)
(* was certified.                                                          *)
LEMMA CommitKeeps ==
  ASSUME NEW s, NEW M, Live(s, M), s.work # << >>, Head(s.work).act = "decided"
  PROVE  LET u == commit(Taken(s), Head(s.work))
         IN  /\ Driven(u, M) /\ Later(s, u)
             /\ u.committed # None /\ u.work = << >> /\ u.local_root = s.local_root /\ u.decided = s.decided
             /\ u.votes = s.votes /\ u.proposals = s.proposals /\ u.out = s.out /\ u.round = s.round
<1> DEFINE a == Head(s.work)
           c == [round |-> a.round, id |-> a.id, signers |-> a.signers]
           t == Taken(s)
           u == commit(t, a)
<1>0. Local(s, M) /\ s \in RoundState /\ s.round \in s.started_rounds /\ s.committed = None
  BY Zenon DEF Live, Local
<1>1. a \in Intents(s) /\ a \in Decisions
  <2>1. a \in Intents(s) /\ a \in Actions
    BY <1>0, TakenFields, Zenon
  <2> QED BY <2>1, Zenon DEF Actions, Proposes, VoteActs, Kinds
<1> HIDE DEF a
<1>2. a.act = "decided" /\ c \in Certificates /\ c.round = a.round /\ c.id = a.id /\ c.signers = a.signers
  BY <1>1, Zenon DEF Decisions, Certificates
<1>3. Certifies(s, c) /\ a.id \in s.values
  <2>1. Certifies(s, a) /\ AtHand(s, a.id)
    BY <1>0, <1>1, <1>2, Zenon DEF Local, DecisionsCertified, BlocksHeld
  <2> HIDE DEF c
  <2> QED BY <1>2, <2>1, Zenon DEF Certifies, AtHand
<1>4. /\ u \in RoundState
      /\ SameLock(s, u) /\ SameRound(s, u) /\ SamePhase(s, u) /\ u.work = << >>
      /\ u.local_root = s.local_root /\ u.stalled = s.stalled /\ u.committed = c
      /\ u.out = s.out /\ u.votes = s.votes /\ u.proposals = s.proposals /\ u.evidence = s.evidence
      /\ u.decided = s.decided
  <2> HIDE DEF c
  <2>1. u = [t EXCEPT !.committed = c, !.work = << >>, !.values = {}, !.timers = {}]
    BY <1>0, <1>3, Zenon DEF commit, RoundState, c, Taken
  <2>2. u = [s EXCEPT !.committed = c, !.work = << >>, !.values = {}, !.timers = {}]
    BY <1>0, <2>1, Zenon DEF RoundState, Taken
  <2>3. << >> \in Seq(Actions)
    OBVIOUS
  <2> HIDE DEF u
  <2> QED BY <1>0, <1>2, <2>2, <2>3, ZenonT(30) DEF RoundState, SameLock, SameRound, SamePhase
<1> HIDE DEF u, c
<1>5. c # None
  BY <1>2, NoneAssumption, Zenon
<1>6. Intents(u) = {}
  BY <1>4 DEF Intents
<1>7. \A k, r, v : Voted(u, M, k, r, v) => Voted(s, M, k, r, v)
  BY <1>4, <1>6, Zenon DEF Voted
<1>8. /\ \A k, r, v : Quorate(u, k, r, v) <=> Quorate(s, k, r, v)
      /\ Certifies(u, c)
      /\ Counted(u, M)
  BY <1>0, <1>3, <1>4, Zenon DEF Quorate, VotersFor, Certifies, Local, Counted
<1>9. Rounded(u) /\ VotesOnce(u, M)
  BY <1>0, <1>4, <1>7, Zenon DEF Local, Rounded, VotesOnce, SameRound, SamePhase
<1>10. Locks(u, M) /\ Unlocks(u, M)
  BY <1>0, <1>4, <1>5, <1>7, <1>8, Zenon DEF Local, Locks, Unlocks, SameLock, SameRound
<1>11. BlocksHeld(u) /\ DecisionsCertified(u)
  BY <1>4, <1>5, <1>6, <1>8, Zenon DEF BlocksHeld, DecisionsCertified
<1>12. Later(s, u)
  BY <1>0, <1>4, Numbers DEF Later, SameLock, SameRound
<1>13. Driven(u, M)
  BY <1>0, <1>4, <1>8, <1>9, <1>10, <1>11, Zenon DEF Driven, Local, SameRound
<1> QED BY <1>4, <1>5, <1>12, <1>13, Zenon DEF u, a, SameRound

(* One turn of the loop of `drive`: an intent is taken, carried out and    *)
(* fed back.                                                               *)
LEMMA Drive1Keeps ==
  ASSUME Arithmetic, NEW s, NEW M, Driven(s, M), Messages(M)
  PROVE  Driven(drive1(s), M) /\ Later(s, drive1(s))
<1> DEFINE a == Head(s.work)
           t == Taken(s)
<1>0. Local(s, M) /\ s \in RoundState
  BY Zenon DEF Driven, Local
<1>1. CASE s.work = << >>
  BY <1>0, <1>1, SameIsLater, Zenon DEF SameInputs, SameLock, SameRound, drive1
<1>2. CASE s.work # << >>
  <2>1. Live(s, M)
    BY <1>2, Zenon DEF Driven, Live
  <2>2. a \in Actions
    BY <1>0, <1>2 DEF RoundState
  <2>3. a.act \in Kinds \/ a.act \in {"propose", "decided"}
    BY <2>2, Zenon DEF Actions, Proposes, VoteActs, Decisions
  <2>4. \A u : Live(u, M) => Driven(u, M)
    BY Zenon DEF Live, Driven
  <2>5. CASE a.act = "propose"
    <3>1. drive1(s) = build_proposal(t, a)
      BY <1>2, <2>5, Zenon DEF drive1, Kinds, Taken
    <3> QED BY <1>2, <2>1, <2>4, <2>5, <3>1, BuildKeeps, Zenon
  <2>6. CASE a.act \in Kinds
    <3>1. drive1(s) = SignVote(t, a)
      BY <1>2, <2>6, Zenon DEF drive1, Kinds, Taken
    <3> QED BY <1>2, <2>1, <2>4, <2>6, <3>1, SignKeeps, Zenon
  <2>7. CASE a.act = "decided"
    <3>1. drive1(s) = commit(t, a)
      BY <1>2, <2>7, Zenon DEF drive1, Kinds, Taken
    <3> QED BY <1>2, <2>1, <2>7, <3>1, CommitKeeps, Zenon
  <2> QED BY <2>3, <2>5, <2>6, <2>7, Zenon
<1> QED BY <1>1, <1>2, Zenon

(* The whole loop of `drive`. *)
LEMMA DriveKeeps ==
  ASSUME Arithmetic, NEW s, NEW M, Live(s, M), Messages(M)
  PROVE  Driven(drive(s), M) /\ Later(s, drive(s))
<1> DEFINE s1 == drive1(s)  s2 == drive1(s1)  s3 == drive1(s2)  s4 == drive1(s3)
<1>0. \A u : Driven(u, M) => u \in RoundState
  BY Zenon DEF Driven, Local
<1>1. Driven(s, M)
  BY Zenon DEF Live, Driven
<1>2. Driven(s1, M) /\ Later(s, s1)
  BY <1>1, Drive1Keeps, Zenon
<1>3. Driven(s2, M) /\ Later(s1, s2)
  <2> HIDE DEF s1
  <2> QED BY <1>2, Drive1Keeps, Zenon
<1>4. Driven(s3, M) /\ Later(s2, s3)
  <2> HIDE DEF s2
  <2> QED BY <1>3, Drive1Keeps, Zenon
<1>5. Driven(s4, M) /\ Later(s3, s4)
  <2> HIDE DEF s3
  <2> QED BY <1>4, Drive1Keeps, Zenon
<1>6. drive(s) = s4
  BY Zenon DEF drive
<1> HIDE DEF s1, s2, s3, s4
<1>7. Later(s, s2)
  BY <1>0, <1>1, <1>2, <1>3, LaterTransitive, Zenon
<1>8. Later(s, s3)
  BY <1>0, <1>1, <1>3, <1>4, <1>7, LaterTransitive, Zenon
<1> QED BY <1>0, <1>1, <1>4, <1>5, <1>6, <1>8, LaterTransitive, Zenon

-----------------------------------------------------------------------------
(* The handlers. *)
LEMMA StartKeeps ==
  ASSUME Arithmetic, NEW s, NEW M, Local(s, M), Messages(M), s.committed = None, s.started_rounds = {}, ~s.decided,
         s.round = 0
  PROVE  LET u == drive(evaluate(enter_round_core(s, 0))) IN Driven(u, M) /\ Later(s, u)
<1> DEFINE e == enter_round_core(s, 0)
           v == evaluate(e)
           u == drive(v)
<1>0. 0 \in Rounds /\ s \in RoundState
  BY Sizes, Zenon DEF Local
<1>1. Live(e, M) /\ Later(s, e)
  BY <1>0, EnterLive
<1> HIDE DEF e
<1>2. Live(v, M) /\ Later(e, v)
  BY <1>1, EvaluateKeeps, Zenon
<1> HIDE DEF v
<1>3. Driven(u, M) /\ Later(v, u)
  BY <1>2, DriveKeeps, Zenon
<1> HIDE DEF u
<1>4. e \in RoundState /\ v \in RoundState /\ u \in RoundState
  BY <1>1, <1>2, <1>3, Zenon DEF Live, Driven, Local
<1>5. Later(s, v)
  BY <1>0, <1>1, <1>2, <1>4, LaterTransitive, Zenon
<1>6. Later(s, u)
  BY <1>0, <1>3, <1>4, <1>5, LaterTransitive, Zenon
<1> QED BY <1>3, <1>6, Zenon DEF u, v, e

(* on_timeout, whichever timer runs out and however late. *)
LEMMA TimeoutKeeps ==
  ASSUME Arithmetic, NEW s, NEW M, Live(s, M), NEW step \in Steps, NEW r \in Rounds,
         ~(step = Precommit /\ r = MaxRound)
  PROVE  Live(on_timeout(s, step, r), M) /\ Later(s, on_timeout(s, step, r))
<1> DEFINE t == on_timeout(s, step, r)
<1>0. Local(s, M) /\ s \in RoundState /\ s.round \in s.started_rounds /\ s.committed = None /\ NIL \in Ids /\ NIL \notin Values
  BY RoundAssumption, Zenon DEF Live, Local, Ids
<1>a. ASSUME NEW e, Live(e, M), Later(s, e), t = evaluate(e) PROVE Live(t, M) /\ Later(s, t)
  <2>1. Live(evaluate(e), M) /\ Later(e, evaluate(e))
    BY <1>a, EvaluateKeeps, Zenon
  <2> HIDE DEF t
  <2> QED BY <1>0, <1>a, <2>1, LaterTransitive, Zenon DEF Live, Local
<1>1. CASE t = s
  BY <1>0, <1>1, SameIsLater, Zenon DEF SameInputs, SameLock, SameRound
<1>2. CASE s.step = Propose /\ t = evaluate(prevote(s, s.round, NIL))
  <2> DEFINE e == prevote(s, s.round, NIL)
  <2>1. Local(e, M) /\ Later(s, e) /\ SameInputs(s, e) /\ SameRound(s, e)
    BY <1>0, <1>2, PrevoteKeeps, Zenon
  <2> HIDE DEF e
  <2>2. Live(e, M)
    BY <1>0, <2>1, Zenon DEF Live, SameInputs, SameRound
  <2> QED BY <1>2, <1>a, <2>1, <2>2, Zenon DEF e
<1>3. CASE s.step = Prevote /\ t = evaluate(precommit(s, s.round, NIL))
  <2> DEFINE e == precommit(s, s.round, NIL)
  <2>1. /\ e \in RoundState /\ SameInputs(s, e) /\ SameLock(s, e) /\ SameRound(s, e)
        /\ e.step = Precommit /\ e.prevoted_rounds = s.prevoted_rounds
        /\ e.precommitted_rounds = s.precommitted_rounds \union {s.round}
        /\ e.work = Append(s.work, [act |-> "precommit", round |-> s.round, id |-> NIL])
    BY <1>0, <1>3, PrecommitFields, Zenon
  <2> HIDE DEF e
  <2>2. Locking(s, e, NIL)
    BY <2>1, Zenon DEF Locking
  <2>3. Local(e, M) /\ Later(s, e)
    BY <1>0, <1>3, <2>1, <2>2, PrecommitKeeps, Zenon
  <2>4. Live(e, M)
    BY <1>0, <2>1, <2>3, Zenon DEF Live, SameInputs, SameRound
  <2> QED BY <1>3, <1>a, <2>3, <2>4, Zenon DEF e
<1>4. CASE step = Precommit /\ r = s.round /\ t = evaluate(enter_round_core(s, r + 1))
  <2> DEFINE e == enter_round_core(s, r + 1)
  <2>1. r + 1 \in Rounds /\ r + 1 >= s.round
    BY <1>4, RoundAssumption DEF Rounds
  <2>2. Live(e, M) /\ Later(s, e)
    BY <1>0, <2>1, EnterLive, Zenon
  <2> HIDE DEF e
  <2> QED BY <1>4, <1>a, <2>2, Zenon DEF e
<1> QED BY <1>1, <1>2, <1>3, <1>4, Zenon DEF on_timeout

(* What a node is handed: an authentic message of an honest root was sent. *)
LEMMA Received ==
  ASSUME NEW s, NEW M, Messages(M), NEW m \in M \union FaultyMsgs
  PROVE  /\ m.from \in Validators /\ m.round \in Rounds
         /\ m.kind \in Kinds => Genuine(s, M, m)
         /\ m.kind \notin Kinds => /\ m.kind = "proposal" /\ m.id \in Values /\ m.valid_round \in Int
                                   /\ Narrow => m.valid_round < U32
                                   /\ m.authentic => m.from \in Faulty \/ m \in M
<1>1. /\ m.from \in Validators /\ m.round \in Rounds
      /\ \/ m.kind \in Kinds /\ m.id \in Ids
         \/ m.kind = "proposal" /\ m.id \in Values /\ m.valid_round \in Int /\ (Narrow => m.valid_round < U32)
  <2>1. CASE m \in FaultyMsgs
    BY <2>1, FaultyMsgsAssumption, Zenon DEF Narrow
  <2>2. CASE m \in HonestVotes
    BY <2>2, Zenon DEF HonestVotes, Honest
  <2>3. CASE m \in HonestProposals
    <3>1. \A vr \in Past : vr \in Int /\ vr < U32
      BY RoundAssumption DEF Past, Rounds
    <3> QED BY <2>3, <3>1, Zenon DEF HonestProposals, Honest
  <2> QED BY <2>1, <2>2, <2>3, Zenon DEF Messages, HonestMsgs
<1>2. ASSUME m.kind \in Kinds PROVE Genuine(s, M, m)
  <2>1. m.id \in Ids
    BY <1>1, <1>2, Zenon DEF Kinds
  <2>2. m.authentic => m.from \in Faulty \/ VoteMsg(m.kind, m.from, m.round, m.id) \in M
    <3>1. CASE m \in FaultyMsgs
      BY <3>1, FaultyMsgsAssumption, Zenon
    <3>2. CASE m \in M
      <4>1. m \in HonestVotes
        BY <1>2, <3>2, Zenon DEF Messages, HonestMsgs, HonestProposals, Kinds
      <4>2. m = VoteMsg(m.kind, m.from, m.round, m.id)
        BY <4>1, Zenon DEF HonestVotes, VoteMsg
      <4> QED BY <3>2, <4>2, Zenon
    <3> QED BY <3>1, <3>2, Zenon
  <2> QED BY <1>1, <1>2, <2>1, <2>2, Zenon DEF Genuine
<1>3. m.authentic => m.from \in Faulty \/ m \in M
  BY FaultyMsgsAssumption, Zenon
<1> QED BY <1>1, <1>2, <1>3, Zenon

(* The proposal's block is kept whenever it is valid. *)
Keeping(s, m) ==
  [s EXCEPT !.values = IF validate_proposal(m) THEN s.values \union {m.id} ELSE s.values]

(* ingest keeps the block of a proposal it could validate. *)
LEMMA KeepingKeeps ==
  ASSUME Arithmetic, NEW s, NEW M, Live(s, M), NEW m, m.id \in Values
  PROVE  LET h == Keeping(s, m) IN
         /\ Live(h, M) /\ Later(s, h) /\ Input(s, h)
         /\ h.work = s.work /\ h.out = s.out /\ h.votes = s.votes /\ h.proposals = s.proposals
         /\ validate_proposal(m) \in BOOLEAN /\ (validate_proposal(m) => AtHand(h, m.id))
<1> DEFINE held == IF validate_proposal(m) THEN s.values \union {m.id} ELSE s.values
           h == Keeping(s, m)
<1>0. Local(s, M) /\ s \in RoundState /\ s.round \in s.started_rounds /\ s.committed = None
  BY Zenon DEF Live, Local
<1>1. /\ validate_proposal(m) \in BOOLEAN
      /\ validate_proposal(m) => m.id \in ValidValues /\ m.id \in held
      /\ s.values \subseteq held /\ held \subseteq Values
  BY <1>0 DEF validate_proposal, RoundState
<1> DEFINE g == [s EXCEPT !.values = held]
<1>2. h = g
  BY Zenon DEF Keeping
<1> HIDE DEF held, h
<1>3. /\ h \in RoundState
      /\ SameLock(s, h) /\ SameRound(s, h) /\ SamePhase(s, h) /\ h.work = s.work
      /\ h.local_root = s.local_root /\ h.stalled = s.stalled /\ h.committed = s.committed
      /\ h.values = held /\ h.out = s.out
      /\ h.votes = s.votes /\ h.proposals = s.proposals /\ h.evidence = s.evidence
      /\ SameTimers(s, h) /\ h.decided = s.decided
  <2>1. /\ g \in RoundState
        /\ SameLock(s, g) /\ SameRound(s, g) /\ SamePhase(s, g) /\ g.work = s.work
        /\ g.local_root = s.local_root /\ g.stalled = s.stalled /\ g.committed = s.committed
        /\ g.values = held /\ g.out = s.out
        /\ g.votes = s.votes /\ g.proposals = s.proposals /\ g.evidence = s.evidence
        /\ SameTimers(s, g) /\ g.decided = s.decided
    BY <1>0, <1>1 DEF RoundState, SameLock, SameRound, SamePhase, SameTimers
  <2> QED BY <1>2, <2>1, Zenon
<1>4. Grows(s, h) /\ Counted(h, M)
  BY <1>0, <1>1, <1>3, Zenon DEF Grows, Local, Counted
<1>5. Intents(h) = Intents(s) /\ \A k, q, v : Voted(h, M, k, q, v) <=> Voted(s, M, k, q, v)
  BY <1>3, Zenon DEF Intents, Voted
<1>6. Local(h, M) /\ Later(s, h)
  BY ONLY Arithmetic, <1>0, <1>3, <1>4, <1>5, InputKeeps, Zenon
<1>7. Live(h, M) /\ (validate_proposal(m) => AtHand(h, m.id))
  BY <1>0, <1>1, <1>3, <1>6, Zenon DEF Live, SameRound, AtHand
<1> QED BY <1>1, <1>3, <1>4, <1>6, <1>7, Zenon DEF Input, h

(* A proposal takes effect once its proposer is known to have signed it. *)
LEMMA IngestKeeps ==
  ASSUME Arithmetic, NEW s, NEW M, Live(s, M), Messages(M), NEW m \in M \union FaultyMsgs
  PROVE  Driven(ingest(s, m), M) /\ Later(s, ingest(s, m))
<1>0. Local(s, M) /\ s \in RoundState /\ s.round \in s.started_rounds /\ s.committed = None
  BY Zenon DEF Live, Local
<1>1. CASE m.kind \in Kinds
  <2> DEFINE t == on_vote(s, m)
  <2>1. Live(t, M) /\ Later(s, t)
    BY <1>1, Received, VoteKeeps, Zenon
  <2> HIDE DEF t
  <2>2. Driven(drive(t), M) /\ Later(t, drive(t))
    BY <2>1, DriveKeeps, Zenon
  <2>3. ingest(s, m) = drive(t)
    BY <1>1, Zenon DEF ingest, t
  <2> QED BY <1>0, <2>1, <2>2, <2>3, LaterTransitive, Zenon DEF Live, Driven, Local
<1>2. CASE m.kind \notin Kinds /\ ~proposal_is_authentic(m)
  <2>1. ingest(s, m) = s
    BY <1>2, Zenon DEF ingest
  <2> QED BY <1>0, <2>1, SameIsLater, Zenon DEF Live, Driven, SameInputs, SameLock, SameRound
<1>3. CASE m.kind \notin Kinds /\ proposal_is_authentic(m)
  <2> DEFINE valid == validate_proposal(m)
             h == Keeping(s, m)
             t == on_proposal(h, m.round, m.id, m.valid_round, valid)
  <2>1. m.round \in Rounds /\ m.id \in Values /\ m.valid_round \in Int /\ (Narrow => m.valid_round < U32)
    <3>1. m.kind \notin Kinds
      BY <1>3, Zenon
    <3> QED BY ONLY <3>1, Messages(M), m \in M \union FaultyMsgs, Received, Zenon
  <2>2. Live(h, M) /\ Later(s, h) /\ valid \in BOOLEAN /\ (valid => AtHand(h, m.id))
    BY <2>1, KeepingKeeps, Zenon
  <2> HIDE DEF h, valid
  <2>3. Live(t, M) /\ Later(h, t)
    BY ONLY Arithmetic, <2>1, <2>2, ProposalKeeps, Zenon
  <2> HIDE DEF t
  <2>4. Driven(drive(t), M) /\ Later(t, drive(t))
    BY <2>3, DriveKeeps, Zenon
  <2>5. ingest(s, m) = drive(t)
    BY <1>3, Zenon DEF ingest, t, h, valid, Keeping
  <2>6. Later(s, t)
    BY <1>0, <2>2, <2>3, LaterTransitive, Zenon DEF Live, Local
  <2> QED BY <1>0, <2>3, <2>4, <2>5, <2>6, LaterTransitive, Zenon DEF Live, Driven, Local
<1> QED BY <1>1, <1>2, <1>3, Zenon

-----------------------------------------------------------------------------
(* The handler returns: its broadcasts join what was sent. *)
LEMMA ReturnKeeps ==
  ASSUME NEW s, NEW M, Local(s, M)
  PROVE  LET t == [s EXCEPT !.out = {}]
         IN  Local(t, M \union s.out) /\ (\A u : Later(u, s) /\ u.out = {} => Later(u, t))
<1> DEFINE t == [s EXCEPT !.out = {}]
<1>0. s \in RoundState
  BY Zenon DEF Local
<1>1. /\ t \in RoundState
      /\ SameLock(s, t) /\ SameRound(s, t) /\ SamePhase(s, t) /\ t.work = s.work
      /\ t.local_root = s.local_root /\ t.stalled = s.stalled /\ t.committed = s.committed
      /\ t.values = s.values /\ t.out = {}
      /\ t.votes = s.votes /\ t.proposals = s.proposals /\ t.evidence = s.evidence
  BY <1>0, Zenon DEF RoundState, SameLock, SameRound, SamePhase
<1> HIDE DEF t
<1>2. Intents(t) = Intents(s) /\ \A k, r, v : Voted(t, M \union s.out, k, r, v) <=> Voted(s, M, k, r, v)
  BY <1>1, Zenon DEF Intents, Voted
<1>3. /\ \A k, r, v : Quorate(t, k, r, v) <=> Quorate(s, k, r, v)
      /\ \A v : AtHand(t, v) <=> AtHand(s, v)
      /\ \A c : Certifies(t, c) <=> Certifies(s, c)
  BY <1>1, Zenon DEF VotersFor, Quorate, AtHand, Certifies
<1>4. Rounded(t) /\ VotesOnce(t, M \union s.out)
  BY <1>1, <1>2, ZenonT(30) DEF Local, Rounded, VotesOnce, SameRound, SamePhase
<1>5. Locks(t, M \union s.out) /\ Unlocks(t, M \union s.out)
  BY <1>1, <1>2, <1>3, Zenon DEF Local, Locks, Unlocks, SameLock, SameRound
<1>6. BlocksHeld(t) /\ DecisionsCertified(t) /\ Counted(t, M \union s.out)
  BY <1>1, <1>2, <1>3, Zenon DEF Local, BlocksHeld, DecisionsCertified, Counted, SameLock
<1>7. Local(t, M \union s.out)
  BY <1>1, <1>4, <1>5, <1>6, Zenon DEF Local
<1>8. \A u : Later(u, s) /\ u.out = {} => Later(u, t)
  BY <1>1 DEF Later, SameLock, SameRound
<1> QED BY <1>7, <1>8, Zenon DEF t

(* What the others send changes nothing a validator has undertaken. *)
LEMMA OthersKeep ==
  ASSUME NEW s, NEW M, Local(s, M), s.out = {}, NEW O, \A m \in O : m.from # s.local_root
  PROVE  Local(s, M \union O)
<1>1. \A k, r, v : VoteMsg(k, s.local_root, r, v) \notin O
  BY Zenon DEF VoteMsg
<1>2. \A k, r, v : Voted(s, M \union O, k, r, v) <=> Voted(s, M, k, r, v)
  BY <1>1, Zenon DEF Voted
<1>3. VotesOnce(s, M \union O) /\ Locks(s, M \union O) /\ Unlocks(s, M \union O)
  BY <1>2, ZenonT(30) DEF Local, VotesOnce, Locks, Unlocks
<1>4. Counted(s, M \union O)
  BY Zenon DEF Local, Counted
<1> QED BY <1>3, <1>4, Zenon DEF Local

(* Nor do they contradict each other. *)
LEMMA MessagesKeep ==
  ASSUME NEW s, NEW M, Local(s, M), Messages(M)
  PROVE  Messages(M \union s.out)
<1>1. s.out \subseteq HonestMsgs /\ \A m \in s.out : m.from = s.local_root
  BY Zenon DEF Local, RoundState
<1> SUFFICES ASSUME NEW p \in M \union s.out, NEW q \in M \union s.out, p.kind \in Kinds,
                    q.kind = p.kind, q.from = p.from, q.round = p.round
             PROVE  q.id = p.id
  BY <1>1, Zenon DEF Messages
<1>2. p \in HonestVotes /\ q \in HonestVotes
  BY <1>1, Zenon DEF Messages, HonestMsgs, HonestProposals, Kinds
<1>3. /\ p = VoteMsg(p.kind, p.from, p.round, p.id) /\ q = VoteMsg(p.kind, p.from, p.round, q.id)
      /\ p.from \in Honest /\ p.round \in Rounds /\ p.id \in Ids /\ q.id \in Ids
  BY <1>2, Zenon DEF HonestVotes, VoteMsg
<1> QED BY <1>3, HonestVoteIsOne

(* A handler of n that leaves its node in a driven state keeps Inv. *)
LEMMA FinishKeeps ==
  ASSUME Inv, NEW n \in Honest, NEW s, Driven(s, msgs), Later(st[n], s), Finish(n, s)
  PROVE  Inv' /\ \A o \in Honest : Later(st[o], st'[o]) /\ st'[o].locked_round <= st'[o].valid_round
<1> DEFINE t == [s EXCEPT !.out = {}]
<1>0. /\ st \in [Honest -> RoundState] /\ Messages(msgs)
      /\ \A o \in Honest : st[o].local_root = o /\ st[o].out = {} /\ Idle(st[o]) /\ Local(st[o], msgs)
  BY Zenon DEF Inv
<1>1. /\ msgs' = msgs \union s.out
      /\ st' = [st EXCEPT ![n] = t]
  BY Zenon DEF Finish
<1>2. Local(s, msgs) /\ s \in RoundState /\ s.round \in s.started_rounds
  BY Zenon DEF Driven, Local
<1>3. t.out = {} /\ t.local_root = s.local_root /\ t.started_rounds = s.started_rounds
  BY <1>2, Zenon DEF RoundState
<1>4. Local(t, msgs \union s.out) /\ Later(st[n], t)
  <2>1. \A u : Later(u, s) /\ u.out = {} => Later(u, t)
    BY <1>2, ReturnKeeps, Zenon
  <2>2. Local(t, msgs \union s.out)
    BY <1>2, ReturnKeeps, Zenon
  <2> HIDE DEF t
  <2> QED BY <1>0, <2>1, <2>2, Zenon
<1> HIDE DEF t
<1>5. Messages(msgs \union s.out)
  BY <1>0, <1>2, MessagesKeep, Zenon
<1>6. s.local_root = n /\ \A m \in s.out : m.from = n
  BY <1>0, <1>2, Zenon DEF Later, Local
<1>7. ASSUME NEW o \in Honest
      PROVE  /\ st'[o] \in RoundState /\ st'[o].local_root = o /\ st'[o].out = {}
             /\ Idle(st'[o]) /\ Local(st'[o], msgs \union s.out)
             /\ Later(st[o], st'[o])
  <2>1. CASE o = n
    <3>1. st'[o] = t
      BY <1>0, <1>1, <2>1, Zenon
    <3>2. t \in RoundState /\ Idle(t)
      BY <1>2, <1>3, <1>4, Zenon DEF Local, Idle
    <3> QED BY <1>3, <1>4, <1>6, <2>1, <3>1, <3>2, Zenon
  <2>2. CASE o # n
    <3>1. st'[o] = st[o]
      BY <1>0, <1>1, <2>2, Zenon
    <3>2. \A m \in s.out : m.from # st[o].local_root
      BY <1>0, <1>6, <2>2, Zenon
    <3>3. Local(st[o], msgs \union s.out)
      BY <1>0, <3>2, OthersKeep, Zenon
    <3>4. Later(st[o], st[o])
      BY <1>0, SameIsLater, Zenon DEF SameInputs, SameLock, SameRound
    <3> QED BY <1>0, <3>1, <3>3, <3>4, Zenon
  <2> QED BY <2>1, <2>2, Zenon
<1>8. st' \in [Honest -> RoundState]
  BY <1>0, <1>1, <1>7, Zenon
<1>9. Inv'
  BY <1>1, <1>5, <1>7, <1>8, Zenon DEF Inv
<1>10. \A o \in Honest : st'[o].locked_round <= st'[o].valid_round
  BY <1>7, Zenon DEF Local, Locks
<1> QED BY <1>7, <1>9, <1>10, Zenon

(* A fresh Round satisfies the invariant. *)
LEMMA InitInv == Init => Inv
<1> SUFFICES ASSUME Init PROVE Inv
  BY Zenon
<1>0. st = [n \in Honest |-> NewRound(n)] /\ msgs = {}
  BY Zenon DEF Init
<1>1. Messages(msgs)
  BY <1>0, Zenon DEF Messages
<1>2. ASSUME NEW n \in Honest
      PROVE  /\ NewRound(n) \in RoundState /\ NewRound(n).local_root = n /\ NewRound(n).out = {}
             /\ Idle(NewRound(n)) /\ Local(NewRound(n), {})
  <2> DEFINE s == NewRound(n)
             none == [k \in Kinds |-> [r \in Rounds |-> [v \in Validators |-> None]]]
             blank == [r \in Rounds |-> None]
  <2>1. 0 \in Rounds /\ -1 \in Past /\ None \in Blocks /\ Propose \in Steps
    BY Sizes, Zenon DEF Past, Blocks, Steps
  <2>2. none \in Votes /\ blank \in [Rounds -> Proposals \union {None}]
    BY Zenon DEF Votes
  <2>3. << >> \in Seq(Actions)
    OBVIOUS
  <2>4. /\ s.votes = none /\ s.proposals = blank
        /\ s.local_root = n /\ s.round = 0 /\ s.step = Propose /\ s.locked_round = -1 /\ s.valid_round = -1
        /\ s.valid_value = None /\ ~s.decided /\ s.started_rounds = {}
        /\ s.prevoted_rounds = {} /\ s.precommitted_rounds = {}
        /\ s.work = << >> /\ s.out = {} /\ s.evidence = {} /\ ~s.stalled /\ s.committed = None
    BY Zenon DEF NewRound
  <2>5. s \in RoundState
    <3> HIDE DEF none, blank
    <3>1. s = [local_root |-> n, round |-> 0, step |-> Propose,
               locked_value |-> None, locked_round |-> -1,
               valid_value |-> None, valid_round |-> -1, decided |-> FALSE,
               proposals |-> blank, votes |-> none,
               prevoted_rounds |-> {}, precommitted_rounds |-> {},
               prevote_timeout_armed |-> {}, precommit_timeout_armed |-> {},
               prevote_quorum_seen |-> {}, started_rounds |-> {},
               work |-> <<>>, values |-> {}, timers |-> {}, out |-> {},
               evidence |-> {}, stalled |-> FALSE, committed |-> None]
      BY Zenon DEF NewRound, none, blank
    <3> QED BY <2>1, <2>2, <2>3, <3>1 DEF RoundState
  <2> HIDE DEF s
  <2>6. Intents(s) = {} /\ \A k, r, v : ~Voted(s, {}, k, r, v)
    BY <2>4 DEF Intents, Voted
  <2>7. /\ \A k \in Kinds, r \in Rounds, v \in Validators : s.votes[k][r][v] = None
        /\ \A r \in Rounds : s.proposals[r] = None
    BY <2>4
  <2> HIDE DEF none, blank
  <2>8. Rounded(s) /\ VotesOnce(s, {}) /\ Locks(s, {})
    BY <2>4, <2>6 DEF Rounded, VotesOnce, Locks
  <2>9. Unlocks(s, {}) /\ BlocksHeld(s) /\ DecisionsCertified(s)
    BY <2>4, <2>6, <2>7, Zenon DEF Unlocks, BlocksHeld, DecisionsCertified
  <2>10. Counted(s, {})
    BY <2>4, <2>7, Zenon DEF Counted, Honest
  <2>11. Idle(s) /\ Local(s, {})
    BY <2>4, <2>5, <2>8, <2>9, <2>10, Zenon DEF Idle, Local
  <2> QED BY <2>4, <2>5, <2>11, Zenon DEF s
<1> QED BY <1>0, <1>1, <1>2, Zenon DEF Inv

(* What a timer names. *)
LEMMA ArmedType == ASSUME NEW s \in RoundState, NEW t \in Armed(s) PROVE t[1] \in Steps /\ t[2] \in Rounds
BY DEF Armed, RoundState, Steps

(* Every handler keeps the invariant, and moves no node back. *)
LEMMA NextInv ==
  ASSUME Arithmetic, Inv, [Next]_vars
  PROVE  Inv' /\ \A o \in Honest : Later(st[o], st'[o]) /\ st'[o].locked_round <= st'[o].valid_round
<1>0. /\ st \in [Honest -> RoundState] /\ Messages(msgs)
      /\ \A o \in Honest : st[o].local_root = o /\ st[o].out = {} /\ Idle(st[o]) /\ Local(st[o], msgs)
  BY Zenon DEF Inv
<1> DEFINE Forward == \A o \in Honest : Later(st[o], st'[o]) /\ st'[o].locked_round <= st'[o].valid_round
<1>1. \A n \in Honest : Running(n) => Live(st[n], msgs)
  BY <1>0, Zenon DEF Running, Live, Local, Rounded
<1>2. ASSUME NEW n \in Honest, Start(n) PROVE Inv' /\ Forward
  <2> DEFINE u == drive(evaluate(enter_round_core(st[n], 0)))
  <2>1. st[n].started_rounds = {} /\ Finish(n, u)
    BY <1>2, Zenon DEF Start
  <2>2. Driven(u, msgs) /\ Later(st[n], u)
    BY <1>0, <2>1, StartKeeps, Zenon DEF Idle
  <2> HIDE DEF u
  <2> QED BY <2>1, <2>2, FinishKeeps, Zenon
<1>3. ASSUME NEW n \in Honest, NEW m \in msgs \union FaultyMsgs, OnMessage(n, m) PROVE Inv' /\ Forward
  <2> DEFINE u == ingest(st[n], m)
  <2>1. Running(n) /\ Finish(n, u)
    BY <1>3, Zenon DEF OnMessage
  <2>2. Driven(u, msgs) /\ Later(st[n], u)
    BY <1>0, <1>1, <2>1, IngestKeeps, Zenon
  <2> HIDE DEF u
  <2> QED BY <2>1, <2>2, FinishKeeps, Zenon
<1>4. ASSUME NEW n \in Honest, NEW t \in Armed(st[n]), OnTimeout(n, t) PROVE Inv' /\ Forward
  <2> DEFINE s == [st[n] EXCEPT !.timers = @ \ {t}]
             v == on_timeout(s, t[1], t[2])
             u == drive(v)
  <2>1. Running(n) /\ Finish(n, u) /\ ~(t[1] = Precommit /\ t[2] = MaxRound)
    BY <1>4, Zenon DEF OnTimeout
  <2>2. Live(st[n], msgs) /\ st[n] \in RoundState /\ t[1] \in Steps /\ t[2] \in Rounds
    BY <1>0, <1>1, <2>1, ArmedType, Zenon
  <2>3. /\ s \in RoundState /\ SameInputs(st[n], s) /\ SameLock(st[n], s) /\ SameRound(st[n], s)
        /\ SamePhase(st[n], s) /\ s.work = st[n].work
    BY <2>2, ZenonT(30) DEF RoundState, SameInputs, SameLock, SameRound, SamePhase
  <2> HIDE DEF s
  <2>4. Local(s, msgs) /\ Later(st[n], s)
    BY <2>2, <2>3, FrameKeeps, Zenon DEF Live
  <2>5. Live(s, msgs)
    BY <2>2, <2>3, <2>4, Zenon DEF Live, SameInputs, SameRound
  <2>6. Live(v, msgs) /\ Later(s, v)
    BY <2>1, <2>2, <2>5, TimeoutKeeps, Zenon
  <2> HIDE DEF v
  <2>7. Driven(u, msgs) /\ Later(v, u)
    BY <1>0, <2>6, DriveKeeps, Zenon
  <2> HIDE DEF u
  <2>8. v \in RoundState /\ u \in RoundState
    BY <2>6, <2>7, Zenon DEF Live, Driven, Local
  <2>9. Later(st[n], v)
    BY <2>2, <2>3, <2>4, <2>6, <2>8, LaterTransitive, Zenon
  <2>10. Later(st[n], u)
    BY <2>2, <2>7, <2>8, <2>9, LaterTransitive, Zenon
  <2> QED BY <2>1, <2>7, <2>10, FinishKeeps, Zenon
<1>5. CASE UNCHANGED vars
  <2>1. st' = st /\ msgs' = msgs
    BY <1>5, Zenon DEF vars
  <2>2. Inv'
    BY <2>1, Zenon DEF Inv
  <2>3. Forward
    BY <1>0, <2>1, SameIsLater, Zenon DEF SameInputs, SameLock, SameRound, Local, Locks
  <2> QED BY <2>2, <2>3, Zenon
<1>6. CASE Next
  BY <1>2, <1>3, <1>4, <1>6, Zenon DEF Next
<1> QED BY <1>5, <1>6, Zenon


-----------------------------------------------------------------------------
(* What the invariant says of the decisions. *)
LEMMA InvVerifies == ASSUME Inv PROVE CertificateVerifies
<1> SUFFICES ASSUME NEW n \in Honest, st[n].committed # None
             PROVE  LET c == st[n].committed
                    IN  /\ Cardinality(c.signers) >= quorum
                        /\ c.id \in ValidValues
                        /\ \A v \in c.signers : <<v, "precommit", c.round, c.id>> \in CastVotes
  BY Zenon DEF CertificateVerifies
<1> DEFINE c == st[n].committed
<1>1. Local(st[n], msgs) /\ st[n] \in RoundState /\ st[n].out = {}
  BY Zenon DEF Inv
<1>2. Certifies(st[n], c) /\ c \in Certificates
  BY <1>1, Zenon DEF Local, DecisionsCertified, RoundState
<1>3. c.round \in Rounds /\ c.id \in Ids
  BY <1>2, Zenon DEF Certificates, Ids
<1> HIDE DEF c
<1>4. ASSUME NEW v \in c.signers PROVE <<v, "precommit", c.round, c.id>> \in CastVotes
  <2>1. v \in Validators /\ st[n].votes["precommit"][c.round][v] = c.id
    BY <1>2, Zenon DEF Certifies, VotersFor
  <2>2. CASE v \in Honest
    <3> DEFINE m == VoteMsg("precommit", v, c.round, c.id)
    <3>1. m \in msgs
      BY <1>1, <1>3, <2>1, <2>2, RoundAssumption, Zenon DEF Local, Counted, Kinds
    <3>2. m.from = v /\ m.kind = "precommit" /\ m.round = c.round /\ m.id = c.id
      BY Zenon DEF VoteMsg
    <3> HIDE DEF m
    <3> QED BY <3>1, <3>2, Zenon DEF CastVotes, Kinds
  <2>3. CASE v \in Faulty
    <3> DEFINE w == <<v, "precommit", c.round, c.id>>
    <3>1. w \in Faulty \X Kinds \X Rounds \X Ids
      BY <1>3, <2>3, Zenon DEF Kinds
    <3>2. w[1] = v /\ w[2] = "precommit" /\ w[3] = c.round /\ w[4] = c.id
      BY Zenon
    <3> HIDE DEF w
    <3>3. w \in CastVotes
      BY <2>1, <3>1, <3>2, Zenon DEF CastVotes
    <3> QED BY <3>3, Zenon DEF w
  <2> QED BY <2>1, <2>2, <2>3, Zenon DEF Honest
<1> QED BY <1>2, <1>4, Zenon DEF Certifies, c

(* A sent vote is a vote its sender undertook. *)
LEMMA SentIsVoted ==
  ASSUME Inv, NEW m \in msgs, m.kind \in Kinds
  PROVE  /\ m.from \in Honest /\ m.round \in Rounds /\ m.id \in Ids
         /\ m = VoteMsg(m.kind, m.from, m.round, m.id)
         /\ Voted(st[m.from], msgs, m.kind, m.round, m.id)
<1>1. m \in HonestVotes
  BY Zenon DEF Inv, Messages, HonestMsgs, HonestProposals, Kinds
<1>2. /\ m.from \in Honest /\ m.round \in Rounds /\ m.id \in Ids
      /\ m = VoteMsg(m.kind, m.from, m.round, m.id)
  BY <1>1, Zenon DEF HonestVotes, VoteMsg
<1> QED BY <1>2, Zenon DEF Inv, Voted

(* Once it precommits a block, a validator prevotes another only on 2f+1   *)
(* prevotes since.                                                         *)
LEMMA InvLocks == ASSUME Narrow, Inv PROVE LockHolds
<1> SUFFICES ASSUME NEW p \in msgs, NEW q \in msgs,
                    q.kind = "precommit", p.kind = "prevote", q.from = p.from,
                    q.id # NIL, p.id \notin {q.id, NIL}, q.round < p.round
             PROVE  \E vr \in q.round .. p.round - 1 : prevote_count(st[p.from], vr, p.id) >= quorum
  BY Zenon DEF LockHolds
<1>1. /\ p.from \in Honest /\ p.round \in Rounds /\ p.id \in Ids
      /\ Voted(st[p.from], msgs, "prevote", p.round, p.id)
  BY SentIsVoted, Zenon DEF Kinds
<1>2. /\ q.round \in Rounds /\ q.id \in Ids
      /\ Voted(st[p.from], msgs, "precommit", q.round, q.id)
  BY SentIsVoted, Zenon DEF Kinds
<1>3. p.id \in Values /\ q.id \in Values
  BY <1>1, <1>2, Zenon DEF Ids
<1>4. Unlocks(st[p.from], msgs)
  BY <1>1, Zenon DEF Inv, Local
<1>5. PICK vr \in Rounds : q.round <= vr /\ vr < p.round /\ Quorate(st[p.from], "prevote", vr, p.id)
  BY <1>1, <1>2, <1>3, <1>4, Zenon DEF Unlocks
<1>6. vr \in q.round .. p.round - 1
  <2>1. vr \in Rounds /\ q.round \in Rounds /\ p.round \in Rounds
    BY <1>1, <1>2, <1>5, Zenon
  <2>2. vr \in Int /\ q.round \in Int /\ p.round \in Int
    BY ONLY <2>1, RoundsAreInts, Zenon
  <2> QED BY ONLY <1>5, <2>2
<1> QED BY <1>5, <1>6, Zenon DEF Quorate, prevote_count

(* With fewer than a third of the roots faulty, two sets of 2f+1 share an  *)
(* honest validator.                                                       *)
LEMMA QuorumsMeet ==
  ASSUME Arithmetic, 3 * Cardinality(Faulty) < N, NEW A \in SUBSET Validators, NEW B \in SUBSET Validators,
         Cardinality(A) >= quorum, Cardinality(B) >= quorum
  PROVE  \E n \in Honest : n \in A /\ n \in B
<1>1. /\ A \union B \in SUBSET Validators /\ A \cap B \in SUBSET Validators /\ Faulty \in SUBSET Validators
      /\ Validators \in SUBSET Validators
  BY RoundAssumption, Zenon
<1>2. Cardinality(A \union B) = Cardinality(A) + Cardinality(B) - Cardinality(A \cap B)
  BY Zenon DEF Arithmetic
<1>3. /\ Cardinality(A) \in Nat /\ Cardinality(B) \in Nat /\ Cardinality(A \cap B) \in Nat
      /\ Cardinality(A \union B) \in Nat /\ Cardinality(Faulty) \in Nat /\ N \in Nat
      /\ Cardinality(A \union B) <= N
  BY <1>1, RoundAssumption, Zenon DEF Arithmetic
<1>4. 3 * quorum > 2 * N /\ quorum \in Nat
  BY <1>3, Sizes DEF quorum
<1>5. Cardinality(A \cap B) > Cardinality(Faulty)
  BY ONLY <1>2, <1>3, <1>4, 3 * Cardinality(Faulty) < N,
          Cardinality(A) >= quorum, Cardinality(B) >= quorum
<1>6. ~(A \cap B \subseteq Faulty)
  <2> SUFFICES ASSUME A \cap B \subseteq Faulty PROVE FALSE
    BY Zenon
  <2>1. Cardinality(A \cap B) <= Cardinality(Faulty)
    BY <1>1, Zenon DEF Arithmetic
  <2> QED BY ONLY <1>3, <1>5, <2>1
<1> QED BY <1>6, Zenon DEF Honest

(* An honest validator counted for a vote has sent it. *)
LEMMA CountedIsVoted ==
  ASSUME Inv, NEW n \in Honest, NEW k \in Kinds, NEW r \in Rounds, NEW v \in Ids,
         NEW h \in Honest, h \in VotersFor(st[n], k, r, v)
  PROVE  VoteMsg(k, h, r, v) \in msgs /\ Voted(st[h], msgs, k, r, v)
<1>1. VoteMsg(k, h, r, v) \in msgs
  BY RoundAssumption DEF Inv, Local, Counted, VotersFor
<1> QED BY <1>1, Zenon DEF Inv, Voted

(* After a block is certified in a round, no other block ever collects    *)
(* 2f+1 prevotes in that round or a later one.                             *)
LEMMA CertifiedLocksOut ==
  ASSUME Arithmetic, Inv, Narrow, 3 * Cardinality(Faulty) < N,
         NEW n \in Honest, st[n].committed # None,
         NEW o \in Honest, NEW r \in Rounds, r >= st[n].committed.round,
         NEW v \in Values, Quorate(st[o], "prevote", r, v)
  PROVE  v = st[n].committed.id
<1> DEFINE c == st[n].committed
           Rival(q, w) == q >= c.round /\ w # c.id /\ \E p \in Honest : Quorate(st[p], "prevote", q, w)
           S == {q \in Rounds : \E w \in Values : Rival(q, w)}
<1> SUFFICES ASSUME v # c.id PROVE FALSE
  BY Zenon
<1>0. /\ Values \subseteq Ids /\ "prevote" \in Kinds /\ "precommit" \in Kinds
      /\ \A h \in Honest : Local(st[h], msgs)
  BY Zenon DEF Inv, Ids, Kinds
<1>1. Certifies(st[n], c) /\ c.round \in Rounds /\ c.id \in Values /\ c.signers \subseteq Validators
  BY Zenon DEF Inv, Local, DecisionsCertified, RoundState, Certificates
<1> HIDE DEF c
<1>2. \A h \in Honest : h \in c.signers => Voted(st[h], msgs, "precommit", c.round, c.id)
  BY <1>0, <1>1, CountedIsVoted, Zenon DEF Certifies
<1>3. S \in SUBSET Rounds /\ S # {}
  <2>1. Rival(r, v)
    BY Zenon DEF c
  <2> QED BY <2>1, Zenon
<1>4. PICK q \in S : \A p \in S : q <= p
  BY <1>3, LeastRound, Zenon
<1>5. PICK w \in Values : Rival(q, w)
  BY <1>4, Zenon
<1>6. PICK p \in Honest : Quorate(st[p], "prevote", q, w)
  BY <1>5, Zenon
<1>7. q \in Rounds /\ q >= c.round /\ w # c.id
  BY <1>4, <1>5, Zenon
<1> HIDE DEF Rival
<1>8. VotersFor(st[p], "prevote", q, w) \in SUBSET Validators
  BY Zenon DEF VotersFor
<1>9. PICK h \in Honest : h \in c.signers /\ h \in VotersFor(st[p], "prevote", q, w)
  BY <1>1, <1>6, <1>8, QuorumsMeet, Zenon DEF Certifies, Quorate
<1>10. Voted(st[h], msgs, "precommit", c.round, c.id) /\ Voted(st[h], msgs, "prevote", q, w)
  BY <1>0, <1>2, <1>7, <1>9, CountedIsVoted, Zenon
<1>11. CASE q = c.round
  <2>1. Quorate(st[h], "prevote", q, c.id)
    BY <1>0, <1>1, <1>10, <1>11, Zenon DEF Local, Locks
  <2>2. VotersFor(st[h], "prevote", q, c.id) \in SUBSET Validators
    BY Zenon DEF VotersFor
  <2>3. PICK g \in Honest : g \in VotersFor(st[h], "prevote", q, c.id) /\ g \in VotersFor(st[p], "prevote", q, w)
    BY <1>6, <1>8, <2>1, <2>2, QuorumsMeet, Zenon DEF Quorate
  <2>4. Voted(st[g], msgs, "prevote", q, c.id) /\ Voted(st[g], msgs, "prevote", q, w)
    BY <1>0, <1>1, <1>7, <2>3, CountedIsVoted, Zenon
  <2> QED BY <1>0, <1>1, <1>7, <2>4, Zenon DEF Local, VotesOnce
<1>12. CASE q # c.round
  <2>1. c.round < q
    <3>1. c.round \in Int /\ q \in Int
      BY ONLY <1>1, <1>7, RoundsAreInts, Zenon
    <3> QED BY ONLY <1>7, <1>12, <3>1
  <2>2. Unlocks(st[h], msgs)
    BY <1>0, Zenon DEF Local
  <2>3. PICK vr \in Rounds : c.round <= vr /\ vr < q /\ Quorate(st[h], "prevote", vr, w)
    BY Narrow, <1>1, <1>7, <1>10, <2>1, <2>2, Zenon DEF Unlocks
  <2>4. Rival(vr, w)
    <3>1. vr \in Int /\ c.round \in Int
      BY ONLY <1>1, <2>3, RoundsAreInts, Zenon
    <3>2. vr >= c.round
      BY ONLY <2>3, <3>1
    <3> QED BY <1>7, <2>3, <3>2, Zenon DEF Rival
  <2>5. q <= vr
    BY <1>4, <2>4, Zenon
  <2>6. q \in Int /\ vr \in Int
    BY ONLY <1>7, <2>3, RoundsAreInts, Zenon
  <2> QED BY ONLY <2>3, <2>5, <2>6
<1> QED BY <1>11, <1>12, Zenon

(* No two validators commit different blocks at one height. *)
Agreed ==
  \A m, n \in Honest :
    st[m].committed # None /\ st[n].committed # None => st[m].committed.id = st[n].committed.id

(* The certificates of two decisions share an honest validator, whose lock *)
(* carries the first decision to the second.                               *)
LEMMA InvAgrees ==
  ASSUME Arithmetic, Inv, Narrow, 3 * Cardinality(Faulty) < N
  PROVE  Agreed
<1>1. ASSUME NEW m \in Honest, NEW n \in Honest, st[m].committed # None, st[n].committed # None,
             st[m].committed.round <= st[n].committed.round
      PROVE  st[n].committed.id = st[m].committed.id
  <2> DEFINE c == st[n].committed
  <2>1. Certifies(st[n], c) /\ c.round \in Rounds /\ c.id \in Values /\ c.signers \subseteq Validators
    BY <1>1, Zenon DEF Inv, Local, DecisionsCertified, RoundState, Certificates
  <2>2. st[m].committed.round \in Rounds
    BY <1>1, Zenon DEF Inv, RoundState, Certificates
  <2>3. c.round >= st[m].committed.round
    <3>1. c.round \in Int /\ st[m].committed.round \in Int
      BY ONLY <2>1, <2>2, RoundsAreInts, Zenon
    <3> QED BY ONLY <1>1, <3>1
  <2> HIDE DEF c
  <2>4. PICK h \in Honest : h \in c.signers
    BY <2>1, QuorumsMeet, Zenon DEF Certifies
  <2>5. Voted(st[h], msgs, "precommit", c.round, c.id)
    BY <1>1, <2>1, <2>4, CountedIsVoted, Zenon DEF Certifies, Kinds, Ids
  <2>6. Quorate(st[h], "prevote", c.round, c.id)
    BY <1>1, <2>1, <2>5, Zenon DEF Inv, Local, Locks
  <2>7. c.id = st[m].committed.id
    BY <1>1, <2>1, <2>3, <2>6, CertifiedLocksOut, Zenon
  <2> QED BY <2>7, Zenon DEF c
<1> SUFFICES ASSUME NEW m \in Honest, NEW n \in Honest, st[m].committed # None, st[n].committed # None
             PROVE  st[m].committed.id = st[n].committed.id
  BY Zenon DEF Agreed
<1>2. st[m].committed.round \in Rounds /\ st[n].committed.round \in Rounds
  BY Zenon DEF Inv, RoundState, Certificates
<1>3. st[m].committed.round \in Int /\ st[n].committed.round \in Int
  BY ONLY <1>2, RoundsAreInts, Zenon
<1>4. \/ st[m].committed.round <= st[n].committed.round
      \/ st[n].committed.round <= st[m].committed.round
  BY ONLY <1>3
<1> QED BY <1>1, <1>4, Zenon
=============================================================================
