----------------------------- MODULE RoundSteps -----------------------------
(***************************************************************************)
(* What a whole handler of module Round does, for every value of the       *)
(* constants: it carries out every intent (the bound of four in Round is   *)
(* discharged here), leaves nothing due, and counts at most the one vote   *)
(* it was handed.                                                          *)
(***************************************************************************)
EXTENDS RoundHandlers, RoundPasses

(* An input, as the handlers see it, only adds to what the node has heard. *)
LEMMA InputAdds == \A s, t : Input(s, t) => Adds(s, t)
BY DEF Input, Adds, Grows

(* Signing a vote and counting it spends one turn of `drive`. *)
LEMMA SignDone ==
  ASSUME Arithmetic, NEW s, NEW M, Working(s, M), Messages(M), s.work # << >>, Head(s.work).act \in Kinds
  PROVE  LET u == SignVote(Taken(s), Head(s.work))
         IN  Working(u, M) /\ Effort(u) <= Effort(s) - 1 /\ SameOthers(s, u)
<1> DEFINE a == Head(s.work)
           m == SignedMsg(s, a)
           o == Signed(s, a)
           u == on_vote(o, m)
<1>0. Live(s, M) /\ Local(s, M) /\ s \in RoundState /\ s.round \in s.started_rounds /\ Watch(s, M) /\ Watched(s, M)
  BY Zenon DEF Working, Live, Local, Watched
<1>1. /\ Live(o, M) /\ Later(s, o) /\ Input(s, o)
      /\ o.work = Tail(s.work) /\ o.out = s.out \union {m}
      /\ o.votes = s.votes /\ o.proposals = s.proposals
      /\ \A k \in Kinds : \A r, v : Voted(o, M, k, r, v) <=> Voted(s, M, k, r, v)
      /\ a \in VoteActs /\ Genuine(o, M, m) /\ m.authentic
      /\ m.kind = a.act /\ m.from = s.local_root /\ m.round = a.round /\ m.id = a.id
      /\ m = VoteMsg(m.kind, m.from, m.round, m.id)
      /\ SignVote(Taken(s), a) = u
  BY <1>0, SignedKeeps, Zenon
<1> HIDE DEF o, m
<1>2. /\ Local(o, M) /\ o \in RoundState /\ o.round \in o.started_rounds
      /\ SameLock(s, o) /\ SameRound(s, o) /\ SamePhase(s, o) /\ SameTimers(s, o)
      /\ o.decided = s.decided /\ o.local_root = s.local_root /\ o.local_root \in Honest
      /\ m.kind \in Kinds /\ m.from \in Validators /\ m.round \in Rounds /\ m.id \in Ids
  BY <1>1, Zenon DEF Live, Local, Input, Grows, Genuine, RoundState
<1>3. /\ \A b \in Intents(o) : b.act # "propose"
      /\ Intents(s) = Intents(o) \union {a} /\ a = s.work[1]
      /\ Effort(o) = Effort(s) - 1
  BY <1>0, <1>1, <1>2, TailPlain, Zenon DEF Watch, SamePhase
<1> HIDE DEF a
<1>4. m.round = s.round
  BY <1>1, <1>2, <1>3, Zenon DEF Working, Steady
<1>5. Watched(o, M)
  <2>1. OwnProposals(o, M)
    BY <1>0, <1>1, <1>2, Zenon DEF Watch, OwnProposals, SameRound, Kinds
  <2>2. \A b \in Intents(s) : b.act = "decided" => b \in Intents(o)
    BY <1>3, Zenon DEF Kinds, a
  <2>3. \A r \in Rounds, v \in Ids : Voted(s, M, "prevote", r, v) => Voted(o, M, "prevote", r, v)
    BY <1>1, Zenon DEF Kinds
  <2> QED BY ONLY Arithmetic, <1>0, <1>1, <1>2, <1>3, <2>1, <2>2, <2>3, InputWatched, InputAdds
<1>6. Steady(o)
  <2>1. Ahead(o) = Ahead(s)
    BY <1>0, <1>1, <1>2, AheadSame, Zenon DEF SameRound
  <2>2. o.round = s.round
    BY <1>2, Zenon DEF SameRound
  <2> QED BY <1>1, <1>2, <1>3, <1>4, <2>1, <2>2 DEF Working, Steady
<1>7. Woken(o)
  BY <1>2, <1>3, Zenon DEF Working, Woken, SamePhase, SameRound, SameTimers, Kinds, a
<1>8. SameOthers(s, o)
  BY <1>1, <1>2, Zenon DEF SameOthers
<1> DEFINE prior == o.votes[m.kind][m.round][m.from]
<1>9. CASE prior # None
  <2>0. prior \in Ids
    BY <1>2, <1>9 DEF RoundState, Votes
  <2>1. VoteMsg(m.kind, m.from, m.round, prior) \in M \union o.out /\ prior \in Ids
    BY <1>1, <1>2, <1>9, <2>0 DEF Local, Counted
  <2>2. VoteMsg(m.kind, m.from, m.round, m.id) \in M \union o.out
    BY <1>1, Zenon
  <2>3. prior = m.id
    <3> HIDE DEF prior
    <3> QED BY ONLY <1>1, <1>2, <2>1, <2>2, Messages(M), HonestVoteIsOne
  <2>4. u = o
    BY <2>3, Zenon DEF on_vote
  <2>5. Quiet(o)
    BY <1>1, <1>2, QuietStays, Zenon DEF Working, SameView, SameRound, SameTimers
  <2>6. OwnCounted(o, M)
    BY <1>1, <1>2, <2>3, Zenon DEF Working, OwnCounted
  <2>7. Working(o, M)
    BY <1>1, <1>5, <1>6, <1>7, <2>5, <2>6 DEF Working, Watched
  <2>8. Effort(o) <= Effort(s) - 1
    BY <1>0, <1>3, EffortType
  <2> QED BY <1>1, <1>8, <2>4, <2>7, <2>8, Zenon DEF a
<1>10. CASE prior = None
  <2> DEFINE h == Tallied(o, m)
             t == evaluate(h)
  <2>1. /\ Live(h, M) /\ Later(o, h) /\ Input(o, h)
        /\ h.work = o.work /\ h.out = o.out /\ h.proposals = o.proposals
        /\ \A k \in Kinds, r \in Rounds, v \in Validators :
             h.votes[k][r][v] = IF k = m.kind /\ r = m.round /\ v = m.from THEN m.id ELSE o.votes[k][r][v]
    <3>1. Live(o, M) /\ Genuine(o, M, m) /\ m.authentic /\ o.votes[m.kind][m.round][m.from] = None
      BY <1>1, <1>10, Zenon
    <3> QED BY ONLY Arithmetic, <3>1, CountKeeps
  <2>2. u = t
    BY <1>1, <1>2, <1>10, RoundAssumption, Zenon DEF on_vote, accept_vote, Tallied
  <2> HIDE DEF h
  <2>3. /\ h \in RoundState /\ SameLock(o, h) /\ SameRound(o, h) /\ SamePhase(o, h) /\ SameTimers(o, h)
        /\ h.decided = o.decided /\ h.local_root = o.local_root
    BY <2>1, Zenon DEF Live, Local, Input, Grows
  <2>4. Intents(h) = Intents(o) /\ \A k, r, v : Voted(h, M, k, r, v) <=> Voted(o, M, k, r, v)
    BY <2>1, <2>3 DEF Intents, Voted
  <2>5. Watched(h, M)
    <3>1. OwnProposals(h, M)
      BY <1>5, <2>1, <2>3, Zenon DEF Watched, Watch, OwnProposals, SameRound
    <3> QED BY ONLY Arithmetic, <1>2, <1>3, <1>5, <2>1, <2>3, <2>4, <3>1, InputWatched, InputAdds
  <2>6. Steady(h)
    <3>1. Ahead(h) = Ahead(o)
      <4>1. \A k \in Kinds, q \in Rounds, v \in Validators :
              q > o.round => h.votes[k][q][v] = o.votes[k][q][v]
        <5>1. \A q \in Rounds : q > o.round => q # m.round
          BY ONLY <1>2, <1>4, RoundsAreInts DEF SameRound
        <5> QED BY <2>1, <5>1, Zenon
      <4> QED BY <1>2, <2>3, <4>1, AheadSame, Zenon DEF SameRound
    <3> QED BY <1>6, <2>1, <2>3, <2>4, <3>1 DEF Steady, SameRound
  <2>7. OwnCounted(h, M)
    <3> SUFFICES ASSUME NEW x \in M \union h.out, x.kind \in Kinds, x.from = h.local_root
                 PROVE  h.votes[x.kind][x.round][x.from] = x.id
      BY Zenon DEF OwnCounted
    <3>1. CASE x = m
      BY <1>2, <2>1, <3>1, Zenon
    <3>2. CASE x # m
      <4>1. x \in M \union s.out
        BY <1>1, <2>1, <3>2
      <4>2. s.votes[x.kind][x.round][x.from] = x.id
        BY <1>2, <2>3, <4>1, Zenon DEF Working, OwnCounted
      <4>3. x.from \in Validators /\ x.round \in Rounds /\ x.id # None
        BY <1>0, <4>1, SentType, Zenon
      <4> QED BY <1>1, <1>10, <2>1, <4>2, <4>3
    <3> QED BY <3>1, <3>2, Zenon
  <2>8. Woken(h)
    BY <1>7, <2>1, <2>3, Zenon DEF Woken, SamePhase, SameRound, SameTimers
  <2>9. Woken(t)
    BY <2>3, <2>5, <2>6, <2>8, EvaluateDone
  <2>10. Working(t, M) /\ Effort(t) <= Effort(h) /\ SameInputs(h, t)
    BY <2>1, <2>5, <2>6, <2>7, <2>9, EvaluateWorks
  <2> HIDE DEF t
  <2>11. Effort(h) = Effort(o)
    BY <2>1, <2>3, Zenon DEF Effort, SamePhase
  <2>12. Effort(t) <= Effort(s) - 1
    BY <1>3, <2>10, <2>11, Zenon
  <2>13. SameOthers(s, t)
    <3>1. t.local_root = s.local_root /\ t.votes = h.votes
      BY <1>2, <2>3, <2>10, Zenon DEF SameInputs
    <3>2. \A k \in Kinds, r \in Rounds, v \in Validators : v # s.local_root => h.votes[k][r][v] = s.votes[k][r][v]
      BY <1>1, <2>1
    <3> QED BY <3>1, <3>2 DEF SameOthers
  <2> QED BY <1>1, <2>2, <2>10, <2>12, <2>13 DEF a
<1> QED BY <1>9, <1>10, Zenon

(* The proposal a node makes is the one it prevotes for, so that it needs  *)
(* no timer to leave the propose step.                                     *)
LEMMA BuildDone ==
  ASSUME Arithmetic, NEW s, NEW M, Working(s, M), Messages(M), s.work # << >>, Head(s.work).act = "propose"
  PROVE  LET u == build_proposal(Taken(s), Head(s.work))
         IN  Working(u, M) /\ Effort(u) <= Effort(s) - 1 /\ SameOthers(s, u)
<1> DEFINE a == Head(s.work)
           m == BuiltMsg(s, a)
           id == BuiltId(a)
           o == Built(s, a)
           h == Stored(o, a.round, id, a.valid_round, TRUE)
           t == evaluate(h)
<1>0. Live(s, M) /\ Local(s, M) /\ s \in RoundState /\ s.round \in s.started_rounds /\ Watch(s, M) /\ Watched(s, M)
  BY Zenon DEF Working, Live, Local, Watched
<1>1. /\ Live(o, M) /\ Input(s, o)
      /\ o.work = Tail(s.work) /\ o.out = s.out \union {m}
      /\ o.votes = s.votes /\ o.proposals = s.proposals
      /\ \A k \in Kinds : \A r, v : Voted(o, M, k, r, v) <=> Voted(s, M, k, r, v)
      /\ a \in Proposes /\ id \in Values /\ AtHand(o, id)
      /\ m.kind = "proposal" /\ m.round = a.round /\ m.from = s.local_root
      /\ build_proposal(Taken(s), a) = on_proposal(o, a.round, id, a.valid_round, TRUE)
  BY <1>0, BuiltKeeps, Zenon
<1>2. id = (IF a.reuse = None THEN Fresh[a.round] ELSE a.reuse)
  BY Zenon DEF BuiltId
<1> HIDE DEF o, m, id
<1>3. /\ o \in RoundState /\ Adds(s, o) /\ o.round = s.round
      /\ a.act = "propose" /\ a.round \in Rounds /\ a.reuse \in Blocks /\ a.valid_round \in Past
      /\ a.valid_round \in Int /\ a.valid_round < U32
  BY <1>1, InputAdds, RoundAssumption DEF Live, Local, Adds, SameRound, Proposes, Past, Rounds
<1>4. /\ \A b \in Intents(o) : b.act # "propose"
      /\ Intents(s) = Intents(o) \union {a} /\ a = s.work[1]
      /\ Effort(o) = Effort(s) - 1
  BY <1>0, <1>1, <1>3, TailPlain, Zenon DEF Watch, Adds, SamePhase
<1>5. Ready(s, a)
  <2>1. 1 \in 1 .. Len(s.work)
    BY <1>0 DEF RoundState
  <2> QED BY <1>0, <1>3, <1>4, <2>1, Zenon DEF Watch, ProposalFirst
<1> HIDE DEF a
<1>6. a.round = s.round /\ o.proposals[a.round] = None
  BY <1>1, <1>5, Zenon DEF Ready
<1>7. on_proposal(o, a.round, id, a.valid_round, TRUE) = t
  BY <1>6, Zenon DEF on_proposal, Stored
<1>8. /\ Live(h, M) /\ Input(o, h)
      /\ h.work = o.work /\ h.out = o.out /\ h.votes = o.votes
      /\ h.proposals[a.round] # None /\ h.proposals[a.round].id = id
      /\ h.proposals[a.round].valid_round = a.valid_round
      /\ \A q \in Rounds : q # a.round => h.proposals[q] = o.proposals[q]
  <2> DEFINE valid == TRUE
  <2>1. valid \in BOOLEAN /\ (valid => AtHand(o, id)) /\ (Narrow => a.valid_round < U32)
    BY <1>1, <1>3, Zenon
  <2>2. h = Stored(o, a.round, id, a.valid_round, valid)
    BY Zenon
  <2> HIDE DEF valid, h
  <2>3. Live(o, M) /\ a.round \in Rounds /\ id \in Values /\ a.valid_round \in Int
    BY <1>1, <1>3, Zenon
  <2> QED BY ONLY Arithmetic, <2>1, <2>2, <2>3, StoreKeeps
<1> HIDE DEF h
<1>9. /\ h \in RoundState /\ Adds(s, h) /\ h.round = s.round
      /\ h.local_root = s.local_root /\ h.decided = s.decided
  BY <1>1, <1>3, <1>8, InputAdds
     DEF Live, Local, Adds, SameLock, SameRound, SamePhase, SameTimers
<1>10. Intents(h) = Intents(o) /\ \A k \in Kinds : \A r, v : Voted(h, M, k, r, v) <=> Voted(s, M, k, r, v)
  <2>1. Intents(h) = Intents(o)
    BY <1>8, Zenon DEF Intents
  <2>2. h.out = o.out /\ h.local_root = o.local_root
    BY <1>3, <1>8, <1>9, Zenon DEF Adds
  <2>3. \A k, r, v : Voted(h, M, k, r, v) <=> Voted(o, M, k, r, v)
    BY <2>1, <2>2, Zenon DEF Voted
  <2> QED BY <1>1, <2>1, <2>3, Zenon
<1>11. Watched(h, M)
  <2>1. OwnProposals(h, M)
    <3>1. \A r \in Rounds : proposer_for(r) = h.local_root /\ h.proposals[r] # None => r \in h.started_rounds
      BY <1>0, <1>1, <1>6, <1>8, <1>9 DEF Watch, OwnProposals, Adds, SameRound
    <3>2. ASSUME NEW x \in M \union h.out, x.kind = "proposal", x.from = h.local_root
          PROVE  h.proposals[x.round] # None
      <4>1. CASE x = m
        BY <1>1, <1>8, <4>1, Zenon
      <4>2. CASE x # m
        <5>1. s.proposals[x.round] # None
          BY <1>0, <1>1, <1>8, <1>9, <3>2, <4>2 DEF Watch, OwnProposals
        <5>2. x.round \in Rounds
          <6>1. x \in M \union s.out
            BY <1>1, <1>8, <3>2, <4>2
          <6>2. x \in HonestMsgs
            BY <1>0, <6>1, Zenon DEF Messages, RoundState
          <6> QED BY <6>2, Zenon DEF HonestMsgs, HonestVotes, HonestProposals
        <5> QED BY <1>1, <1>8, <5>1, <5>2, Zenon
      <4> QED BY <4>1, <4>2, Zenon
    <3> QED BY <3>1, <3>2, Zenon DEF OwnProposals
  <2>2. \A b \in Intents(s) : b.act = "decided" => b \in Intents(h)
    BY <1>3, <1>4, <1>10, Zenon
  <2>3. \A r \in Rounds, v \in Ids : Voted(s, M, "prevote", r, v) => Voted(h, M, "prevote", r, v)
    BY <1>10, Zenon DEF Kinds
  <2> QED BY ONLY Arithmetic, <1>0, <1>4, <1>9, <1>10, <2>1, <2>2, <2>3, InputWatched
<1>12. Steady(h)
  <2>1. Ahead(h) = Ahead(s)
    BY <1>0, <1>1, <1>8, <1>9, AheadSame
  <2>2. \A b \in Intents(h) : b.act \in Kinds => b.round = h.round
    BY <1>4, <1>9, <1>10, Zenon DEF Working, Steady
  <2>3. \A x \in h.out : x.kind \in Kinds => x.round = h.round
    BY <1>1, <1>8, <1>9, Zenon DEF Working, Steady, Kinds
  <2> QED BY <1>9, <2>1, <2>2, <2>3 DEF Working, Steady
<1>13. OwnCounted(h, M)
  BY <1>1, <1>8, <1>9 DEF Working, OwnCounted, Kinds
<1>14. Moves(h, t) /\ Quiet(t) /\ Live(t, M)
  BY <1>8, <1>9, <1>11, <1>12, EvaluateDone, EvaluateKeeps, Zenon
<1>15. Woken(t)
  <2> HIDE DEF t
  <2> SUFFICES ASSUME ~t.decided, t.step = Propose PROVE FALSE
    BY Zenon DEF Woken
  <2>1. t \in RoundState /\ t.round = a.round /\ t.proposals = h.proposals /\ t.votes = s.votes
    BY <1>1, <1>6, <1>8, <1>9, <1>14 DEF Moves, SameInputs, SameRound
  <2>2. t.round \notin t.prevoted_rounds
    BY <1>14, Zenon DEF Live, Local, Rounded
  <2>3. ~FreshDue(t) /\ ~PolcDue(t)
    BY <1>14, Zenon DEF Quiet, NoneDue
  <2>4. CASE a.valid_round = -1
    BY <1>8, <2>1, <2>2, <2>3, <2>4 DEF FreshDue
  <2>5. CASE a.reuse # None
    <3>1. a.valid_round \in Rounds /\ a.valid_round < s.round /\ Quorate(s, "prevote", a.valid_round, a.reuse)
      BY <1>5, <2>5, Zenon DEF Ready
    <3>2. AsU32(a.valid_round) = a.valid_round /\ a.valid_round >= 0
      <4>1. a.valid_round \in Nat /\ U32 \in Nat /\ a.valid_round < U32
        BY <1>3, <3>1, Sizes, RoundAssumption, Zenon
      <4> QED BY ONLY <4>1 DEF AsU32
    <3>3. prevote_count(t, a.valid_round, a.reuse) >= quorum
      BY <2>1, <3>1, Zenon DEF Quorate, prevote_count, VotersFor
    <3>4. id = a.reuse
      BY <1>2, <2>5, Zenon
    <3> QED BY <1>6, <1>8, <2>1, <2>2, <2>3, <3>1, <3>2, <3>3, <3>4 DEF PolcDue
  <2> QED BY <1>5, <2>4, <2>5, Zenon DEF Ready
<1>16. Working(t, M) /\ Effort(t) <= Effort(h) /\ SameInputs(h, t)
  BY <1>8, <1>11, <1>12, <1>13, <1>15, EvaluateWorks
<1> HIDE DEF t
<1>17. Effort(h) = Effort(o)
  BY <1>3, <1>8, <1>9, Zenon DEF Effort, Adds, SamePhase
<1>18. Effort(t) <= Effort(s) - 1
  BY <1>4, <1>16, <1>17, Zenon
<1>19. SameOthers(s, t)
  BY <1>1, <1>8, <1>9, <1>16, Zenon DEF SameOthers, SameInputs
<1> QED BY <1>1, <1>7, <1>16, <1>18, <1>19, Zenon DEF a

(* drive with at most n pushes to come. *)
Underway(s, M, n) ==
  /\ Driven(s, M) /\ Steady(s) /\ OwnCounted(s, M)
  /\ s.committed = None => Working(s, M)
  /\ s.work = << >> \/ Effort(s) <= n

(* A turn of `drive` spends a unit of the work left. *)
LEMMA Drive1Done ==
  ASSUME Arithmetic, NEW s, NEW M, NEW n \in Int, Messages(M), Underway(s, M, n)
  PROVE  Underway(drive1(s), M, n - 1) /\ SameOthers(s, drive1(s))
<1> DEFINE a == Head(s.work)
           u == drive1(s)
<1>0. s \in RoundState
  BY Zenon DEF Underway, Driven, Local
<1>1. CASE s.work = << >>
  <2>1. u = s
    BY <1>1, Zenon DEF drive1
  <2> QED BY <1>1, <2>1, Zenon DEF Underway, SameOthers
<1>2. CASE s.work # << >>
  <2>1. Working(s, M) /\ Effort(s) <= n /\ Live(s, M)
    BY <1>2, Zenon DEF Underway, Driven, Working
  <2>2. a.act \in Kinds \/ a.act \in {"propose", "decided"}
    BY <1>0, <1>2, TakenFields, Zenon DEF Actions, Proposes, VoteActs, Decisions
  <2>3. Driven(u, M)
    BY Drive1Keeps, Zenon DEF Underway
  <2>4. ASSUME Working(u, M), Effort(u) <= Effort(s) - 1, SameOthers(s, u)
        PROVE  Underway(u, M, n - 1) /\ SameOthers(s, u)
    <3> HIDE DEF u
    <3>1. Effort(u) <= n - 1
      <4>1. Effort(u) \in Int /\ Effort(s) \in Int
        BY <1>0, <2>4, EffortType, Zenon DEF Working, Live, Local
      <4> QED BY ONLY <2>1, <2>4, <4>1, n \in Int
    <3> QED BY <2>3, <2>4, <3>1, Zenon DEF Underway, Working
  <2>5. CASE a.act = "propose"
    <3>1. u = build_proposal(Taken(s), a)
      BY <1>2, <2>5, Zenon DEF drive1, Kinds, Taken
    <3> QED BY <1>2, <2>1, <2>4, <2>5, <3>1, BuildDone
  <2>6. CASE a.act \in Kinds
    <3>1. u = SignVote(Taken(s), a)
      BY <1>2, <2>6, Zenon DEF drive1, Kinds, Taken
    <3> QED BY <1>2, <2>1, <2>4, <2>6, <3>1, SignDone
  <2>7. CASE a.act = "decided"
    <3>1. u = commit(Taken(s), a)
      BY <1>2, <2>7, Zenon DEF drive1, Kinds, Taken
    <3>2. /\ u.committed # None /\ u.work = << >> /\ u.local_root = s.local_root /\ u.decided = s.decided
          /\ u.votes = s.votes /\ u.proposals = s.proposals /\ u.out = s.out /\ u.round = s.round
      BY <1>2, <2>1, <2>7, <3>1, CommitKeeps
    <3> HIDE DEF u
    <3>3. Intents(u) = {} /\ Ahead(u) = Ahead(s)
      <4>1. SameView(s, u)
        BY <3>2, Zenon DEF SameView
      <4> QED BY <3>2, <4>1, ViewKeeps DEF Intents
    <3>4. Steady(u) /\ OwnCounted(u, M) /\ SameOthers(s, u)
      BY <3>2, <3>3, Zenon DEF Underway, Steady, OwnCounted, SameOthers
    <3>5. Underway(u, M, n - 1)
      BY <2>3, <3>2, <3>4, Zenon DEF Underway
    <3> QED BY <3>4, <3>5, Zenon DEF u
  <2> QED BY <2>2, <2>5, <2>6, <2>7, Zenon
<1> QED BY <1>1, <1>2, Zenon

(* Four turns of `drive` leave nothing queued. *)
LEMMA DriveDone ==
  ASSUME Arithmetic, NEW s, NEW M, Messages(M), Working(s, M), Effort(s) <= 4
  PROVE  LET t == drive(s) IN Driven(t, M) /\ Settled(t, M) /\ Steady(t) /\ SameOthers(s, t)
<1> DEFINE s1 == drive1(s)  s2 == drive1(s1)  s3 == drive1(s2)  s4 == drive1(s3)
<1>0. Underway(s, M, 4)
  BY Zenon DEF Underway, Working, Live, Driven
<1>1. Underway(s1, M, 3) /\ SameOthers(s, s1)
  <2>1. Underway(s1, M, 4 - 1) /\ SameOthers(s, s1)
    BY <1>0, Drive1Done
  <2> QED BY <2>1
<1> HIDE DEF s1
<1>2. Underway(s2, M, 2) /\ SameOthers(s1, s2)
  <2>1. Underway(s2, M, 3 - 1) /\ SameOthers(s1, s2)
    BY <1>1, Drive1Done
  <2> QED BY <2>1
<1> HIDE DEF s2
<1>3. Underway(s3, M, 1) /\ SameOthers(s2, s3)
  <2>1. Underway(s3, M, 2 - 1) /\ SameOthers(s2, s3)
    BY <1>2, Drive1Done
  <2> QED BY <2>1
<1> HIDE DEF s3
<1>4. Underway(s4, M, 0) /\ SameOthers(s3, s4)
  <2>1. Underway(s4, M, 1 - 1) /\ SameOthers(s3, s4)
    BY <1>3, Drive1Done
  <2> QED BY <2>1
<1>5. drive(s) = s4
  BY Zenon DEF drive, s1, s2, s3
<1> HIDE DEF s4
<1>6. s4.work = << >>
  <2>1. s4 \in RoundState
    BY <1>4, Zenon DEF Underway, Driven, Local
  <2>2. Effort(s4) <= 0 => Len(s4.work) = 0
    <3>1. Effort(s4) \in Int /\ Len(s4.work) \in Nat /\ Len(s4.work) <= Effort(s4)
      BY <2>1, EffortType, Zenon
    <3> QED BY ONLY <3>1
  <2>3. Len(s4.work) = 0 => s4.work = << >>
    BY <2>1 DEF RoundState
  <2> QED BY <1>4, <2>2, <2>3, Zenon DEF Underway
<1>7. SameOthers(s, s4)
  BY <1>1, <1>2, <1>3, <1>4 DEF SameOthers
<1> QED BY <1>4, <1>5, <1>6, <1>7, Zenon DEF Underway, Settled, Working

(* Whatever the rules leave to drive, it carries out. *)
LEMMA HandledDone ==
  ASSUME Arithmetic, NEW s, NEW v, NEW M, Messages(M), Handled(s, v, M)
  PROVE  LET u == drive(v) IN Driven(u, M) /\ Settled(u, M) /\ Steady(u) /\ SameOthers(s, u)
<1> DEFINE u == drive(v)
<1>1. Driven(u, M) /\ Settled(u, M) /\ Steady(u) /\ SameOthers(v, u)
  BY DriveDone, Zenon DEF Handled
<1> HIDE DEF u
<1>2. SameOthers(s, u)
  BY <1>1 DEF Handled, SameOthers
<1> QED BY <1>1, <1>2, Zenon DEF u

(* start and on_timeout. *)
LEMMA StartDone ==
  ASSUME Arithmetic, NEW s, NEW M, Local(s, M), Messages(M), Idle(s), s.started_rounds = {}, Settled(s, M), s.out = {}
  PROVE  LET u == drive(evaluate(enter_round_core(s, 0))) IN
         Driven(u, M) /\ Settled(u, M) /\ Steady(u) /\ SameOthers(s, u)
BY StartHandled, HandledDone, Zenon

(* on_timeout leaves its node settled. *)
LEMMA TimeoutDone ==
  ASSUME Arithmetic, NEW s, NEW M, Live(s, M), Messages(M), Settled(s, M), s.out = {},
         NEW step \in Steps, NEW r \in Rounds, ~(step = Precommit /\ r = MaxRound)
  PROVE  LET u == drive(on_timeout(Expired(s, step, r), step, r)) IN
         Driven(u, M) /\ Settled(u, M) /\ Steady(u) /\ SameOthers(s, u)
BY TimeoutHandled, HandledDone, Zenon

(* A vote is counted, or moves nothing. *)
LEMMA VoteDone ==
  ASSUME Arithmetic, NEW s, NEW M, Live(s, M), Messages(M), Settled(s, M), s.out = {}, NEW m, Genuine(s, M, m)
  PROVE  LET u == drive(on_vote(s, m)) IN
         Driven(u, M) /\ Settled(u, M) /\ Steady(u) /\ Hears(s, u, m)
<1> DEFINE e == [s EXCEPT !.evidence = @ \union {m.from}]
           v == on_vote(s, m)
           u == drive(v)
<1>0. s \in RoundState /\ Watched(s, M) /\ Woken(s) /\ s.work = << >> /\ Watch(s, M) /\ ~s.decided
  BY SettledRuns, Zenon DEF Watched
<1>1. CASE v = s \/ v = e
  <2>1. Live(v, M)
    BY VoteKeeps, Zenon
  <2>2. /\ SameView(s, v) /\ SamePhase(s, v) /\ SameLock(s, v) /\ SameRound(s, v)
        /\ v.decided = s.decided /\ v.local_root = s.local_root /\ SameTimers(s, v)
        /\ v.work = s.work /\ v.out = s.out
    <3> HIDE DEF v
    <3> QED BY <1>0, <1>1 DEF RoundState, SameView, SamePhase, SameLock, SameRound, SameTimers
  <2> HIDE DEF v
  <2>3. TimersStand(v) /\ Woken(v)
    BY <1>0, <2>2, Zenon DEF Watch, TimersStand, Woken, SameRound, SamePhase, SameTimers
  <2>4. Handled(s, v, M)
    BY <1>0, <2>1, <2>2, <2>3, StillHandled, Zenon DEF SameTimers
  <2>5. Driven(u, M) /\ Settled(u, M) /\ Steady(u) /\ SameOthers(s, u)
    BY <2>4, HandledDone, Zenon
  <2>6. Hears(s, s, m)
    BY Zenon DEF Hears
  <2> HIDE DEF u
  <2> QED BY <2>5, <2>6, OthersHeard, Zenon DEF u, v
<1>2. CASE m.authentic /\ s.votes[m.kind][m.round][m.from] = None /\ v = evaluate(Tallied(s, m))
  <2> DEFINE h == Tallied(s, m)
  <2>1. /\ Live(h, M) /\ Input(s, h) /\ h.work = s.work /\ h.out = s.out /\ h.proposals = s.proposals
        /\ \A k \in Kinds, r \in Rounds, w \in Validators :
             h.votes[k][r][w] = IF k = m.kind /\ r = m.round /\ w = m.from THEN m.id ELSE s.votes[k][r][w]
    BY <1>0, <1>2, CountKeeps
  <2> HIDE DEF h, v
  <2>2. m.kind \in Kinds /\ m.from \in Validators /\ m.round \in Rounds /\ m.id \in Ids
    BY Zenon DEF Genuine
  <2>3. Adds(s, h) /\ h.local_root = s.local_root
    <3>1. Adds(s, h)
      BY ONLY <2>1, InputAdds
    <3> QED BY <3>1, Zenon DEF Adds
  <2>4. Handled(h, evaluate(h), M)
    <3>1. Counts(s, h, m)
      BY <2>1, Zenon DEF Counts
    <3> QED BY <1>2, <2>1, <2>2, <2>3, <3>1, TallyHandled, Zenon
  <2>5. Driven(u, M) /\ Settled(u, M) /\ Steady(u) /\ SameOthers(h, u)
    BY <1>2, <2>4, HandledDone, Zenon DEF h
  <2>6. Hears(s, h, m)
    BY <2>1, <2>3 DEF Hears
  <2> HIDE DEF u
  <2> QED BY <2>5, <2>6, OthersHeard, Zenon DEF u, v
<1> QED BY <1>1, <1>2, Zenon DEF on_vote, accept_vote, Tallied

(* A round's first proposal is kept; of a later one, the block is all that *)
(* is kept.                                                                *)
LEMMA ProposalDone ==
  ASSUME Arithmetic, NEW s, NEW M, Live(s, M), Messages(M), Settled(s, M), s.out = {},
         NEW m \in M \union FaultyMsgs, m.kind \notin Kinds, proposal_is_authentic(m)
  PROVE  LET u == drive(on_proposal(Keeping(s, m), m.round, m.id, m.valid_round, validate_proposal(m))) IN
         Driven(u, M) /\ Settled(u, M) /\ Steady(u) /\ SameOthers(s, u)
<1> DEFINE valid == validate_proposal(m)
           h == Keeping(s, m)
           g == Stored(h, m.round, m.id, m.valid_round, valid)
           v == on_proposal(h, m.round, m.id, m.valid_round, valid)
<1>0. s \in RoundState /\ Watch(s, M) /\ Quiet(s) /\ Woken(s) /\ s.work = << >> /\ ~s.decided
  BY SettledRuns, Zenon DEF Watched, Quiet
<1>1. /\ m.round \in Rounds /\ m.id \in Values /\ m.valid_round \in Int /\ m.kind = "proposal"
      /\ Narrow => m.valid_round < U32
      /\ m.authentic => m.from \in Faulty \/ m \in M
  BY ONLY m.kind \notin Kinds, Messages(M), m \in M \union FaultyMsgs, Received, Zenon
<1>2. /\ Live(h, M) /\ Input(s, h)
      /\ h.work = s.work /\ h.out = s.out /\ h.votes = s.votes /\ h.proposals = s.proposals
      /\ valid \in BOOLEAN /\ (valid => AtHand(h, m.id))
  BY <1>1, KeepingKeeps, Zenon
<1>3. v = evaluate(IF h.proposals[m.round] = None THEN g ELSE h)
  BY Zenon DEF on_proposal, Stored
<1> HIDE DEF h, valid, v
<1>4. h \in RoundState /\ Adds(s, h)
  BY <1>2, InputAdds, Zenon DEF Live, Local
<1>5. CASE s.proposals[m.round] # None
  <2>1. /\ SameView(s, h) /\ TimersStand(h) /\ Woken(h)
        /\ SamePhase(s, h) /\ SameLock(s, h) /\ SameRound(s, h) /\ SameTimers(s, h)
        /\ h.decided = s.decided /\ h.local_root = s.local_root
    BY <1>0, <1>2, <1>4, Zenon DEF Adds, SameView, Watch, TimersStand, Woken, SameRound, SamePhase, SameTimers
  <2>2. Quiet(h)
    BY <1>0, <1>4, <2>1, QuietStays, Zenon DEF SameTimers
  <2>3. v = h
    BY <1>2, <1>3, <1>5, <2>2, QuietIsFixed, Zenon DEF evaluate
  <2>4. Handled(s, v, M)
    BY <1>0, <1>2, <2>1, <2>3, StillHandled, Zenon DEF SameTimers
  <2> QED BY <2>4, HandledDone, Zenon DEF v, h, valid
<1>6. CASE s.proposals[m.round] = None
  <2>1. /\ Live(g, M) /\ Input(h, g) /\ g.work = h.work /\ g.out = h.out /\ g.votes = h.votes
        /\ \A q \in Rounds : q # m.round => g.proposals[q] = h.proposals[q]
    BY <1>1, <1>2, <1>6, StoreKeeps
  <2>2. v = evaluate(g)
    BY <1>2, <1>3, <1>6, Zenon
  <2> HIDE DEF g
  <2>3. Adds(s, g)
    <3>1. Adds(h, g)
      BY <2>1, InputAdds
    <3> QED BY <1>2, <1>4, <2>1, <3>1 DEF Adds, SameLock, SameRound, SamePhase, SameTimers
  <2>4. m.from = proposer_for(m.round) /\ (m.from \in Faulty \/ m \in M)
    BY <1>1, Zenon DEF proposal_is_authentic
  <2>5. Handled(s, v, M)
    BY <1>1, <1>2, <1>6, <2>1, <2>2, <2>3, <2>4, ProposalHandled, Zenon
  <2> QED BY <2>5, HandledDone, Zenon DEF v, h, valid
<1> QED BY <1>5, <1>6, Zenon

(* ingest leaves its node settled, and counts no other root's vote but the *)
(* one it was given.                                                       *)
LEMMA IngestDone ==
  ASSUME Arithmetic, NEW s, NEW M, Live(s, M), Messages(M), Settled(s, M), s.out = {}, NEW m \in M \union FaultyMsgs
  PROVE  LET u == ingest(s, m) IN
         Driven(u, M) /\ Settled(u, M) /\ Steady(u) /\ Hears(s, u, m)
<1> DEFINE u == ingest(s, m)
<1>0. Hears(s, s, m)
  BY Zenon DEF Hears
<1>1. CASE m.kind \in Kinds
  <2>1. Genuine(s, M, m)
    BY <1>1, Received, Zenon
  <2> QED BY <1>1, <2>1, VoteDone, Zenon DEF ingest
<1>2. CASE m.kind \notin Kinds /\ ~proposal_is_authentic(m)
  <2>1. u = s
    BY <1>2, Zenon DEF ingest
  <2> HIDE DEF u
  <2>2. Driven(s, M) /\ Steady(s)
    BY SettledRuns, Zenon DEF Live, Driven
  <2> QED BY <1>0, <2>1, <2>2, Zenon DEF u
<1>3. CASE m.kind \notin Kinds /\ proposal_is_authentic(m)
  <2>1. u = drive(on_proposal(Keeping(s, m), m.round, m.id, m.valid_round, validate_proposal(m)))
    BY <1>3, Zenon DEF ingest, Keeping
  <2> HIDE DEF u
  <2>2. Driven(u, M) /\ Settled(u, M) /\ Steady(u) /\ SameOthers(s, u)
    BY <1>3, <2>1, ProposalDone, Zenon
  <2> QED BY <1>0, <2>2, OthersHeard, Zenon DEF u
<1> QED BY <1>1, <1>2, <1>3, Zenon

-----------------------------------------------------------------------------
(* Every handler leaves its node settled. *)
SettledInv == Inv /\ \A n \in Honest : Settled(st[n], msgs)

(* A handler of n that ends in t, having counted no other root's vote but  *)
(* perhaps m.                                                              *)
Handles(n, t, m) ==
  /\ st[n].committed = None /\ Finish(n, t)
  /\ Driven(t, msgs) /\ Settled(t, msgs) /\ Steady(t) /\ Hears(st[n], t, m)

(* Every step of the system is a handler that settles its node. *)
LEMMA StepHandles ==
  ASSUME Arithmetic, SettledInv, Next
  PROVE  \E n \in Honest : \E t, m : Handles(n, t, m)
<1>0. /\ Messages(msgs)
      /\ \A o \in Honest : /\ st[o] \in RoundState /\ st[o].local_root = o /\ st[o].out = {} /\ Idle(st[o])
                           /\ Local(st[o], msgs) /\ Settled(st[o], msgs)
  BY Zenon DEF SettledInv, Inv
<1>1. \A n \in Honest : Running(n) => Live(st[n], msgs)
  BY <1>0, Zenon DEF Running, Live, Local, Rounded
<1>2. ASSUME NEW n \in Honest, Start(n) PROVE \E t, m : Handles(n, t, m)
  <2> DEFINE u == drive(evaluate(enter_round_core(st[n], 0)))
  <2>1. st[n].started_rounds = {} /\ Finish(n, u) /\ st[n].committed = None
    BY <1>0, <1>2, Zenon DEF Start, Idle
  <2>2. Driven(u, msgs) /\ Settled(u, msgs) /\ Steady(u) /\ SameOthers(st[n], u)
    BY <1>0, <2>1, StartDone, Zenon
  <2> HIDE DEF u
  <2>3. Hears(st[n], st[n], None)
    BY Zenon DEF Hears
  <2>4. Hears(st[n], u, None)
    BY <2>2, <2>3, OthersHeard, Zenon
  <2>5. Handles(n, u, None)
    BY <2>1, <2>2, <2>4, Zenon DEF Handles
  <2> QED BY <2>5, Zenon
<1>3. ASSUME NEW n \in Honest, NEW m \in msgs \union FaultyMsgs, OnMessage(n, m) PROVE \E t, x : Handles(n, t, x)
  <2> DEFINE u == ingest(st[n], m)
  <2>1. Running(n) /\ Finish(n, u) /\ st[n].committed = None
    BY <1>3, Zenon DEF OnMessage, Running
  <2>2. Driven(u, msgs) /\ Settled(u, msgs) /\ Steady(u) /\ Hears(st[n], u, m)
    BY <1>0, <1>1, <2>1, IngestDone, Zenon
  <2> HIDE DEF u
  <2>3. Handles(n, u, m)
    BY <2>1, <2>2, Zenon DEF Handles
  <2> QED BY <2>3, Zenon
<1>4. ASSUME NEW n \in Honest, NEW x \in Armed(st[n]), OnTimeout(n, x) PROVE \E t, m : Handles(n, t, m)
  <2> DEFINE u == drive(on_timeout(Expired(st[n], x[1], x[2]), x[1], x[2]))
  <2>1. x[1] \in Steps /\ x[2] \in Rounds /\ x = <<x[1], x[2]>>
    BY <1>0, ArmedType DEF Armed, RoundState
  <2>2. Running(n) /\ Finish(n, u) /\ ~(x[1] = Precommit /\ x[2] = MaxRound) /\ st[n].committed = None
    BY <1>4, <2>1, Zenon DEF OnTimeout, Running, Expired
  <2>3. Driven(u, msgs) /\ Settled(u, msgs) /\ Steady(u) /\ SameOthers(st[n], u)
    BY <1>0, <1>1, <2>1, <2>2, TimeoutDone, Zenon
  <2> HIDE DEF u
  <2>4. Hears(st[n], st[n], None)
    BY Zenon DEF Hears
  <2>5. Hears(st[n], u, None)
    BY <2>3, <2>4, OthersHeard, Zenon
  <2>6. Handles(n, u, None)
    BY <2>2, <2>3, <2>5, Zenon DEF Handles
  <2> QED BY <2>6, Zenon
<1> QED BY <1>2, <1>3, <1>4, Zenon DEF Next

(* A handler that settles its node unsettles no other. *)
LEMMA HandlesSettles ==
  ASSUME SettledInv, Inv', NEW n \in Honest, NEW t, NEW m, Handles(n, t, m)
  PROVE  SettledInv'
<1> DEFINE u == [t EXCEPT !.out = {}]
<1>0. /\ st \in [Honest -> RoundState]
      /\ \A o \in Honest : st[o].local_root = o /\ Settled(st[o], msgs)
  BY Zenon DEF SettledInv, Inv
<1>1. t \in RoundState /\ t.local_root = n /\ \A x \in t.out : x.from = n
  BY <1>0, Zenon DEF Handles, Driven, Local, Hears
<1>2. msgs' = msgs \union t.out /\ st' = [st EXCEPT ![n] = u]
  BY Zenon DEF Handles, Finish
<1>3. Settled(u, msgs \union t.out)
  BY <1>1, ReturnSettled, Zenon DEF Handles
<1> HIDE DEF u
<1>4. ASSUME NEW o \in Honest PROVE Settled(st'[o], msgs')
  <2>1. CASE o = n
    BY <1>0, <1>2, <1>3, <2>1, Zenon
  <2>2. CASE o # n
    <3>1. st'[o] = st[o]
      BY <1>0, <1>2, <2>2, Zenon
    <3>2. \A x \in t.out : x.from # st[o].local_root
      BY <1>0, <1>1, <2>2, Zenon
    <3> QED BY <1>0, <1>2, <3>1, <3>2, OthersSettled, Zenon
  <2> QED BY <2>1, <2>2, Zenon
<1> QED BY <1>4, Zenon DEF SettledInv

(* Every step keeps every node settled. *)
LEMMA NextSettled ==
  ASSUME Arithmetic, SettledInv, [Next]_vars
  PROVE  SettledInv'
<1>1. Inv'
  BY NextInv, Zenon DEF SettledInv
<1>2. CASE Next
  BY <1>1, <1>2, StepHandles, HandlesSettles, Zenon
<1>3. CASE UNCHANGED vars
  BY <1>1, <1>3, Zenon DEF SettledInv, vars
<1> QED BY <1>2, <1>3, Zenon

(* A fresh Round is settled. *)
LEMMA InitSettled ==
  ASSUME Arithmetic, Init PROVE SettledInv
<1>1. Inv
  BY InitInv, Zenon
<1>2. st = [n \in Honest |-> NewRound(n)] /\ msgs = {}
  BY Zenon DEF Init
<1> QED BY <1>1, <1>2, FreshSettled, Zenon DEF SettledInv

(* Every step of the system is one handler, whole. *)
LEMMA NextTurn ==
  ASSUME Arithmetic, SettledInv, Next
  PROVE  \E n \in Honest : \E m : Turn(n, m)
<1>1. PICK n \in Honest : \E t, m : Handles(n, t, m)
  BY StepHandles, Zenon
<1>2. PICK t, m : Handles(n, t, m)
  BY <1>1, Zenon
<1>3. Inv /\ Inv' /\ Later(st[n], st'[n])
  BY NextInv, Zenon DEF SettledInv
<1>4. SettledInv'
  BY <1>2, <1>3, HandlesSettles, Zenon
<1> DEFINE u == [t EXCEPT !.out = {}]
<1>5. st \in [Honest -> RoundState] /\ msgs' = msgs \union t.out /\ st' = [st EXCEPT ![n] = u]
  BY <1>2, <1>3, Zenon DEF Handles, Finish, Inv
<1>6. t \in RoundState /\ t.local_root = st[n].local_root /\ st[n].local_root = n /\ \A x \in t.out : x.from = t.local_root
  BY <1>2, <1>3, Zenon DEF Handles, Driven, Local, Hears, Inv
<1>7. u.round = t.round /\ u.votes = t.votes /\ u.local_root = t.local_root
  BY <1>6, Zenon DEF RoundState
<1> HIDE DEF u
<1>8. st'[n] = u /\ \A o \in Honest : o # n => st'[o] = st[o]
  BY <1>5, Zenon
<1>9. Hears(st[n], u, m)
  <2>1. SameOthers(t, u)
    BY <1>7, Zenon DEF SameOthers
  <2>2. Hears(st[n], t, m)
    BY <1>2, Zenon DEF Handles
  <2> QED BY <2>1, <2>2, OthersHeard, Zenon
<1>10. \A x \in msgs' \ msgs : x.from = n /\ (x.kind \in Kinds => x.round = st'[n].round)
  <2> SUFFICES ASSUME NEW x \in t.out PROVE x.from = n /\ (x.kind \in Kinds => x.round = t.round)
    BY <1>5, <1>7, <1>8, Zenon
  <2> QED BY <1>2, <1>6, Zenon DEF Handles, Steady
<1>11. Settled(st[n], msgs) /\ Settled(st'[n], msgs')
  BY <1>4, Zenon DEF SettledInv
<1>12. st[n].committed = None
  BY <1>2, Zenon DEF Handles
<1>13. Turn(n, m)
  BY <1>3, <1>5, <1>8, <1>9, <1>10, <1>11, <1>12, Zenon DEF Turn
<1> QED BY <1>13, Zenon

(* So every step of the system is a step of Voting. *)
LEMMA NextVotes ==
  ASSUME Arithmetic, Narrow, SettledInv, [Next]_vars
  PROVE  [\E n \in Honest : VotingStep(n)]_(V!vars)
<1>1. CASE Next
  <2>1. PICK n \in Honest : \E m : Turn(n, m)
    BY <1>1, NextTurn, Zenon
  <2>2. VotingStep(n) \/ UNCHANGED V!vars
    BY <2>1, TurnVotes, Zenon
  <2> QED BY <2>2, Zenon
<1>2. CASE UNCHANGED vars
  <2>1. CastVotes' = CastVotes
    BY <1>2, Zenon DEF vars, CastVotes
  <2>2. UNCHANGED V!vars
    BY <1>2, <2>1, Zenon DEF vars, V!vars
  <2> QED BY <2>2, Zenon
<1> QED BY <1>1, <1>2, Zenon

(* Fresh Rounds are the initial state of Voting. *)
LEMMA InitVotes == ASSUME Init PROVE V!Init
<1>1. st = [n \in Honest |-> NewRound(n)] /\ msgs = {}
  BY Zenon DEF Init
<1>2. \A n \in Honest : st[n].round = 0 /\ st[n].committed = None
  BY <1>1, Zenon DEF NewRound
<1>3. \A n \in Honest, k \in Kinds, r \in Rounds, v \in Validators : st[n].votes[k][r][v] = None
  BY <1>1, Zenon DEF NewRound
<1>4. CastVotes = {}
  <2>1. ASSUME NEW c \in Faulty \X Kinds \X Rounds \X Ids, NEW n \in Honest, st[n].votes[c[2]][c[3]][c[1]] = c[4] PROVE FALSE
    <3>1. c[1] \in Validators /\ c[2] \in Kinds /\ c[3] \in Rounds /\ c[4] \in Ids
      BY RoundAssumption, Zenon
    <3> QED BY <1>3, <2>1, <3>1, RoundAssumption, Zenon
  <2> QED BY <1>1, <2>1, Zenon DEF CastVotes
<1>5. /\ [n \in Honest |-> st[n].round] = [n \in Honest |-> 0]
      /\ [n \in Honest |-> IF st[n].committed = None THEN None ELSE st[n].committed.id] = [n \in Honest |-> None]
  BY <1>2, Zenon
<1> QED BY <1>4, <1>5, Zenon DEF V!Init, V!Honest, Honest

(* Settled nodes have run to completion and keep a timer. *)
LEMMA InvWaits == ASSUME SettledInv PROVE RunsToCompletion /\ TimerArmed
<1>1. ASSUME NEW n \in Honest, Running(n)
      PROVE  /\ st[n].work = << >> /\ pass(st[n]) = st[n]
             /\ st[n].step = Propose => <<Propose, st[n].round>> \in st[n].timers
             /\ st[n].step = Prevote /\ total_prevotes(st[n], st[n].round) >= quorum =>
                  <<Prevote, st[n].round>> \in st[n].timers
             /\ total_precommits(st[n], st[n].round) >= quorum => <<Precommit, st[n].round>> \in st[n].timers
  <2>1. Live(st[n], msgs) /\ Settled(st[n], msgs) /\ st[n].out = {}
    BY <1>1, Zenon DEF SettledInv, Inv, Running, Live, Local, Rounded
  <2> QED BY <2>1, SettledWaits, Zenon
<1>2. RunsToCompletion
  BY <1>1, Zenon DEF RunsToCompletion
<1>3. TimerArmed
  BY <1>1, Zenon DEF TimerArmed
<1> QED BY <1>2, <1>3, Zenon
=============================================================================
