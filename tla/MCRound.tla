------------------------------- MODULE MCRound -------------------------------
EXTENDS Round

CONSTANTS A, B, X

MCValues      == {A, B, X}
MCValidValues == {A, B}
MCFresh       == [r \in Rounds |-> A]

VotesOf(F, k, rs, ids) == {VoteMsg(k, n, r, v) : n \in F, r \in rs, v \in ids}
Forge(m) == [m EXCEPT !.authentic = FALSE]

(* One peer, three rounds: late prevotes, locks on either block, proposals *)
(* that reach back to a past round.                                        *)
PairMsgs ==
  {ProposalMsg(1, 0, A, -1), ProposalMsg(1, 0, B, -1),
   ProposalMsg(1, 2, B, 0), ProposalMsg(1, 2, A, 1)}
  \union VotesOf({1}, "prevote", {0, 2}, {B})
  \union VotesOf({1}, "prevote", {1}, {A, B})
  \union VotesOf({1}, "precommit", {0, 1}, {NIL})
  \union VotesOf({1}, "precommit", {1}, {A})
  \union {Forge(VoteMsg("prevote", 0, 2, B))}

(* Three peers, two rounds: nil quorums, an invalid block, rounds skipped  *)
(* on f+1 votes.                                                           *)
QuadMsgs ==
  {ProposalMsg(1, 0, A, -1), ProposalMsg(1, 0, X, -1), ProposalMsg(2, 1, A, 0)}
  \union VotesOf({1, 2, 3}, "prevote", {0}, {A})
  \union VotesOf({1, 2}, "prevote", {0}, {NIL})
  \union VotesOf({2, 3}, "precommit", {0}, {A})
  \union VotesOf({2, 3}, "precommit", {1}, {A})

(* A proposal whose valid_round is as wide as the wire's i64 allows. *)
WideMsgs ==
  {ProposalMsg(1, 0, B, -1), ProposalMsg(1, 2, B, U32)}
  \union VotesOf({1}, "prevote", {0, 1}, {A, B})
  \union VotesOf({1}, "precommit", {0, 1}, {NIL})
=============================================================================
