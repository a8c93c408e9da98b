------------------------------ MODULE MCRounds ------------------------------
(***************************************************************************)
(* Consensus rounds for TLC.  Each behaviour runs one of three networks    *)
(* and leaves the others where they start: one honest validator and one    *)
(* that obeys no rule, over three rounds; one honest validator and three   *)
(* that do not, over two; and three honest validators and a faulty one     *)
(* that run_to_height schedules.                                           *)
(***************************************************************************)
EXTENDS MCRound

VARIABLES
  network,
  quadSt, quadMsgs,           \* Quad
  liveSt, liveMsgs, scenario  \* Live

quad    == <<quadSt, quadMsgs>>
live    == <<liveSt, liveMsgs, scenario>>
netVars == <<network, vars, quad, live>>

Quad == INSTANCE Round WITH
  st <- quadSt, msgs <- quadMsgs,
  N <- 4, MaxRound <- 1, Faulty <- {1, 2, 3},
  Fresh <- [r \in 0..1 |-> A], FaultyMsgs <- QuadMsgs

-----------------------------------------------------------------------------
LiveMsgs == {VoteMsg("prevote", 3, 0, A)}

(* A silent root: in round 0 every timer races. *)
Silent == [short |-> (0..2) \X {Propose, Prevote, Precommit} \X {0}, heard |-> {}]

(* A root whose one vote makes a quorum for those who get it in time:      *)
(* validator 1 misses the proposal and 0 leaves the round early.           *)
LateVote ==
  [short |-> {<<1, Propose, 0>>, <<0, Prevote, 0>>, <<0, Precommit, 0>>},
   heard |-> LiveMsgs]

Live == INSTANCE RoundLive WITH
  st <- liveSt, msgs <- liveMsgs,
  N <- 4, Height <- 2, MaxRound <- 3, U32 <- 8, Faulty <- {3},
  Values <- {A, B}, ValidValues <- {A, B},
  Fresh <- [r \in 0..3 |-> IF r = 0 THEN A ELSE B],
  FaultyMsgs <- LiveMsgs, Scenarios <- {Silent, LateVote}

ASSUME Live!ScenariosAssumption

-----------------------------------------------------------------------------
NetInit ==
  /\ network \in {"pair", "quad", "live"}
  /\ Init /\ Quad!Init /\ Live!Init
  /\ scenario \in {Silent, LateVote}
  /\ network # "live" => scenario = Silent

PairNext == network = "pair" /\ Next /\ UNCHANGED <<network, quad, live>>
QuadNext == network = "quad" /\ Quad!Next /\ UNCHANGED <<network, vars, live>>
LiveNext == network = "live" /\ Live!LiveNext /\ UNCHANGED <<network, vars, quad>>

(* The fairness is Live's.                                                 *)
NetSpec ==
  /\ NetInit /\ [][PairNext \/ QuadNext \/ LiveNext]_netVars
  /\ []<>(network # "live" \/ Live!Idle) \/ []<><<TRUE>>_netVars

-----------------------------------------------------------------------------
(* The properties are Round's, of the pair, and these.                     *)

(* Among four validators, too, where 2f+1 is not everyone and f+1 is more  *)
(* than one: nothing heard waits for an unrelated input, what is committed *)
(* was precommitted by 2f+1, and a node that waits has its timer armed.    *)
QuadRunsSafely ==
  network = "quad" =>
    Quad!RunsToCompletion /\ Quad!CertificateVerifies /\ Quad!TimerArmed

(* Every honest validator finalizes a block, whatever round 0 came to.     *)
HeightDecided == network = "live" => Live!HeightDecided
=============================================================================
