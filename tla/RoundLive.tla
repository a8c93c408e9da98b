------------------------------ MODULE RoundLive ------------------------------
(***************************************************************************)
(* The height of module Round as run_to_height (net.rs) schedules it once  *)
(* the network behaves.  Links deliver what honest nodes send, and a timer *)
(* lasts TIMEOUT_BASE * (round + 1): from some round on it outlasts every  *)
(* message in flight.  Until then some timers are too short and some of    *)
(* the faulty roots' messages get through: the network's scenario.         *)
(***************************************************************************)
EXTENDS Round

CONSTANT Scenarios

ScenariosAssumption ==
  Scenarios \subseteq [short : SUBSET (Honest \X {Propose, Prevote, Precommit} \X Rounds),
                       heard : SUBSET FaultyMsgs]

VARIABLE scenario

liveVars == <<vars, scenario>>

(* What delivering m would change; a message without effect is the seen    *)
(* duplicate that run_to_height drops.                                     *)
InFlight(n) == {m \in msgs : Running(n) /\ ingest(st[n], m) # st[n]}

Quiet ==
  \A n \in Honest : st[n].started_rounds # {} /\ InFlight(n) = {}

(* Any other timer lasts until nothing is left to deliver; of several the  *)
(* one armed first, in the lower round and step, runs out first.           *)
Earlier(t, u) == t[2] < u[2] \/ (t[2] = u[2] /\ t[1] <= u[1])
RunsOut(n, t) ==
  \/ <<n, t[1], t[2]>> \in scenario.short
  \/ /\ Quiet
     /\ \A k \in Honest : Running(k) => \A u \in st[k].timers : Earlier(t, u)

KeepToItself(s, m) == s

(* run_to_height floods every message on when it first sees it, so what a  *)
(* faulty root shows to one node reaches them all.                         *)
Regossip(s, m) == Send(s, m)

Deliver(n) == \E m \in InFlight(n) : OnMessage(n, m)

(* A faulty root's message comes, or does not, while n is at its round.    *)
Hear(n) ==
  \E m \in scenario.heard :
    /\ Running(n)
    /\ m.round = st[n].round /\ st[n].step = Propose
    /\ Finish(n, Regossip(ingest(st[n], m), m))

FireTimer(n) == \E t \in st[n].timers : RunsOut(n, t) /\ OnTimeout(n, t)

LiveNext ==
  /\ \E n \in Honest : Start(n) \/ Deliver(n) \/ Hear(n) \/ FireTimer(n)
  /\ UNCHANGED scenario

(* Nothing an honest node has to do. *)
Idle ==
  /\ Quiet
  /\ \A n \in Honest : Running(n) =>
       \A t \in st[n].timers : t = <<Precommit, MaxRound>> \/ ~RunsOut(n, t)

(* While an honest node has something to do, something is done: the loop   *)
(* of run_to_height polls its links and its timers for as long as it runs. *)
(* Every step leaves less to do, so no fairness between nodes is needed.   *)
LiveSpec ==
  /\ Init /\ scenario \in Scenarios /\ [][LiveNext]_liveVars
  /\ []<>Idle \/ []<><<TRUE>>_liveVars

(* Every honest validator finalizes a block: a silent proposer, and locks  *)
(* left by rounds that timers cut short, only delay the height.  (net.rs:  *)
(* "a silent or crashed proposer no longer stalls the height".)  It is not *)
(* claimed of a proposer that signs two blocks: a node keeps the first     *)
(* proposal it saw in a round, and cannot decide on the other.             *)
HeightDecided == <>(\A n \in Honest : st[n].committed # None)
=============================================================================
