-------------------------------- MODULE Mesh --------------------------------
(***************************************************************************)
(* TcpMesh::establish_topology (net.rs): every node first dials its higher *)
(* neighbours, one after the other, each through the channel handshake and *)
(* the validator admission, and then accepts its lower ones.  Reads of a   *)
(* handshake end after HANDSHAKE_TIMEOUT; accept does not.                 *)
(*                                                                         *)
(* A connection goes through the stages in which one side waits:           *)
(*   none - hello - response - attest - linked - done, or closed.          *)
(* Listeners are bound beforehand, so a connect always reaches a backlog.  *)
(* The arguments are consistent (the topology is undirected, roots are     *)
(* distinct), so the checks at the head of the function pass.              *)
(***************************************************************************)
EXTENDS Integers, Sequences, FiniteSets, FiniteSetsExt, Functions

CONSTANTS
  N,          \* nodes are the indices 0 .. N-1
  Topologies, \* the undirected graphs to start from, as sets of pairs {i, j}
  Mute,       \* nodes that connect and never say more
  Slow,       \* those in which a handshake read may time out at any moment
  None

Nodes == 0..(N - 1)
Pairs == {p \in Nodes \X Nodes : p[1] # p[2]}

ASSUME MeshAssumption ==
  /\ N \in Nat \ {0} /\ Mute \subseteq Nodes /\ Slow \subseteq Topologies /\ None \notin Nodes
  /\ \A T \in Topologies : T \subseteq {{i, j} : i \in Nodes, j \in Nodes}

VARIABLES
  edges,      \* the topology
  conn,       \* the stage of the connection that i dials to j
  backlog,    \* connections the kernel holds for each listener
  serving,    \* the connection each accept loop is working on
  links,      \* the peers each node has a link with
  failed      \* the nodes whose establish_topology returned an error

vars == <<edges, conn, backlog, serving, links, failed>>

Stages == {"none", "hello", "response", "attest", "linked", "done", "closed"}

-----------------------------------------------------------------------------
Neighbours(n) == {j \in Nodes \ {n} : {n, j} \in edges}

DialsEverybody(n) == Neighbours(n)
DialsBeyondNext(n) == {j \in Neighbours(n) : j > n + 1}
Higher(n) == {j \in Neighbours(n) : j > n}
Lower(n)  == {j \in Neighbours(n) : j < n}

Running(n) == n \notin failed

Dialing(n) == Running(n) /\ ~(Higher(n) \subseteq links[n])
Target(n)  == Min(Higher(n) \ links[n])

(* The accept loop runs until nobody is expected any more. *)
Accepting(n) ==
  Running(n) /\ Higher(n) \subseteq links[n] /\ ~(Lower(n) \subseteq links[n])

Up(n) == Running(n) /\ Neighbours(n) \subseteq links[n]

Init ==
  /\ edges \in Topologies
  /\ conn = [p \in Pairs |-> "none"]
  /\ backlog = [n \in Nodes |-> <<>>]
  /\ serving = [n \in Nodes |-> None]
  /\ links = [n \in Nodes |-> {}]
  /\ failed = {}

Advance(i, j, from, to) == conn[<<i, j>>] = from /\ conn' = [conn EXCEPT ![<<i, j>>] = to]

(* connect_with_retry, and the initiator's hello. *)
Connect(i) ==
  /\ Dialing(i)
  /\ Advance(i, Target(i), "none", "hello")
  /\ backlog' = [backlog EXCEPT ![Target(i)] = Append(@, i)]
  /\ UNCHANGED <<edges, serving, links, failed>>

(* A mute node does not wait: it connects to all of its higher neighbours. *)
ConnectMute(i) ==
  /\ i \in Mute
  /\ \E j \in Higher(i) :
       /\ Advance(i, j, "none", "hello")
       /\ backlog' = [backlog EXCEPT ![j] = Append(@, i)]
  /\ UNCHANGED <<edges, serving, links, failed>>

(* accept, and the responder's half of Link::new. *)
Accept(j) ==
  /\ Accepting(j) /\ serving[j] = None /\ backlog[j] # <<>>
  /\ LET i == Head(backlog[j])
     IN  /\ Advance(i, j, "hello", "response")
         /\ serving' = [serving EXCEPT ![j] = i]
  /\ backlog' = [backlog EXCEPT ![j] = Tail(@)]
  /\ UNCHANGED <<edges, links, failed>>

(* authenticate_mesh_link: the initiator attests first ... *)
Attest(i) ==
  /\ Dialing(i)
  /\ Advance(i, Target(i), "response", "attest")
  /\ UNCHANGED <<edges, backlog, serving, links, failed>>

(* An error leaves establish_topology and drops the streams it holds.      *)
(* What a stream already carries can still be read: only a handshake that  *)
(* needs another word from n is cut off.  What waits in the backlog stays. *)
Held(n) ==
  {p \in Pairs : \/ p[1] = n /\ conn[p] = "hello"
                 \/ p[2] = n /\ p[1] = serving[n]}

Fail(n) ==
  /\ failed' = failed \union {n}
  /\ conn' = [p \in Pairs |-> IF p \in Held(n) THEN "closed" ELSE conn[p]]
  /\ serving' = [serving EXCEPT ![n] = None]
  /\ UNCHANGED <<edges, links>>

AdmitInOrder(j) ==
  \/ /\ serving[j] # None /\ Running(j) /\ serving[j] = Min(Lower(j) \ links[j])
     /\ Advance(serving[j], j, "attest", "linked")
     /\ links' = [links EXCEPT ![j] = @ \union {serving[j]}]
     /\ serving' = [serving EXCEPT ![j] = None]
     /\ UNCHANGED <<edges, backlog, failed>>
  \/ /\ serving[j] # None /\ Running(j) /\ serving[j] # Min(Lower(j) \ links[j])
     /\ conn[<<serving[j], j>>] = "attest"
     /\ Fail(j) /\ UNCHANGED backlog

(* ... the responder checks that it is one of those it still expects,     *)
(* answers, and has its link.                                              *)
Admit(j) ==
  /\ serving[j] # None /\ Running(j)
  /\ Advance(serving[j], j, "attest", "linked")
  /\ links' = [links EXCEPT ![j] = @ \union {serving[j]}]
  /\ serving' = [serving EXCEPT ![j] = None]
  /\ UNCHANGED <<edges, backlog, failed>>

(* The initiator has its link and turns to the next neighbour. *)
Complete(i) ==
  /\ Dialing(i)
  /\ links' = [links EXCEPT ![i] = @ \union {Target(i)}]
  /\ Advance(i, Target(i), "linked", "done")
  /\ UNCHANGED <<edges, backlog, serving, failed>>

(* The dialer reads the end of a stream that its peer has dropped. *)
DialClosed(i) ==
  /\ Dialing(i) /\ conn[<<i, Target(i)>>] = "closed"
  /\ Fail(i) /\ UNCHANGED backlog

(* So does an accept loop whose next caller has given up meanwhile.  A     *)
(* caller does not give up between the response and its attestation.       *)
AcceptClosed(j) ==
  /\ Accepting(j) /\ serving[j] = None /\ backlog[j] # <<>>
  /\ conn[<<Head(backlog[j]), j>>] = "closed"
  /\ backlog' = [backlog EXCEPT ![j] = Tail(@)]
  /\ Fail(j)

Progress(n) ==
  Connect(n) \/ Accept(n) \/ Attest(n) \/ Admit(n) \/ Complete(n)
    \/ DialClosed(n) \/ AcceptClosed(n)

(* When one of these is enabled. *)
CanMove(n) ==
  \/ Dialing(n) /\ conn[<<n, Target(n)>>] \in {"none", "response", "linked", "closed"}
  \/ /\ Accepting(n) /\ serving[n] = None /\ backlog[n] # <<>>
     /\ conn[<<Head(backlog[n]), n>>] \in {"hello", "closed"}
  \/ Running(n) /\ serving[n] # None /\ conn[<<serving[n], n>>] = "attest"

(* A node in the middle of a handshake read. *)
Reading(n) ==
  \/ Dialing(n) /\ conn[<<n, Target(n)>>] \in {"hello", "attest"}
  \/ serving[n] # None /\ conn[<<serving[n], n>>] = "response"

(* On a prompt network a read times out only when nothing else is left. *)
TimesOut(n) ==
  /\ Reading(n)
  /\ edges \in Slow \/ \A k \in Nodes \ Mute : ~CanMove(k)
  /\ Fail(n) /\ UNCHANGED backlog

Next ==
  \/ \E n \in Nodes \ Mute : Progress(n) \/ TimesOut(n)
  \/ \E n \in Mute : ConnectMute(n)

Spec == Init /\ [][Next]_vars /\ WF_vars(Next)

-----------------------------------------------------------------------------
(* The types; a connection is served while its two ends are in the middle  *)
(* of the handshake, and links only join neighbours.                       *)
TypeOK ==
  /\ edges \in Topologies
  /\ conn \in [Pairs -> Stages]
  /\ \A n \in Nodes :
       /\ links[n] \subseteq Neighbours(n)
       /\ Range(backlog[n]) \subseteq Neighbours(n)
       /\ serving[n] # None =>
            serving[n] \in Neighbours(n) \ links[n]
              /\ conn[<<serving[n], n>>] \in {"response", "attest"}
  /\ failed \subseteq Nodes \ Mute

(* p cannot go on without q. *)
WaitsFor(p, q) ==
  /\ p \notin Mute
  /\ \/ Dialing(p) /\ q = Target(p) /\ conn[<<p, q>>] \in {"hello", "attest"}
     \/ Accepting(p) /\ q = serving[p] /\ conn[<<q, p>>] = "response"
     \/ Accepting(p) /\ serving[p] = None /\ backlog[p] = <<>> /\ q \in Lower(p) \ links[p]

Waiting == {p \in Nodes : \E q \in Nodes : WaitsFor(p, q)}

(* Nodes never wait for each other in a ring, whatever the topology and    *)
(* whoever gave up: some member of every group of nodes that wait waits    *)
(* for nobody in it.                                                       *)
(* The claim behind "the wait graph is still acyclic" at                   *)
(* establish_topology.                                                     *)
AcyclicWaits ==
  \A S \in SUBSET Waiting : S # {} => \E p \in S : \A q \in S : ~WaitsFor(p, q)

(* No neighbour is mute. *)
Responsive == \A n \in Mute : Neighbours(n) = {}

(* As long as nobody has given up, everyone has its mesh or someone can    *)
(* move: dialing upwards and accepting downwards cannot deadlock.          *)
NeverStuck ==
  failed = {} /\ Responsive => (\A n \in Nodes : Up(n)) \/ \E n \in Nodes : CanMove(n)

(* On a prompt network every node gets its mesh, whatever the topology,    *)
(* connected or not.                                                       *)
Established == Responsive /\ edges \notin Slow => <>(\A n \in Nodes : Up(n))

(* establish_topology returns, with a mesh or an error: a peer that        *)
(* connects and never completes its handshake hangs nobody.                *)
NobodyHangs == <>(\A n \in Nodes \ Mute : Up(n) \/ n \in failed)
=============================================================================
