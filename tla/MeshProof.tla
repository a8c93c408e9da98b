------------------------------ MODULE MeshProof ------------------------------
(***************************************************************************)
(* Establishing a mesh never deadlocks and never closes a ring of waits,   *)
(* for any number of nodes, any topology and any set of mute nodes.        *)
(***************************************************************************)
EXTENDS Mesh, WellFoundedInduction, NaturalsInduction, TLAPS

Typed ==
  /\ edges \in Topologies
  /\ conn \in [Pairs -> Stages]
  /\ backlog \in [Nodes -> Seq(Nodes)]
  /\ serving \in [Nodes -> Nodes \union {None}]
  /\ links \in [Nodes -> SUBSET Nodes]
  /\ failed \subseteq Nodes \ Mute
  /\ \A n \in Nodes : n \notin links[n] /\ serving[n] # n

(* Only higher neighbours are dialed. *)
DialedUpwards ==
  \A p \in Pairs : conn[p] # "none" => p[2] \in Higher(p[1])

(* What the two ends of an edge hold follows from its stage. *)
LinksMatch ==
  \A p \in Pairs : p[1] < p[2] =>
    /\ p[2] \in links[p[1]] <=> conn[p] = "done"
    /\ p[1] \in links[p[2]] <=> conn[p] \in {"linked", "done"}

(* A node works on one outgoing connection at a time. *)
OneDial ==
  \A p \in Pairs :
    /\ p[1] \notin Mute /\ Running(p[1])
    /\ conn[p] \in {"hello", "response", "attest", "linked"}
    => p[2] = Target(p[1])

ServingMatches ==
  \A p \in Pairs : serving[p[2]] = p[1] <=> conn[p] \in {"response", "attest"}

(* A caller that waits for its response is in the backlog, once, and the   *)
(* backlog holds nobody else but callers that have given up.               *)
HelloQueued ==
  \A p \in Pairs : conn[p] = "hello" =>
    \E k \in 1..Len(backlog[p[2]]) : backlog[p[2]][k] = p[1]

BacklogWaits ==
  \A n \in Nodes : \A k \in 1..Len(backlog[n]) :
    <<backlog[n][k], n>> \in Pairs /\ conn[<<backlog[n][k], n>>] \in {"hello", "closed"}

BacklogDistinct ==
  \A n \in Nodes : \A k, l \in 1..Len(backlog[n]) : backlog[n][k] = backlog[n][l] => k = l

ClosedByFailure ==
  \A p \in Pairs : conn[p] = "closed" => failed # {}

Inv ==
  /\ Typed
  /\ DialedUpwards
  /\ LinksMatch
  /\ OneDial
  /\ ServingMatches
  /\ HelloQueued
  /\ BacklogWaits
  /\ BacklogDistinct
  /\ ClosedByFailure

-----------------------------------------------------------------------------
(* Every nonempty set of node indices has a least member: the order in     *)
(* which establish_topology sorts its neighbours.                          *)
LEMMA LeastIndex ==
  ASSUME NEW S \in SUBSET Nodes, S # {}
  PROVE  \E x \in S : \A y \in S : x <= y
<1>1. S \subseteq Nat
  BY MeshAssumption DEF Nodes
<1>2. PICK x \in S : \A y \in S : ~(<<y, x>> \in OpToRel(<, Nat))
  BY Zenon, <1>1, WFMin, NatLessThanWellFounded
<1>3. \A y \in S : ~(y < x)
  BY Zenon, <1>1, <1>2 DEF OpToRel
<1> QED
  BY <1>1, <1>3

(* ... and a greatest one. *)
LEMMA GreatestIndex ==
  ASSUME NEW S \in SUBSET Nodes, S # {}
  PROVE  \E x \in S : \A y \in S : y <= x
<1> DEFINE R == {n \in Nodes : N - 1 - n \in S}
<1>1. PICK s \in S : TRUE
  OBVIOUS
<1>2. /\ N - 1 - s \in Nodes
      /\ N - 1 - (N - 1 - s) = s
  BY MeshAssumption DEF Nodes
<1>3. R \in SUBSET Nodes /\ R # {}
  BY <1>1, <1>2
<1>4. PICK x \in R : \A y \in R : x <= y
  BY Zenon, <1>3, LeastIndex
<1>5. ASSUME NEW y \in S PROVE y <= N - 1 - x
  <2>1. N - 1 - y \in R
    BY MeshAssumption DEF Nodes
  <2>2. x <= N - 1 - y
    BY <1>4, <2>1
  <2> QED
    BY <2>2, MeshAssumption DEF Nodes
<1> QED
  BY <1>4, <1>5

(* The next node to dial is a higher neighbour without a link. *)
LEMMA TargetIsNext ==
  ASSUME NEW n \in Nodes, Dialing(n)
  PROVE  Target(n) \in Higher(n) \ links[n] /\ Target(n) \in Nodes /\ Target(n) > n
<1> DEFINE S == Higher(n) \ links[n]
<1>1. S \in SUBSET Nodes /\ S # {}
  BY Zenon DEF Dialing, Higher, Neighbours
<1>2. \E x \in S : \A y \in S : x <= y
  BY Zenon, <1>1, LeastIndex
<1>3. Target(n) \in S
  BY <1>2 DEF Target, Min
<1> QED
  BY <1>3 DEF Higher, Neighbours

-----------------------------------------------------------------------------
(* Before anyone dials, no edge has left its first stage. *)
LEMMA InitInv == Init => Inv
<1> SUFFICES ASSUME Init PROVE Inv
  OBVIOUS
<1>1. Typed
  BY MeshAssumption DEF Init, Typed, Stages
<1>2. DialedUpwards /\ OneDial /\ HelloQueued /\ ClosedByFailure
  BY DEF Init, DialedUpwards, OneDial, HelloQueued, ClosedByFailure
<1>3. LinksMatch
  BY DEF Init, LinksMatch, Pairs
<1>4. ServingMatches
  BY MeshAssumption DEF Init, ServingMatches, Pairs
<1>5. BacklogWaits /\ BacklogDistinct
  BY DEF Init, BacklogWaits, BacklogDistinct
<1> QED
  BY <1>1, <1>2, <1>3, <1>4, <1>5 DEF Inv

(* The topology is an argument of establish_topology and stays as it is. *)
LEMMA SameNeighbours ==
  ASSUME edges' = edges, NEW n
  PROVE  Higher(n)' = Higher(n) /\ Lower(n)' = Lower(n) /\ Neighbours(n)' = Neighbours(n)
  BY DEF Higher, Lower, Neighbours

(* A connection enters a backlog: connect_with_retry, or a mute caller. *)
LEMMA DialStep ==
  ASSUME Inv, NEW i \in Nodes, NEW j \in Higher(i),
         i \notin Mute => j = Target(i),
         Advance(i, j, "none", "hello"),
         backlog' = [backlog EXCEPT ![j] = Append(@, i)],
         UNCHANGED <<edges, serving, links, failed>>
  PROVE  Inv'
<1> USE DEF Inv
<1>1. /\ j \in Nodes /\ i < j /\ <<i, j>> \in Pairs
      /\ conn[<<i, j>>] = "none" /\ conn' = [conn EXCEPT ![<<i, j>>] = "hello"]
  BY DEF Higher, Neighbours, Advance, Pairs, Nodes
<1>2. /\ \A p \in Pairs : conn'[p] = IF p = <<i, j>> THEN "hello" ELSE conn[p]
      /\ \A n \in Nodes : n # j => backlog'[n] = backlog[n]
      /\ backlog'[j] = Append(backlog[j], i)
      /\ backlog[j] \in Seq(Nodes)
  BY <1>1 DEF Typed
<1>3. Typed'
  BY <1>1 DEF Typed, Stages
<1>4. DialedUpwards'
  BY <1>2, SameNeighbours DEF DialedUpwards
<1>5. LinksMatch'
  BY <1>1, <1>2 DEF LinksMatch
<1>6. OneDial'
  <2>1. \A n : Target(n)' = Target(n)
    BY Zenon, SameNeighbours DEF Target
  <2> QED
    BY <1>1, <1>2, <2>1 DEF OneDial, Running
<1>7. ServingMatches'
  BY <1>1, <1>2 DEF ServingMatches
<1>8. HelloQueued'
  <2> SUFFICES ASSUME NEW p \in Pairs, conn'[p] = "hello"
               PROVE  \E k \in 1..Len(backlog'[p[2]]) : backlog'[p[2]][k] = p[1]
    BY DEF HelloQueued
  <2>1. CASE p = <<i, j>>
    BY <1>2, <2>1
  <2>2. CASE p # <<i, j>>
    <3>1. PICK k \in 1..Len(backlog[p[2]]) : backlog[p[2]][k] = p[1]
      BY <1>2, <2>2 DEF HelloQueued
    <3>2. p[2] \in Nodes
      BY DEF Pairs
    <3>3. k \in 1..Len(backlog'[p[2]]) /\ backlog'[p[2]][k] = p[1]
      BY <1>2, <3>1, <3>2
    <3> QED
      BY <3>3
  <2> QED
    BY <2>1, <2>2
<1>9. \A k \in 1..Len(backlog[j]) : backlog[j][k] # i
  BY <1>1 DEF BacklogWaits
<1>10. BacklogWaits'
  <2> SUFFICES ASSUME NEW n \in Nodes, NEW k \in 1..Len(backlog'[n])
               PROVE  /\ <<backlog'[n][k], n>> \in Pairs
                      /\ conn'[<<backlog'[n][k], n>>] \in {"hello", "closed"}
    BY DEF BacklogWaits
  <2>1. CASE n # j
    <3>1. /\ k \in 1..Len(backlog[n]) /\ backlog'[n][k] = backlog[n][k]
      BY <1>2, <2>1
    <3> QED
      BY <1>2, <3>1 DEF BacklogWaits
  <2>2. CASE n = j /\ k \in 1..Len(backlog[j])
    <3>1. backlog'[n][k] = backlog[n][k]
      BY <1>2, <2>2
    <3> QED
      BY <1>2, <2>2, <3>1 DEF BacklogWaits
  <2>3. CASE n = j /\ k \notin 1..Len(backlog[j])
    <3>1. backlog'[n][k] = i
      BY <1>2, <2>3
    <3> QED
      BY Zenon, <1>1, <1>2, <2>3, <3>1
  <2> QED
    BY <2>1, <2>2, <2>3
<1>11. BacklogDistinct'
  <2> SUFFICES ASSUME NEW n \in Nodes, NEW k \in 1..Len(backlog'[n]),
                      NEW l \in 1..Len(backlog'[n]), backlog'[n][k] = backlog'[n][l]
               PROVE  k = l
    BY DEF BacklogDistinct
  <2>1. CASE n # j
    BY <1>2, <2>1 DEF BacklogDistinct
  <2>2. CASE n = j
    BY <1>2, <1>9, <2>2 DEF BacklogDistinct
  <2> QED
    BY <2>1, <2>2
<1>12. ClosedByFailure'
  BY <1>2 DEF ClosedByFailure
<1> QED
  BY <1>3, <1>4, <1>5, <1>6, <1>7, <1>8, <1>10, <1>11, <1>12

(* What a queue holds once its head is taken. *)
LEMMA TailOf ==
  ASSUME NEW S, NEW s \in Seq(S), s # <<>>
  PROVE  /\ 1 \in 1..Len(s) /\ Head(s) = s[1]
         /\ \A k \in 1..Len(Tail(s)) :
              k + 1 \in 1..Len(s) /\ k + 1 # 1 /\ Tail(s)[k] = s[k + 1]
         /\ \A k \in 1..Len(s) :
              k # 1 => k - 1 \in 1..Len(Tail(s)) /\ Tail(s)[k - 1] = s[k]
<1>1. Len(s) \in Nat /\ Len(s) # 0 /\ Len(Tail(s)) = Len(s) - 1
  OBVIOUS
<1>2. \A k \in 1..(Len(s) - 1) : Tail(s)[k] = s[k + 1]
  OBVIOUS
<1>3. Head(s) = s[1]
  OBVIOUS
<1> DEFINE L == Len(s)
           T == Tail(s)
<1> HIDE DEF L, T
<1>4. L \in Nat /\ L # 0 /\ Len(T) = L - 1 /\ \A k \in 1..(L - 1) : T[k] = s[k + 1]
  BY <1>1, <1>2 DEF L, T
<1>5. \A k \in 1..Len(T) : k + 1 \in 1..L /\ k + 1 # 1 /\ T[k] = s[k + 1]
  BY <1>4
<1>6. \A k \in 1..L : k # 1 => k - 1 \in 1..Len(T) /\ T[k - 1] = s[k]
  <2> SUFFICES ASSUME NEW k \in 1..L, k # 1
               PROVE  k - 1 \in 1..Len(T) /\ T[k - 1] = s[k]
    OBVIOUS
  <2>1. k - 1 \in 1..(L - 1) /\ (k - 1) + 1 = k
    BY <1>4
  <2>2. T[k - 1] = s[(k - 1) + 1]
    BY <1>4, <2>1
  <2> QED
    BY <1>4, <2>1, <2>2
<1>7. 1 \in 1..L
  BY <1>4
<1> QED
  BY <1>3, <1>5, <1>6, <1>7 DEF L, T

(* Listener j has taken caller i from the head of its backlog. *)
Popped(j, i) ==
  /\ \A n \in Nodes : n # j => backlog'[n] = backlog[n]
  /\ 1 \in 1..Len(backlog[j]) /\ i = backlog[j][1]
  /\ \A k \in 1..Len(backlog'[j]) :
       /\ k + 1 \in 1..Len(backlog[j]) /\ k + 1 # 1
       /\ backlog'[j][k] = backlog[j][k + 1]
  /\ \A k \in 1..Len(backlog[j]) : k # 1 =>
       k - 1 \in 1..Len(backlog'[j]) /\ backlog'[j][k - 1] = backlog[j][k]

(* accept takes the head and leaves the rest in order. *)
LEMMA HeadPopped ==
  ASSUME Typed, NEW j \in Nodes, backlog[j] # <<>>,
         backlog' = [backlog EXCEPT ![j] = Tail(@)]
  PROVE  Popped(j, Head(backlog[j]))
<1>1. /\ backlog[j] \in Seq(Nodes) /\ backlog'[j] = Tail(backlog[j])
      /\ \A n \in Nodes : n # j => backlog'[n] = backlog[n]
  BY DEF Typed
<1> DEFINE s == backlog[j]
           t == Tail(s)
<1>2. /\ 1 \in 1..Len(s) /\ Head(s) = s[1]
      /\ \A k \in 1..Len(t) : k + 1 \in 1..Len(s) /\ k + 1 # 1 /\ t[k] = s[k + 1]
      /\ \A k \in 1..Len(s) : k # 1 => k - 1 \in 1..Len(t) /\ t[k - 1] = s[k]
  BY <1>1, TailOf, Zenon
<1>3. backlog'[j] = t
  BY <1>1
<1> HIDE DEF t
<1> QED
  BY <1>1, <1>2, <1>3, Zenon DEF Popped

(* Accepting the head of a backlog leaves the other callers where they     *)
(* are, as long as it closes or accepts nobody else.                       *)
LEMMA BacklogPopped ==
  ASSUME HelloQueued, BacklogWaits, BacklogDistinct, NEW j \in Nodes, NEW i, Popped(j, i),
         conn'[<<i, j>>] # "hello",
         \A p \in Pairs : p # <<i, j>> =>
           /\ conn'[p] = "hello" => conn[p] = "hello"
           /\ conn[p] \in {"hello", "closed"} => conn'[p] \in {"hello", "closed"}
  PROVE  HelloQueued' /\ BacklogWaits' /\ BacklogDistinct'
<1>1. HelloQueued'
  <2> SUFFICES ASSUME NEW p \in Pairs, conn'[p] = "hello"
               PROVE  \E k \in 1..Len(backlog'[p[2]]) : backlog'[p[2]][k] = p[1]
    BY DEF HelloQueued
  <2>1. p # <<i, j>> /\ conn[p] = "hello"
    OBVIOUS
  <2>2. p[2] \in Nodes /\ p = <<p[1], p[2]>>
    BY DEF Pairs
  <2>3. PICK k \in 1..Len(backlog[p[2]]) : backlog[p[2]][k] = p[1]
    BY <2>1 DEF HelloQueued
  <2>4. CASE p[2] # j
    BY <2>2, <2>3, <2>4 DEF Popped
  <2>5. CASE p[2] = j
    <3>1. k # 1
      BY <2>1, <2>2, <2>3, <2>5 DEF Popped
    <3> QED
      BY <2>3, <2>5, <3>1 DEF Popped
  <2> QED
    BY <2>4, <2>5
<1>2. BacklogWaits'
  <2> SUFFICES ASSUME NEW n \in Nodes, NEW k \in 1..Len(backlog'[n])
               PROVE  /\ <<backlog'[n][k], n>> \in Pairs
                      /\ conn'[<<backlog'[n][k], n>>] \in {"hello", "closed"}
    BY Zenon DEF BacklogWaits
  <2>1. CASE n # j
    <3>1. k \in 1..Len(backlog[n]) /\ backlog'[n][k] = backlog[n][k]
      BY <2>1 DEF Popped
    <3> QED
      BY <2>1, <3>1 DEF BacklogWaits
  <2>2. CASE n = j
    <3>1. k + 1 \in 1..Len(backlog[j]) /\ k + 1 # 1 /\ backlog'[n][k] = backlog[j][k + 1]
      BY <2>2 DEF Popped
    <3>2. backlog[j][k + 1] # i
      BY <3>1 DEF BacklogDistinct, Popped
    <3>3. /\ <<backlog[j][k + 1], j>> \in Pairs
          /\ conn[<<backlog[j][k + 1], j>>] \in {"hello", "closed"}
      BY <3>1 DEF BacklogWaits
    <3> QED
      BY <2>2, <3>1, <3>2, <3>3
  <2> QED
    BY <2>1, <2>2
<1>3. BacklogDistinct'
  <2> SUFFICES ASSUME NEW n \in Nodes, NEW k \in 1..Len(backlog'[n]),
                      NEW l \in 1..Len(backlog'[n]), backlog'[n][k] = backlog'[n][l]
               PROVE  k = l
    BY DEF BacklogDistinct
  <2>1. CASE n # j
    BY <2>1 DEF BacklogDistinct, Popped
  <2>2. CASE n = j
    <3>1. /\ k + 1 \in 1..Len(backlog[j]) /\ l + 1 \in 1..Len(backlog[j])
          /\ backlog[j][k + 1] = backlog[j][l + 1]
      BY <2>2 DEF Popped
    <3>2. k + 1 = l + 1
      BY <3>1 DEF BacklogDistinct
    <3>3. k \in Int /\ l \in Int
      OBVIOUS
    <3> QED
      BY <3>2, <3>3
  <2> QED
    BY <2>1, <2>2
<1> QED
  BY <1>1, <1>2, <1>3

-----------------------------------------------------------------------------
(* accept takes the head of the backlog into the handshake. *)
LEMMA AcceptStep ==
  ASSUME Inv, NEW j \in Nodes, Accept(j)
  PROVE  Inv'
<1> DEFINE i == Head(backlog[j])
<1>1. /\ backlog[j] # <<>> /\ serving[j] = None
      /\ conn[<<i, j>>] = "hello" /\ conn' = [conn EXCEPT ![<<i, j>>] = "response"]
      /\ serving' = [serving EXCEPT ![j] = i]
      /\ backlog' = [backlog EXCEPT ![j] = Tail(@)]
      /\ UNCHANGED <<edges, links, failed>>
  BY DEF Accept, Advance
<1>2. Popped(j, i)
  BY Zenon, <1>1, HeadPopped DEF Inv
<1> HIDE DEF i
<1>3. <<i, j>> \in Pairs /\ i \in Nodes /\ i # j
  BY <1>2 DEF Inv, BacklogWaits, Pairs, Popped
<1>4. /\ \A p \in Pairs : conn'[p] = IF p = <<i, j>> THEN "response" ELSE conn[p]
      /\ \A n \in Nodes : n # j => serving'[n] = serving[n]
      /\ serving'[j] = i
  BY <1>1, <1>3 DEF Inv, Typed
<1>5. conn[<<i, j>>] = "hello" /\ links' = links /\ edges' = edges /\ failed' = failed
  BY <1>1
<1>6. Typed'
  <2>1. Tail(backlog[j]) \in Seq(Nodes)
    BY <1>1 DEF Inv, Typed
  <2> QED
    BY <1>1, <1>3, <2>1 DEF Inv, Typed, Stages
<1>7. DialedUpwards'
  BY <1>4, <1>5, SameNeighbours DEF Inv, DialedUpwards
<1>8. LinksMatch'
  BY <1>4, <1>5 DEF Inv, LinksMatch
<1>9. OneDial'
  <2>1. \A n : Target(n)' = Target(n)
    BY <1>5, SameNeighbours DEF Target
  <2> QED
    BY <1>4, <1>5, <2>1 DEF Inv, OneDial, Running
<1>10. ServingMatches'
  <2> SUFFICES ASSUME NEW p \in Pairs
               PROVE  serving'[p[2]] = p[1] <=> conn'[p] \in {"response", "attest"}
    BY DEF ServingMatches
  <2>1. p[1] \in Nodes /\ p[2] \in Nodes /\ p = <<p[1], p[2]>>
    BY DEF Pairs
  <2>2. CASE p[2] # j
    BY <1>3, <1>4, <2>1, <2>2 DEF Inv, ServingMatches
  <2>3. CASE p[2] = j
    <3>1. conn[p] \notin {"response", "attest"}
      BY <1>1, <2>1, <2>3, MeshAssumption DEF Inv, ServingMatches
    <3> QED
      BY <1>3, <1>4, <2>1, <2>3, <3>1
  <2> QED
    BY <2>2, <2>3
<1>11. HelloQueued' /\ BacklogWaits' /\ BacklogDistinct'
  BY <1>2, <1>3, <1>4, BacklogPopped DEF Inv
<1>12. ClosedByFailure'
  BY <1>4, <1>5 DEF Inv, ClosedByFailure
<1> QED
  BY <1>6, <1>7, <1>8, <1>9, <1>10, <1>11, <1>12 DEF Inv

(* The initiator answers the response with its attestation. *)
LEMMA AttestStep ==
  ASSUME Inv, NEW i \in Nodes, Attest(i)
  PROVE  Inv'
<1> DEFINE j == Target(i)
<1>1. Dialing(i) /\ Advance(i, j, "response", "attest")
      /\ UNCHANGED <<edges, backlog, serving, links, failed>>
  BY DEF Attest
<1>2. j \in Nodes /\ j > i /\ <<i, j>> \in Pairs
  BY <1>1, TargetIsNext, MeshAssumption DEF Pairs, Nodes
<1>3. /\ conn[<<i, j>>] = "response" /\ conn' = [conn EXCEPT ![<<i, j>>] = "attest"]
      /\ \A p \in Pairs : conn'[p] = IF p = <<i, j>> THEN "attest" ELSE conn[p]
  BY <1>1, <1>2 DEF Inv, Typed, Advance
<1>4. \A n : Target(n)' = Target(n)
  BY <1>1, SameNeighbours DEF Target
<1> HIDE DEF j
<1>5. Typed'
  BY <1>1, <1>2, <1>3 DEF Inv, Typed, Stages
<1>6. DialedUpwards'
  BY <1>1, <1>3, SameNeighbours DEF Inv, DialedUpwards
<1>7. LinksMatch'
  BY <1>1, <1>3 DEF Inv, LinksMatch
<1>8. OneDial'
  BY <1>1, <1>2, <1>3, <1>4 DEF Inv, OneDial, Running
<1>9. ServingMatches'
  BY <1>1, <1>2, <1>3 DEF Inv, ServingMatches
<1>10. HelloQueued'
  BY <1>1, <1>3 DEF Inv, HelloQueued
<1>11. BacklogWaits' /\ BacklogDistinct'
  BY <1>1, <1>3 DEF Inv, BacklogWaits, BacklogDistinct
<1>12. ClosedByFailure'
  BY <1>1, <1>3 DEF Inv, ClosedByFailure
<1> QED
  BY <1>5, <1>6, <1>7, <1>8, <1>9, <1>10, <1>11, <1>12 DEF Inv

(* The responder has its link and is ready for the next caller. *)
LEMMA AdmitStep ==
  ASSUME Inv, NEW j \in Nodes, Admit(j)
  PROVE  Inv'
<1> DEFINE i == serving[j]
<1>1. /\ i # None /\ conn[<<i, j>>] = "attest" /\ conn' = [conn EXCEPT ![<<i, j>>] = "linked"]
      /\ links' = [links EXCEPT ![j] = @ \union {i}]
      /\ serving' = [serving EXCEPT ![j] = None]
      /\ edges' = edges /\ backlog' = backlog /\ failed' = failed
  BY DEF Admit, Advance
<1>2. i \in Nodes /\ i # j /\ <<i, j>> \in Pairs
  BY <1>1 DEF Inv, Typed, Pairs
<1>3. i < j
  BY <1>1, <1>2 DEF Inv, DialedUpwards, Higher
<1>4. /\ \A p \in Pairs : conn'[p] = IF p = <<i, j>> THEN "linked" ELSE conn[p]
      /\ \A n \in Nodes : n # j => links'[n] = links[n] /\ serving'[n] = serving[n]
      /\ links'[j] = links[j] \union {i} /\ serving'[j] = None
  BY <1>1, <1>2 DEF Inv, Typed
<1>5. serving[j] = i
  OBVIOUS
<1> HIDE DEF i
<1>6. Typed'
  BY <1>1, <1>2, MeshAssumption DEF Inv, Typed, Stages
<1>7. DialedUpwards'
  BY <1>1, <1>4, SameNeighbours DEF Inv, DialedUpwards
<1>8. LinksMatch'
  <2> SUFFICES ASSUME NEW p \in Pairs, p[1] < p[2]
               PROVE  /\ p[2] \in links'[p[1]] <=> conn'[p] = "done"
                      /\ p[1] \in links'[p[2]] <=> conn'[p] \in {"linked", "done"}
    BY DEF LinksMatch
  <2>1. p[1] \in Nodes /\ p[2] \in Nodes /\ p = <<p[1], p[2]>>
    BY DEF Pairs
  <2>2. /\ p[2] \in links[p[1]] <=> conn[p] = "done"
        /\ p[1] \in links[p[2]] <=> conn[p] \in {"linked", "done"}
    BY DEF Inv, LinksMatch
  <2>3. p[2] \in links'[p[1]] <=> p[2] \in links[p[1]]
    BY <1>2, <1>3, <1>4, <2>1 DEF Nodes
  <2>4. p[1] \in links'[p[2]] <=> p[1] \in links[p[2]] \/ p = <<i, j>>
    BY <1>4, <2>1
  <2> QED
    BY <1>1, <1>4, <2>2, <2>3, <2>4
<1>9. OneDial'
  <2>1. ASSUME NEW n \in Nodes PROVE Target(n)' = Target(n)
    <3>1. Higher(n)' = Higher(n)
      BY <1>1, SameNeighbours
    <3>2. Higher(n) \ links'[n] = Higher(n) \ links[n]
      BY <1>2, <1>3, <1>4 DEF Higher, Nodes
    <3> QED
      BY <3>1, <3>2 DEF Target
  <2> QED
    BY <1>1, <1>4, <2>1 DEF Inv, OneDial, Running, Pairs
<1>10. ServingMatches'
  <2> SUFFICES ASSUME NEW p \in Pairs
               PROVE  serving'[p[2]] = p[1] <=> conn'[p] \in {"response", "attest"}
    BY DEF ServingMatches
  <2>1. p[1] \in Nodes /\ p[2] \in Nodes /\ p = <<p[1], p[2]>>
    BY DEF Pairs
  <2>2. CASE p[2] # j
    BY <1>4, <2>1, <2>2 DEF Inv, ServingMatches
  <2>3. CASE p[2] = j
    <3>1. conn[p] \in {"response", "attest"} => p = <<i, j>>
      BY <1>5, <2>1, <2>3 DEF Inv, ServingMatches
    <3> QED
      BY <1>4, <2>1, <2>3, <3>1, MeshAssumption
  <2> QED
    BY <2>2, <2>3
<1>11. HelloQueued'
  BY <1>1, <1>4 DEF Inv, HelloQueued
<1>12. BacklogWaits' /\ BacklogDistinct'
  BY <1>1, <1>4 DEF Inv, BacklogWaits, BacklogDistinct
<1>13. ClosedByFailure'
  BY <1>1, <1>4 DEF Inv, ClosedByFailure
<1> QED
  BY <1>6, <1>7, <1>8, <1>9, <1>10, <1>11, <1>12, <1>13 DEF Inv

(* The initiator has its link and turns to the next neighbour. *)
LEMMA CompleteStep ==
  ASSUME Inv, NEW i \in Nodes, Complete(i)
  PROVE  Inv'
<1> DEFINE j == Target(i)
<1>1. /\ Dialing(i) /\ links' = [links EXCEPT ![i] = @ \union {j}]
      /\ conn[<<i, j>>] = "linked" /\ conn' = [conn EXCEPT ![<<i, j>>] = "done"]
      /\ edges' = edges /\ backlog' = backlog /\ serving' = serving /\ failed' = failed
  BY DEF Complete, Advance
<1>2. j \in Nodes /\ j > i /\ <<i, j>> \in Pairs
  BY <1>1, TargetIsNext, MeshAssumption DEF Pairs, Nodes
<1>3. Target(i) = j
  OBVIOUS
<1> HIDE DEF j
<1>4. /\ \A p \in Pairs : conn'[p] = IF p = <<i, j>> THEN "done" ELSE conn[p]
      /\ \A n \in Nodes : n # i => links'[n] = links[n]
      /\ links'[i] = links[i] \union {j}
  BY <1>1, <1>2 DEF Inv, Typed
<1>5. Typed'
  BY <1>1, <1>2, MeshAssumption DEF Inv, Typed, Stages, Nodes
<1>6. DialedUpwards'
  BY <1>1, <1>4, SameNeighbours DEF Inv, DialedUpwards
<1>7. LinksMatch'
  <2> SUFFICES ASSUME NEW p \in Pairs, p[1] < p[2]
               PROVE  /\ p[2] \in links'[p[1]] <=> conn'[p] = "done"
                      /\ p[1] \in links'[p[2]] <=> conn'[p] \in {"linked", "done"}
    BY DEF LinksMatch
  <2>1. p[1] \in Nodes /\ p[2] \in Nodes /\ p = <<p[1], p[2]>>
    BY DEF Pairs
  <2>2. /\ p[2] \in links[p[1]] <=> conn[p] = "done"
        /\ p[1] \in links[p[2]] <=> conn[p] \in {"linked", "done"}
    BY DEF Inv, LinksMatch
  <2>3. p[2] \in links'[p[1]] <=> p[2] \in links[p[1]] \/ p = <<i, j>>
    BY <1>4, <2>1
  <2>4. p[1] \in links'[p[2]] <=> p[1] \in links[p[2]]
    BY <1>2, <1>4, <2>1 DEF Nodes
  <2> QED
    BY <1>1, <1>4, <2>2, <2>3, <2>4
<1>8. OneDial'
  <2> SUFFICES ASSUME NEW p \in Pairs, p[1] \notin Mute, Running(p[1])',
                      conn'[p] \in {"hello", "response", "attest", "linked"}
               PROVE  p[2] = Target(p[1])'
    BY DEF OneDial
  <2>1. p[1] \in Nodes /\ p[2] \in Nodes /\ p = <<p[1], p[2]>>
    BY DEF Pairs
  <2>2. p # <<i, j>> /\ p[2] = Target(p[1])
    BY <1>1, <1>4 DEF Inv, OneDial, Running
  <2>3. p[1] # i
    BY <1>3, <2>1, <2>2
  <2>4. Target(p[1])' = Target(p[1])
    BY Zenon, <1>1, <1>4, <2>1, <2>3, SameNeighbours DEF Target
  <2> QED
    BY <2>2, <2>4
<1>9. ServingMatches'
  BY <1>1, <1>2, <1>4 DEF Inv, ServingMatches
<1>10. HelloQueued'
  BY <1>1, <1>4 DEF Inv, HelloQueued
<1>11. BacklogWaits' /\ BacklogDistinct'
  BY <1>1, <1>4 DEF Inv, BacklogWaits, BacklogDistinct
<1>12. ClosedByFailure'
  BY <1>1, <1>4 DEF Inv, ClosedByFailure
<1> QED
  BY <1>5, <1>6, <1>7, <1>8, <1>9, <1>10, <1>11, <1>12 DEF Inv

(* Giving up closes handshakes in the middle and leaves everything else:   *)
(* all that an error in establish_topology changes, the backlog apart.     *)
LEMMA FailStep ==
  ASSUME Inv, NEW n \in Nodes \ Mute, Fail(n), backlog' \in [Nodes -> Seq(Nodes)]
  PROVE  /\ Typed' /\ DialedUpwards' /\ LinksMatch' /\ OneDial'
         /\ ServingMatches' /\ ClosedByFailure'
         /\ \A p \in Pairs :
              /\ conn'[p] = "hello" => conn[p] = "hello"
              /\ conn[p] \in {"hello", "closed"} => conn'[p] \in {"hello", "closed"}
              /\ conn[p] = "closed" => conn'[p] = "closed"
<1>1. /\ edges' = edges /\ links' = links /\ failed' = failed \union {n}
      /\ conn' = [p \in Pairs |-> IF p \in Held(n) THEN "closed" ELSE conn[p]]
      /\ serving' = [serving EXCEPT ![n] = None]
  BY DEF Fail
<1>2. /\ \A p \in Pairs : conn'[p] = IF p \in Held(n) THEN "closed" ELSE conn[p]
      /\ \A k \in Nodes : k # n => serving'[k] = serving[k]
      /\ serving'[n] = None
  BY <1>1 DEF Inv, Typed
<1>3. \A p \in Pairs : p \in Held(n) =>
        conn[p] \in {"hello", "response", "attest"} /\ (p[2] # n => conn[p] = "hello")
  BY DEF Inv, ServingMatches, Held
<1>4. Typed'
  <2>1. conn' \in [Pairs -> Stages]
    BY <1>1 DEF Inv, Typed, Stages
  <2> QED
    BY <1>1, <2>1, MeshAssumption DEF Inv, Typed
<1>5. DialedUpwards'
  BY <1>1, <1>2, <1>3, SameNeighbours DEF Inv, DialedUpwards
<1>6. LinksMatch'
  BY <1>1, <1>2, <1>3 DEF Inv, LinksMatch
<1>7. OneDial'
  <2>1. \A k : Target(k)' = Target(k)
    BY Zenon, <1>1, SameNeighbours DEF Target
  <2> QED
    BY <1>1, <1>2, <2>1 DEF Inv, OneDial, Running
<1>8. ServingMatches'
  <2> SUFFICES ASSUME NEW p \in Pairs
               PROVE  serving'[p[2]] = p[1] <=> conn'[p] \in {"response", "attest"}
    BY DEF ServingMatches
  <2>1. /\ p[1] \in Nodes /\ p[2] \in Nodes
        /\ serving[p[2]] = p[1] <=> conn[p] \in {"response", "attest"}
    BY Zenon DEF Pairs, Inv, ServingMatches
  <2>2. CASE p[2] # n
    BY Zenon, <1>2, <1>3, <2>1, <2>2
  <2>3. CASE p[2] = n
    <3>1. conn[p] \in {"response", "attest"} => p \in Held(n)
      BY <2>1, <2>3 DEF Held
    <3> QED
      BY <1>2, <2>1, <2>3, <3>1, MeshAssumption
  <2> QED
    BY <2>2, <2>3
<1>9. ClosedByFailure'
  BY <1>1 DEF ClosedByFailure
<1>10. \A p \in Pairs :
         /\ conn'[p] = "hello" => conn[p] = "hello"
         /\ conn[p] \in {"hello", "closed"} => conn'[p] \in {"hello", "closed"}
         /\ conn[p] = "closed" => conn'[p] = "closed"
  BY <1>2
<1> QED
  BY <1>4, <1>5, <1>6, <1>7, <1>8, <1>9, <1>10

(* An error with the backlog as it was: a closed stream or a timeout. *)
LEMMA FailAloneStep ==
  ASSUME Inv, NEW n \in Nodes \ Mute, Fail(n), UNCHANGED backlog
  PROVE  Inv'
<1>1. backlog' \in [Nodes -> Seq(Nodes)]
  BY DEF Inv, Typed
<1>2. /\ Typed' /\ DialedUpwards' /\ LinksMatch' /\ OneDial'
      /\ ServingMatches' /\ ClosedByFailure'
      /\ \A p \in Pairs :
           /\ conn'[p] = "hello" => conn[p] = "hello"
           /\ conn[p] \in {"hello", "closed"} => conn'[p] \in {"hello", "closed"}
  BY <1>1, FailStep
<1>3. HelloQueued'
  BY <1>2 DEF Inv, HelloQueued
<1>4. BacklogWaits' /\ BacklogDistinct'
  BY <1>2 DEF Inv, BacklogWaits, BacklogDistinct
<1> QED
  BY <1>2, <1>3, <1>4 DEF Inv

(* An accept loop that fails on a caller that has given up. *)
LEMMA AcceptClosedStep ==
  ASSUME Inv, NEW j \in Nodes \ Mute, AcceptClosed(j)
  PROVE  Inv'
<1> DEFINE i == Head(backlog[j])
<1>1. /\ backlog[j] # <<>> /\ conn[<<i, j>>] = "closed" /\ Fail(j)
      /\ backlog' = [backlog EXCEPT ![j] = Tail(@)]
  BY DEF AcceptClosed
<1>2. Popped(j, i)
  BY Zenon, <1>1, HeadPopped DEF Inv
<1>3. backlog' \in [Nodes -> Seq(Nodes)]
  <2>1. Tail(backlog[j]) \in Seq(Nodes)
    BY <1>1 DEF Inv, Typed
  <2> QED
    BY <1>1, <2>1 DEF Inv, Typed
<1> HIDE DEF i
<1>4. <<i, j>> \in Pairs
  BY Zenon, <1>2 DEF Inv, BacklogWaits, Popped
<1>5. /\ Typed' /\ DialedUpwards' /\ LinksMatch' /\ OneDial'
      /\ ServingMatches' /\ ClosedByFailure'
      /\ \A p \in Pairs :
           /\ conn'[p] = "hello" => conn[p] = "hello"
           /\ conn[p] \in {"hello", "closed"} => conn'[p] \in {"hello", "closed"}
           /\ conn[p] = "closed" => conn'[p] = "closed"
  BY <1>1, <1>3, FailStep
<1>6. conn'[<<i, j>>] # "hello"
  BY <1>1, <1>4, <1>5
<1>7. HelloQueued' /\ BacklogWaits' /\ BacklogDistinct'
  BY <1>2, <1>5, <1>6, BacklogPopped DEF Inv
<1> QED
  BY <1>5, <1>7 DEF Inv

-----------------------------------------------------------------------------
(* The state of every edge of the topology fixes what its two ends hold,   *)
(* through every step of establish_topology.                               *)
THEOREM InvHolds == Spec => []Inv
<1>1. Inv /\ [Next]_vars => Inv'
  <2> SUFFICES ASSUME Inv, [Next]_vars PROVE Inv'
    OBVIOUS
  <2>1. ASSUME NEW n \in Nodes \ Mute, Connect(n) PROVE Inv'
    <3>1. Target(n) \in Higher(n)
      BY <2>1, TargetIsNext DEF Connect
    <3> QED
      BY Zenon, <2>1, <3>1, DialStep DEF Connect
  <2>2. ASSUME NEW n \in Mute, ConnectMute(n) PROVE Inv'
    <3>1. n \in Nodes
      BY MeshAssumption
    <3>2. PICK j \in Higher(n) : /\ Advance(n, j, "none", "hello")
                                 /\ backlog' = [backlog EXCEPT ![j] = Append(@, n)]
      BY Zenon, <2>2 DEF ConnectMute
    <3>3. UNCHANGED <<edges, serving, links, failed>>
      BY <2>2 DEF ConnectMute
    <3> QED
      BY Zenon, <2>2, <3>1, <3>2, <3>3, DialStep
  <2>3. ASSUME NEW n \in Nodes \ Mute, Accept(n) \/ Attest(n) \/ Admit(n) \/ Complete(n)
        PROVE  Inv'
    BY <2>3, AcceptStep, AttestStep, AdmitStep, CompleteStep
  <2>4. ASSUME NEW n \in Nodes \ Mute, DialClosed(n) \/ TimesOut(n) PROVE Inv'
    BY <2>4, FailAloneStep DEF DialClosed, TimesOut
  <2>5. ASSUME NEW n \in Nodes \ Mute, AcceptClosed(n) PROVE Inv'
    BY <2>5, AcceptClosedStep
  <2>6. CASE UNCHANGED vars
    <3>1. Typed' /\ DialedUpwards' /\ LinksMatch'
      BY <2>6, SameNeighbours DEF vars, Inv, Typed, DialedUpwards, LinksMatch
    <3>2. OneDial' /\ ServingMatches'
      BY <2>6, SameNeighbours DEF vars, Inv, OneDial, ServingMatches, Running, Target
    <3>3. HelloQueued' /\ BacklogWaits' /\ BacklogDistinct' /\ ClosedByFailure'
      BY <2>6 DEF vars, Inv, HelloQueued, BacklogWaits, BacklogDistinct, ClosedByFailure
    <3> QED
      BY <3>1, <3>2, <3>3 DEF Inv
  <2> QED
    BY <2>1, <2>2, <2>3, <2>4, <2>5, <2>6 DEF Next, Progress
<1> QED
  BY InitInv, <1>1, PTL DEF Spec

(* Links, callers and served connections stay among neighbours. *)
THEOREM TypeCorrect == Spec => []TypeOK
<1>1. Inv => TypeOK
  <2> SUFFICES ASSUME Inv PROVE TypeOK
    OBVIOUS
  <2> SUFFICES ASSUME NEW n \in Nodes
               PROVE  /\ links[n] \subseteq Neighbours(n)
                      /\ Range(backlog[n]) \subseteq Neighbours(n)
                      /\ serving[n] # None =>
                           /\ serving[n] \in Neighbours(n) \ links[n]
                           /\ conn[<<serving[n], n>>] \in {"response", "attest"}
    BY DEF TypeOK, Inv, Typed
  <2>1. ASSUME NEW k \in Nodes, <<k, n>> \in Pairs, conn[<<k, n>>] # "none"
        PROVE  k < n /\ k \in Neighbours(n)
    <3>1. n \in Higher(k)
      BY <2>1 DEF Inv, DialedUpwards
    <3>2. {k, n} = {n, k}
      OBVIOUS
    <3> QED
      BY <2>1, <3>1, <3>2 DEF Higher, Neighbours, Pairs
  <2>2. links[n] \subseteq Neighbours(n)
    <3> SUFFICES ASSUME NEW k \in links[n] PROVE k \in Neighbours(n)
      OBVIOUS
    <3>1. k \in Nodes /\ k # n /\ <<k, n>> \in Pairs /\ <<n, k>> \in Pairs
      BY DEF Inv, Typed, Pairs
    <3>2. CASE k < n
      BY <2>1, <3>1, <3>2 DEF Inv, LinksMatch
    <3>3. CASE n < k
      <4>1. conn[<<n, k>>] = "done"
        BY <3>1, <3>3 DEF Inv, LinksMatch
      <4> QED
        BY <3>1, <4>1 DEF Inv, DialedUpwards, Higher
    <3> QED
      BY <3>1, <3>2, <3>3 DEF Nodes
  <2>3. Range(backlog[n]) \subseteq Neighbours(n)
    <3> SUFFICES ASSUME NEW k \in 1..Len(backlog[n]) PROVE backlog[n][k] \in Neighbours(n)
      BY DEF Range, Inv, Typed
    <3>1. /\ <<backlog[n][k], n>> \in Pairs
          /\ conn[<<backlog[n][k], n>>] \in {"hello", "closed"}
      BY DEF Inv, BacklogWaits
    <3>2. backlog[n][k] \in Nodes
      BY <3>1 DEF Pairs
    <3> QED
      BY <2>1, <3>1, <3>2
  <2>4. ASSUME serving[n] # None
        PROVE  /\ serving[n] \in Neighbours(n) \ links[n]
               /\ conn[<<serving[n], n>>] \in {"response", "attest"}
    <3>1. serving[n] \in Nodes /\ <<serving[n], n>> \in Pairs
      BY <2>4 DEF Inv, Typed, Pairs
    <3>2. conn[<<serving[n], n>>] \in {"response", "attest"}
      BY <3>1 DEF Inv, ServingMatches
    <3>3. serving[n] < n /\ serving[n] \in Neighbours(n)
      BY <2>1, <3>1, <3>2
    <3>4. serving[n] \notin links[n]
      BY <3>1, <3>2, <3>3 DEF Inv, LinksMatch
    <3> QED
      BY <3>2, <3>3, <3>4
  <2> QED
    BY <2>2, <2>3, <2>4
<1> QED
  BY InvHolds, <1>1, PTL

-----------------------------------------------------------------------------
(* A node with a connection on its way is still dialing. *)
LEMMA CallerDials ==
  ASSUME Inv, NEW i \in Nodes \ Mute, NEW j \in Nodes, <<i, j>> \in Pairs, Running(i),
         conn[<<i, j>>] \in {"hello", "response", "attest", "linked"}
  PROVE  Dialing(i) /\ j = Target(i) /\ i < j
<1>1. j \in Higher(i) /\ i < j
  BY DEF Inv, DialedUpwards, Higher
<1>2. j \notin links[i]
  BY <1>1 DEF Inv, LinksMatch
<1>3. j = Target(i)
  BY DEF Inv, OneDial
<1> QED
  BY <1>1, <1>2, <1>3 DEF Dialing

(* The node that a dialer turns to is higher, and the link is not there yet. *)
LEMMA DialerFacts ==
  ASSUME Inv, NEW i \in Nodes, Dialing(i)
  PROVE  /\ Target(i) \in Nodes /\ i < Target(i) /\ <<i, Target(i)>> \in Pairs
         /\ i \in Lower(Target(i)) /\ ~Accepting(i)
         /\ conn[<<i, Target(i)>>] \in Stages \ {"done"}
<1> DEFINE j == Target(i)
<1>1. j \in Higher(i) \ links[i] /\ j \in Nodes /\ i < j
  BY TargetIsNext DEF Nodes
<1> HIDE DEF j
<1>2. <<i, j>> \in Pairs
  BY <1>1 DEF Pairs, Nodes
<1>3. {i, j} = {j, i}
  OBVIOUS
<1>4. i \in Lower(j)
  BY <1>1, <1>2, <1>3 DEF Higher, Lower, Neighbours, Pairs
<1>5. conn[<<i, j>>] \in Stages /\ conn[<<i, j>>] # "done"
  BY <1>1, <1>2 DEF Inv, Typed, LinksMatch
<1>6. ~Accepting(i)
  BY DEF Dialing, Accepting
<1> QED
  BY <1>1, <1>2, <1>4, <1>5, <1>6 DEF j

(* The caller that an accept loop serves is lower, in the handshake. *)
LEMMA ServedFacts ==
  ASSUME Inv, NEW j \in Nodes, serving[j] # None
  PROVE  /\ serving[j] \in Nodes /\ <<serving[j], j>> \in Pairs /\ serving[j] < j
         /\ conn[<<serving[j], j>>] \in {"response", "attest"}
<1>1. serving[j] \in Nodes /\ <<serving[j], j>> \in Pairs
  BY DEF Inv, Typed, Pairs
<1>2. conn[<<serving[j], j>>] \in {"response", "attest"}
  BY <1>1 DEF Inv, ServingMatches
<1> QED
  BY <1>1, <1>2 DEF Inv, DialedUpwards, Higher

(* The claim of establish_topology's comment, for every number of nodes    *)
(* and every topology: nobody waits in a ring, also when peers stay        *)
(* silent, reads time out and nodes give up.                               *)
THEOREM NoRingOfWaits == Spec => []AcyclicWaits
<1>1. Inv => AcyclicWaits
  <2> SUFFICES ASSUME Inv, NEW S \in SUBSET Nodes, S # {},
                      \A p \in S : \E q \in S : WaitsFor(p, q)
               PROVE  FALSE
    BY DEF AcyclicWaits, Waiting
  <2> DEFINE D == {p \in S : Dialing(p)}
  <2>1. CASE D = {}
    <3>1. PICK m \in S : \A q \in S : m <= q
      BY Zenon, LeastIndex
    <3>2. PICK q \in S : WaitsFor(m, q)
      OBVIOUS
    <3>3. ~Dialing(m) /\ m \in Nodes /\ q \in Nodes
      BY <2>1
    <3>4. q < m
      <4>1. CASE q = serving[m]
        <5>1. serving[m] # None
          BY <3>3, <4>1, MeshAssumption
        <5>2. serving[m] < m
          BY Zenon, <3>3, <5>1, ServedFacts
        <5> QED
          BY <4>1, <5>2
      <4>2. CASE q \in Lower(m)
        BY <4>2 DEF Lower
      <4> QED
        BY <3>2, <3>3, <4>1, <4>2 DEF WaitsFor
    <3> QED
      BY <3>1, <3>3, <3>4 DEF Nodes
  <2>2. CASE D # {}
    <3>1. PICK p \in D : \A q \in D : q <= p
      BY Zenon, <2>2, GreatestIndex
    <3>2. PICK q \in S : WaitsFor(p, q)
      BY <3>1
    <3>3. p \in Nodes \ Mute /\ Dialing(p) /\ q \in Nodes
      BY <3>1, <3>2 DEF WaitsFor
    <3>4. /\ q = Target(p) /\ conn[<<p, q>>] \in {"hello", "attest"}
          /\ p < q /\ <<p, q>> \in Pairs
      BY Zenon, <3>2, <3>3, DialerFacts DEF WaitsFor
    <3>5. ~Dialing(q)
      BY <3>1, <3>3, <3>4 DEF Nodes
    <3>6. PICK r \in S : WaitsFor(q, r)
      OBVIOUS
    <3>7. \/ r = serving[q] /\ conn[<<r, q>>] = "response"
          \/ serving[q] = None /\ backlog[q] = <<>>
      BY <3>5, <3>6 DEF WaitsFor
    <3>8. conn[<<p, q>>] = "hello"
      <4>1. conn[<<p, q>>] = "attest" => serving[q] = p
        BY <3>4 DEF Inv, ServingMatches
      <4> QED
        BY <3>3, <3>4, <3>7, <4>1, MeshAssumption
    <3>9. backlog[q] # <<>>
      <4>1. PICK k \in 1..Len(backlog[q]) : backlog[q][k] = p
        BY <3>4, <3>8 DEF Inv, HelloQueued
      <4> QED
        BY <4>1
    <3>10. r = serving[q] /\ conn[<<r, q>>] = "response"
      BY <3>7, <3>9
    <3>11. r \in Nodes /\ <<r, q>> \in Pairs
      BY <3>3, <3>10, ServedFacts, MeshAssumption
    <3>12. PICK x \in S : WaitsFor(r, x)
      OBVIOUS
    <3>13. r \notin Mute /\ Running(r)
      BY <3>12 DEF WaitsFor, Dialing, Accepting
    <3>14. Dialing(r) /\ q = Target(r)
      BY <3>3, <3>10, <3>11, <3>13, CallerDials
    <3>15. ~Accepting(r)
      BY <3>11, <3>14, DialerFacts
    <3> QED
      BY <3>10, <3>12, <3>14, <3>15 DEF WaitsFor
  <2> QED
    BY <2>1, <2>2
<1> QED
  BY InvHolds, <1>1, PTL

(* Dialing upwards and accepting downwards never deadlocks: while nobody   *)
(* has given up, someone can take the next step of establish_topology or   *)
(* everyone has its mesh, for every number of nodes and every topology.    *)
THEOREM DeadlockFree == Spec => []NeverStuck
<1>1. Inv => NeverStuck
  <2> SUFFICES ASSUME Inv, failed = {}, Responsive, ~(\E n \in Nodes : CanMove(n))
               PROVE  \A n \in Nodes : Up(n)
    BY DEF NeverStuck
  <2>1. \A n \in Nodes : Running(n)
    BY DEF Running
  <2>2. \A n \in Nodes : ~Dialing(n)
    <3> DEFINE D == {n \in Nodes : Dialing(n)}
    <3> SUFFICES ASSUME D # {} PROVE FALSE
      OBVIOUS
    <3>1. PICK i \in D : \A n \in D : n <= i
      BY Zenon, GreatestIndex
    <3> DEFINE j == Target(i)
    <3>2. /\ i \in Nodes /\ j \in Nodes /\ i < j /\ <<i, j>> \in Pairs /\ i \in Lower(j)
          /\ conn[<<i, j>>] \in Stages \ {"done"}
      BY <3>1, DialerFacts
    <3>3. conn[<<i, j>>] \in {"hello", "attest"}
      BY <3>1, <3>2 DEF CanMove, Stages
    <3> HIDE DEF j
    <3>4. ~Dialing(j)
      BY <3>1, <3>2 DEF Nodes
    <3>5. CASE serving[j] # None
      <4> DEFINE k == serving[j]
      <4>1. k \in Nodes /\ <<k, j>> \in Pairs /\ conn[<<k, j>>] \in {"response", "attest"}
        BY <3>2, <3>5, ServedFacts
      <4>2. conn[<<k, j>>] # "attest"
        BY <2>1, <3>2, <3>5 DEF CanMove
      <4> HIDE DEF k
      <4>3. Dialing(k) /\ j = Target(k)
        <5>1. j \in Neighbours(k)
          BY <3>2, <4>1 DEF Inv, DialedUpwards, Higher
        <5>2. k \notin Mute
          BY <5>1 DEF Responsive
        <5> QED
          BY <2>1, <3>2, <4>1, <5>2, CallerDials
      <4> QED
        BY <4>1, <4>2, <4>3 DEF CanMove
    <3>6. CASE serving[j] = None
      <4>1. conn[<<i, j>>] = "hello"
        BY <3>2, <3>3, <3>6, MeshAssumption DEF Inv, ServingMatches
      <4>2. i \notin links[j]
        BY <3>2, <4>1 DEF Inv, LinksMatch
      <4>3. Accepting(j)
        BY <2>1, <3>2, <3>4, <4>2 DEF Dialing, Accepting
      <4>4. backlog[j] \in Seq(Nodes) /\ backlog[j] # <<>>
        <5>1. PICK k \in 1..Len(backlog[j]) : backlog[j][k] = i
          BY <3>2, <4>1 DEF Inv, HelloQueued
        <5> QED
          BY <3>2, <5>1 DEF Inv, Typed
      <4>5. 1 \in 1..Len(backlog[j]) /\ Head(backlog[j]) = backlog[j][1]
        BY <4>4, TailOf
      <4>6. conn[<<Head(backlog[j]), j>>] \in {"hello", "closed"}
        BY <3>2, <4>5 DEF Inv, BacklogWaits
      <4> QED
        BY <3>2, <3>6, <4>3, <4>4, <4>6, Zenon DEF CanMove
    <3> QED
      BY <3>5, <3>6
  <2>3. \A n \in Nodes : Higher(n) \subseteq links[n]
    BY <2>1, <2>2 DEF Dialing
  <2>4. ASSUME NEW n \in Nodes, NEW k \in Neighbours(n) PROVE k \in links[n]
    <3>1. k \in Nodes /\ k # n /\ {n, k} \in edges /\ {n, k} = {k, n}
      BY DEF Neighbours
    <3>2. CASE n < k
      BY <2>3, <3>2 DEF Higher
    <3>3. CASE k < n
      <4>1. n \in Higher(k) /\ <<k, n>> \in Pairs
        BY <3>1, <3>3 DEF Higher, Neighbours, Pairs
      <4>2. conn[<<k, n>>] = "done"
        BY <2>3, <3>1, <3>3, <4>1 DEF Inv, LinksMatch
      <4> QED
        BY <3>3, <4>1, <4>2 DEF Inv, LinksMatch
    <3> QED
      BY <3>1, <3>2, <3>3 DEF Nodes
  <2> QED
    BY <2>1, <2>4 DEF Up
<1> QED
  BY InvHolds, <1>1, PTL
=============================================================================
