------------------------------- MODULE Gossip -------------------------------
(***************************************************************************)
(* What carries a vote to everybody: run_to_height, the dedup-flood with   *)
(* its bounded cache, the links with their bounded buffers (net.rs), and   *)
(* the node's buffer for messages of later heights (node.rs).              *)
(*                                                                         *)
(* A height stands for its last exchange: a node that enters it broadcasts *)
(* its vote, and decides on the votes of a quorum; module Round says how   *)
(* votes come about.  Frames are whole messages; sealing, framing and      *)
(* signatures are left out, and so is the deadline.  A node that has       *)
(* reached its target keeps its sockets open, but serves them no more.     *)
(***************************************************************************)
EXTENDS Integers, Sequences, FiniteSets, SequencesExt

CONSTANTS
  Nodes,
  Quorum,   \* votes that decide a height
  Room,     \* frames that MAX_LINK_OUTBOUND_BYTES hold
  Settings  \* what a behaviour may start from:
            \*   links     the mesh that was established, pairs of nodes
            \*   down      nodes that are down from the beginning
            \*   target    run_to_height's target_height
            \*   capacity  MAX_SEEN_MESSAGES
            \*   window    frames that the sockets of a link hold

GossipAssumption ==
  /\ IsFiniteSet(Nodes) /\ Quorum \in 1..Cardinality(Nodes) /\ Room \in Nat \ {0}
  /\ \A x \in Settings :
       /\ \A l \in x.links : l \subseteq Nodes /\ Cardinality(l) = 2
       /\ x.down \subseteq Nodes
       /\ {x.target, x.capacity, x.window} \subseteq Nat \ {0}

VARIABLES
  setting,
  node,      \* what each node knows and whether it runs
  link       \* link[i][j]: what i has sent to j

vars == <<setting, node, link>>

-----------------------------------------------------------------------------
(* A node: the height it is at, the votes it holds for it and for later    *)
(* ones, and its seen-cache, oldest first.                                 *)
Vote(i, h) == [voter |-> i, height |-> h]
New        == [state |-> "new", height |-> 0, votes |-> {}, seen |-> <<>>]

Lesser(a, b)   == IF a < b THEN a ELSE b
Oldest(seq, n) == SubSeq(seq, 1, Lesser(n, Len(seq)))
Newest(seq, n) == SubSeq(seq, Len(seq) - Lesser(n, Len(seq)) + 1, Len(seq))

RememberTooFew(seen, ms) == Newest(seen \o ms, setting.capacity - 1)

(* SeenCache::insert *)
Remember(seen, ms) == Newest(seen \o ms, setting.capacity)

(* ingest: a message for a later height waits, one for an earlier is stale. *)
Ingest(s, m) == IF m.height >= s.height THEN s.votes \union {m} ELSE s.votes

(* The height a node at height h is at once it holds these votes, its own  *)
(* included: commit replays what was buffered and may commit again.        *)
Decided(i, votes, h) ==
  Cardinality({v \in votes : v.height = h} \union {Vote(i, h)}) >= Quorum

Reached(i, votes, h) ==
  CHOOSE k \in h..setting.target + 1 :
    /\ \A x \in h..k - 1 : Decided(i, votes, x)
    /\ k > setting.target \/ ~Decided(i, votes, k)

(* Round::start: the node's own votes for the heights it enters.  Votes    *)
(* for heights beyond the target are left out: nobody waits for them.      *)
OwnVotes(i, from, to) ==
  [x \in 1..Lesser(to, setting.target) - from |-> Vote(i, from + x)]

-----------------------------------------------------------------------------
(* A link, in one direction: the frames not yet read, and how many of them *)
(* the sockets hold.                                                       *)
NoFrames == [frames |-> <<>>, flushed |-> 0]

Flush(l) == [l EXCEPT !.flushed = Lesser(Len(l.frames), setting.window)]

(* Link::queue drops a frame when too many wait already. *)
Queue(l, ms) ==
  IF Len(l.frames) - l.flushed >= Room THEN l
  ELSE Flush([l EXCEPT !.frames = Oldest(@ \o ms, setting.window + Room)])

Linked(i, j) == {i, j} \in setting.links

SaidOnceDecided(ms, own, to) == IF to > setting.target THEN own ELSE own \o ms

(* A message is passed on before the node takes it and speaks itself. *)
Said(ms, own, to) == ms \o own

(* Node i holds these votes, moves to the height they decide and says ms   *)
(* and its own votes on all its links, those of the row before.            *)
Settle(i, votes, ms, before) ==
  LET from == node[i].height
      to   == IF from = 0 THEN 1 ELSE Reached(i, votes, from)
      said == Said(ms, OwnVotes(i, from, to), to)
  IN  /\ node' = [node EXCEPT ![i] = [state |-> "running", height |-> to,
                     votes |-> {v \in votes : v.height >= to}, seen |-> Remember(node[i].seen, said)]]
      /\ link' = [before EXCEPT ![i] =
                    [j \in Nodes |-> IF said # <<>> /\ Linked(i, j) THEN Queue(@[j], said) ELSE @[j]]]
      /\ UNCHANGED setting

-----------------------------------------------------------------------------
Init ==
  /\ setting \in Settings
  /\ node = [i \in Nodes |-> [New EXCEPT !.state = IF i \in setting.down THEN "down" ELSE "new"]]
  /\ link = [i \in Nodes |-> [j \in Nodes |-> NoFrames]]

Start(i) == node[i].state = "new" /\ Settle(i, {}, <<>>, link)

(* poll serves one link after another: it flushes what is queued and takes *)
(* what came, here a frame at a time.  run_to_height relays a message it   *)
(* has not seen, then hands it to the node.                                *)
Poll(i, j) ==
  /\ node[i].state = "running" /\ Linked(i, j)
  /\ LET mine == [link EXCEPT ![i][j] = Flush(@)]
         l    == link[j][i]
         m    == Head(l.frames)
         rest == [mine EXCEPT ![j][i] = [frames |-> Tail(l.frames), flushed |-> l.flushed - 1]]
     IN  IF l.flushed = 0 THEN link' = mine /\ UNCHANGED <<setting, node>>
         ELSE IF Contains(node[i].seen, m) THEN link' = rest /\ UNCHANGED <<setting, node>>
         ELSE Settle(i, Ingest(node[i], m), <<m>>, rest)

(* The loop ends as soon as the target is reached. *)
Finish(i) ==
  /\ node[i].state = "running" /\ node[i].height > setting.target
  /\ node' = [node EXCEPT ![i].state = "done"]
  /\ UNCHANGED <<setting, link>>

Next == \E i \in Nodes : Start(i) \/ Finish(i) \/ \E j \in Nodes : Poll(i, j)

(* Somebody who has something to do does it.  The code runs every node and *)
(* polls every link again and again; as floods end, this is enough.        *)
Fairness == WF_vars(Next)

Spec == Init /\ [][Next]_vars /\ Fairness

-----------------------------------------------------------------------------
Up == Nodes \ setting.down

Connected ==
  \A S \in SUBSET Up \ {{}, Up} : \E i \in S, j \in Up \ S : Linked(i, j)

Lossless == setting.window >= Cardinality(Up) * setting.target

(* Everyone who is up reaches the target, over any connected mesh, though  *)
(* others stop relaying as soon as they have reached it themselves: what   *)
(* made a node decide has been passed on before (run_to_height relays      *)
(* before it processes).                                                   *)
EveryoneFinishes ==
  Lossless /\ Connected /\ Cardinality(Up) >= Quorum => <>(\A i \in Up : node[i].state = "done")

(* A flood ends, also among nodes that wait for a quorum that does not     *)
(* come, and whatever the links drop: no message goes round for ever, as   *)
(* long as the cache holds the messages that are under way (SeenCache).    *)
FloodEnds ==
  <>[](\A i, j \in Nodes : node[i].state = "running" => link[j][i].flushed = 0)
=============================================================================
