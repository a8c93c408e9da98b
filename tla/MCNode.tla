------------------------------- MODULE MCNode -------------------------------
(***************************************************************************)
(* What carries a node's rounds and keeps their outcome, for TLC:          *)
(* establishing the mesh, gossip over an established one, and the archive, *)
(* of a node whose process crashes and of one whose file operations also   *)
(* fail and whose directory is as small as the policy allows.  Each        *)
(* behaviour runs one component; the others stay where they start.         *)
(***************************************************************************)
EXTENDS MCMesh

CONSTANTS own, peer

VARIABLES
  component,
  \* Gossip
  setting, node, link,
  \* Archive
  disk, pc, op, todo, tip, announced, stops, faults

mesh     == vars
gossip   == <<setting, node, link>>
archive  == <<disk, pc, op, todo, tip, announced, stops, faults>>
nodeVars == <<component, mesh, gossip, archive>>

-----------------------------------------------------------------------------
(* Four validators, of which three decide: three of them in a ring, and    *)
(* over two heights in a line; two that wait for a third in vain; and the  *)
(* line again, with links that hold one frame.                             *)
Setting(pairs, dead, target, seen, frames) ==
  [links |-> pairs, down |-> dead, target |-> target, capacity |-> seen, window |-> frames]

MCSettings ==
  {Setting({{1, 2}, {2, 3}, {1, 3}}, {4}, 1, 3, 3),
   Setting({{1, 2}, {2, 3}}, {4}, 2, 6, 6),
   Setting({{1, 2}, {1, 3}}, {3, 4}, 1, 2, 2),
   Setting({{1, 2}, {2, 3}}, {4}, 2, 6, 1)}

Gossip == INSTANCE Gossip WITH Nodes <- 1..4, Quorum <- 3, Room <- 1, Settings <- MCSettings

Crashing == INSTANCE Archive WITH
  height <- tip, crashes <- stops,
  QCs <- {own, peer}, snapshot_interval <- 4, MaxSync <- 2,
  MaxHeight <- 6, max_suffix_blocks <- 3, MaxEntries <- 9, MaxCrashes <- 2, MaxFaults <- 0

Failing == INSTANCE Archive WITH
  height <- tip, crashes <- stops,
  QCs <- {own, peer}, snapshot_interval <- 4, MaxSync <- 2,
  MaxHeight <- 5, max_suffix_blocks <- 2, MaxEntries <- 3, MaxCrashes <- 1, MaxFaults <- 1

ASSUME /\ Gossip!GossipAssumption
       /\ Crashing!PolicyAssumption /\ Failing!PolicyAssumption

-----------------------------------------------------------------------------
(* A component that is not run rests in one initial state.                 *)
NodeInit ==
  /\ component \in {"mesh", "gossip", "crashing", "failing"}
  /\ Init /\ Gossip!Init /\ Crashing!Init
  /\ component # "mesh" => edges = {}
  /\ component # "gossip" => setting.capacity = 2

MeshNext ==
  component = "mesh" /\ Next /\ UNCHANGED <<component, gossip, archive>>
GossipNext ==
  component = "gossip" /\ Gossip!Next /\ UNCHANGED <<component, mesh, archive>>
CrashingNext ==
  component = "crashing" /\ Crashing!Next /\ UNCHANGED <<component, mesh, gossip>>
FailingNext ==
  component = "failing" /\ Failing!Next /\ UNCHANGED <<component, mesh, gossip>>

(* The mesh and gossip have something done whenever there is something to  *)
(* do; a node that is down is started again, and its process runs.         *)
NodeSpec ==
  /\ NodeInit
  /\ [][MeshNext \/ GossipNext \/ CrashingNext \/ FailingNext]_nodeVars
  /\ WF_nodeVars(MeshNext \/ GossipNext)
  /\ WF_nodeVars(CrashingNext /\ Crashing!Boot)
  /\ WF_nodeVars(CrashingNext /\ Crashing!Work)

-----------------------------------------------------------------------------
(* The properties are the components' own; see the modules.  Those that a  *)
(* failing file operation may break are asked of the crashing node only.   *)

(* A prompt mesh gets established. *)
MeshEstablished == component = "mesh" => Established

(* Everyone who is up reaches the target. *)
EveryoneFinishes == component = "gossip" => Gossip!EveryoneFinishes

(* A flood ends. *)
FloodEnds == component = "gossip" => Gossip!FloodEnds

(* A node that runs has in its archive every height it runs at, whatever   *)
(* failed before; and after nothing worse than crashes it has every height *)
(* it ever reported, so that no restart loses a committed block.           *)
ArchiveHoldsChain ==
  /\ Crashing!ReportedIsStored
  /\ component = "crashing" => Crashing!NothingForgotten

(* Persisted before it is reported, never taken back: the crashing node    *)
(* implements FinalizedHeight; any other is mapped to its first state.     *)
Heights == INSTANCE FinalizedHeight WITH
  durable   <- IF component = "crashing" THEN Crashing!DurableTip ELSE 0,
  announced <- IF component = "crashing" THEN announced ELSE 0

ImplementsFinalizedHeight == Heights!Spec

(* A crashed node comes back up, as long as its block directory has room   *)
(* for what the crash left beside what it may keep: recover_archive then   *)
(* refuses no archive that suffered nothing worse than crashes, and replay *)
(* and recovery end.  (A crash at the entry limit is archive_unpruned's.)  *)
ComesBack == component = "crashing" /\ pc = "down" ~> pc = "idle"
=============================================================================
