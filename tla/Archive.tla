------------------------------ MODULE Archive ------------------------------
(***************************************************************************)
(* The durable half of a node: ConsensusArchive (store.rs) and the three   *)
(* places where ConsensusNode (node.rs) uses it, commit, apply_state_sync  *)
(* and recover_archive.  One action is one file operation, because a crash *)
(* or an I/O error may come between any two and in the middle of one.      *)
(*                                                                         *)
(* Agreement makes the header at a height unique, so parent hashes reduce  *)
(* to heights; the certificate does not have to be the same one, and the   *)
(* archive compares whole files, so a block is its height and certificate. *)
(* Sizes in bytes are not modelled: a response may stop at any prefix that *)
(* a frame could hold, and the suffix bound is the one in blocks.          *)
(***************************************************************************)
EXTENDS Integers, Sequences, FiniteSets, FiniteSetsExt, SequencesExt, TLC

CONSTANTS
  MaxHeight,         \* bound: heights finalized by the network
  QCs,               \* certificates that a height may carry
  snapshot_interval, \* ConsensusArchiveConfig
  max_suffix_blocks, \* ConsensusArchiveConfig
  MaxSync,           \* MAX_STATE_SYNC_BLOCKS
  MaxEntries,        \* MAX_ARCHIVE_DIRECTORY_ENTRIES
  MaxCrashes,        \* bound: crashes in a behaviour
  MaxFaults,         \* bound: I/O errors in a behaviour
  None

Heights == 1..MaxHeight
Block   == [height : Heights, qc : QCs]

PolicyAssumption ==
  /\ MaxHeight \in Nat /\ MaxSync \in Nat \ {0} /\ MaxEntries \in Nat
  /\ snapshot_interval \in Nat \ {0} /\ max_suffix_blocks \in Nat \ {0}
  /\ None \notin QCs

VARIABLES
  disk,         \* snapshot.bin, blocks/*.bin, blocks/*.tmp-write, install.pending
  pc,           \* where the node is in an archive operation
  op,           \* the operation: record, install or recover, and its payload
  todo,         \* the file operations still to do under the lock
  height,       \* chain.height() of the running node
  announced,    \* history: the highest height the node has reported
  crashes, faults

vars == <<disk, pc, op, todo, height, announced, crashes, faults>>

-----------------------------------------------------------------------------
(* StateSyncResponse: blocks alone, or a snapshot and the blocks after it. *)
NoSnapshot == [height |-> 0, qc |-> None]

Run(from, to, q) == [i \in 1..(to - from) |-> [height |-> from + i, qc |-> q]]

Blocks(bs)      == [snapshot |-> NoSnapshot, blocks |-> bs]
Snapshot(s, bs) == [snapshot |-> s, blocks |-> bs]

IsSnapshot(resp) == resp.snapshot # NoSnapshot

target_height(resp) ==
  IF resp.blocks = <<>> THEN resp.snapshot.height ELSE Last(resp.blocks).height

(* What a peer may send a node at height h, all of it verified: the run    *)
(* after h, or any later snapshot with a run after it.                     *)
Responses(h) ==
  {Blocks(Run(h, t, q)) : t \in h + 1 .. Min({h + MaxSync, MaxHeight}), q \in QCs}
    \union
  UNION {{Snapshot([height |-> s, qc |-> q], Run(s, t, q)) :
            t \in s .. Min({s + MaxSync, MaxHeight}), q \in QCs} : s \in h + 1 .. MaxHeight}

-----------------------------------------------------------------------------
(* Reading the archive. *)

(* read_blocks_locked gives up on a directory with too many entries. *)
Readable(d) == Cardinality(DOMAIN d.blocks) + Cardinality(d.temps) <= MaxEntries

(* ... and removes the temporaries of interrupted writes. *)
Swept(d) == [d EXCEPT !.temps = {}]

Suffix(d) == {h \in DOMAIN d.blocks : h > d.snapshot.height}

(* verify_chain on a set of heights: one unbroken run from the base. *)
verify_chain(base, hs) == hs = base + 1 .. base + Cardinality(hs)

Coherent(d) == Readable(d) /\ verify_chain(d.snapshot.height, Suffix(d))

Tip(d) == Max(Suffix(d) \union {d.snapshot.height})

(* response_locked: from the snapshot when it is ahead of the requester,   *)
(* then as many of the following blocks as fit.                            *)
response_locked(d, from) ==
  LET use_snapshot == d.snapshot.height > from
      base  == IF use_snapshot THEN d.snapshot.height ELSE from
      fits  == Min({base + MaxSync, Tip(d)})
      cut(t) == [i \in 1..(t - base) |-> [height |-> base + i, qc |-> d.blocks[base + i]]]
  IN  IF from >= Tip(d) THEN {Blocks(<<>>)}
      ELSE IF use_snapshot THEN {Snapshot(d.snapshot, cut(t)) : t \in base .. fits}
      ELSE {Blocks(cut(t)) : t \in base + 1 .. fits}

-----------------------------------------------------------------------------
(* File operations, each a tuple of its name and its arguments. *)
Write(b)      == <<"write", b>>
Checkpoint(b) == <<"snapshot", b>>
Prune(h)      == <<"prune", h>>
Journal(resp) == <<"journal", resp>>
ClearJournal  == <<"clear", None>>

Doomed(d, h) == {g \in DOMAIN d.blocks : g <= h}

(* prune_blocks_through_locked and clear_blocks_locked. *)
RemoveBlocks(d, gone) == [d EXCEPT !.blocks = [h \in DOMAIN @ \ gone |-> @[h]]]

(* The disk after an operation that ran to its end. *)
Done(d, o) ==
  CASE o[1] = "write"    -> [d EXCEPT !.blocks = (o[2].height :> o[2].qc) @@ @,
                                      !.temps = @ \ {o[2].height}]
    [] o[1] = "snapshot" -> [d EXCEPT !.snapshot = o[2]]
    [] o[1] = "prune"    -> RemoveBlocks(Swept(d), Doomed(d, o[2]))
    [] o[1] = "journal"  -> [d EXCEPT !.journal = o[2]]
    [] o[1] = "clear"    -> [d EXCEPT !.journal = None]

(* The disks that an interrupted operation may leave.  A rename happened   *)
(* or did not, a block's temporary may stay behind, and of removals whose  *)
(* directory was not synced any may be undone.                             *)
Torn(d, o) ==
  {d, Done(d, o)} \union
  (CASE o[1] = "write" -> {[d EXCEPT !.temps = @ \union {o[2].height}]}
     [] o[1] = "prune" -> {RemoveBlocks(d, gone) : gone \in SUBSET Doomed(d, o[2])}
     [] OTHER          -> {})

-----------------------------------------------------------------------------
(* Plans: the operations of a request, or Refused. *)
Refused == <<"refused", None>>

(* prepare_record_locked: what is already there must be the same bytes,    *)
(* what is new must follow the tip, and a checkpoint is due at the         *)
(* interval or when the suffix is full.                                    *)
prepare_record_locked(d, bs) ==
  LET last  == Last(bs)
      known == {i \in DOMAIN bs : bs[i].height > d.snapshot.height /\ bs[i].height <= Tip(d)}
      new   == SelectSeq(bs, LAMBDA b : b.height > Tip(d))
      distance == Max({last.height - d.snapshot.height, 0})
      due == last.height % snapshot_interval = 0 \/ distance >= max_suffix_blocks
  IN  IF bs = <<>> THEN <<>>
      ELSE IF /\ Len(bs) <= MaxSync
              /\ Coherent(d)
              /\ \A i \in known : d.blocks[bs[i].height] = bs[i].qc
              /\ new # <<>> => Head(new).height = Tip(d) + 1
           THEN [i \in DOMAIN new |-> Write(new[i])]
                \o (IF due THEN <<Checkpoint(last), Prune(last.height)>> ELSE <<>>)
           ELSE <<Refused>>

(* prepare_snapshot_install_locked: never behind anything on disk, and the *)
(* incoming suffix compacted at once when it fills the bound.              *)
prepare_snapshot_install_locked(d, resp) ==
  LET current_tip == Max(DOMAIN d.blocks \union {d.snapshot.height})
      compact == Len(resp.blocks) >= max_suffix_blocks
  IN  IF /\ Len(resp.blocks) <= MaxSync
         /\ Readable(d)
         /\ target_height(resp) >= current_tip
      THEN <<Checkpoint(resp.snapshot), Prune(MaxHeight)>>
           \o [i \in DOMAIN resp.blocks |-> Write(resp.blocks[i])]
           \o (IF compact THEN <<Checkpoint(Last(resp.blocks)), Prune(MaxHeight)>> ELSE <<>>)
      ELSE <<Refused>>

(* apply_install_locked. *)
InstallPlan(d, resp) ==
  IF IsSnapshot(resp) THEN prepare_snapshot_install_locked(d, resp)
  ELSE prepare_record_locked(d, resp.blocks)

ClearedTooSoon(d, resp) ==
  LET plan == InstallPlan(d, resp)
  IN  IF plan = <<Refused>> THEN plan
      ELSE <<Journal(resp), ClearJournal>> \o plan

(* install_verified_response: everything that can be refused is refused    *)
(* before the journal exists.                                              *)
JournaledPlan(d, resp) ==
  LET plan == InstallPlan(d, resp)
  IN  IF plan = <<Refused>> THEN plan
      ELSE <<Journal(resp)>> \o plan \o <<ClearJournal>>

-----------------------------------------------------------------------------
Idle == [kind |-> "none", resp |-> None]

Init ==
  /\ disk = [snapshot |-> NoSnapshot, blocks |-> <<>>, temps |-> {}, journal |-> None]
  /\ pc = "down" /\ op = Idle /\ todo = <<>>
  /\ height = 0 /\ announced = 0
  /\ crashes = 0 /\ faults = 0

Fresh == UNCHANGED <<crashes, faults>>

(* A request that ends without its effect leaves the node where it was; a  *)
(* node that is being built is not built.                                  *)
GiveUp ==
  /\ pc' = IF op.kind = "recover" THEN "refused" ELSE "idle"
  /\ op' = Idle /\ todo' = <<>>

(* The chain swap, and Emit::Committed. *)
Adopt(h) == height' = h /\ announced' = Max({announced, h})

(* recover_archive: a node is built from genesis and reads its archive. *)
Boot ==
  /\ pc \in {"down", "refused"}
  /\ pc' = "lock" /\ op' = [kind |-> "recover", resp |-> None] /\ height' = 0
  /\ UNCHANGED <<disk, todo, announced>> /\ Fresh

(* commit: the next block, behind the certificate this node collected. *)
Commit ==
  /\ pc = "idle" /\ height < MaxHeight
  /\ \E q \in QCs :
       op' = [kind |-> "record", resp |-> Blocks(Run(height, height + 1, q))]
  /\ pc' = "lock"
  /\ UNCHANGED <<disk, todo, height, announced>> /\ Fresh

(* apply_state_sync: a verified response that brings the node forward. *)
StateSync ==
  /\ pc = "idle"
  /\ \E resp \in Responses(height) : op' = [kind |-> "install", resp |-> resp]
  /\ pc' = "lock"
  /\ UNCHANGED <<disk, todo, height, announced>> /\ Fresh

ReplayKeepsJournal ==
  /\ pc = "lock" /\ disk.journal # None
  /\ LET plan == InstallPlan(disk, disk.journal)
     IN  IF plan = <<Refused>> THEN GiveUp
         ELSE pc' = "replay" /\ todo' = plan /\ UNCHANGED op
  /\ disk' = IF Readable(disk) THEN Swept(disk) ELSE disk
  /\ UNCHANGED <<height, announced>> /\ Fresh

(* recover_pending_install_locked: under the lock, before anything else, a *)
(* journaled install is applied again from its beginning.                  *)
Replay ==
  /\ pc = "lock" /\ disk.journal # None
  /\ LET plan == InstallPlan(disk, disk.journal)
     IN  IF plan = <<Refused>> THEN GiveUp
         ELSE pc' = "replay" /\ todo' = plan \o <<ClearJournal>> /\ UNCHANGED op
  /\ disk' = IF Readable(disk) THEN Swept(disk) ELSE disk
  /\ UNCHANGED <<height, announced>> /\ Fresh

(* The operation itself starts by planning against what is on disk. *)
Plan ==
  /\ pc = "lock" /\ disk.journal = None /\ op.kind \in {"record", "install"}
  /\ LET plan == IF op.kind = "record" THEN prepare_record_locked(disk, op.resp.blocks)
                 ELSE JournaledPlan(disk, op.resp)
     IN  IF plan = <<Refused>> THEN GiveUp
         ELSE pc' = "apply" /\ todo' = plan /\ UNCHANGED op
  /\ disk' = IF Readable(disk) THEN Swept(disk) ELSE disk
  /\ UNCHANGED <<height, announced>> /\ Fresh

RecoverOnce ==
  /\ pc = "lock" /\ disk.journal = None /\ op.kind = "recover" /\ Coherent(disk)
  /\ \E resp \in response_locked(disk, height) :
       IF resp = Blocks(<<>>) THEN UNCHANGED <<height, announced>>
       ELSE Adopt(target_height(resp))
  /\ pc' = "idle" /\ op' = Idle /\ disk' = Swept(disk)
  /\ UNCHANGED todo /\ Fresh

(* recover_archive asks for responses until one brings nothing new. *)
Recover ==
  /\ pc = "lock" /\ disk.journal = None /\ op.kind = "recover"
  /\ IF Coherent(disk)
     THEN \E resp \in response_locked(disk, height) :
            IF resp = Blocks(<<>>)
            THEN pc' = "idle" /\ op' = Idle /\ UNCHANGED <<height, announced, todo>>
            ELSE Adopt(target_height(resp)) /\ UNCHANGED <<pc, op, todo>>
     ELSE GiveUp /\ UNCHANGED <<height, announced>>
  /\ disk' = IF Readable(disk) THEN Swept(disk) ELSE disk
  /\ Fresh

(* One file operation. *)
FileOp ==
  /\ todo # <<>>
  /\ Head(todo)[1] = "prune" => Readable(disk)
  /\ disk' = Done(disk, Head(todo)) /\ todo' = Tail(todo)
  /\ UNCHANGED <<pc, op, height, announced>> /\ Fresh

(* Pruning reads the directory first, and fails where that fails. *)
PruneFails ==
  /\ todo # <<>> /\ Head(todo)[1] = "prune" /\ ~Readable(disk)
  /\ GiveUp
  /\ UNCHANGED <<disk, height, announced>> /\ Fresh

(* The end of the replay: the operation takes its turn. *)
Replayed ==
  /\ pc = "replay" /\ todo = <<>>
  /\ pc' = "lock"
  /\ UNCHANGED <<disk, op, todo, height, announced>> /\ Fresh

(* The end of the operation: only now does the node move on. *)
Finish ==
  /\ pc = "apply" /\ todo = <<>>
  /\ Adopt(target_height(op.resp))
  /\ pc' = "idle" /\ op' = Idle
  /\ UNCHANGED <<disk, todo>> /\ Fresh

(* The process or the machine stops, within a file operation or between two. *)
Crash ==
  /\ pc \notin {"down", "refused"} /\ crashes < MaxCrashes
  /\ disk' \in IF todo = <<>> THEN {disk} ELSE Torn(disk, Head(todo))
  /\ pc' = "down" /\ op' = Idle /\ todo' = <<>> /\ height' = 0
  /\ crashes' = crashes + 1
  /\ UNCHANGED <<announced, faults>>

(* A file operation returns an error; `?` ends the request with it. *)
Fault ==
  /\ todo # <<>> /\ faults < MaxFaults
  /\ disk' \in Torn(disk, Head(todo))
  /\ GiveUp
  /\ faults' = faults + 1
  /\ UNCHANGED <<height, announced, crashes>>

Work == Replay \/ Plan \/ Recover \/ FileOp \/ PruneFails \/ Replayed \/ Finish

Next == Boot \/ Commit \/ StateSync \/ Work \/ Crash \/ Fault

(* A process that runs goes on, and a stopped one is started again. *)
Spec == Init /\ [][Next]_vars /\ WF_vars(Boot) /\ WF_vars(Work)

-----------------------------------------------------------------------------
(* An archive with no install pending is one that response_locked serves:  *)
(* few enough files to read, and an unbroken run from the snapshot on.     *)
Recoverable == disk.journal = None => Coherent(disk)

(* A node that runs again has every height it ever reported, and every     *)
(* height on disk: no committed block is lost by a restart.                *)
NothingForgotten ==
  pc = "idle" => height = announced /\ height = Tip(disk)

(* Whatever fails, a height the node has reported and still runs at is in  *)
(* its archive, as a block or below the snapshot: commit and               *)
(* apply_state_sync move the chain only after the archive has returned.    *)
ReportedIsStored ==
  pc = "idle" => height <= disk.snapshot.height \/ height \in DOMAIN disk.blocks

(* The height a restart would come back at. *)
DurableTip ==
  IF disk.journal = None THEN Tip(disk) ELSE target_height(disk.journal)

(* The node keeps the promise of FinalizedHeight: persisted before it is   *)
(* reported, and never taken back, through crash, replay and restart.      *)
F == INSTANCE FinalizedHeight WITH durable <- DurableTip
ImplementsFinalizedHeight == F!Spec

(* A stopped node comes back up, as long as its block directory has room   *)
(* for what a crash leaves: recovery's loop over responses ends, and       *)
(* replaying the journal does not go on for ever.                          *)
ComesBack == pc = "down" ~> pc = "idle"
=============================================================================
