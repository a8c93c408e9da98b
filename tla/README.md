# Mininet in TLA+

This directory holds a formal model of the parts of Mininet where order,
failure and concurrency decide whether the system is right: TLA+ modules
translated from the Rust sources, TLC configurations that check them on small
instances, and TLAPS proofs of the results that matter most. `PROJECT.json`
maps every definition to the lines it models and lists the runs, the hazards
they are aimed at and the theorems.

## The system and its parts

Mininet is a workspace of some ninety crates. They fall into these layers.

| Layer | Crates | State that can go wrong |
|---|---|---|
| Consensus | `mini-consensus`, `mini-chain` | rounds, locks, votes, timers; archive files; mesh links |
| Execution and value | `mini-execution`, `mini-settlement`, `mini-engagement`, `mini-economy`, `mini-treasury`, `mini-custody`, `mini-airdrop*`, `mini-beta*` | claim sequences, escrows, approvals, ceremonies |
| Identity | `did-mini`, `mini-witness-service`, `mini-presence`, `mini-uniqueness` | hash-chained key event logs, recovery, witness receipts |
| Transport | `mini-bearer`, `mini-mesh`, `mini-net`, `mini-relay`, `mini-dtn`, `mini-sync`, `mini-transport-*`, `mini-bridge` | flooding, mailboxes, bounded queues, set reconciliation |
| Objects and stores | `mini-objects`, `mini-store`, `mini-crdt`, `mini-media`, `mini-social`, `mini-forge`, `mini-seed` | heads, merges, retention |
| Updates | `mini-update`, `mini-installer`, `mini-durable`, `mini-windows-setup` | persisted install phases, rollback |
| Pure computation | `mini-crypto`, `mini-erasure`, `mini-porep`, `mini-private-payment`, the search and extraction crates | none to interleave |
| Shells | `mini-cli`, `mini-desktop`, `mini-ffi`, `mini-app-*`, the Android app | user interface |

The core is consensus. A validator is a `ConsensusNode` (`node.rs`): a
`LedgerChain`, the `Round` driver for its next height (`round.rs`, the
Tendermint rules), the blocks it has seen for that height, and optionally a
`ConsensusArchive` (`store.rs`). A host loop, `run_to_height` (`net.rs`), polls
the links, floods each message on the first time it sees it, feeds it to
`on_message`, and calls `on_timeout` for elapsed timers. When a height
decides, `commit` applies the block, writes the archive and only then moves the
chain. A node that is behind takes a response from a peer (`apply_state_sync`),
and a node that restarts reads its own archive (`recover_archive`).

What a block does is `mini-execution`'s: it moves money between accounts, spends
shielded outputs and issues supply. Its proposer takes claims from an admission
pool. Wallets, escrows (`mini-engagement`) and the airdrop treasury's payout journal
read from the finalized state what became of their claims.

Beside this stands the application service (`mini-app-service`) of one user: it
publishes signed objects into the local store (`mini-store`), delivers them to paired
devices, and takes in what others publish (`mini-sync`).

## Modules

| Module | Models | Role |
|---|---|---|
| `Voting` | what `round.rs` promises at one height | abstract specification: rounds, votes, decisions |
| `VotingProof` | | the theorems about `Voting` |
| `Round` | `round.rs` and the one-height part of `node.rs` | detailed specification: whole handlers |
| `RoundRules`, `RoundHandlers`, `RoundPasses`, `RoundSteps`, `RoundProof` | | the proofs about `Round`; the theorems are in `RoundProof` |
| `RoundLive` | `run_to_height` of `net.rs` | `Round` under the host's scheduling |
| `FinalizedHeight` | what a node with an archive promises | abstract specification: durable, then announced |
| `Archive` | `store.rs`, and its callers in `node.rs` | detailed specification: file operations, crashes, errors |
| `Mesh` | `TcpMesh::establish_topology` and its handshakes in `net.rs` | how a set of validators connects |
| `MeshProof` | | the theorems about `Mesh` |
| `Gossip` | `run_to_height`, `SeenCache`, `Link` in `net.rs`; the buffer for later heights in `node.rs` | how votes reach everybody |
| `Ledger` | `state.rs`, `shielded.rs`, `admission.rs`, `snapshot.rs`, `chain.rs` of `mini-execution`; `reconcile.rs` of `mini-settlement` | block execution, admission, restoring |
| `Settlement` | `payout_journal.rs` of `mini-airdrop-treasury`; `mini-engagement` | `Ledger` composed with its clients |
| `Delivery` | outbox, peer book, runtime, transport and threads of `mini-app-service` | delivery of objects to a paired device |
| `DeliveryProof` | | the theorems about `Delivery` |
| `Publish` | the publish handlers and `MutationJournal` of `mini-app-service`, over `mini-store` | signing and committing a mutation |
| `TimeIndex` | `time_index.rs` of `mini-store` | the ordered side index |
| `Replica` | `store.rs`, `cache.rs` of `mini-store`, sync and cache policy | the store as a replica of what others publish |
| `MC*` | | instances for TLC |

### Voting

`round`, `votes` and `decision` are the whole state. A step is one handler of one
honest validator: it enters a round and may cast a prevote, cast a precommit and
decide. `PrevoteAllowed`, `PrecommitAllowed` and `DecideAllowed` are the rules'
conditions on votes, without tallies, locks or once-guards: a validator that
has precommitted a block in an earlier round prevotes only that block, or one
with 2f+1 prevotes in a round not before that precommit. `Published` are the votes
that faulty validators have out; they may be any.

### Round

`st[n]` is the state of one `ConsensusNode` at one height, with the field names of
`Round`: `round`, `step`, `locked_value`, `locked_round`, `valid_value`,
`valid_round`, the proposals and votes by round, the once-guards, the timers the
host holds, the blocks in `values`. Each rule of `evaluate` is an operator from
state to state (`rule_propose_fresh`, `rule_propose_polc`, ...); `pass` applies them
in the source's order and `evaluate` repeats `pass` until nothing changes. `drive`
carries out the actions a handler produced: a vote of one's own is signed, sent
and fed back, a proposal is built, stored and fed back, a decision is committed.
`Start`, `OnMessage` and `OnTimeout` are the three handlers, each one action, since
a node runs a handler to its end before it takes the next input. The messages that
faulty validators may send are a constant, `FaultyMsgs`; authenticity is a field
of the message, so forged messages can be in the set.

Blocks are model values, and whether a block is valid is a constant set: bodies and
their execution belong to another component. Signatures are abstracted to who could
have signed. `valid_round` keeps its wire width against the round's `u32` (`U32` and
`AsU32`), because the two are compared.

Left out: failure of the archive or of the body source within `commit` and
`build_proposal` (the archive side is in `Archive`), the buffer of messages for
later heights (it is in `Gossip`), and restarts within a height: votes are not persisted, so a restarted
validator within a height counts as faulty.

### RoundLive

Adds the host's scheduling to `Round`. Links deliver what honest nodes send, and
what one node hears it floods on (`Regossip`). A timer lasts
`TIMEOUT_BASE * (round + 1)`, so that from some round on it outlasts the
messages in flight. A `scenario`, chosen at the start, says which timers are shorter and may
fire at any moment, and which messages of faulty validators get through.

No scenario has a proposer that signs two blocks for one round, and `HeightDecided` is not claimed
of one: `on_proposal` keeps the first proposal of a round and the rules look at no other, so a node
that was shown B while the others decide A, and leave the height, does not decide A from their
messages; only state sync can bring it the block.

### Archive

`disk` is what a restart finds: `snapshot.bin`, the block files, the temporaries of
interrupted writes, the install journal. `pc`, `op` and `todo` are the operation in
progress under the archive lock: the plan is made against the disk, as
`prepare_record_locked` and `prepare_snapshot_install_locked` do, and then carried
out one file operation per action. `Crash` stops the process between two
operations or inside one: a rename has happened or not, a temporary may stay, and of
removals whose directory was not synced any may come back (`Torn`). `Fault` is an
I/O error: it may leave the same traces, and the error ends the request while the
node runs on. Every operation first replays a pending journal (`Replay`).

Agreement makes the header of a height unique, so parent hashes reduce to heights.
Certificates may differ between sources, and the archive compares whole files, so
a block is its height and its certificate. Bytes are not counted: a response may
end at any prefix, and the suffix is bounded in blocks. Symlink and file-type checks
are left out.

### Mesh

Every node dials its higher neighbours in order, each through the channel handshake and
the admission, and then accepts its lower ones. A connection has a stage: `none`, `hello`
(in the listener's backlog), `response` (accepted and answered), `attest` (the caller has
attested), `linked` (the responder has its link), `done` (so has the caller), or `closed`.
`Accept`, `Attest`, `Admit` and `Complete` run from one blocking read to the next. An error ends
`establish_topology` and drops what it holds (`Fail`), but what a stream already
carries can still be read. Reads of a handshake time out, `accept` does not. `Slow` lets a read
time out at any moment; without it a read times out only when no node can move, which is a
network prompt against `HANDSHAKE_TIMEOUT`. Nodes in `Mute` connect and say nothing more.

The topology is consistent and roots are distinct, as the function's comment asks of its
caller; listeners are bound beforehand, so the retries of `connect_with_retry` succeed. Failures
of keys and signatures are left out. That `CanMove` says when `Progress` is enabled follows
by comparing their guards.

### Gossip

A height stands for its last exchange: who enters it broadcasts a vote, and a quorum of votes
decides it. A node floods on what its bounded cache (`capacity`) has not seen, keeps votes for
later heights until it gets there, and stops serving its links when it reaches the target. A
link is what the sockets hold (`window`) and a bounded buffer behind it (`Room`); a frame that
fits in neither is dropped, as `Link::queue` does.

### Ledger and Settlement

`ledger` is `LedgerState`; maps are functions over the rows that exist, because a row of zero
is not the same as no row to the snapshot format. `Block` is one finalized block: its
claims in order (`apply_one_claim`), its spends (`apply_nullifiers`), its epoch. A claim is its
own digest and says what is wrong with it (`flaw`); a spend says what its proof lets through.
`Restores` is what the decoder, the audits and the shielded replay ask of a state. `Admit` and
`revalidate` are the pool. `won` and `fresh` are history variables.

A behaviour of `Settlement` has one client beside the blocks, since clients meet only in
the ledger: a proposer's pool, a payout journal, an engagement, or none on a shielded ledger.
The journal's process may crash anywhere; a write is one atomic replace; a dispatch may be
lost; and the signer may offer another claim for the same allocation at any time. Any claim that
was sent may be put into any body, repeatedly and in any order.

Amounts are small naturals. The code adds with checks and fails the body on overflow, which
total supply excludes. The bounds of the encodings and the byte limits are left out.

### Delivery

Two threads share the process. The reader decodes requests, raises the stop count for those
that take authority away, and hands them over through a channel of one slot. The
authority thread serves requests and runs one delivery attempt at a time: connect, post, read the
receipt. The disk holds outbox, policy and peer record; the scheduling cache is in memory.
Connections are lost, writes fail before or after their rename, removals before or after their
unlink, the process crashes, the recipient prices arrivals. One recipient with one device is modelled.

A full outbox prunes finished records (`EnqueuePruning`), in agreement with the comments of
`enqueue` and not with two documents: `docs/design/durable-public-delivery.md` says "no automatic
receipt eviction", and `docs/BETA_STATUS.md` that the outbox "is not auto-pruned". What an owner
loses by it is the receipt of a finished operation; `PendingIsKept` is about the others.

`SendsUnderAuthority` is about the checks that let an attempt begin and about requests being
served one at a time. That a raised stop count also ends an attempt that is waiting on a socket is
modelled (`Interrupted`) and no property depends on it: it makes an answer prompt, and without it an
attempt would still end by its deadline.

### Publish

A request reserves a sequence number on disk, signs, writes the pending record, commits to the
store (blob, rows, head slot) and replaces the pending record by a receipt; a start replays
what is pending. One step is one file operation; errors and crashes come before, after or
instead of any. Contents are names with a kind, because a photo takes two numbers and a profile
comes with a head. Numbers end at `MaxSequence`: a store that holds an object with the last one
(`Exhausted`) cannot be opened again, which `Reopens` therefore excepts.

### TimeIndex

An immutable base, a delta log, a manifest and a journal of one key beside the authoritative
rows. Every operation first repairs what an interrupted one left; rows are deleted without the
lock. One step is one file operation, and an operation may stop between or inside steps. A rename
that has returned stays, which takes the directory flush that the code does on Unix; decision
D-0430 leaves the other platforms open, and so does the model.

### Replica

Objects of one other author arrive in any order, are listed, replied to, pinned, evicted and
fetched again; an insert or an eviction may stop between or inside any two file operations. `whole`
(replies whose parent was there) and `cut` (objects with a step that was never done) are history
variables. The code does not repair what an interruption leaves: an object whose insert stopped after
the blob is held, so it is not wanted again, while its rows and its slot are never written; and an
eviction that stops half way may leave a reply without its parent. `RepliesKeepParents` and
`HeadsConverge` say that this harms only the objects it happened to. The documents promise more, and
`reply_parent` and `synced_heads` show where that fails. `evict_expired` has the store to itself
from its choice to the store's check, so nothing comes between the two.

## Runs

| Run | Instance | Shows |
|---|---|---|
| `finality` | Votes: 4 validators, 1 faulty with all of its votes out, 2 blocks, 2 rounds. Ledger: 3 accounts, 7 claims, 4 spends, 2 blocks of up to 2 each, 1 crash | `Agreement`, `DecisionLocksLaterRounds`; `MoneyFollowsWinners`, `EveryStateRestores`, `PoolExecutes`, `PaidOnce` |
| `rounds` | Pair: 1 honest node of 2, 3 rounds, late, conflicting and forged messages. Quad: 1 honest node of 4, 2 rounds, nil quorums, an invalid block, skipped rounds. Live: 3 honest nodes, and a silent root with all timers of round 0 racing, or a faulty vote that some see in time | `ImplementsVoting`, `LockAdvances`, `NeverStalls`, `EvidenceIsSound`, `RunsToCompletion`, `CertificateVerifies`, `TimerArmed`; `QuadRunsSafely`; `HeightDecided` |
| `node` | Mesh: 4 prompt nodes in every topology, 5 with all links or all but one, 4 of which one is silent with timeouts at any moment. Gossip: a ring, a line over two heights, a missing quorum, narrow links. Archive: 6 heights, interval 4, suffix 3, 2 crashes; or 5 heights, suffix 2, a directory limit of 3, 1 crash, 1 I/O error | `AcyclicWaits`, `NeverStuck`, `MeshEstablished`; `EveryoneFinishes`, `FloodEnds`; `ArchiveHoldsChain`, `ImplementsFinalizedHeight`, `ComesBack` |
| `service` | Delivery: 3 operations (two of them queued, which fills the outbox), 2 objects, two budgets of requests and trouble. Publish: 2 operations, 2 failures, numbers to 4. TimeIndex: 3 keys, a delta of 2. Replica: a post, its reply, 3 heads of which two have the same number, 2 interruptions | types, `StopsAreHeld`, `ScheduleIsTrue`, `DeliveredIsStored`, `SendsUnderAuthority`, `RevokedDeviceStaysOut`, `PendingIsKept`, `Delivers`; `SignedOnce`, `SequenceUnique`, `ReportedIsPublished`, `Reopens`; `QueryExact`, `IndexIsBounded`; `ListedHasContent`, `RepliesKeepParents`, `HeadsConverge` |
| `round_wide_valid_round` | a proposal with a `valid_round` beyond `u32` | violates `LockHolds` |
| `mesh_mute_peer` | 4 nodes, 3 edges, 1 silent peer | violates `NobodyHangs` |
| `archive_io_error` | 1 I/O error, no crash | violates `Recoverable` |
| `archive_unpruned` | 1 crash, directory limit = largest suffix + largest batch | violates `Recoverable` |
| `ledger_status` | 2 blocks and an engagement | violates `RejectedMeansUnpaid` |
| `outbox_stale` | a full outbox, 1 failed removal | violates `CacheAgrees` |
| `reply_parent` | a post and its reply, 1 interruption | violates `RetainedKeepsParent` |
| `synced_heads` | 2 heads, 1 interruption | violates `SyncedHeadsConverge` |

Components that share no state are checked in one run: the initial state picks one, and the
others rest in a single state (`MCFinality`, `MCRounds`, `MCNode`, `MCService`).

**Why these instances are enough.** The pair and the quad of `rounds` have more faulty
validators than the protocol tolerates, on purpose: what they check is that *one*
honest node's handlers keep to the discipline whatever its peers do, and that does
not depend on how many peers are honest. Agreement among several honest nodes follows
from the discipline, which `finality` checks and `VotingProof` proves for every
size. In the pair the quorum is 2 of 2, so that every honest vote matters, and
three rounds are what a lock, a proof of lock change and a stale lock need. In
the quad quorum (3), f+1 (2) and one vote are three different numbers. Each message
alphabet is the smallest that makes every rule fire. Live uses `MaxRound`
3 with racing timers in round 0 only: after it each honest node has had a turn as
proposer. The archive has heights for two snapshots by interval and by suffix length,
and the second crash can hit the replay of the first. The mesh of four takes every undirected
graph, and its safety properties are proved for every size. The ledger's
claims conflict in every way the code tells apart (same number, later number, no
funds yet, to oneself, of nothing, for another network), and a body of two in a second block can
repeat, undercut or fund what the first did. The time index has as many keys as fill the
delta and start a compaction; the outbox is full with two objects, so that a third has to
make room.

Passing runs keep `valid_round` below the round width: `round_wide_valid_round` shows
what happens beyond.

**Deadlock** is not checked in runs whose behaviours end: a height that is decided by
everyone, a mesh that is up or given up, and bounded heights, rounds and crashes. `NeverStuck`
says for `Mesh` what the deadlock check cannot: that it ends only with everyone connected. It is
checked in `service`: a service can always do something.

**Fairness.** `RoundLive` assumes that while an honest node has a message to take or a
timer that has run out, some step is taken: the loop of `run_to_height` never waits
for one source alone. This is weaker than fairness for each node, and enough, because
every step leaves less to do; `Mesh` and `Gossip` assume no more than that somebody who can
move does. `Archive` assumes that an operation under the lock goes on and that a
stopped node is started again; crashes are finitely many. `Delivery` assumes that the two threads
run, that an open connection makes progress and that time passes, and strong fairness
for taking up a due record, since requests keep coming in between and each of the
loop's turns polls the outbox; nothing is assumed of the owner, and a service that is not started again
owes nothing. `Publish` assumes that a service that is down is started again and that what it began goes on.

## What the counterexamples show

* `round_wide_valid_round`: `rule_propose_polc` truncates `valid_round` to `u32` for the
  round test and the vote lookup but compares the untruncated value with the lock. A
  proposal with `valid_round` = 2^32 + k is accepted by a locked node on the strength of
  round k's prevotes, whatever the lock's round.
* `archive_io_error`: a state-sync install that reached the disk but returned an error
  leaves the archive ahead of its node. The node's next commit lies below the
  archive's snapshot; `prepare_record_locked` skips the block but, at a multiple of the
  snapshot interval, still writes the snapshot, an older one over a newer one. The
  blocks above the newer one stay behind a gap, and the archive cannot be read again.
* `archive_unpruned`: blocks that a crash leaves below a snapshot are removed only with
  the next snapshot, and count against the directory limit until then. With
  `max_suffix_blocks` at its maximum (and no interval snapshot in between) the directory
  outgrows the limit first, after one crash; with the default policy this takes several
  crashes at the same point. `ComesBack` is therefore checked, and claimed, only where the
  directory has room for what a crash leaves.
* `mesh_mute_peer`: edges 1-2, 0-2 and 0-3, and node 1 silent. Node 2 accepts node 1 and its
  read times out; node 0, whose call node 2 never answered, times out as well and
  returns before it dials node 3. Node 3 then waits in `accept`, which has no timeout. The
  comment at `HANDSHAKE_TIMEOUT` says such a peer must not hang `establish_topology` forever:
  true of the node it connects to, not of the neighbours of those that give up.
* `ledger_status`: the ledger keeps one claim per payer, the latest. Once the payer's next
  claim is finalized, `reconcile` takes a claim that was finalized before it for one that was
  passed over, and an engagement whose escrow was paid is told `RejectedConflict`, which is
  documented to mean that the escrow never moved value. For the same reason a finalized claim
  that is included again is recorded as rejected, and a payout journal that did not look in
  time stays `Submitted`. None of this moves money: `MoneyFollowsWinners` and `PaidOnce` hold.

* `outbox_stale`: `prune_terminal` returns when a removal fails and leaves the cache in use with the
  entry it was about to drop. A removal can fail after its unlink, when the directory is flushed, so
  the cache names a record that is gone; `list_after` then fails with "unknown delivery operation"
  until the outbox is reopened. The cache is meant to be given up in such a case, as `write` does.
  `ScheduleIsTrue`, which holds and is proved, says how far the damage goes: the left-over entries are
  finished, so `next_due` never takes one up, and no live record is missing or out of date.
* `reply_parent`: a reply's insert stops after its content and its enumeration row. The reply is
  listed, but has no link row; its parent arrives, expires, and `evict_cached`, which finds replies by
  their link rows, removes it. The comment there, the policy's and `BETA_STATUS.md` say that a
  retained reply keeps its parent.
* `synced_heads`: a head's insert stops after its content. It is held, so `wants` is false and no sync
  delivers it again; its slot is never written. `mini-sync` says an interrupted sync loses nothing,
  and `apply_head` that its rule is deterministic on every replica.

## What is proved

`VotingProof` proves, for every finite validator set with fewer than a third faulty,
every set of rounds and blocks, and every choice of faulty votes:

* `TypeCorrect`: `Spec => []TypeOK`;
* `LockingHolds`: after 2f+1 precommits for a block, no later round has 2f+1
  prevotes for another;
* `Safety`: two honest validators never decide differently.

Agreement is not inductive. The invariant adds that honest votes lie in rounds already
reached (`VotesReached`) and none is cast twice (`NoDoubleVote`), that an honest precommit for a block has 2f+1 prevotes of
its round behind it (`PrecommitBacked`), that an honest prevote against an earlier
precommit is justified by a later prevote quorum (`PrevoteJustified`), that a prevote quorum
for a block leaves no other block choosable in an earlier round, where choosable means that
a quorum has precommitted it or still may (`BackedExcludes`), and that a decision has its
precommits (`DecisionBacked`). The step that carries it looks at a handler whose prevote
completes a quorum while another block is choosable in an earlier round: the two quorums share
an honest validator, which precommitted the one and prevoted the other, so a prevote quorum in
between justified it, and that one was excluded already. The quorum lemma (two quorums share an honest validator) comes from the
cardinality of a union of finite sets and the threshold `2n/3 + 1`.

The assumptions are those of the module: the set is finite, fewer than a third are
faulty, rounds are natural numbers with 0, `NIL` is no block.

`MeshProof` proves, for every number of nodes, every set of topologies, every set of silent
nodes and both kinds of network:

* `TypeCorrect`: `Spec => []TypeOK`;
* `NoRingOfWaits`: nobody waits in a ring, whoever stays silent or gives up;
* `DeadlockFree`: while nobody has given up and nobody is silent, someone can move or
  everyone has its mesh.

Neither of the last two is inductive. The invariant says that the stage of an edge fixes what
its two ends hold (`LinksMatch`, `ServingMatches`, `HelloQueued`), that a running node has one
connection on its way, the one to its next neighbour (`OneDial`), and that a backlog holds
distinct callers, each waiting or closed (`BacklogWaits`, `BacklogDistinct`). Both theorems then
take the highest node that is still dialing: the node it dials is in its accept loop, and has a
caller to take, an attestation to read, or a caller that can send one. If nobody dials, every
edge is done (`DeadlockFree`), or the lowest node of the supposed ring waits for a still
lower one (`NoRingOfWaits`). The assumption is `MeshAssumption`: there is a node, and
topologies join nodes.

`RoundProof` proves of the driver itself, with its handlers whole, for every number of
validators, every set of faulty roots and every message they may send, every set of blocks and
every bound on the rounds:

* `EvidenceSound`: equivocation evidence never names a root that kept to the protocol;
* `NeverStalled`: `build_proposal` and `commit` always find the block they need;
* `CertificateVerified`: a commit's certificate holds 2f+1 precommits that were really cast;
* `LockMonotone`: no handler takes a lock back or lets `valid_round` fall behind it;
* `RunsComplete`: when a handler returns, no rule of `evaluate` is enabled and no action is
  left undone. `Round` writes the loops with a bound on their length, and this theorem is what
  justifies the bounds;
* `TimersArmed`: a waiting node has the timer armed that moves it on;
* `LockHeld`, `Implements` and `Agreement`, under `Narrow`: a lock is left only on 2f+1
  later prevotes, every handler is a step of `Voting` or changes nothing of it, and, with fewer
  than a third of the roots faulty, no two honest validators commit different blocks.

`Narrow` says that no faulty proposal has a `valid_round` beyond the width of a round number. The
code does not enforce it, and `round_wide_valid_round` shows that `LockHolds` fails without it;
nothing else needs it. `Agreement` is proved from the driver's own invariant, not by
way of `Voting`.

None of these is inductive. The invariant `Inv` (`RoundRules`) says of each node: the
once-guards cover every vote sent or queued, and no vote is cast twice (`VotesOnce`); a block is
precommitted on 2f+1 tallied prevotes, and the lock is the latest block precommitted (`Locks`); a
prevote against an earlier precommit has a prevote quorum since (`Unlocks`); every valid block
that may be proposed or committed is at hand (`BlocksHeld`); a decision has its precommits
(`DecisionsCertified`); an honest vote is tallied only after it was sent (`Counted`). It speaks
of the votes that are only queued as well, because it has to hold between the rules of one handler,
where a vote is guarded but not signed yet. `SettledInv` (`RoundSteps`) adds what holds only
between handlers: nothing is queued, own votes are tallied, no rule is due, and the timers are
armed.

A handler is a composition of rules, and so is the argument. `RoundRules`: each rule keeps `Inv`
and moves the node forward. `RoundHandlers`: so do `drive` and the three handlers, and the
invariant gives the safety properties. `RoundPasses`: which rules are due, that after one pass none
is, and what a whole handler casts, tallies and decides. `RoundSteps`: the same of a step of the
system. `RoundProof`: the theorems. The lemmas take the facts they need about cardinalities and least
elements as one hypothesis, `Arithmetic`, so that the finite-set library stays out of the provers'
way; `RoundProof` proves it (`ArithmeticHolds`). The assumptions are `RoundAssumption`,
`FaultyMsgsAssumption` (a faulty message has a type and comes from a faulty root or is not
authentic) and `NoneAssumption`.

`DeliveryProof` proves, for every set of operations and objects, every limit and every budget of
requests and trouble:

* `TypeCorrect`: `Spec => []TypeOK`;
* `StopsHeld`: the stop count is the number of guards held by requests not yet served;
* `ScheduleTrue`: a cache in use has every record as it is on disk, and beyond those only finished
  ones that a failed pruning removed; a record is in flight only while it is attempted;
* `DeliveredStored`: what is marked Delivered is at the recipient;
* `SendsAuthorized`: an object goes out only under the owner's and the peer's authority;
* `RevokedStaysOut`: a revoked device is not enabled again;
* `PendingKept`: no step drops an undelivered record or forgets an attempt.

`StopsHeld`, `ScheduleTrue` and `DeliveredStored` are conjuncts of the invariant. What makes it
inductive is that a running attempt keeps what let it begin, since no request is
served meanwhile (`WorkIsBacked`), that the wire carries the attempted record and a receipt
only after the recipient stored it (`WireIsBacked`), that a record in flight has been attempted, that a
process that is down holds nothing, and that the root which revokes comes without authority. The
assumptions are `DeliveryAssumption` (limits are numbers), `OutboxesAssumption` (a first outbox
holds only queued records) and `NoneAssumption`.

Only model-checked:

* all liveness (`HeightDecided`, `MeshEstablished`, `EveryoneFinishes`, `FloodEnds`, `Delivers`,
  `Reopens`, `ComesBack`), since fairness and ENABLED are out of the prover's reach;
* `Ledger` and its clients: a block is a fold over its claims, and what a fold computes for
  every body needs induction over data, which is out of reach too;
* `Archive`: its plans are sequences of any length, and that one carried out to its end, or cut
  short anywhere and replayed, leaves an unbroken run is again an induction over them;
* `Publish`, `TimeIndex` and `Replica`: no theorem yet.

## Plan

1. Publish: `SignedOnce`, `SequenceUnique` and `ReportedIsPublished` as theorems.
2. Ledger: `MoneyFollowsWinners` as a theorem; the fold over a body has to be restated as a step
   per claim for it.
3. Archive: the inductive invariant behind `ImplementsFinalizedHeight`, and its proof.
4. Identity: `did-mini` key event logs, rotation and recovery, witnesses and their journal.

`Round` and `Archive` meet in `commit`, `Ledger` sits behind `Round`'s `ValidValues`, and the
store lies below `Publish` and `Delivery`. Each pair meets in one call that the modules on both
sides model whole.

## Not modelled, and why

Cryptography (signatures, sealing, proofs of space, erasure codes) is assumed to do what
its callers rely on. Wire formats are left to the round-trip tests of the crates. User
interfaces, packaging, search and extraction have little state to interleave. Most of the
remaining crates are vocabulary and pure functions over values that a caller passes in. Of those with
state of their own, the installer's event log, relay mailboxes, the custody journal and Beta MINI execution
are not modelled yet. `PROJECT.json` names each crate with its reason.

## Running

    tlc -config MCFinality.cfg MCFinality
    tlc -config MCRounds.cfg MCRounds
    tlc -config MCNode.cfg MCNode
    tlc -config MCService.cfg MCService
    tlc -config MCRoundWide.cfg MCRound
    tlc -config MCMeshMute.cfg MCMesh
    tlc -config MCArchiveIOError.cfg MCArchiveLoss   # Unpruned
    tlc -config MCLedgerStatus.cfg MCLedger
    tlc -config MCOutboxStale.cfg MCOutbox
    tlc -config MCReplyParent.cfg MCReplica          # SyncedHeads
    tlapm VotingProof.tla    # MeshProof, DeliveryProof, RoundRules, RoundHandlers, RoundPasses, RoundSteps, RoundProof
