------------------------------ MODULE Publish ------------------------------
(***************************************************************************)
(* Publishing through the application service: Core's publish_* handlers,  *)
(* the MutationJournal (mini-app-service, lib.rs) and the object store     *)
(* they write to (mini-store, store.rs).  A mutation is signed once, under *)
(* a sequence number that was reserved on disk first; the signed objects   *)
(* go to pending/, then to the store, then a receipt replaces the pending  *)
(* record.  Opening the service replays what is pending.                   *)
(*                                                                         *)
(* One step is one file operation.  An I/O error ends the request, a crash *)
(* the process; both come before, after or instead of the step.  A         *)
(* mutation is its operation id, its content and its sequence number;      *)
(* validation, signing and encoding are left out.  The index rows of an    *)
(* object are two: the id row that next_object_sequence enumerates, and    *)
(* the others together.                                                    *)
(***************************************************************************)
EXTENDS Integers, Sequences, FiniteSets, FiniteSetsExt, Functions

CONSTANTS
  Ops,                     \* operation ids
  Inputs,                  \* contents of mutations
  kind,                    \* of each: "plain", "reply", "head" or "photo"
  Offers,                  \* the sets of contents a caller may choose from
  MAX_PENDING_OPERATIONS,
  MaxSequence,             \* u64::MAX, scaled down
  Imports,                 \* sequence numbers of objects that another device wrote
  MaxFailures,             \* bound: I/O errors and crashes in a behaviour
  None, Unlocking

PublishAssumption ==
  /\ kind \in [Inputs -> {"plain", "reply", "head", "photo"}] /\ Offers \subseteq SUBSET Inputs
  /\ MAX_PENDING_OPERATIONS \in Nat \ {0}
  /\ MaxSequence \in Nat \ {0} /\ Imports \subseteq 1..MaxSequence /\ MaxFailures \in Nat

VARIABLES
  disk,      \* sequence.state, pending/, receipts/, and the store
  up,        \* the service: "down", "opening" or "open"
  unlocked,
  next,      \* Core.next_sequence
  request,   \* the operation id being served or replayed, Unlocking or None
  todo,      \* the file operations it still has to do
  replayed,  \* pending records this start has taken up
  told,      \* history: the mutations whose success was reported
  offer,     \* the contents of this behaviour's mutations
  failures

vars == <<disk, up, unlocked, next, request, todo, replayed, told, offer, failures>>

-----------------------------------------------------------------------------
(* A photo takes a number for the picture and one for the profile; a       *)
(* profile or wall goes with the head that points to it.                   *)
Mutation == [op : Ops, input : Inputs, sequence : 1..MaxSequence]

Count(i)   == IF kind[i] = "photo" THEN 2 ELSE 1
Numbers(m) == m.sequence .. m.sequence + Count(m.input) - 1
Version(m) == m.sequence + Count(m.input) - 1
Headed     == {i \in Inputs : kind[i] \in {"head", "photo"}}

Parts(m) ==
  {"content"} \union (IF m.input \in Headed THEN {"head"} ELSE {})
    \union (IF kind[m.input] = "photo" THEN {"chunk", "manifest"} ELSE {})

Step(what, arg) == [what |-> what, arg |-> arg]

Insert(m, part) ==
  LET x == [mutation |-> m, part |-> part]
  IN  << Step("blob", x), Step("id", x), Step("rows", x) >>

(* commit_record *)
CommitContent(m) == Insert(m, "content")
CommitHead(m)    == Insert(m, "content") \o Insert(m, "head") \o << Step("slot", m) >>
CommitPhoto(m)   == Insert(m, "chunk") \o Insert(m, "manifest") \o CommitHead(m)

commit_record(m) ==
  CASE kind[m.input] \in {"plain", "reply"} -> CommitContent(m)
    [] kind[m.input] = "head" -> CommitHead(m)
    [] kind[m.input] = "photo" -> CommitPhoto(m)

CompleteBeforeCommit(m) ==
  << Step("receipt", m), Step("unpend", m) >> \o commit_record(m)

(* commit_record, then the receipt for the pending record. *)
commit_and_complete(m) ==
  commit_record(m) \o << Step("receipt", m), Step("unpend", m) >>

(* apply_head keeps the head with the highest sequence. *)
Slot(d, m) == IF Version(m) > d.slot THEN Version(m) ELSE d.slot

Done(d, s) ==
  CASE s.what = "sequence" -> [d EXCEPT !.sequence = s.arg]
    [] s.what = "pending"  -> [d EXCEPT !.pending[s.arg.op] = s.arg]
    [] s.what = "unpend"   -> [d EXCEPT !.pending[s.arg.op] = None]
    [] s.what = "receipt"  -> [d EXCEPT !.receipts[s.arg.op] = s.arg]
    [] s.what = "blob"     -> [d EXCEPT !.blobs = @ \union {s.arg}]
    [] s.what = "id"       -> [d EXCEPT !.ids = @ \union {s.arg}]
    [] s.what = "rows"     -> [d EXCEPT !.rows = @ \union {s.arg}]
    [] s.what = "slot"     -> [d EXCEPT !.slot = Slot(d, s.arg)]

Number(x) == IF x.part \in {"chunk", "manifest"} THEN x.mutation.sequence ELSE Version(x.mutation)

(* Objects of the same human that another device wrote count as well.      *)
(* Above the largest number there is none: whoever asks gets an error.     *)
next_object_sequence == 1 + Max({disk.imported} \union {Number(x) : x \in disk.ids})

Exhausted == next_object_sequence > MaxSequence

Larger(a, b) == IF a > b THEN a ELSE b

Pending == {op \in Ops : disk.pending[op] # None}

-----------------------------------------------------------------------------
Init ==
  /\ disk = [sequence |-> None, pending |-> [op \in Ops |-> None], receipts |-> [op \in Ops |-> None],
             blobs |-> {}, ids |-> {}, rows |-> {}, slot |-> 0, imported |-> 0]
  /\ up = "down" /\ unlocked = FALSE /\ next = 0
  /\ request = None /\ todo = <<>> /\ replayed = 0 /\ told = {} /\ offer \in Offers /\ failures = 0

Idle == up = "open" /\ request = None

(* A publish_* or set_* request that is new: the numbers first. *)
SignUnreserved(op, input) ==
  LET n == Larger(next, next_object_sequence)
      m == [op |-> op, input |-> input, sequence |-> n]
  IN  << Step("pending", m), Step("sequence", n + Count(input)) >> \o commit_and_complete(m)

Sign(op, input) ==
  LET n == Larger(next, next_object_sequence)
      m == [op |-> op, input |-> input, sequence |-> n]
  IN  << Step("sequence", n + Count(input)), Step("pending", m) >> \o commit_and_complete(m)

(* reserve_sequences: the sum is checked, nothing is reserved in part. *)
Reservable(input) == Larger(next, next_object_sequence) + Count(input) <= MaxSequence

SignNew(op, input) ==
  /\ Idle /\ unlocked
  /\ disk.receipts[op] = None /\ disk.pending[op] = None
  /\ Reservable(input)
  /\ request' = op /\ todo' = Sign(op, input)
  /\ UNCHANGED <<disk, up, unlocked, next, replayed, told, offer, failures>>

(* A reply or a reaction needs the object it is about, own or imported. *)
TargetHeld ==
  disk.imported > 0 \/ \E x \in disk.blobs : x.part = "content" /\ kind[x.mutation.input] = "plain"

publish_plain(op, i) == i \in offer /\ kind[i] = "plain" /\ SignNew(op, i)
publish_reply(op, i) == i \in offer /\ kind[i] = "reply" /\ TargetHeld /\ SignNew(op, i)
publish_head(op, i)  == i \in offer /\ kind[i] = "head" /\ SignNew(op, i)
publish_photo(op, i) == i \in offer /\ kind[i] = "photo" /\ SignNew(op, i)

(* finish_existing: a retry of what is pending finishes it, also while the *)
(* identity is locked.                                                     *)
ResumeAnew(op, input) ==
  IF Reservable(input) THEN Sign(op, input)
  ELSE commit_and_complete(disk.pending[op])

Resume(op, input) == commit_and_complete(disk.pending[op])

RetryPending(op, input) ==
  /\ Idle /\ disk.receipts[op] = None
  /\ disk.pending[op] # None /\ disk.pending[op].input = input
  /\ request' = op /\ todo' = Resume(op, input)
  /\ UNCHANGED <<disk, up, unlocked, next, replayed, told, offer, failures>>

(* A retry of what is complete is told the same object; an operation id    *)
(* reused for other content is refused.                                    *)
RetryComplete(op, input) ==
  /\ Idle /\ disk.receipts[op] # None /\ disk.receipts[op].input = input
  /\ told' = told \union {disk.receipts[op]}
  /\ UNCHANGED <<disk, up, unlocked, next, request, todo, replayed, offer, failures>>

DoStep ==
  /\ todo # <<>>
  /\ disk' = Done(disk, Head(todo)) /\ todo' = Tail(todo)
  /\ next' = IF Head(todo).what = "sequence" THEN Head(todo).arg ELSE next
  /\ UNCHANGED <<up, unlocked, request, replayed, told, offer, failures>>

Report ==
  /\ up = "open" /\ request # None /\ todo = <<>>
  /\ told' = IF request = Unlocking THEN told ELSE told \union {disk.receipts[request]}
  /\ request' = None
  /\ UNCHANGED <<disk, up, unlocked, next, todo, replayed, offer, failures>>

Lock ==
  /\ Idle /\ unlocked /\ unlocked' = FALSE
  /\ UNCHANGED <<disk, up, next, request, todo, replayed, told, offer, failures>>

(* unlock, up to the write of ensure_sequence_floor if one is needed; the  *)
(* identity is in place before it, and before next_object_sequence fails.  *)
ensure_sequence_floor(floor) ==
  IF disk.sequence = None THEN floor ELSE Larger(disk.sequence, floor)

Unlock ==
  LET n == ensure_sequence_floor(Larger(next, next_object_sequence))
  IN  /\ Idle /\ ~unlocked /\ unlocked' = TRUE
      /\ CASE Exhausted                         -> UNCHANGED <<next, request, todo>>
           [] ~Exhausted /\ n = disk.sequence    -> next' = n /\ UNCHANGED <<request, todo>>
           [] ~Exhausted /\ n # disk.sequence    ->
                request' = Unlocking /\ todo' = << Step("sequence", n) >> /\ UNCHANGED next
      /\ UNCHANGED <<disk, up, replayed, told, offer, failures>>

(* Another device's object arrives by sync; only the largest number of     *)
(* them matters.                                                           *)
Import(n) ==
  /\ Idle /\ disk.imported < n
  /\ disk' = [disk EXCEPT !.imported = n]
  /\ UNCHANGED <<up, unlocked, next, request, todo, replayed, told, offer, failures>>

-----------------------------------------------------------------------------
(* open_inner: MutationJournal::recover, one pending record after another  *)
(* in the order of the directory, then ensure_sequence_floor.  A start     *)
(* that meets more records than the limit fails, after it finished as many *)
(* as the limit allows.                                                    *)
Open ==
  /\ up = "down" /\ up' = "opening"
  /\ UNCHANGED <<disk, unlocked, next, request, todo, replayed, told, offer, failures>>

ReplayUncleared(op) ==
  /\ up = "opening" /\ todo = <<>> /\ op \in Pending /\ replayed < MAX_PENDING_OPERATIONS
  /\ request' = op /\ replayed' = replayed + 1
  /\ todo' = IF disk.receipts[op] = None THEN commit_and_complete(disk.pending[op]) ELSE <<>>
  /\ UNCHANGED <<disk, up, unlocked, next, told, offer, failures>>

Replay(op) ==
  /\ up = "opening" /\ todo = <<>> /\ op \in Pending /\ replayed < MAX_PENDING_OPERATIONS
  /\ request' = op /\ replayed' = replayed + 1
  /\ todo' = IF disk.receipts[op] = None THEN commit_and_complete(disk.pending[op])
             ELSE << Step("unpend", disk.pending[op]) >>
  /\ UNCHANGED <<disk, up, unlocked, next, told, offer, failures>>

Opened ==
  /\ up = "opening" /\ todo = <<>> /\ Pending = {} /\ ~Exhausted
  /\ disk' = [disk EXCEPT !.sequence = ensure_sequence_floor(next_object_sequence)]
  /\ next' = disk'.sequence /\ up' = "open" /\ request' = None
  /\ replayed' = 0
  /\ UNCHANGED <<unlocked, todo, told, offer, failures>>

(* An error ends the request, or the opening; a crash ends the process. A  *)
(* file may have been replaced all the same.                               *)
Down == up' = "down" /\ unlocked' = FALSE /\ next' = 0 /\ request' = None /\ todo' = <<>> /\ replayed' = 0

TooMany ==
  /\ up = "opening" /\ todo = <<>> /\ Pending # {} /\ replayed = MAX_PENDING_OPERATIONS
  /\ Down /\ UNCHANGED <<disk, told, offer, failures>>

OpenExhausted ==
  /\ up = "opening" /\ todo = <<>> /\ Pending = {} /\ Exhausted
  /\ Down /\ UNCHANGED <<disk, told, offer, failures>>

Fail ==
  /\ todo # <<>> /\ failures < MaxFailures
  /\ disk' \in {disk, Done(disk, Head(todo))}
  /\ IF up = "opening" THEN Down
     ELSE request' = None /\ todo' = <<>> /\ UNCHANGED <<up, unlocked, next, replayed>>
  /\ failures' = failures + 1
  /\ UNCHANGED <<told, offer>>

Crash ==
  /\ up # "down" /\ failures < MaxFailures
  /\ Down /\ failures' = failures + 1
  /\ UNCHANGED <<disk, told, offer>>

(* Command::Shutdown, or the end of the input. *)
Shutdown == Idle /\ Down /\ UNCHANGED <<disk, told, offer, failures>>

Next ==
  \/ \E op \in Ops, i \in Inputs :
       \/ publish_plain(op, i) \/ publish_reply(op, i) \/ publish_head(op, i) \/ publish_photo(op, i)
       \/ RetryPending(op, i) \/ RetryComplete(op, i)
  \/ DoStep \/ Report \/ Lock \/ Unlock \/ (\E n \in Imports : Import(n))
  \/ Open \/ (\E op \in Ops : Replay(op)) \/ Opened \/ TooMany \/ OpenExhausted \/ Fail \/ Crash \/ Shutdown

(* A process that is started opens, and a request that is being served is  *)
(* served; nobody has to make one.                                         *)
Fairness ==
  /\ WF_vars(Open) /\ WF_vars(\E op \in Ops : Replay(op)) /\ WF_vars(Opened \/ TooMany \/ OpenExhausted)
  /\ WF_vars(DoStep) /\ WF_vars(Report)

Spec == Init /\ [][Next]_vars /\ Fairness

-----------------------------------------------------------------------------
(* The model's variables keep their types. *)
TypeOK ==
  /\ disk.sequence \in 1..MaxSequence \union {None} /\ disk.slot \in 0..MaxSequence
  /\ \A op \in Ops : {disk.pending[op], disk.receipts[op]} \subseteq Mutation \union {None}
  /\ disk.rows \subseteq disk.ids /\ disk.ids \subseteq disk.blobs
  /\ disk.blobs \subseteq [mutation : Mutation, part : {"content", "head", "chunk", "manifest"}]
  /\ up \in {"down", "opening", "open"} /\ unlocked \in BOOLEAN /\ next \in 0..MaxSequence
  /\ request \in Ops \union {None, Unlocking} /\ failures \in 0..MaxFailures
  /\ replayed \in 0..MAX_PENDING_OPERATIONS

(* An operation id is signed into at most one mutation, however often the  *)
(* request is retried and wherever it was interrupted (existing,           *)
(* finish_existing, recover).                                              *)
SignedOnce == \A x, y \in disk.blobs : x.mutation.op = y.mutation.op => x.mutation = y.mutation

(* No two mutations carry the same sequence number: one that was reserved  *)
(* is not handed out again after an error or a restart, and a photo gets   *)
(* both of its numbers (reserve_sequences, ensure_sequence_floor).         *)
SequenceUnique ==
  LET signed == {x.mutation : x \in disk.blobs} \union {disk.pending[op] : op \in Pending}
  IN  \A m, n \in signed : m.op # n.op => Numbers(m) \intersect Numbers(n) = {}

(* What the caller was told is published stays published: all its objects  *)
(* are stored and listed, and the head is at least as new, also when an    *)
(* older mutation is finished after a newer one (apply_head).              *)
ReportedIsPublished ==
  \A m \in told :
    /\ \A p \in Parts(m) : [mutation |-> m, part |-> p] \in disk.rows
    /\ m.input \in Headed => disk.slot >= Version(m)

(* A service that went down opens again once failures end, unless another  *)
(* device used up the sequence numbers: recovery always gets through what  *)
(* was pending, if need be over several starts.                            *)
Reopens == up = "down" ~> up = "open" \/ Exhausted
=============================================================================
