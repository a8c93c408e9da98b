------------------------------ MODULE Delivery ------------------------------
(***************************************************************************)
(* Public object delivery in the application service (mini-app-service).   *)
(* Two threads share the process: the reader decodes requests and hands    *)
(* them over through a channel of one slot (main.rs); the authority thread *)
(* owns the outbox, the peer book and the networking policy, serves the    *)
(* requests and, between them, runs one delivery attempt at a time         *)
(* (delivery_runtime.rs).  Requests that take authority away raise a stop  *)
(* count which a running attempt reads at every socket operation           *)
(* (delivery_interrupt.rs).  The recipient stores what it receives and     *)
(* answers with a receipt (delivery_transport.rs).                         *)
(*                                                                         *)
(* One recipient and its one device are modelled.  Objects are names;      *)
(* handshake, framing and signatures are an exchange that works or fails.  *)
(* Why an attempt failed is not kept: no decision of the code reads it.    *)
(* Clock values are whole seconds.                                         *)
(***************************************************************************)
EXTENDS Integers, FiniteSets, TLC

CONSTANTS
  Ops,             \* operation ids, ordered: a set of integers
  Objects,
  MAX_OPERATIONS,  \* outbox.rs: records retained
  MAX_BACKOFF,     \* outbox.rs: longest wait between two attempts
  Ceiling,         \* arrivals of one author that the recipient takes in a window
  Outboxes,        \* outboxes of queued objects to start from
  Budgets,         \* bounds on a behaviour: requests, lost connections, failed writes, crashes
  None, Poisoned

ASSUME DeliveryAssumption ==
  /\ Ops \subseteq Int /\ IsFiniteSet(Ops) /\ IsFiniteSet(Objects)
  /\ MAX_OPERATIONS \in Nat \ {0} /\ MAX_BACKOFF \in Nat \ {0}
  /\ Ceiling \in Nat \ {0}
  /\ Budgets \subseteq [requests : Nat, drops : Nat, faults : Nat, crashes : Nat]

VARIABLES
  box,        \* disk: the outbox, op -> record or None
  granted,    \* disk: the networking policy
  peer,       \* disk: the peer's record, or None
  up,         \* the process runs
  due,        \* memory: the outbox's scheduling cache, or Poisoned
  enabled,    \* memory: the networking policy
  bookOk,     \* memory: the peer book is not poisoned
  unlocked,   \* memory: the identity is unlocked
  reader,     \* the request the reader thread holds, or None
  slot,       \* the channel's one slot, or None
  pending,    \* DeliveryInterrupt: the stop count
  work,       \* the authority thread's delivery attempt, or None
  wire,       \* the attempt's connection
  late,       \* posts of dead connections the recipient may still read
  stored, arrivals,  \* the recipient: objects held, priced arrivals in the window
  now,
  left        \* what is left of the bounds

disk == <<box, granted, peer>>
mem  == <<up, due, enabled, bookOk, unlocked>>
ipc  == <<reader, slot, pending>>
net  == <<wire, late>>
host == <<stored, arrivals>>
vars == <<disk, mem, ipc, work, net, host, now, left>>

-----------------------------------------------------------------------------
(* outbox.rs *)
States   == {"Queued", "InFlight", "RetryWaiting", "Delivered", "Cancelled"}
Terminal == {"Delivered", "Cancelled"}

Record(o) == [object |-> o, state |-> "Queued", attempts |-> 0, at |-> 0]

Records   == [object : Objects, state : States, attempts : Nat, at : Nat]

ASSUME OutboxesAssumption ==
  Outboxes \subseteq [Ops -> {Record(o) : o \in Objects} \union {None}]

Retained       == {op \in Ops : box[op] # None}
InState(S)     == {op \in Retained : box[op].state \in S}
Schedule(b)    == [op \in {p \in Ops : b[p] # None} |-> <<b[op].state, b[op].at>>]
RetryDelay(n)  == LET d == 2 ^ (IF n - 1 < 9 THEN n - 1 ELSE 9)
                  IN  IF d < MAX_BACKOFF THEN d ELSE MAX_BACKOFF

NextDueNew(t) == {op \in DOMAIN due : due[op][1] = "Queued" /\ due[op][2] <= t}

NextDueAny(t) == {op \in DOMAIN due : due[op][1] \in {"Queued", "RetryWaiting"} /\ due[op][2] <= t}
NextDue(t) ==
  {op \in NextDueAny(t) : \A p \in NextDueAny(t) :
     due[op][2] < due[p][2] \/ (due[op][2] = due[p][2] /\ op <= p)}

(* Outbox::write over the outbox b and its cache c.  The cache is taken    *)
(* out before the file is replaced and put back, with the new entry, only  *)
(* after; a replacement that fails, before or after the rename, leaves it  *)
(* out until the outbox is reopened.  l is what is left of the bounds.     *)
Fault(l) == l.faults > 0 /\ left' = [l EXCEPT !.faults = @ - 1]

CacheInsert(c, op, rec) ==
  [p \in DOMAIN c \union {op} |-> IF p = op THEN <<rec.state, rec.at>> ELSE c[p]]

WriteKeepingCache(b, c, op, rec, l) ==
  LET new == [b EXCEPT ![op] = rec]
  IN  \/ box' = new /\ due' = CacheInsert(c, op, rec) /\ left' = l
      \/ Fault(l) /\ box' = b /\ due' = Poisoned
      \/ Fault(l) /\ box' = new /\ due' = c

Write(b, c, op, rec, l) ==
  LET new == [b EXCEPT ![op] = rec]
  IN  \/ box' = new /\ due' = CacheInsert(c, op, rec) /\ left' = l
      \/ Fault(l) /\ box' \in {b, new} /\ due' = Poisoned

WriteBox(op, rec, l) == Write(box, due, op, rec, l)

(* Outbox::prune_terminal removes the files of S, each before its entry of *)
(* the cache.  A removal that fails ends it, with the file gone or not,    *)
(* and the entry and the cache stay.                                       *)
Pruned(S) == [p \in Ops |-> IF p \in S THEN None ELSE box[p]]

CachePruned(S) == IF due = Poisoned THEN due ELSE [p \in DOMAIN due \ S |-> due[p]]

PruneFails(S) ==
  \E x \in S :
    /\ Fault(left)
    /\ box' \in {Pruned(S), Pruned(S \ {x})} /\ due' = CachePruned(S \ {x})

(* Outbox::enqueue.  At the limit, records past the retention time go      *)
(* (which ones those are is left open), then, if that freed nothing, one   *)
(* finished record.  File times are not modelled: it may be any of them.   *)
EnqueuePruning(op, o, S) ==
  \E drop \in SUBSET S :
    /\ drop = {} <=> Cardinality(Retained) < MAX_OPERATIONS
    /\ \/ PruneFails(drop)
       \/ due = Poisoned /\ box' = Pruned(drop) /\ UNCHANGED <<due, left>>
       \/ due # Poisoned /\ Write(Pruned(drop), CachePruned(drop), op, Record(o), left)

EnqueueOverPending(op, o) == EnqueuePruning(op, o, Retained)

Enqueue(op, o) == EnqueuePruning(op, o, InState(Terminal))

Cancel(op) ==
  IF box[op].state = "Cancelled" THEN UNCHANGED <<box, due, left>>
  ELSE WriteBox(op, [box[op] EXCEPT !.state = "Cancelled", !.at = 0], left)

-----------------------------------------------------------------------------
(* The recipient's root KEL: version 0 delegates the device, version 1     *)
(* extends it and revokes the device.  PeerBook::authorize takes only a    *)
(* root that extends the one on record.                                    *)
Roots == {0, 1}
Peers == [root : Roots, enabled : BOOLEAN]

authorized_delivery_peer == bookOk /\ peer # None /\ peer.enabled

ExtendsAnything(r) == TRUE

Extends(r) == peer # None => r >= peer.root

WritePeer(p) ==
  \/ peer' = p /\ UNCHANGED <<bookOk, left>>
  \/ Fault(left) /\ peer' \in {peer, p} /\ bookOk' = FALSE

(* Policy::save drops the grant in memory before it writes. *)
SetEnabled(b) ==
  \/ granted' = b /\ enabled' = b /\ UNCHANGED left
  \/ Fault(left) /\ granted' \in {granted, b} /\ enabled' = FALSE

-----------------------------------------------------------------------------
(* The reader thread.  It raises the stop count before it hands over a     *)
(* request that takes authority away, and raises it for any request it     *)
(* cannot hand over at once.  A guard travels with its request.            *)
Requests ==
  [kind : {"Queue"}, op : Ops, object : Objects]
    \cup [kind : {"Attempt", "Cancel"}, op : Ops] \cup [kind : {"Authorize"}, root : Roots]
    \cup [kind : {"Enable", "Disable", "Unlock", "Lock", "Revoke", "Shutdown"}]

interrupts_delivery(q) ==
  q.kind \in {"Lock", "Shutdown", "Disable", "Authorize", "Revoke", "Cancel"}

Held == [request : Requests, guard : BOOLEAN]

Guard(g) == IF g THEN 1 ELSE 0

ReadRequest(q) ==
  /\ up /\ reader = None /\ left.requests > 0
  /\ reader' = [request |-> q, guard |-> interrupts_delivery(q)]
  /\ pending' = pending + Guard(interrupts_delivery(q))
  /\ left' = [left EXCEPT !.requests = @ - 1]
  /\ UNCHANGED <<disk, mem, slot, work, net, host, now>>

BackpressureUncounted ==
  /\ reader # None /\ slot # None /\ ~reader.guard
  /\ reader' = [reader EXCEPT !.guard = TRUE]
  /\ UNCHANGED <<disk, mem, slot, pending, work, net, host, now, left>>

Backpressure ==
  /\ reader # None /\ slot # None /\ ~reader.guard
  /\ reader' = [reader EXCEPT !.guard = TRUE]
  /\ pending' = pending + 1
  /\ UNCHANGED <<disk, mem, slot, work, net, host, now, left>>

Forward ==
  /\ reader # None /\ slot = None
  /\ slot' = reader /\ reader' = None
  /\ UNCHANGED <<disk, mem, pending, work, net, host, now, left>>

-----------------------------------------------------------------------------
Attempts == [op : Ops, stage : {"begun", "connected", "posted"}]

NoWire == [post |-> None, ack |-> FALSE, lost |-> FALSE]

(* None stands for nothing else. *)
ASSUME NoneAssumption ==
  None \notin Objects /\ None \notin Records /\ None \notin Held /\ None \notin Peers /\ None \notin Attempts

(* Core::attempt_delivery up to its first socket operation.  An attempt    *)
(* that can only fail is not started once the failures allowed in a        *)
(* behaviour are used up.                                                  *)
MayAttempt(op) ==
  /\ unlocked /\ pending = 0 /\ enabled
  /\ box[op] # None /\ box[op].state \in {"Queued", "RetryWaiting"} /\ box[op].at <= now
  /\ due # Poisoned
  /\ authorized_delivery_peer \/ left.drops > 0

BeginAttempt(op) ==
  /\ WriteBox(op, [box[op] EXCEPT !.state = "InFlight", !.attempts = @ + 1, !.at = 0], left)
  /\ work' = IF due' = Poisoned THEN None ELSE [op |-> op, stage |-> "begun"]
  /\ UNCHANGED <<granted, peer, up, enabled, bookOk, unlocked, reader, pending, net, host, now>>

(* The requests of Core::handle that change delivery state: when each is   *)
(* carried out (otherwise it is answered with an error and changes         *)
(* nothing), and what it does.                                             *)
Accepts(q) ==
  CASE q.kind = "Queue" ->
         /\ unlocked /\ authorized_delivery_peer /\ box[q.op] = None
         /\ Cardinality(Retained) >= MAX_OPERATIONS => InState(Terminal) # {}
         /\ due = Poisoned => Cardinality(Retained) >= MAX_OPERATIONS
    [] q.kind = "Cancel" ->
         /\ box[q.op] # None /\ box[q.op].state # "Delivered"
         /\ due = Poisoned => box[q.op].state = "Cancelled"
    [] q.kind = "Authorize" -> unlocked /\ bookOk /\ Extends(q.root)
    [] q.kind = "Revoke"    -> bookOk /\ peer # None
    [] q.kind = "Enable"    -> unlocked
    [] OTHER                -> TRUE

Effect(q) ==
  CASE q.kind = "Queue"  -> Enqueue(q.op, q.object) /\ UNCHANGED <<granted, peer, enabled, bookOk, unlocked>>
    [] q.kind = "Cancel" -> Cancel(q.op) /\ UNCHANGED <<granted, peer, enabled, bookOk, unlocked>>
    [] q.kind = "Authorize" -> /\ WritePeer([root |-> q.root, enabled |-> q.root = 0])
                               /\ UNCHANGED <<box, granted, due, enabled, unlocked>>
    [] q.kind = "Revoke" -> /\ WritePeer([peer EXCEPT !.enabled = FALSE])
                            /\ UNCHANGED <<box, granted, due, enabled, unlocked>>
    [] q.kind \in {"Enable", "Disable"} -> /\ SetEnabled(q.kind = "Enable")
                                           /\ UNCHANGED <<box, peer, due, bookOk, unlocked>>
    [] q.kind \in {"Unlock", "Lock"} -> /\ unlocked' = (q.kind = "Unlock")
                                        /\ UNCHANGED <<disk, due, enabled, bookOk, left>>

(* What a process that ends leaves: the disk, and posts already sent. *)
Gone ==
  /\ up' = FALSE /\ due' = Poisoned /\ enabled' = FALSE /\ bookOk' = TRUE /\ unlocked' = FALSE
  /\ reader' = None /\ slot' = None /\ pending' = 0 /\ work' = None
  /\ wire' = NoWire /\ late' = late \cup ({wire.post} \ {None})

ServeRequestReleasing ==
  /\ work = None /\ slot # None /\ slot.request.kind \notin {"Shutdown", "Attempt"}
  /\ slot' = None /\ pending' = pending - 1
  /\ IF Accepts(slot.request) THEN Effect(slot.request) ELSE UNCHANGED <<disk, due, enabled, bookOk, unlocked, left>>
  /\ UNCHANGED <<up, reader, work, net, host, now>>

(* run_stdio takes the next request; its guard is dropped when it is done. *)
ServeRequest ==
  /\ work = None /\ slot # None /\ slot.request.kind \notin {"Shutdown", "Attempt"}
  /\ slot' = None /\ pending' = pending - Guard(slot.guard)
  /\ IF Accepts(slot.request) THEN Effect(slot.request) ELSE UNCHANGED <<disk, due, enabled, bookOk, unlocked, left>>
  /\ UNCHANGED <<up, reader, work, net, host, now>>

ServeAttempt ==
  /\ work = None /\ slot # None /\ slot.request.kind = "Attempt"
  /\ slot' = None
  /\ IF MayAttempt(slot.request.op) THEN BeginAttempt(slot.request.op)
     ELSE pending' = pending - Guard(slot.guard) /\ UNCHANGED <<disk, mem, reader, work, net, host, now, left>>

ServeShutdown ==
  /\ work = None /\ slot # None /\ slot.request.kind = "Shutdown"
  /\ Gone /\ UNCHANGED <<disk, host, now, left>>

(* poll_delivery, between two requests. *)
PollReady == up /\ work = None /\ pending = 0 /\ enabled /\ unlocked /\ bookOk /\ due # Poisoned

PollAttempt ==
  /\ PollReady
  /\ \E op \in NextDue(now) : MayAttempt(op) /\ BeginAttempt(op)
  /\ UNCHANGED slot

PollIdle ==
  /\ up /\ work = None
  /\ PollReady => \A op \in NextDue(now) : ~MayAttempt(op)
  /\ UNCHANGED vars

-----------------------------------------------------------------------------
(* The attempt: connect and handshake, send the object, await the receipt. *)
DialUnchecked ==
  /\ work # None /\ work.stage = "begun" /\ pending = 0
  /\ work' = [work EXCEPT !.stage = "connected"]
  /\ UNCHANGED <<disk, mem, ipc, net, host, now, left>>

Dial ==
  /\ work # None /\ work.stage = "begun" /\ pending = 0 /\ authorized_delivery_peer
  /\ work' = [work EXCEPT !.stage = "connected"]
  /\ UNCHANGED <<disk, mem, ipc, net, host, now, left>>

Post ==
  /\ work # None /\ work.stage = "connected" /\ pending = 0
  /\ work' = [work EXCEPT !.stage = "posted"]
  /\ wire' = [NoWire EXCEPT !.post = box[work.op].object]
  /\ UNCHANGED <<disk, mem, ipc, late, host, now, left>>

(* The connection breaks after the post: the recipient may have read it,   *)
(* may still read it or may never; the sender gets no receipt.             *)
Lose ==
  /\ work # None /\ work.stage = "posted" /\ ~wire.lost /\ left.drops > 0
  /\ wire' = [NoWire EXCEPT !.lost = TRUE]
  /\ late' = late \cup ({wire.post} \ {None})
  /\ left' = [left EXCEPT !.drops = @ - 1]
  /\ UNCHANGED <<disk, mem, ipc, work, host, now>>

EndAttempt ==
  /\ work' = None
  /\ wire' = NoWire /\ late' = late \cup ({wire.post} \ {None})
  /\ UNCHANGED <<granted, peer, up, enabled, bookOk, unlocked, ipc, host, now>>

AcknowledgeOnSend ==
  /\ work # None /\ work.stage = "posted"
  /\ WriteBox(work.op, [box[work.op] EXCEPT !.state = "Delivered", !.at = 0], left)
  /\ EndAttempt

Acknowledge ==
  /\ work # None /\ work.stage = "posted" /\ wire.ack
  /\ WriteBox(work.op, [box[work.op] EXCEPT !.state = "Delivered", !.at = 0], left)
  /\ EndAttempt

Retry(l) ==
  LET n == box[work.op].attempts
  IN  /\ WriteBox(work.op, [box[work.op] EXCEPT !.state = "RetryWaiting", !.at = now + RetryDelay(n)], l)
      /\ EndAttempt

Interrupted == work # None /\ pending > 0 /\ Retry(left)

Unavailable ==
  /\ work # None
  /\ \/ work.stage = "posted" /\ wire.lost /\ Retry(left)
     \/ /\ work.stage # "posted" /\ left.drops > 0
        /\ Retry([left EXCEPT !.drops = @ - 1])

-----------------------------------------------------------------------------
(* The recipient: ingest_post, then the receipt.  An object it already     *)
(* holds is not priced again; a new one over the ceiling is refused.       *)
Priced(o) == IF o \in stored THEN arrivals ELSE arrivals + 1

Admits(o) == o \in stored \/ arrivals < Ceiling

Ingest ==
  /\ wire.post # None /\ Admits(wire.post)
  /\ stored' = stored \cup {wire.post} /\ arrivals' = Priced(wire.post)
  /\ wire' = [NoWire EXCEPT !.ack = TRUE]
  /\ UNCHANGED <<disk, mem, ipc, work, late, now, left>>

TooDear ==
  /\ wire.post # None /\ ~Admits(wire.post) /\ left.drops > 0
  /\ wire' = [NoWire EXCEPT !.lost = TRUE]
  /\ left' = [left EXCEPT !.drops = @ - 1]
  /\ UNCHANGED <<disk, mem, ipc, work, late, host, now>>

LateIngest(o) ==
  /\ o \in late /\ Admits(o)
  /\ stored' = stored \cup {o} /\ arrivals' = Priced(o)
  /\ late' = late \ {o}
  /\ UNCHANGED <<disk, mem, ipc, work, wire, now, left>>

(* FEE_WINDOW_MS passes for some arrivals, or the recipient restarts. *)
WindowPasses ==
  /\ arrivals > 0 /\ arrivals' \in 0..(arrivals - 1)
  /\ UNCHANGED <<disk, mem, ipc, work, net, stored, now, left>>

-----------------------------------------------------------------------------
(* Time stands still when no record waits for it: only the order of the    *)
(* clock and the records' times is ever read.                              *)
Tick ==
  /\ \E op \in Retained : box[op].at > now
  /\ now' = now + 1
  /\ UNCHANGED <<disk, mem, ipc, work, net, host, left>>

Crash ==
  /\ up /\ left.crashes > 0
  /\ left' = [left EXCEPT !.crashes = @ - 1]
  /\ Gone /\ UNCHANGED <<disk, host, now>>

(* Core::open.  Outbox::open turns every record that was in flight into a  *)
(* retry that is due at once, one write each; a write that fails ends the  *)
(* start.                                                                  *)
Recover(S) ==
  [op \in Ops |-> IF op \in S THEN [box[op] EXCEPT !.state = "RetryWaiting", !.at = 0] ELSE box[op]]

Start ==
  /\ ~up
  /\ \/ /\ up' = TRUE /\ box' = Recover(InState({"InFlight"})) /\ due' = Schedule(box')
        /\ enabled' = granted /\ UNCHANGED left
     \/ /\ Fault(left) /\ InState({"InFlight"}) # {}
        /\ \E S \in SUBSET InState({"InFlight"}) : box' = Recover(S)
        /\ UNCHANGED <<up, due, enabled>>
  /\ UNCHANGED <<granted, peer, bookOk, unlocked, ipc, work, net, host, now>>

-----------------------------------------------------------------------------
(* A service whose owner has paired the peer, granted networking, unlocked *)
(* the identity and queued some objects, none of them attempted yet.       *)
Init ==
  /\ box \in Outboxes /\ granted = TRUE /\ peer = [root |-> 0, enabled |-> TRUE]
  /\ up = TRUE /\ due = Schedule(box) /\ enabled = TRUE /\ bookOk = TRUE /\ unlocked = TRUE
  /\ reader = None /\ slot = None /\ pending = 0 /\ work = None
  /\ wire = NoWire /\ late = {} /\ stored = {} /\ arrivals = 0 /\ now = 0
  /\ left \in Budgets

Next ==
  \/ \E q \in Requests : ReadRequest(q)
  \/ Backpressure \/ Forward
  \/ ServeRequest \/ ServeAttempt \/ ServeShutdown \/ PollAttempt \/ PollIdle
  \/ Dial \/ Post \/ Acknowledge \/ Interrupted \/ Unavailable
  \/ Lose \/ Ingest \/ TooDear \/ WindowPasses \/ (\E o \in Objects : LateIngest(o))
  \/ Tick \/ Crash \/ Start

(* The threads run, an open connection makes progress, time passes.        *)
(* Nothing is assumed of the owner, of failures or of restarts.            *)
Fairness ==
  /\ WF_vars(Forward) /\ WF_vars(ServeRequest \/ ServeAttempt \/ ServeShutdown)
  /\ SF_vars(PollAttempt) /\ WF_vars(Tick)
  /\ WF_vars(Dial \/ Post \/ Acknowledge \/ Interrupted \/ (Unavailable /\ UNCHANGED left))
  /\ WF_vars(Ingest) /\ WF_vars(WindowPasses)

Spec == Init /\ [][Next]_vars /\ Fairness

-----------------------------------------------------------------------------
(* The model's variables keep their types. *)
TypeOK ==
  /\ box \in [Ops -> Records \union {None}]
  /\ granted \in BOOLEAN /\ peer \in Peers \union {None}
  /\ up \in BOOLEAN /\ enabled \in BOOLEAN /\ bookOk \in BOOLEAN /\ unlocked \in BOOLEAN
  /\ {reader, slot} \subseteq Held \union {None}
  /\ pending \in Nat /\ now \in Nat
  /\ work \in Attempts \union {None}
  /\ wire \in [post : Objects \union {None}, ack : BOOLEAN, lost : BOOLEAN]
  /\ stored \subseteq Objects /\ late \subseteq Objects /\ arrivals \in Nat

(* The stop count is the number of guards alive: no request that ends      *)
(* clears the stop another one still asks for, and none is left behind to  *)
(* stop delivery for good (DeliveryInterrupt, forward_input, run_stdio).   *)
StopsAreHeld ==
  pending = Guard(reader # None /\ reader.guard) + Guard(slot # None /\ slot.guard)

Reflects(c, b) ==
  /\ DOMAIN c \subseteq Ops
  /\ \A op \in Ops : b[op] # None => op \in DOMAIN c /\ c[op] = <<b[op].state, b[op].at>>
  /\ \A op \in DOMAIN c : b[op] = None => c[op][1] \in Terminal

(* As long as the cache is not given up, every record has the entry that   *)
(* next_due and list read, with the state and the time on disk: a write    *)
(* that failed after its rename must not leave an old one.  What a failed  *)
(* removal leaves over is finished, so that it is never attempted.  And a  *)
(* record is in flight only while the authority thread attempts it; one    *)
(* that a crash or a failed write left so is not served before the outbox  *)
(* is reopened, or no attempt would ever take it up again.                 *)
ScheduleIsTrue ==
  up /\ due # Poisoned =>
    /\ Reflects(due, box)
    /\ InState({"InFlight"}) = IF work = None THEN {} ELSE {work.op}

(* The cache is given up rather than used when it might disagree with the  *)
(* disk (Outbox::write: "Never keep using scheduling metadata that might   *)
(* disagree with durable state").  False after a failed removal: list asks *)
(* for every id of the cache and fails on the one whose file is gone.      *)
CacheAgrees == up /\ due # Poisoned => due = Schedule(box)

(* Whatever the owner is told was delivered is held by the recipient,      *)
(* through lost receipts, crashes and resent objects.                      *)
DeliveredIsStored == \A op \in InState({"Delivered"}) : box[op].object \in stored

(* An object leaves the device only under the authority that is current:   *)
(* networking granted, identity unlocked, the peer's device authorized.    *)
SendsUnderAuthority ==
  work # None /\ work.stage # "begun" => enabled /\ granted /\ unlocked /\ authorized_delivery_peer

(* Once the book holds the root that revoked the device, no older copy of  *)
(* the root's log authorizes the device again (PeerBook::authorize).       *)
RevokedDeviceStaysOut == [][peer # None /\ peer.root = 1 => ~authorized_delivery_peer']_vars

(* A record that is not finished is never pruned, rebound to another       *)
(* object or turned back to an earlier attempt, and a finished one never   *)
(* comes back to life under its id except as a new request.                *)
PendingIsKept ==
  [][\A op \in Ops : box[op] # None /\ box'[op] # box[op] =>
       \/ box[op].state \in Terminal /\ box'[op] = None
       \/ /\ box[op].state \notin Terminal /\ box'[op] # None
          /\ box'[op].object = box[op].object /\ box'[op].attempts >= box[op].attempts]_vars

(* While the service keeps its authority and its storage, every queued     *)
(* object is in the end delivered or cancelled.                            *)
Serving == up /\ enabled /\ unlocked /\ authorized_delivery_peer /\ due # Poisoned

Delivers == <>[]Serving => <>[](Retained = InState(Terminal))

=============================================================================
