---------------------------- MODULE DeliveryProof ----------------------------
(***************************************************************************)
(* The safety of Delivery for every set of operations and objects, every   *)
(* limit and every budget of requests, lost connections, failed writes and *)
(* crashes.                                                                *)
(***************************************************************************)
EXTENDS Delivery, FiniteSetTheorems, TLAPS

(* A process that is down holds nothing. *)
DownIsEmpty == ~up => work = None /\ reader = None /\ slot = None /\ ~enabled

(* While an attempt runs no request is served, so what let it begin still  *)
(* holds: the outbox is open, the record is in flight, the policy is       *)
(* granted and the identity unlocked.                                      *)
WorkIsBacked ==
  /\ work # None =>
       /\ up /\ due # Poisoned /\ unlocked /\ enabled
       /\ box[work.op] # None /\ box[work.op].state = "InFlight"
       /\ work.stage # "begun" => authorized_delivery_peer
  /\ enabled => granted

(* The wire carries the record that is attempted, and a receipt only after *)
(* the recipient stored it.                                                *)
WireIsBacked ==
  /\ wire # NoWire => work # None /\ work.stage = "posted"
  /\ wire.post # None => wire.post = box[work.op].object
  /\ wire.ack => box[work.op].object \in stored

(* A record in flight has been attempted. *)
AttemptsCounted == \A op \in InState({"InFlight"}) : box[op].attempts > 0

(* The root that revokes the device does not come with authority. *)
RevokedIsOff == peer # None /\ peer.root = 1 => ~peer.enabled

Inv ==
  /\ TypeOK
  /\ DownIsEmpty
  /\ WorkIsBacked
  /\ WireIsBacked
  /\ AttemptsCounted
  /\ RevokedIsOff
  /\ StopsAreHeld
  /\ ScheduleIsTrue
  /\ DeliveredIsStored

-----------------------------------------------------------------------------
(* 2^n is a natural number: the size of the power set of 1..n. *)
LEMMA PowerOfTwo == \A n \in Nat : 2^n \in Nat
<1> TAKE n \in Nat
<1>1. IsFiniteSet(1..n) /\ Cardinality(1..n) = n
  BY FS_Interval
<1>2. IsFiniteSet(SUBSET (1..n)) /\ Cardinality(SUBSET (1..n)) = 2^n
  BY <1>1, FS_SUBSET, Zenon
<1> QED BY <1>2, FS_CardinalityType

(* The wait before the next attempt (Outbox::retry) is a number of seconds. *)
LEMMA RetryDelayType == \A n \in Nat \ {0} : RetryDelay(n) \in Nat
<1> TAKE n \in Nat \ {0}
<1>1. (IF n - 1 < 9 THEN n - 1 ELSE 9) \in Nat
  OBVIOUS
<1>2. 2 ^ (IF n - 1 < 9 THEN n - 1 ELSE 9) \in Nat
  BY <1>1, PowerOfTwo
<1> QED BY <1>2, DeliveryAssumption DEF RetryDelay

(* The cache built when the outbox is opened reflects it. *)
LEMMA ScheduleReflects == \A b : Reflects(Schedule(b), b)
BY DEF Reflects, Schedule

(* Outbox::write adds the entry of the record it wrote, or the cache goes. *)
LEMMA WriteReflects ==
  ASSUME NEW b \in [Ops -> Records \union {None}], NEW c, NEW op \in Ops, NEW r \in Records, NEW l,
         Reflects(c, b), Write(b, c, op, r, l), due' # Poisoned
  PROVE  Reflects(due', box')
<1>1. box' = [b EXCEPT ![op] = r] /\ due' = CacheInsert(c, op, r)
  BY DEF Write
<1>2. /\ DOMAIN due' = DOMAIN c \union {op}
      /\ due'[op] = <<r.state, r.at>>
      /\ \A p \in DOMAIN c \ {op} : due'[p] = c[p]
  BY <1>1, Zenon DEF CacheInsert
<1>3. box'[op] = r /\ r # None /\ \A p \in Ops \ {op} : box'[p] = b[p]
  BY <1>1, NoneAssumption
<1> QED BY <1>2, <1>3 DEF Reflects

(* What a write of a record may leave, failed or not. *)
LEMMA WriteBoxLeaves ==
  ASSUME Inv, NEW op \in Ops, NEW r \in Records, NEW l, WriteBox(op, r, l)
  PROVE  /\ box' = box \/ box' = [box EXCEPT ![op] = r]
         /\ up /\ due # Poisoned /\ due' # Poisoned => box' = [box EXCEPT ![op] = r] /\ Reflects(due', box')
<1>1. box' = box \/ box' = [box EXCEPT ![op] = r]
  BY DEF WriteBox, Write
<1>2. ASSUME up, due # Poisoned, due' # Poisoned
      PROVE  box' = [box EXCEPT ![op] = r] /\ Reflects(due', box')
  <2>1. Reflects(due, box) /\ box \in [Ops -> Records \union {None}]
    BY <1>2 DEF Inv, TypeOK, ScheduleIsTrue
  <2>2. Write(box, due, op, r, l)
    BY DEF WriteBox
  <2> QED BY <1>2, <2>1, <2>2, WriteReflects DEF Write
<1> QED BY <1>1, <1>2

(* prune_terminal leaves a cache that reflects the outbox, though entries  *)
(* of finished records may stay behind.                                    *)
LEMMA PruneReflects ==
  ASSUME Inv, up, due # Poisoned,
         NEW S \in SUBSET InState(Terminal), NEW R \in SUBSET S
  PROVE  Reflects(CachePruned(R), Pruned(S))
<1>1. Reflects(due, box)
  BY DEF Inv, ScheduleIsTrue
<1>2. /\ DOMAIN CachePruned(R) = DOMAIN due \ R
      /\ \A p \in DOMAIN due \ R : CachePruned(R)[p] = due[p]
  BY Zenon DEF CachePruned
<1>3. \A p \in Ops : Pruned(S)[p] = IF p \in S THEN None ELSE box[p]
  BY DEF Pruned
<1>4. \A p \in S : p \in DOMAIN due /\ due[p][1] \in Terminal
  BY <1>1 DEF Reflects, InState, Retained
<1> QED BY <1>1, <1>2, <1>3, <1>4 DEF Reflects

(* A service that has attempted nothing yet satisfies the invariant. *)
LEMMA InitInv == Init => Inv
<1> SUFFICES ASSUME Init PROVE Inv
  OBVIOUS
<1> USE DEF Init
<1>1. /\ box \in [Ops -> Records \union {None}]
      /\ \A op \in Ops : box[op] # None => box[op].state = "Queued"
  BY OutboxesAssumption DEF Record, Records, States
<1>2. TypeOK
  BY <1>1 DEF TypeOK, Peers, Roots, NoWire
<1>3. InState({"InFlight"}) = {} /\ InState({"Delivered"}) = {}
  BY <1>1 DEF InState, Retained
<1>4. DownIsEmpty /\ WorkIsBacked /\ WireIsBacked /\ RevokedIsOff /\ StopsAreHeld
  BY DEF DownIsEmpty, WorkIsBacked, WireIsBacked, NoWire, RevokedIsOff, StopsAreHeld, Guard
<1>5. AttemptsCounted /\ ScheduleIsTrue /\ DeliveredIsStored
  BY <1>3, ScheduleReflects DEF AttemptsCounted, ScheduleIsTrue, DeliveredIsStored
<1> QED BY <1>2, <1>4, <1>5 DEF Inv

-----------------------------------------------------------------------------
(* Steps that leave the outbox, the attempt and the recipient alone. *)

(* The reader thread reads a request, and raises the stop count first when *)
(* it takes authority away.                                                *)
LEMMA ReadRequestStep == Inv /\ (\E q \in Requests : ReadRequest(q)) => Inv'
<1> SUFFICES ASSUME Inv, NEW q \in Requests, ReadRequest(q) PROVE Inv'
  OBVIOUS
<1> USE DEF ReadRequest, disk, mem, net, host
<1>0. interrupts_delivery(q) \in BOOLEAN
  BY DEF interrupts_delivery
<1>1. reader' \in Held /\ reader' # None /\ reader'.guard = interrupts_delivery(q)
  BY <1>0, NoneAssumption DEF Held
<1>2. TypeOK'
  BY <1>1 DEF Inv, TypeOK, Guard
<1>3. StopsAreHeld'
  BY <1>1 DEF Inv, TypeOK, StopsAreHeld, Guard
<1> QED BY <1>2, <1>3 DEF Inv, DownIsEmpty, WorkIsBacked, WireIsBacked, AttemptsCounted, RevokedIsOff,
       ScheduleIsTrue, DeliveredIsStored, InState, Retained, authorized_delivery_peer

(* A request that finds the slot taken raises the stop count until it is   *)
(* served.                                                                 *)
LEMMA BackpressureStep == Inv /\ Backpressure => Inv'
<1> SUFFICES ASSUME Inv, Backpressure PROVE Inv'
  OBVIOUS
<1> USE DEF Backpressure, disk, mem, net, host
<1>1. reader' \in Held /\ reader' # None /\ reader'.guard
  BY NoneAssumption, Zenon DEF Inv, TypeOK, Held
<1>2. TypeOK'
  BY <1>1 DEF Inv, TypeOK
<1>3. StopsAreHeld'
  BY <1>1 DEF Inv, TypeOK, StopsAreHeld, Guard
<1> QED BY <1>2, <1>3 DEF Inv, DownIsEmpty, WorkIsBacked, WireIsBacked, AttemptsCounted, RevokedIsOff,
       ScheduleIsTrue, DeliveredIsStored, InState, Retained, authorized_delivery_peer

(* The reader hands its request over, guard and all. *)
LEMMA ForwardStep == Inv /\ Forward => Inv'
BY DEF Forward, disk, mem, net, host, Guard,
       Inv, TypeOK, DownIsEmpty, WorkIsBacked, WireIsBacked, AttemptsCounted, RevokedIsOff, StopsAreHeld,
       ScheduleIsTrue, DeliveredIsStored, InState, Retained, authorized_delivery_peer

(* The attempt checks the peer's authority and connects. *)
LEMMA DialStep == Inv /\ Dial => Inv'
<1> SUFFICES ASSUME Inv, Dial PROVE Inv'
  OBVIOUS
<1> USE DEF Dial, disk, mem, net, host, ipc
<1>1. work' \in Attempts /\ work' # None /\ work'.op = work.op /\ work'.stage = "connected"
  BY NoneAssumption DEF Inv, TypeOK, Attempts
<1>2. wire = NoWire
  BY DEF Inv, WireIsBacked
<1>3. TypeOK'
  BY <1>1 DEF Inv, TypeOK
<1> QED BY <1>1, <1>2, <1>3 DEF Inv, DownIsEmpty, WorkIsBacked, WireIsBacked, AttemptsCounted, RevokedIsOff,
       StopsAreHeld, ScheduleIsTrue, DeliveredIsStored, InState, Retained, authorized_delivery_peer, NoWire

(* The attempt sends the record's object. *)
LEMMA PostStep == Inv /\ Post => Inv'
<1> SUFFICES ASSUME Inv, Post PROVE Inv'
  OBVIOUS
<1> USE DEF Post, disk, mem, host, ipc
<1>1. work' \in Attempts /\ work' # None /\ work'.op = work.op /\ work'.stage = "posted"
  BY NoneAssumption DEF Inv, TypeOK, Attempts
<1>2. box[work.op].object \in Objects
  BY DEF Inv, TypeOK, WorkIsBacked, Attempts, Records
<1>3. /\ wire' \in [post : Objects \union {None}, ack : BOOLEAN, lost : BOOLEAN]
      /\ wire'.post = box[work.op].object /\ ~wire'.ack
  BY <1>2, Zenon DEF NoWire
<1>4. TypeOK'
  BY <1>1, <1>3 DEF Inv, TypeOK
<1> QED BY <1>1, <1>3, <1>4 DEF Inv, DownIsEmpty, WorkIsBacked, WireIsBacked, AttemptsCounted, RevokedIsOff,
       StopsAreHeld, ScheduleIsTrue, DeliveredIsStored, InState, Retained, authorized_delivery_peer

(* A broken connection, or a refusal for the price, leaves the sender      *)
(* without a receipt.                                                      *)
LEMMA LoseStep == Inv /\ (Lose \/ TooDear) => Inv'
<1> SUFFICES ASSUME Inv, Lose \/ TooDear PROVE Inv'
  OBVIOUS
<1> USE DEF Lose, TooDear, disk, mem, host, ipc
<1>1. /\ wire' \in [post : Objects \union {None}, ack : BOOLEAN, lost : BOOLEAN]
      /\ wire'.post = None /\ ~wire'.ack
  BY Zenon DEF NoWire
<1>2. work # None /\ work.stage = "posted"
  BY DEF Inv, WireIsBacked, NoWire
<1>3. late' \subseteq Objects
  BY DEF Inv, TypeOK
<1>4. TypeOK'
  BY <1>1, <1>3 DEF Inv, TypeOK
<1> QED BY <1>1, <1>2, <1>4, Zenon DEF Inv, DownIsEmpty, WorkIsBacked, WireIsBacked, AttemptsCounted, RevokedIsOff,
       StopsAreHeld, ScheduleIsTrue, DeliveredIsStored, InState, Retained, authorized_delivery_peer

(* The recipient stores the object before it sends the receipt. *)
LEMMA IngestStep == Inv /\ Ingest => Inv'
<1> SUFFICES ASSUME Inv, Ingest PROVE Inv'
  OBVIOUS
<1> USE DEF Ingest, disk, mem, ipc
<1>1. wire.post \in Objects /\ wire.post = box[work.op].object /\ work # None /\ work.stage = "posted"
  BY DEF Inv, TypeOK, WireIsBacked, NoWire
<1>2. /\ wire' \in [post : Objects \union {None}, ack : BOOLEAN, lost : BOOLEAN]
      /\ wire'.post = None
  BY Zenon DEF NoWire
<1>3. TypeOK'
  BY <1>1, <1>2 DEF Inv, TypeOK, Priced
<1> QED BY <1>1, <1>2, <1>3 DEF Inv, DownIsEmpty, WorkIsBacked, WireIsBacked, AttemptsCounted, RevokedIsOff,
       StopsAreHeld, ScheduleIsTrue, DeliveredIsStored, InState, Retained, authorized_delivery_peer

(* A post the sender gave up on may still be stored later. *)
LEMMA LateIngestStep == Inv /\ (\E o \in Objects : LateIngest(o)) => Inv'
BY DEF LateIngest, Priced, disk, mem, ipc,
       Inv, TypeOK, DownIsEmpty, WorkIsBacked, WireIsBacked, AttemptsCounted, RevokedIsOff, StopsAreHeld,
       ScheduleIsTrue, DeliveredIsStored, InState, Retained, authorized_delivery_peer

(* Arrivals leave the recipient's fee window. *)
LEMMA WindowPassesStep == Inv /\ WindowPasses => Inv'
BY DEF WindowPasses, disk, mem, ipc, net,
       Inv, TypeOK, DownIsEmpty, WorkIsBacked, WireIsBacked, AttemptsCounted, RevokedIsOff, StopsAreHeld,
       ScheduleIsTrue, DeliveredIsStored, InState, Retained, authorized_delivery_peer

(* The clock advances, and nothing else. *)
LEMMA TickStep == Inv /\ Tick => Inv'
BY DEF Tick, disk, mem, ipc, net, host,
       Inv, TypeOK, DownIsEmpty, WorkIsBacked, WireIsBacked, AttemptsCounted, RevokedIsOff, StopsAreHeld,
       ScheduleIsTrue, DeliveredIsStored, InState, Retained, authorized_delivery_peer

(* A shutdown, or a crash. *)
LEMMA GoneStep == Inv /\ (ServeShutdown \/ Crash) => Inv'
<1> SUFFICES ASSUME Inv, ServeShutdown \/ Crash PROVE Inv'
  OBVIOUS
<1>1. Gone /\ UNCHANGED <<disk, host, now>>
  BY DEF ServeShutdown, Crash
<1>2. TypeOK'
  BY <1>1, Zenon DEF Inv, TypeOK, Gone, NoWire, disk, host
<1> QED BY <1>1, <1>2 DEF Gone, NoWire, disk, host, Guard,
       Inv, DownIsEmpty, WorkIsBacked, WireIsBacked, AttemptsCounted, RevokedIsOff,
       StopsAreHeld, ScheduleIsTrue, DeliveredIsStored, InState, Retained, authorized_delivery_peer

(* Reopening the outbox (Outbox::open), with or without a failed write. *)
LEMMA StartStep == Inv /\ Start => Inv'
<1> SUFFICES ASSUME Inv, Start PROVE Inv'
  OBVIOUS
<1> USE DEF ipc, net, host
<1>1. PICK S \in SUBSET InState({"InFlight"}) :
        /\ box' = Recover(S)
        /\ up' => S = InState({"InFlight"}) /\ due' = Schedule(box') /\ enabled' = granted
        /\ ~up' => enabled' = enabled
        /\ up' \in BOOLEAN
  <2>1. CASE up'
    <3> WITNESS InState({"InFlight"}) \in SUBSET InState({"InFlight"})
    <3> QED BY <2>1, Zenon DEF Start
  <2>2. CASE ~up'
    <3>1. \E S \in SUBSET InState({"InFlight"}) : box' = Recover(S)
      BY <2>2 DEF Start
    <3> QED BY <2>2, <3>1 DEF Start, Inv, TypeOK
  <2> QED BY <2>1, <2>2
<1>2. /\ ~up /\ work = None /\ reader = None /\ slot = None /\ ~enabled /\ wire = NoWire
      /\ UNCHANGED <<granted, peer, bookOk, unlocked, ipc, work, net, host, now>>
  BY DEF Start, Inv, DownIsEmpty, WireIsBacked
<1>3. \A op \in Ops :
        /\ box'[op] = None <=> box[op] = None
        /\ op \notin S => box'[op] = box[op]
        /\ op \in S => /\ box'[op] \in Records /\ box'[op].state = "RetryWaiting"
                       /\ box'[op].object = box[op].object
  <2> TAKE op \in Ops
  <2>1. CASE op \in S
    <3>1. box[op] \in Records
      BY <2>1 DEF Inv, TypeOK, InState, Retained
    <3>2. box'[op] = [box[op] EXCEPT !.state = "RetryWaiting", !.at = 0]
      BY <1>1, <2>1 DEF Recover
    <3> DEFINE r == [box[op] EXCEPT !.state = "RetryWaiting", !.at = 0]
    <3>3. r \in Records /\ r.state = "RetryWaiting" /\ r.object = box[op].object
      BY <3>1, Zenon DEF Records, States
    <3> HIDE DEF r
    <3> QED BY <2>1, <3>1, <3>2, <3>3, NoneAssumption DEF r
  <2>2. CASE op \notin S
    BY <1>1, <2>2 DEF Recover
  <2> QED BY <2>1, <2>2
<1>4. box' \in [Ops -> Records \union {None}]
  <2>1. box' = [op \in Ops |-> box'[op]]
    BY <1>1 DEF Recover
  <2> QED BY <2>1, <1>3 DEF Inv, TypeOK
<1>5. TypeOK'
  BY <1>1, <1>2, <1>4 DEF Inv, TypeOK
<1>6. InState({"InFlight"})' = InState({"InFlight"}) \ S
  BY <1>3 DEF InState, Retained
<1>7. AttemptsCounted' /\ DeliveredIsStored'
  BY <1>2, <1>3, <1>6 DEF Inv, AttemptsCounted, DeliveredIsStored, InState, Retained
<1>8. ScheduleIsTrue'
  BY <1>1, <1>2, <1>6, ScheduleReflects DEF ScheduleIsTrue
<1>9. DownIsEmpty' /\ WorkIsBacked' /\ WireIsBacked' /\ RevokedIsOff' /\ StopsAreHeld'
  BY <1>1, <1>2 DEF Inv, DownIsEmpty, WorkIsBacked, WireIsBacked, RevokedIsOff, StopsAreHeld, NoWire, Guard
<1> QED BY <1>5, <1>7, <1>8, <1>9 DEF Inv

-----------------------------------------------------------------------------
(* An attempt begins: from a request or from the schedule. *)
LEMMA BeginAttemptStep ==
  ASSUME Inv, NEW op \in Ops, MayAttempt(op), BeginAttempt(op), up, work = None,
         slot' = slot \/ slot' = None
  PROVE  Inv'
<1> DEFINE r == [box[op] EXCEPT !.state = "InFlight", !.attempts = box[op].attempts + 1, !.at = 0]
           b == [box EXCEPT ![op] = r]
<1>0. box[op] \in Records
  BY DEF MayAttempt, Inv, TypeOK
<1>1. r \in Records /\ r.state = "InFlight" /\ r.attempts > 0
  <2>1. box[op].attempts + 1 \in Nat /\ box[op].attempts + 1 > 0
    BY <1>0 DEF Records
  <2> QED BY <1>0, <2>1, Zenon DEF Records, States
<1>2. WriteBox(op, r, left)
  BY DEF BeginAttempt
<1> HIDE DEF r
<1>2a. b[op] \in Records /\ b[op].state = "InFlight" /\ b[op].attempts > 0
  BY <1>1 DEF Inv, TypeOK
<1>3. b \in [Ops -> Records \union {None}] /\ \A p \in Ops \ {op} : b[p] = box[p]
  BY <1>1 DEF Inv, TypeOK
<1>4. /\ box' = box \/ box' = b
      /\ due' # Poisoned => box' = b /\ Reflects(due', box')
      /\ work' = IF due' = Poisoned THEN None ELSE [op |-> op, stage |-> "begun"]
      /\ UNCHANGED <<granted, peer, up, enabled, bookOk, unlocked, reader, pending, net, host, now>>
  BY <1>1, <1>2, WriteBoxLeaves DEF BeginAttempt, MayAttempt
<1> HIDE DEF b
<1>5. TypeOK'
  BY <1>3, <1>4 DEF Inv, TypeOK, Attempts, net, host
<1>6. AttemptsCounted' /\ DeliveredIsStored'
  BY <1>2a, <1>3, <1>4 DEF Inv, AttemptsCounted, DeliveredIsStored, InState, Retained, host
<1>7. ScheduleIsTrue'
  <2>1. InState({"InFlight"}) = {}
    BY DEF MayAttempt, Inv, ScheduleIsTrue
  <2>2. b[op] # None
    BY <1>2a, NoneAssumption
  <2> SUFFICES ASSUME up', due' # Poisoned PROVE ScheduleIsTrue'
    BY DEF ScheduleIsTrue
  <2>3. box' = b /\ work' = [op |-> op, stage |-> "begun"]
    BY <1>4
  <2>4. work' # None /\ work'.op = op
    BY <2>3, NoneAssumption DEF Attempts
  <2>5. InState({"InFlight"})' = {op}
    BY <1>2a, <1>3, <2>1, <2>2, <2>3 DEF InState, Retained
  <2> QED BY <1>4, <2>4, <2>5 DEF ScheduleIsTrue
<1>8. WorkIsBacked'
  <2>1. b[op] # None
    BY <1>2a, NoneAssumption
  <2> QED BY <1>2a, <1>4, <2>1 DEF MayAttempt, Inv, WorkIsBacked, authorized_delivery_peer
<1>9. WireIsBacked'
  BY <1>4 DEF Inv, WireIsBacked, NoWire, net
<1>10. StopsAreHeld'
  <2>1. pending = 0 /\ pending' = 0 /\ reader' = reader
    BY <1>4 DEF MayAttempt
  <2> QED BY <2>1 DEF Inv, StopsAreHeld, Guard
<1>11. DownIsEmpty' /\ RevokedIsOff'
  BY <1>4 DEF Inv, DownIsEmpty, RevokedIsOff
<1> QED BY <1>5, <1>6, <1>7, <1>8, <1>9, <1>10, <1>11 DEF Inv

(* The guard of a request that was served is dropped. *)
LEMMA DropGuard ==
  ASSUME Inv, slot # None, slot' = None, reader' = reader, pending' = pending - Guard(slot.guard)
  PROVE  StopsAreHeld' /\ pending' \in Nat
<1>1. \A g : Guard(g) \in {0, 1}
  BY DEF Guard
<1>2. slot # None /\ slot.guard <=> slot.guard
  BY DEF Inv, TypeOK, Held
<1>3. Guard(slot # None /\ slot.guard) = Guard(slot.guard)
  BY <1>2 DEF Guard
<1>4. pending' = Guard(reader # None /\ reader.guard)
  BY <1>1, <1>3 DEF Inv, TypeOK, StopsAreHeld
<1>5. Guard(slot' # None /\ slot'.guard) = 0
  BY DEF Guard
<1> QED BY <1>1, <1>4, <1>5 DEF StopsAreHeld

(* An Attempt request begins the attempt of its record, or is refused. *)
LEMMA ServeAttemptStep == Inv /\ ServeAttempt => Inv'
<1> SUFFICES ASSUME Inv, ServeAttempt PROVE Inv'
  OBVIOUS
<1>1. slot \in Held /\ up
  BY DEF ServeAttempt, Inv, TypeOK, DownIsEmpty
<1>2. slot.request.op \in Ops
  BY <1>1 DEF ServeAttempt, Held, Requests
<1>3. CASE MayAttempt(slot.request.op)
  BY <1>1, <1>2, <1>3, BeginAttemptStep DEF ServeAttempt
<1>4. CASE ~MayAttempt(slot.request.op)
  <2>1. /\ slot' = None /\ pending' = pending - Guard(slot.guard)
        /\ UNCHANGED <<disk, mem, reader, work, net, host, now, left>>
    BY <1>4 DEF ServeAttempt
  <2>2. TypeOK' /\ StopsAreHeld'
    <3>1. StopsAreHeld' /\ pending' \in Nat
      BY <2>1, DropGuard DEF ServeAttempt
    <3> QED BY <2>1, <3>1 DEF Inv, TypeOK, disk, mem, net, host
  <2> QED BY <2>1, <2>2 DEF disk, mem, net, host,
       Inv, DownIsEmpty, WorkIsBacked, WireIsBacked, AttemptsCounted, RevokedIsOff,
       ScheduleIsTrue, DeliveredIsStored, InState, Retained, authorized_delivery_peer
<1> QED BY <1>3, <1>4

(* poll_delivery begins the attempt of a record whose time has come. *)
LEMMA PollAttemptStep == Inv /\ PollAttempt => Inv'
<1> SUFFICES ASSUME Inv, PollAttempt PROVE Inv'
  OBVIOUS
<1>1. PICK op \in NextDue(now) : MayAttempt(op) /\ BeginAttempt(op)
  BY DEF PollAttempt
<1>2. op \in Ops
  BY DEF PollAttempt, PollReady, Inv, ScheduleIsTrue, Reflects, NextDue, NextDueAny
<1> QED BY <1>1, <1>2, BeginAttemptStep DEF PollAttempt, PollReady

-----------------------------------------------------------------------------
(* An attempt ends: the write of its outcome closes the connection. *)
LEMMA EndAttemptStep ==
  ASSUME Inv, work # None, NEW l, NEW r \in Records, WriteBox(work.op, r, l), EndAttempt,
         r.state # "InFlight", r.state = "Delivered" => r.object \in stored
  PROVE  Inv'
<1> DEFINE b == [box EXCEPT ![work.op] = r]
<1>0. work.op \in Ops
  BY DEF Inv, TypeOK, Attempts
<1>0a. /\ b \in [Ops -> Records \union {None}]
       /\ b[work.op] = r /\ \A p \in Ops \ {work.op} : b[p] = box[p]
  BY <1>0 DEF Inv, TypeOK
<1>1. /\ box' = box \/ box' = b
      /\ due' # Poisoned => box' = b /\ Reflects(due', box')
  BY <1>0, WriteBoxLeaves DEF Inv, WorkIsBacked
<1> HIDE DEF b
<1>2. /\ work' = None /\ wire' = NoWire /\ late' = late \cup ({wire.post} \ {None})
      /\ UNCHANGED <<granted, peer, up, enabled, bookOk, unlocked, ipc, host, now>>
  BY DEF EndAttempt
<1>3. TypeOK'
  BY <1>0a, <1>1, <1>2 DEF Inv, TypeOK, NoWire, ipc, host
<1>4. InState({"InFlight"}) = {work.op}
  BY DEF Inv, WorkIsBacked, ScheduleIsTrue
<1>5. ScheduleIsTrue'
  BY <1>0, <1>0a, <1>1, <1>2, <1>4 DEF ScheduleIsTrue, InState, Retained
<1>6. AttemptsCounted' /\ DeliveredIsStored'
  BY <1>0, <1>0a, <1>1, <1>2 DEF Inv, AttemptsCounted, DeliveredIsStored, InState, Retained, host
<1>7. DownIsEmpty' /\ WorkIsBacked' /\ WireIsBacked' /\ RevokedIsOff' /\ StopsAreHeld'
  BY <1>2 DEF Inv, DownIsEmpty, WorkIsBacked, WireIsBacked, RevokedIsOff, StopsAreHeld, NoWire, ipc
<1> QED BY <1>3, <1>5, <1>6, <1>7 DEF Inv

(* A receipt turns the record into Delivered: the recipient holds the      *)
(* object.                                                                 *)
LEMMA AcknowledgeStep == Inv /\ Acknowledge => Inv'
<1> SUFFICES ASSUME Inv, Acknowledge PROVE Inv'
  OBVIOUS
<1> DEFINE r == [box[work.op] EXCEPT !.state = "Delivered", !.at = 0]
<1>1. work # None /\ box[work.op] \in Records /\ box[work.op].object \in stored
  BY DEF Acknowledge, Inv, TypeOK, WorkIsBacked, WireIsBacked, Attempts
<1>2. r \in Records /\ r.state = "Delivered" /\ r.object = box[work.op].object
  BY <1>1, Zenon DEF Records, States
<1>3. WriteBox(work.op, r, left) /\ EndAttempt
  BY DEF Acknowledge
<1> HIDE DEF r
<1> QED BY <1>1, <1>2, <1>3, EndAttemptStep

(* An attempt that fails puts its record back to wait. *)
LEMMA RetryStep == ASSUME Inv, work # None, NEW l, Retry(l) PROVE Inv'
<1> DEFINE at == now + RetryDelay(box[work.op].attempts)
           r  == [box[work.op] EXCEPT !.state = "RetryWaiting", !.at = at]
<1>0. work.op \in Ops /\ box[work.op] \in Records
  BY DEF Inv, TypeOK, WorkIsBacked, Attempts
<1>1. box[work.op].attempts \in Nat \ {0}
  BY <1>0 DEF Inv, AttemptsCounted, WorkIsBacked, InState, Retained, Records
<1>2. at \in Nat
  BY <1>1, RetryDelayType DEF Inv, TypeOK
<1>3. WriteBox(work.op, r, l) /\ EndAttempt
  BY DEF Retry
<1> HIDE DEF at
<1>4. r \in Records /\ r.state = "RetryWaiting"
  BY <1>0, <1>2, Zenon DEF Records, States
<1> HIDE DEF r
<1> QED BY <1>3, <1>4, EndAttemptStep

(* A stop request, or a peer that cannot be reached, ends the attempt in a *)
(* retry.                                                                  *)
LEMMA InterruptedStep == Inv /\ (Interrupted \/ Unavailable) => Inv'
BY RetryStep DEF Interrupted, Unavailable

-----------------------------------------------------------------------------
(* The requests.  What serving one may do to the outbox: put in a queued   *)
(* record, cancel one, prune some; the cache follows or is given up.       *)
OutboxServed ==
  /\ box' \in [Ops -> Records \union {None}]
  /\ \A p \in Ops : box'[p] = box[p] \/ box'[p] = None \/ box'[p].state \in {"Queued", "Cancelled"}
  /\ due' # Poisoned => due # Poisoned /\ Reflects(due', box')

(* Outbox::enqueue prunes finished records only, and puts in a queued one. *)
LEMMA EnqueueServes ==
  ASSUME Inv, up, NEW op \in Ops, NEW o \in Objects, Enqueue(op, o)
  PROVE  OutboxServed
<1>1. PICK drop \in SUBSET InState(Terminal) :
        \/ PruneFails(drop)
        \/ due = Poisoned /\ box' = Pruned(drop) /\ UNCHANGED <<due, left>>
        \/ due # Poisoned /\ Write(Pruned(drop), CachePruned(drop), op, Record(o), left)
  BY Zenon DEF Enqueue, EnqueuePruning
<1>2. Record(o) \in Records /\ Record(o).state = "Queued"
  BY DEF Record, Records, States
<1>3. \A S : /\ Pruned(S) \in [Ops -> Records \union {None}]
             /\ \A p \in Ops : Pruned(S)[p] = box[p] \/ Pruned(S)[p] = None
  BY DEF Pruned, Inv, TypeOK
<1>4. CASE PruneFails(drop)
  <2>1. PICK x \in drop : box' \in {Pruned(drop), Pruned(drop \ {x})} /\ due' = CachePruned(drop \ {x})
    BY <1>4 DEF PruneFails
  <2>2. ASSUME due' # Poisoned PROVE due # Poisoned /\ Reflects(due', box')
    <3>1. due # Poisoned
      BY <2>1, <2>2 DEF CachePruned
    <3>2. drop \ {x} \in SUBSET InState(Terminal) /\ drop \ {x} \in SUBSET drop /\ drop \ {x} \in SUBSET (drop \ {x})
      OBVIOUS
    <3> QED BY <2>1, <3>1, <3>2, PruneReflects
  <2> QED BY <1>3, <2>1, <2>2, Zenon DEF OutboxServed
<1>5. CASE due = Poisoned /\ box' = Pruned(drop) /\ UNCHANGED <<due, left>>
  BY <1>3, <1>5 DEF OutboxServed
<1>6. CASE due # Poisoned /\ Write(Pruned(drop), CachePruned(drop), op, Record(o), left)
  <2> DEFINE b == [Pruned(drop) EXCEPT ![op] = Record(o)]
  <2>1. box' = Pruned(drop) \/ box' = b
    BY <1>6, Zenon DEF Write
  <2>2. /\ b \in [Ops -> Records \union {None}]
        /\ \A p \in Ops : b[p] = box[p] \/ b[p] = None \/ b[p].state \in {"Queued", "Cancelled"}
    BY <1>2, <1>3
  <2>3. Reflects(CachePruned(drop), Pruned(drop))
    BY <1>6, PruneReflects
  <2>4. due' # Poisoned => Reflects(due', box')
    BY <1>2, <1>3, <1>6, <2>3, WriteReflects
  <2> HIDE DEF b
  <2> QED BY <1>3, <1>6, <2>1, <2>2, <2>4 DEF OutboxServed
<1> QED BY <1>1, <1>4, <1>5, <1>6

(* Outbox::cancel leaves a cancelled record, and a cache that follows or   *)
(* is given up.                                                            *)
LEMMA CancelServes ==
  ASSUME Inv, up, NEW op \in Ops, box[op] # None, due = Poisoned => box[op].state = "Cancelled", Cancel(op)
  PROVE  OutboxServed
<1>1. CASE box[op].state = "Cancelled"
  BY <1>1 DEF Cancel, OutboxServed, Inv, TypeOK, ScheduleIsTrue
<1>2. CASE box[op].state # "Cancelled"
  <2> DEFINE r == [box[op] EXCEPT !.state = "Cancelled", !.at = 0]
             b == [box EXCEPT ![op] = r]
  <2>1. r \in Records /\ r.state = "Cancelled"
    <3>1. box[op] \in Records
      BY DEF Inv, TypeOK
    <3> QED BY <3>1, Zenon DEF Records, States
  <2>2. WriteBox(op, r, left)
    BY <1>2 DEF Cancel
  <2> HIDE DEF r
  <2>3. b[op] = r /\ b \in [Ops -> Records \union {None}] /\ \A p \in Ops \ {op} : b[p] = box[p]
    BY <2>1 DEF Inv, TypeOK
  <2>4. /\ box' = box \/ box' = b
        /\ due' # Poisoned => Reflects(due', box')
    BY <1>2, <2>1, <2>2, WriteBoxLeaves
  <2> HIDE DEF b
  <2> QED BY <1>2, <2>1, <2>3, <2>4 DEF OutboxServed, Inv, TypeOK
<1> QED BY <1>1, <1>2

(* And to the authority: the peer and the policy. *)
AuthorityServed ==
  /\ peer' \in Peers \union {None} /\ bookOk' \in BOOLEAN
  /\ granted' \in BOOLEAN /\ enabled' \in BOOLEAN /\ unlocked' \in BOOLEAN
  /\ enabled' => granted'
  /\ RevokedIsOff'

(* The record PeerBook::authorize writes for a root. *)
LEMMA AuthorizedPeer ==
  ASSUME NEW r \in Roots
  PROVE  LET p == [root |-> r, enabled |-> r = 0]
         IN  p \in Peers /\ p.root = r /\ (p.root = 1 => ~p.enabled)
<1> DEFINE e == r = 0
           p == [root |-> r, enabled |-> e]
<1>1. e \in BOOLEAN /\ (r = 1 => ~e)
  OBVIOUS
<1> HIDE DEF e
<1>2. p \in Peers /\ p.root = r /\ (p.root = 1 => ~p.enabled)
  BY <1>1 DEF Peers
<1> QED BY <1>2 DEF e

(* Each request of Core::handle, refused or carried out, stays within      *)
(* those limits.                                                           *)
LEMMA RequestServes ==
  ASSUME Inv, up, NEW q \in Requests, q.kind \notin {"Shutdown", "Attempt"}, Accepts(q), Effect(q)
  PROVE  OutboxServed /\ AuthorityServed
<1> USE DEF disk
<1>0. UNCHANGED <<box, due>> => OutboxServed
  BY DEF OutboxServed, Inv, TypeOK, ScheduleIsTrue
<1>1. UNCHANGED <<granted, peer, enabled, bookOk, unlocked>> => AuthorityServed
  BY DEF AuthorityServed, Inv, TypeOK, RevokedIsOff, WorkIsBacked
<1>2. CASE q.kind = "Queue"
  <2>1. q.op \in Ops /\ q.object \in Objects
    BY <1>2 DEF Requests
  <2> QED BY <1>1, <1>2, <2>1, EnqueueServes DEF Effect
<1>3. CASE q.kind = "Cancel"
  <2>1. q.op \in Ops
    BY <1>3 DEF Requests
  <2>2. box[q.op] # None /\ (due = Poisoned => box[q.op].state = "Cancelled")
    BY <1>3 DEF Accepts
  <2>3. Cancel(q.op) /\ UNCHANGED <<granted, peer, enabled, bookOk, unlocked>>
    BY <1>3 DEF Effect
  <2> QED BY <1>1, <2>1, <2>2, <2>3, CancelServes
<1>4. CASE q.kind = "Authorize"
  <2> DEFINE p == [root |-> q.root, enabled |-> q.root = 0]
  <2>1. WritePeer(p) /\ UNCHANGED <<box, granted, due, enabled, unlocked>>
    BY <1>4 DEF Effect
  <2>2. p \in Peers /\ (p.root = 1 => ~p.enabled)
    <3>1. q.root \in Roots
      BY <1>4 DEF Requests
    <3> QED BY <3>1, AuthorizedPeer
  <2> HIDE DEF p
  <2> QED BY <1>0, <2>1, <2>2, Zenon DEF WritePeer, AuthorityServed, Inv, TypeOK, RevokedIsOff, WorkIsBacked
<1>5. CASE q.kind = "Revoke"
  <2> DEFINE p == [peer EXCEPT !.enabled = FALSE]
  <2>1. WritePeer(p) /\ UNCHANGED <<box, granted, due, enabled, unlocked>>
    BY <1>5 DEF Effect
  <2>2. p \in Peers /\ ~p.enabled
    BY <1>5, Zenon DEF Accepts, Inv, TypeOK, Peers
  <2> HIDE DEF p
  <2> QED BY <1>0, <2>1, <2>2, Zenon DEF WritePeer, AuthorityServed, Inv, TypeOK, RevokedIsOff, WorkIsBacked
<1>6. CASE q.kind \in {"Enable", "Disable"}
  <2>1. SetEnabled(q.kind = "Enable") /\ UNCHANGED <<box, peer, due, bookOk, unlocked>>
    BY <1>6, Zenon DEF Effect
  <2>2. granted' \in BOOLEAN /\ enabled' \in BOOLEAN /\ (enabled' => granted')
    BY <2>1, Zenon DEF SetEnabled, Inv, TypeOK
  <2> QED BY <1>0, <2>1, <2>2 DEF AuthorityServed, Inv, TypeOK, RevokedIsOff
<1>7. CASE q.kind \in {"Unlock", "Lock"}
  <2>1. unlocked' \in BOOLEAN /\ UNCHANGED <<disk, due, enabled, bookOk, left>>
    BY <1>7, Zenon DEF Effect
  <2> QED BY <1>0, <2>1 DEF AuthorityServed, Inv, TypeOK, RevokedIsOff, WorkIsBacked
<1> QED BY <1>2, <1>3, <1>4, <1>5, <1>6, <1>7 DEF Requests

(* run_stdio serves a request and drops its guard. *)
LEMMA ServeRequestStep == Inv /\ ServeRequest => Inv'
<1> SUFFICES ASSUME Inv, ServeRequest PROVE Inv'
  OBVIOUS
<1> USE DEF net, host
<1>1. /\ up /\ work = None /\ slot \in Held /\ slot # None /\ wire = NoWire
      /\ UNCHANGED <<up, reader, work, net, host, now>> /\ slot' = None
  BY DEF ServeRequest, Inv, TypeOK, DownIsEmpty, WireIsBacked
<1>2. slot.request \in Requests
  BY <1>1 DEF Held
<1>3. OutboxServed /\ AuthorityServed
  <2>1. CASE Accepts(slot.request)
    BY <1>1, <1>2, <2>1, RequestServes DEF ServeRequest
  <2>2. CASE ~Accepts(slot.request)
    BY <1>1, <2>2 DEF ServeRequest, disk,
       OutboxServed, AuthorityServed, Inv, TypeOK, ScheduleIsTrue, RevokedIsOff, WorkIsBacked
  <2> QED BY <2>1, <2>2
<1>4. StopsAreHeld' /\ pending' \in Nat
  BY <1>1, DropGuard DEF ServeRequest
<1>5. TypeOK'
  BY <1>1, <1>3, <1>4 DEF Inv, TypeOK, OutboxServed, AuthorityServed
<1>6. /\ InState({"InFlight"})' \subseteq InState({"InFlight"})
      /\ InState({"Delivered"})' \subseteq InState({"Delivered"})
      /\ \A op \in InState({"InFlight", "Delivered"})' : box'[op] = box[op]
  BY <1>3 DEF OutboxServed, InState, Retained
<1>7. AttemptsCounted' /\ DeliveredIsStored'
  BY <1>1, <1>6 DEF Inv, AttemptsCounted, DeliveredIsStored, InState
<1>8. ScheduleIsTrue'
  BY <1>1, <1>3, <1>6 DEF Inv, ScheduleIsTrue, OutboxServed
<1>9. DownIsEmpty' /\ WorkIsBacked' /\ WireIsBacked'
  BY <1>1, <1>3 DEF DownIsEmpty, WorkIsBacked, WireIsBacked, AuthorityServed, NoWire
<1> QED BY <1>3, <1>4, <1>5, <1>7, <1>8, <1>9 DEF Inv, AuthorityServed

-----------------------------------------------------------------------------
(* The invariant holds in every behaviour. *)
LEMMA NextInv == Inv /\ [Next]_vars => Inv'
<1> SUFFICES ASSUME Inv, [Next]_vars PROVE Inv'
  OBVIOUS
<1>1. CASE UNCHANGED vars
  BY <1>1 DEF vars, disk, mem, ipc, net, host,
       Inv, TypeOK, DownIsEmpty, WorkIsBacked, WireIsBacked, AttemptsCounted, RevokedIsOff, StopsAreHeld,
       ScheduleIsTrue, DeliveredIsStored, InState, Retained, authorized_delivery_peer
<1>2. CASE Next
  BY <1>1, <1>2, ReadRequestStep, BackpressureStep, ForwardStep, ServeRequestStep, ServeAttemptStep,
     GoneStep, PollAttemptStep, DialStep, PostStep, AcknowledgeStep, InterruptedStep, LoseStep, IngestStep,
     WindowPassesStep, LateIngestStep, TickStep, StartStep DEF Next, PollIdle
<1> QED BY <1>1, <1>2

(* Every behaviour of the delivery service keeps Inv, through crashes,     *)
(* restarts and late frames.                                               *)
THEOREM InvHolds == Spec => []Inv
<1> QED BY InitInv, NextInv, PTL DEF Spec

(* Delivery's variables keep their types: in particular the stop count     *)
(* never falls below zero and a retry time is never undefined.             *)
THEOREM TypeCorrect == Spec => []TypeOK
<1>1. Inv => TypeOK
  BY DEF Inv
<1> QED BY InvHolds, <1>1, PTL

(* The stop count of DeliveryInterrupt is the number of guards alive, for  *)
(* any number of requests and wherever a crash or a shutdown falls.        *)
THEOREM StopsHeld == Spec => []StopsAreHeld
<1>1. Inv => StopsAreHeld
  BY DEF Inv
<1> QED BY InvHolds, <1>1, PTL

(* Until it is given up, the outbox's scheduling cache has the right entry *)
(* for every record and keeps only finished ones beyond that, and nothing  *)
(* but the running attempt is in flight, after any sequence of failed      *)
(* writes, failed removals, crashes and reopenings (Outbox::write,         *)
(* prune_terminal, Outbox::open).                                          *)
THEOREM ScheduleTrue == Spec => []ScheduleIsTrue
<1>1. Inv => ScheduleIsTrue
  BY DEF Inv
<1> QED BY InvHolds, <1>1, PTL

(* A record says Delivered only of an object the recipient holds           *)
(* (Core::attempt_delivery, the receipt of delivery_transport.rs).         *)
THEOREM DeliveredStored == Spec => []DeliveredIsStored
<1>1. Inv => DeliveredIsStored
  BY DEF Inv
<1> QED BY InvHolds, <1>1, PTL

(* Past the dial, an attempt has the grant, the unlocked identity and the  *)
(* authorized device it began with: serve_request and the attempt never    *)
(* run at once, so no revocation is applied under a running exchange.      *)
THEOREM SendsAuthorized == Spec => []SendsUnderAuthority
<1>1. Inv => SendsUnderAuthority
  BY DEF Inv, WorkIsBacked, SendsUnderAuthority
<1> QED BY InvHolds, <1>1, PTL

-----------------------------------------------------------------------------
(* What one step may do to the peer's record.                              *)
LEMMA PeerStep == Inv /\ Next =>
  \/ peer' = peer
  \/ peer' # None /\ (peer # None => peer'.root >= peer.root)
<1> SUFFICES ASSUME Inv, Next, peer' # peer
             PROVE  peer' # None /\ (peer # None => peer'.root >= peer.root)
  OBVIOUS
<1>1. ServeRequest
  BY DEF Next, ReadRequest, Backpressure, Forward, ServeAttempt, ServeShutdown, PollAttempt, PollIdle,
         Dial, Post, Acknowledge, Interrupted, Unavailable, Lose, Ingest, TooDear, WindowPasses, LateIngest,
         Tick, Crash, Start, BeginAttempt, Retry, EndAttempt, vars, disk
<1> DEFINE q == slot.request
<1>2. q \in Requests /\ Accepts(q) /\ Effect(q) /\ q.kind \notin {"Shutdown", "Attempt"}
  BY <1>1 DEF ServeRequest, disk, Inv, TypeOK, Held
<1> HIDE DEF q
<1>3. CASE q.kind = "Authorize"
  <2> DEFINE p == [root |-> q.root, enabled |-> q.root = 0]
  <2>1. peer' = p
    BY <1>2, <1>3 DEF Effect, WritePeer
  <2>2. p # None /\ p.root = q.root
    <3>1. q.root \in Roots
      BY <1>2, <1>3 DEF Requests
    <3> QED BY <3>1, AuthorizedPeer, NoneAssumption
  <2>3. peer # None => q.root >= peer.root
    BY <1>2, <1>3 DEF Accepts, Extends
  <2> HIDE DEF p
  <2> QED BY <2>1, <2>2, <2>3
<1>4. CASE q.kind = "Revoke"
  <2> DEFINE p == [peer EXCEPT !.enabled = FALSE]
  <2>1. peer' = p
    BY <1>2, <1>4 DEF Effect, WritePeer
  <2>2. peer \in Peers
    BY <1>2, <1>4 DEF Accepts, Inv, TypeOK
  <2>3. p \in Peers /\ p.root = peer.root /\ peer.root \in {0, 1}
    BY <2>2, Zenon DEF Peers, Roots
  <2> HIDE DEF p
  <2> QED BY <2>1, <2>3, NoneAssumption
<1>5. q.kind \in {"Authorize", "Revoke"}
  BY <1>2, Zenon DEF Effect, Requests, disk
<1> QED BY <1>3, <1>4, <1>5

(* The peer's root only moves forward, and the root that revokes carries   *)
(* no authority: once it is on record no request, failed write or restart  *)
(* brings the device back (PeerBook::authorize, PeerBook::revoke).         *)
THEOREM RevokedStaysOut == Spec => RevokedDeviceStaysOut
<1>1. Inv /\ Inv' /\ [Next]_vars => [peer # None /\ peer.root = 1 => ~authorized_delivery_peer']_vars
  <2> SUFFICES ASSUME Inv, Inv', Next, peer # None, peer.root = 1 PROVE ~authorized_delivery_peer'
    OBVIOUS
  <2>1. peer' # None /\ peer'.root >= 1
    BY PeerStep
  <2>2. peer'.root = 1
    BY <2>1 DEF Inv, TypeOK, Peers, Roots
  <2> QED BY <2>1, <2>2 DEF Inv, RevokedIsOff, authorized_delivery_peer
<1> QED BY InvHolds, <1>1, PTL DEF Spec, RevokedDeviceStaysOut

-----------------------------------------------------------------------------
(* What one step may do to a record of the outbox. *)
Kept ==
  \A op \in Ops : box[op] # None /\ box'[op] # box[op] =>
    \/ box[op].state \in Terminal /\ box'[op] = None
    \/ /\ box[op].state \notin Terminal /\ box'[op] # None
       /\ box'[op].object = box[op].object /\ box'[op].attempts >= box[op].attempts

(* Rewriting a record that is not finished loses no record and takes back  *)
(* no attempt.                                                             *)
LEMMA RewriteKeeps ==
  ASSUME Inv, NEW op \in Ops, box[op] # None, box[op].state \notin Terminal,
         NEW r \in Records, r.object = box[op].object, r.attempts >= box[op].attempts,
         NEW l, WriteBox(op, r, l)
  PROVE  Kept
<1>1. box' = box \/ box' = [box EXCEPT ![op] = r]
  BY WriteBoxLeaves
<1> QED BY <1>1, NoneAssumption DEF Kept, Inv, TypeOK

(* Beginning an attempt keeps every record. *)
LEMMA BeginKeeps == ASSUME Inv, NEW op \in Ops, MayAttempt(op), BeginAttempt(op) PROVE Kept
<1> DEFINE r == [box[op] EXCEPT !.state = "InFlight", !.attempts = box[op].attempts + 1, !.at = 0]
<1>1. box[op] \in Records /\ box[op] # None /\ box[op].state \notin Terminal
  BY DEF MayAttempt, Inv, TypeOK, Terminal
<1>3. r \in Records /\ r.object = box[op].object /\ r.attempts >= box[op].attempts
  <2> DEFINE n == box[op].attempts + 1
  <2>0. box[op].attempts \in Nat /\ n \in Nat
    BY <1>1 DEF Records
  <2> HIDE DEF n
  <2>1. r \in Records /\ r.object = box[op].object /\ r.attempts = n
    BY <1>1, <2>0, Zenon DEF Records, States, n
  <2> HIDE DEF r
  <2> QED BY <2>0, <2>1 DEF n
<1>4. WriteBox(op, r, left)
  BY DEF BeginAttempt
<1> HIDE DEF r
<1> QED BY <1>1, <1>3, <1>4, RewriteKeeps

(* Acknowledging an attempt keeps every record. *)
LEMMA AcknowledgeKeeps == ASSUME Inv, Acknowledge PROVE Kept
<1> DEFINE op == work.op
           r  == [box[op] EXCEPT !.state = "Delivered", !.at = 0]
<1>1. op \in Ops /\ box[op] \in Records /\ box[op] # None /\ box[op].state \notin Terminal
  BY DEF Acknowledge, Inv, TypeOK, Attempts, WorkIsBacked, Terminal
<1>2. r \in Records /\ r.object = box[op].object /\ r.attempts >= box[op].attempts
  <2>1. /\ box[op].attempts \in Nat
        /\ r \in Records /\ r.object = box[op].object /\ r.attempts = box[op].attempts
    BY <1>1, Zenon DEF Records, States
  <2> HIDE DEF r
  <2> QED BY <2>1
<1>3. WriteBox(op, r, left)
  BY DEF Acknowledge
<1> HIDE DEF r, op
<1> QED BY <1>1, <1>2, <1>3, RewriteKeeps

(* Rescheduling an attempt keeps every record. *)
LEMMA RetryKeeps == ASSUME Inv, work # None, NEW l, Retry(l) PROVE Kept
<1> DEFINE op == work.op
           at == now + RetryDelay(box[op].attempts)
           r  == [box[op] EXCEPT !.state = "RetryWaiting", !.at = at]
<1>1. op \in Ops /\ box[op] \in Records /\ box[op] # None /\ box[op].state = "InFlight"
  BY DEF Inv, TypeOK, Attempts, WorkIsBacked
<1>2. at \in Nat
  <2>1. box[op].attempts \in Nat \ {0}
    BY <1>1 DEF Inv, AttemptsCounted, InState, Retained, Records
  <2> QED BY <2>1, RetryDelayType DEF Inv, TypeOK
<1>3. WriteBox(op, r, l)
  BY DEF Retry
<1> HIDE DEF at
<1>5. r \in Records /\ r.object = box[op].object /\ r.attempts >= box[op].attempts
  <2>1. /\ box[op].attempts \in Nat
        /\ r \in Records /\ r.object = box[op].object /\ r.attempts = box[op].attempts
    BY <1>1, <1>2, Zenon DEF Records, States
  <2> HIDE DEF r
  <2> QED BY <2>1
<1> HIDE DEF r, op
<1> QED BY <1>1, <1>3, <1>5, RewriteKeeps DEF Terminal

(* Outbox::cancel marks a record and removes none. *)
LEMMA CancelKeeps ==
  ASSUME Inv, NEW op \in Ops, box[op] # None, box[op].state # "Delivered", Cancel(op) PROVE Kept
<1>1. CASE box[op].state = "Cancelled"
  BY <1>1 DEF Cancel, Kept
<1>2. CASE box[op].state # "Cancelled"
  <2> DEFINE r == [box[op] EXCEPT !.state = "Cancelled", !.at = 0]
  <2>1. box[op] \in Records /\ box[op].state \notin Terminal
    BY <1>2 DEF Inv, TypeOK, Terminal
  <2>3. r \in Records /\ r.object = box[op].object /\ r.attempts >= box[op].attempts
    <3>1. /\ box[op].attempts \in Nat
          /\ r \in Records /\ r.object = box[op].object /\ r.attempts = box[op].attempts
      BY <2>1, Zenon DEF Records, States
    <3> HIDE DEF r
    <3> QED BY <3>1
  <2>4. WriteBox(op, r, left)
    BY <1>2 DEF Cancel
  <2> HIDE DEF r
  <2> QED BY <2>1, <2>3, <2>4, RewriteKeeps
<1> QED BY <1>1, <1>2

(* Outbox::enqueue removes only records that are finished. *)
LEMMA EnqueueKeeps ==
  ASSUME Inv, NEW op \in Ops, NEW o \in Objects, box[op] = None, Enqueue(op, o) PROVE Kept
<1>1. PICK drop \in SUBSET InState(Terminal) :
        \/ PruneFails(drop)
        \/ due = Poisoned /\ box' = Pruned(drop) /\ UNCHANGED <<due, left>>
        \/ due # Poisoned /\ Write(Pruned(drop), CachePruned(drop), op, Record(o), left)
  BY Zenon DEF Enqueue, EnqueuePruning
<1>2. PICK S \in SUBSET drop : box' = Pruned(S) \/ box' = [Pruned(S) EXCEPT ![op] = Record(o)]
  <2>1. CASE PruneFails(drop)
    BY <2>1 DEF PruneFails
  <2>2. CASE ~PruneFails(drop)
    BY <1>1, <2>2, Zenon DEF Write
  <2> QED BY <2>1, <2>2
<1>3. \A p \in Ops \ {op} : \/ box'[p] = box[p]
                            \/ box'[p] = None /\ p \in InState(Terminal)
  BY <1>2, Zenon DEF Pruned
<1> QED BY <1>3 DEF Kept, InState

(* Outbox::open takes every record over. *)
LEMMA StartKeeps == ASSUME Inv, Start PROVE Kept
<1>1. PICK S \in SUBSET InState({"InFlight"}) : box' = Recover(S)
  BY DEF Start
<1> SUFFICES ASSUME NEW op \in Ops, op \in S
             PROVE  /\ box[op].state \notin Terminal /\ box'[op] # None
                    /\ box'[op].object = box[op].object /\ box'[op].attempts >= box[op].attempts
  BY <1>1 DEF Kept, Recover
<1> DEFINE r == [box[op] EXCEPT !.state = "RetryWaiting", !.at = 0]
<1>2. box[op] \in Records /\ box[op].state = "InFlight"
  BY DEF Inv, TypeOK, InState, Retained
<1>3. r \in Records /\ r.object = box[op].object /\ r.attempts >= box[op].attempts
  <2>1. /\ box[op].attempts \in Nat
        /\ r \in Records /\ r.object = box[op].object /\ r.attempts = box[op].attempts
    BY <1>2, Zenon DEF Records, States
  <2> HIDE DEF r
  <2> QED BY <2>1
<1>4. box'[op] = r
  BY <1>1 DEF Recover
<1> HIDE DEF r
<1> QED BY <1>2, <1>3, <1>4, NoneAssumption DEF Terminal

(* No step of the service drops a pending record, changes its object or    *)
(* forgets an attempt.                                                     *)
LEMMA NextKeeps == Inv /\ Next => Kept
<1> SUFFICES ASSUME Inv, Next PROVE Kept
  OBVIOUS
<1>1. box' = box => Kept
  BY DEF Kept
<1>2. CASE ServeRequest
  <2> DEFINE q == slot.request
  <2>1. q \in Requests
    BY <1>2 DEF ServeRequest, Inv, TypeOK, Held
  <2>2. ~Accepts(q) => box' = box
    BY <1>2 DEF ServeRequest, disk
  <2>3. Accepts(q) => Effect(q)
    BY <1>2 DEF ServeRequest
  <2>4. q.kind \notin {"Shutdown", "Attempt"}
    BY <1>2 DEF ServeRequest
  <2> HIDE DEF q
  <2>5. CASE Accepts(q) /\ q.kind = "Queue"
    <3>1. q.op \in Ops /\ q.object \in Objects
      BY <2>1, <2>5 DEF Requests
    <3>2. box[q.op] = None /\ Enqueue(q.op, q.object)
      BY <2>3, <2>5, Zenon DEF Accepts, Effect
    <3> QED BY <3>1, <3>2, EnqueueKeeps
  <2>6. CASE Accepts(q) /\ q.kind = "Cancel"
    <3>1. q.op \in Ops
      BY <2>1, <2>6 DEF Requests
    <3>2. box[q.op] # None /\ box[q.op].state # "Delivered" /\ Cancel(q.op)
      BY <2>3, <2>6 DEF Accepts, Effect
    <3> QED BY <3>1, <3>2, CancelKeeps
  <2>7. CASE Accepts(q) /\ q.kind \notin {"Queue", "Cancel"}
    BY <1>1, <2>1, <2>3, <2>4, <2>7, Zenon DEF Effect, Requests, disk
  <2> QED BY <1>1, <2>2, <2>5, <2>6, <2>7
<1>3. CASE ServeAttempt
  <2>1. slot.request.op \in Ops
    BY <1>3 DEF ServeAttempt, Inv, TypeOK, Held, Requests
  <2> QED BY <1>1, <1>3, <2>1, BeginKeeps DEF ServeAttempt, disk
<1>4. CASE PollAttempt
  <2>1. PICK op \in NextDue(now) : MayAttempt(op) /\ BeginAttempt(op)
    BY <1>4 DEF PollAttempt
  <2>2. op \in Ops
    BY <1>4 DEF PollAttempt, PollReady, Inv, ScheduleIsTrue, Reflects, NextDue, NextDueAny
  <2> QED BY <2>1, <2>2, BeginKeeps
<1>5. CASE Acknowledge \/ Interrupted \/ Unavailable \/ Start
  BY <1>5, AcknowledgeKeeps, RetryKeeps, StartKeeps DEF Interrupted, Unavailable
<1>6. CASE \/ \E q \in Requests : ReadRequest(q)
           \/ \E o \in Objects : LateIngest(o)
           \/ Backpressure \/ Forward \/ ServeShutdown \/ PollIdle \/ Dial \/ Post \/ Lose \/ Ingest
           \/ TooDear \/ WindowPasses \/ Tick \/ Crash
  BY <1>1, <1>6 DEF ReadRequest, LateIngest, Backpressure, Forward, ServeShutdown, PollIdle, Dial, Post,
         Lose, Ingest, TooDear, WindowPasses, Tick, Crash, vars, disk
<1> QED BY <1>2, <1>3, <1>4, <1>5, <1>6 DEF Next

(* An unfinished record is never pruned, rebound or set back, and only     *)
(* pruning takes a finished one away: for any number of records, wherever  *)
(* a write fails or the process dies (Outbox::enqueue, cancel, open).      *)
THEOREM PendingKept == Spec => PendingIsKept
<1>1. Inv /\ [Next]_vars =>
        [\A op \in Ops : box[op] # None /\ box'[op] # box[op] =>
           \/ box[op].state \in Terminal /\ box'[op] = None
           \/ /\ box[op].state \notin Terminal /\ box'[op] # None
              /\ box'[op].object = box[op].object /\ box'[op].attempts >= box[op].attempts]_vars
  BY NextKeeps DEF Kept
<1> QED BY InvHolds, <1>1, PTL DEF Spec, PendingIsKept
=============================================================================
