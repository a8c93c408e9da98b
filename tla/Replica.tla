------------------------------ MODULE Replica ------------------------------
(***************************************************************************)
(* The object store (mini-store, store.rs, cache.rs) as a device's replica *)
(* of what others publish: sync asks a peer for the objects it wants and   *)
(* inserts them, heads move a slot to the latest version, and the cache    *)
(* policy evicts what it may (mini-sync protocol.rs, mini-app-service      *)
(* cache_policy.rs).  One step is one file operation; an error or a crash  *)
(* ends an operation anywhere.                                             *)
(*                                                                         *)
(* Objects are content addressed and never change, so an object is its id; *)
(* what it links to and the sequence of a head are constants.  All are     *)
(* public, by one other author and verified.  Ages are left open: any      *)
(* object that is listed may have expired.                                 *)
(***************************************************************************)
EXTENDS Integers, Sequences, FiniteSets, FiniteSetsExt, SequencesExt

CONSTANTS
  Objects,   \* ids: integers, in the order of their text
  parent,    \* what an object links to, or 0
  sequence,  \* the sequence of a head; 0 for what is not a head
  MaxStops,  \* bound: operations cut short in a behaviour
  None

ReplicaAssumption ==
  /\ Objects \subseteq Nat \ {0} /\ IsFiniteSet(Objects)
  /\ parent \in [Objects -> Objects \union {0}] /\ sequence \in [Objects -> Nat]
  /\ MaxStops \in Nat

VARIABLES
  disk,      \* blobs/, the meta rows, head/ slot, evicted/ and cache/ rows
  todo,      \* the file operations still to do
  whole,     \* history: objects that were listed while their parent was held
  cut,       \* history: objects with a step that was never done
  stops      \* how many operations were cut short

vars == <<disk, todo, whole, cut, stops>>

-----------------------------------------------------------------------------
Step(what, o) == [what |-> what, object |-> o]
Steps(whats, o) == [i \in DOMAIN whats |-> Step(whats[i], o)]

(* Later heads win; equal sequences are decided by the id. *)
Newer(h, k) == sequence[h] > sequence[k] \/ (sequence[h] = sequence[k] /\ h > k)

SlotOfLastArrival(d, h) == h

Slot(d, h) == IF d.slot = None THEN h ELSE IF Newer(h, d.slot) THEN h ELSE d.slot

Done(d, s) ==
  LET o == s.object
  IN  CASE s.what = "put blob"    -> [d EXCEPT !.blobs = @ \union {o}]
        [] s.what = "put id"      -> [d EXCEPT !.ids = @ \union {o}]
        [] s.what = "put link"    -> [d EXCEPT !.links = @ \union {o}]
        [] s.what = "put time"    -> [d EXCEPT !.times = @ \union {o}]
        [] s.what = "slot"        -> [d EXCEPT !.slot = Slot(d, o)]
        [] s.what = "delete id"   -> [d EXCEPT !.ids = @ \ {o}]
        [] s.what = "delete link" -> [d EXCEPT !.links = @ \ {o}]
        [] s.what = "delete time" -> [d EXCEPT !.times = @ \ {o}]
        [] s.what = "mark"        -> [d EXCEPT !.evicted = @ \union {o}]
        [] s.what = "delete blob" -> [d EXCEPT !.blobs = @ \ {o}]

(* Store::insert and apply_head.  The author and type rows go with the id  *)
(* row; there is a link row for each link.                                 *)
IfLinked(step, o) == IF parent[o] # 0 THEN <<step>> ELSE <<>>

insert(o) ==
  Steps(<<"put blob", "put id">> \o IfLinked("put link", o) \o <<"put time">>
          \o (IF sequence[o] > 0 THEN <<"slot">> ELSE <<>>), o)

EvictContentFirst(o) ==
  Steps(<<"delete blob", "delete id">> \o IfLinked("delete link", o) \o <<"delete time", "mark">>, o)

evict(o) ==
  Steps(<<"delete id">> \o IfLinked("delete link", o) \o <<"delete time", "mark", "delete blob">>, o)

(* linking_to reads the link rows. *)
linking_to(o) == {c \in disk.links : parent[c] = o}

wants(o) == o \notin disk.blobs /\ o \notin disk.evicted

-----------------------------------------------------------------------------
Init ==
  /\ disk = [blobs |-> {}, ids |-> {}, links |-> {}, times |-> {}, slot |-> None,
             evicted |-> {}, pinned |-> {}]
  /\ todo = <<>> /\ whole = {} /\ cut = {} /\ stops = 0

Idle == todo = <<>>

Whole(d) == {o \in d.ids : parent[o] \in d.blobs}

(* ingest_objects: what a peer offers arrives in any order. *)
Ingest(o) ==
  /\ Idle /\ wants(o)
  /\ todo' = insert(o)
  /\ whole' = whole \ {o} /\ cut' = cut \ {o}
  /\ UNCHANGED <<disk, stops>>

(* evict_expired.  Members that something outside the set links to are     *)
(* dropped until none is left; evict_cached checks again and goes through  *)
(* the set in the order of the ids.                                        *)
ClosedAnyway(S) == TRUE

Closed(S) == \A o \in S : linking_to(o) \subseteq S

Evictable == {o \in disk.ids \ disk.pinned : sequence[o] = 0}

Evict(S) ==
  /\ Idle /\ S # {} /\ S \subseteq Evictable /\ Closed(S)
  /\ todo' = FoldLeft(LAMBDA t, o : t \o evict(o), <<>>, SetToSortSeq(S, <))
  /\ UNCHANGED <<disk, whole, cut, stops>>

(* prune_eviction_markers and forget_eviction. *)
ForgetEviction(o) ==
  /\ Idle /\ o \in disk.evicted
  /\ disk' = [disk EXCEPT !.evicted = @ \ {o}]
  /\ UNCHANGED <<todo, whole, cut, stops>>

(* set_cache_tier: kept by its owner, or ephemeral.  Heads are never       *)
(* evicted, so their tier does not matter.                                 *)
SetTier(o, keep) ==
  /\ Idle /\ sequence[o] = 0 /\ keep # (o \in disk.pinned)
  /\ disk' = [disk EXCEPT !.pinned = IF keep THEN @ \union {o} ELSE @ \ {o}]
  /\ UNCHANGED <<todo, whole, cut, stops>>

DoStep ==
  /\ todo # <<>>
  /\ disk' = Done(disk, Head(todo)) /\ todo' = Tail(todo)
  /\ whole' = IF todo' = <<>> THEN (whole \intersect disk'.ids) \union Whole(disk') ELSE whole
  /\ UNCHANGED <<cut, stops>>

(* An error or a crash: the step under way may be done, the rest is not.   *)
Stop ==
  /\ todo # <<>> /\ stops < MaxStops
  /\ disk' \in {disk, Done(disk, Head(todo))}
  /\ cut' = cut \union {s.object : s \in Range(todo)}
  /\ todo' = <<>> /\ stops' = stops + 1
  /\ UNCHANGED whole

Next ==
  \/ \E o \in Objects : Ingest(o) \/ ForgetEviction(o) \/ \E b \in BOOLEAN : SetTier(o, b)
  \/ \E S \in SUBSET Objects : Evict(S)
  \/ DoStep \/ Stop

Spec == Init /\ [][Next]_vars

-----------------------------------------------------------------------------
(* The model's variables keep their types. *)
TypeOK ==
  /\ disk \in [blobs : SUBSET Objects, ids : SUBSET Objects, links : SUBSET Objects,
               times : SUBSET Objects, slot : Objects \union {None},
               evicted : SUBSET Objects, pinned : SUBSET Objects]
  /\ disk.slot # None => sequence[disk.slot] > 0
  /\ whole \subseteq Objects /\ cut \subseteq Objects /\ stops \in 0..MaxStops

(* No index row names an object whose content is gone, wherever an insert  *)
(* or an eviction was cut short: readers that enumerate rows never fail.   *)
ListedHasContent == disk.ids \union disk.links \union disk.times \subseteq disk.blobs

KeepParent(S) == Idle => \A o \in S \intersect disk.ids : parent[o] \in disk.blobs

(* A reply that stays keeps the parent it had, wherever other operations   *)
(* were cut short, unless its own insert or eviction was: the set that is  *)
(* evicted is closed under the replies that have their link row.           *)
RepliesKeepParents == KeepParent(whole \ cut)

(* The same of every reply (evict_cached: "so a retained reply never loses *)
(* its parent").  False: an eviction that stops after the parent leaves    *)
(* the reply, and an insert that stops before the link row leaves a reply  *)
(* that nobody sees when its parent expires.                               *)
RetainedKeepsParent == KeepParent(whole)

Heads    == {o \in Objects : sequence[o] > 0}
Names(H) == \A h \in H : disk.slot # None /\ (h = disk.slot \/ Newer(disk.slot, h))

(* The slot names the latest of the heads the replica holds, in whatever   *)
(* order they arrived, ties included (apply_head), wherever other inserts  *)
(* were cut short.                                                         *)
HeadsConverge == Idle => Names((Heads \intersect disk.ids) \ cut)

(* A replica that a sync has nothing left to give has the slot that every  *)
(* replica has (apply_head: "deterministic on every replica"; mini-sync:   *)
(* "an interrupted sync loses nothing").  False: a head whose insert       *)
(* stopped after its blob is not wanted again, and nothing else moves the  *)
(* slot to it.                                                             *)
SyncedHeadsConverge == Idle /\ (\A h \in Heads : ~wants(h)) => Names(Heads)
=============================================================================
