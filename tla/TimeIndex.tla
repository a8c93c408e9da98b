----------------------------- MODULE TimeIndex -----------------------------
(***************************************************************************)
(* The ordered side index of the object store (mini-store, time_index.rs): *)
(* an immutable sorted base, a short append-only delta, a manifest and a   *)
(* journal of one key, beside the authoritative idx/time/ metadata rows.   *)
(* Every operation takes the file lock, repairs the index (prepare) and    *)
(* then does its work; rows are deleted without the lock.                  *)
(*                                                                         *)
(* One step is one file operation.  Power loss, a killed process and an    *)
(* I/O error all end the operation between two steps or in the middle of   *)
(* one: nothing is kept in memory, so they are one action, Stop.  Removing *)
(* a file is not flushed, and may be undone by a power loss; nothing but   *)
(* row deletions can come before the next flush of the directory, so that  *)
(* leaves no other state than stopping at the removal.  Damage to files    *)
(* that no interrupted operation causes is not modelled.                   *)
(***************************************************************************)
EXTENDS Integers, Sequences, FiniteSets, SequencesExt

CONSTANTS
  Keys,                         \* row keys: a set of positive integers
  MAX_DELTA_RECORDS,
  MAX_INDEX_DIRECTORY_ENTRIES,
  None

TimeIndexAssumption ==
  /\ Keys \subseteq Nat \ {0} /\ IsFiniteSet(Keys) /\ None \notin Keys
  /\ MAX_DELTA_RECORDS \in Nat \ {0} /\ MAX_INDEX_DIRECTORY_ENTRIES \in Nat

VARIABLES
  disk,      \* the rows and the files of the index
  op,        \* the operation that holds the lock: what it is and its key
  stage,     \* how far it is
  todo,      \* the file operations before its next decision
  raced      \* a row was deleted after the query decided to rebuild

vars == <<disk, op, stage, todo, raced>>

-----------------------------------------------------------------------------
(* File operations. *)
Step(what, arg) == [what |-> what, arg |-> arg]

Manifest(g, b, d) == [generation |-> g, base_count |-> b, delta_count |-> d]

Put(f, x, y) == [z \in DOMAIN f \union {x} |-> IF z = x THEN y ELSE f[z]]
Without(f, S) == [z \in DOMAIN f \ S |-> f[z]]

(* atomic_write and BaseWriter::new replace a temporary left behind. *)
Temp(s) ==
  CASE s.what \in {"base", "scan"} -> {<<"base", IF s.what = "scan" THEN 1 ELSE s.arg.generation>>}
    [] s.what \in {"pending", "manifest", "delta", "marker"} -> {<<s.what, 0>>}
    [] s.what = "manifest of scan" -> {<<"manifest", 0>>}
    [] OTHER -> {}

Done(d, s) ==
  LET e == [d EXCEPT !.temps = @ \ Temp(s)]
  IN  CASE s.what = "pending"  -> [e EXCEPT !.pending = s.arg]
        [] s.what = "clear"    -> [e EXCEPT !.pending = None]
        [] s.what = "row"      -> [e EXCEPT !.rows = @ \union {s.arg}]
        [] s.what = "append"   -> [e EXCEPT !.delta = Append(@, s.arg)]
        [] s.what = "truncate" -> [e EXCEPT !.delta = SubSeq(@, 1, s.arg)]
        [] s.what = "delta"    -> [e EXCEPT !.delta = <<>>, !.torn = FALSE]
        [] s.what = "manifest" -> [e EXCEPT !.manifest = s.arg]
        [] s.what = "manifest of scan" -> [e EXCEPT !.manifest = Manifest(1, Cardinality(e.bases[1]), 0)]
        [] s.what = "marker"   -> [e EXCEPT !.marker = TRUE]
        [] s.what = "base"     -> [e EXCEPT !.bases = Put(@, s.arg.generation, s.arg.keys)]
        [] s.what = "scan"     -> [e EXCEPT !.bases = Put(@, 1, e.rows)]
        [] s.what = "remove"   -> [e EXCEPT !.bases = Without(@, s.arg)]
        [] s.what = "sweep"    -> [e EXCEPT !.bases = Without(@, DOMAIN @ \ {s.arg}), !.temps = {}]

(* What an interrupted step may leave instead. *)
Interrupted(d, s) ==
  {d, [d EXCEPT !.temps = @ \union Temp(s)]}
    \union (IF s.what = "append" THEN {[d EXCEPT !.torn = TRUE]} ELSE {})
    \union (IF s.what \in {"remove", "sweep"}
            THEN {[d EXCEPT !.bases = Without(@, S)] :
                    S \in SUBSET (IF s.what = "remove" THEN s.arg ELSE DOMAIN d.bases \ {s.arg})}
            ELSE {})

After(d, steps) == FoldLeft(Done, d, steps)

-----------------------------------------------------------------------------
(* Reading the index. *)
Base(d)  == d.bases[d.manifest.generation]
Delta(d) == {d.delta[i] : i \in 1..d.manifest.delta_count}

contains_key(d, k) == k \in Base(d) \union Delta(d)

validate_base(d) ==
  /\ d.manifest.generation \in DOMAIN d.bases
  /\ Cardinality(Base(d)) = d.manifest.base_count

(* What makes prepare give the index up. *)
Broken(d) ==
  \/ ~d.marker \/ d.manifest = None \/ d.delta = None
  \/ ~validate_base(d)
  \/ d.torn \/ Len(d.delta) > MAX_DELTA_RECORDS + 1
  \/ Len(d.delta) < d.manifest.delta_count
  \/ Len(d.delta) > d.manifest.delta_count + (IF d.pending = None THEN 0 ELSE 1)
  \/ d.manifest.delta_count > MAX_DELTA_RECORDS

-----------------------------------------------------------------------------
(* The operations, as the steps they take from a disk. *)
rebuild(d) ==
  << Step("sweep", 0), Step("scan", 0), Step("delta", 0), Step("manifest of scan", 0),
     Step("marker", 0), Step("clear", 0) >>

compact(d) ==
  LET next == d.manifest.generation + 1
      keys == Base(d) \union Delta(d)
  IN  << Step("remove", {next}), Step("base", [generation |-> next, keys |-> keys]),
         Step("delta", 0), Step("manifest", Manifest(next, Cardinality(keys), 0)),
         Step("remove", {d.manifest.generation}), Step("sweep", next) >>

compact_if_full(d) ==
  IF d.manifest.delta_count >= MAX_DELTA_RECORDS THEN compact(d) ELSE <<>>

append_delta(d, k) ==
  LET full == compact_if_full(d)
      m    == After(d, full).manifest
  IN  full \o << Step("append", k), Step("manifest", [m EXCEPT !.delta_count = @ + 1]) >>

(* Put the key of an interrupted write in the index, or forget it. *)
recover_pending(d) ==
  LET k == d.pending
      n == d.manifest.delta_count
      clear == << Step("clear", 0) >>
  IN  IF Len(d.delta) = n + 1
      THEN IF d.delta[n + 1] # k THEN rebuild(d)
           ELSE IF k \in d.rows
                THEN << Step("manifest", [d.manifest EXCEPT !.delta_count = n + 1]) >> \o clear
                ELSE << Step("truncate", n) >> \o clear
      ELSE (IF k \in d.rows /\ ~contains_key(d, k) THEN append_delta(d, k) ELSE <<>>) \o clear

PrepareWithoutSweep(d) ==
  IF Broken(d) THEN rebuild(d)
  ELSE LET recovery == IF d.pending = None THEN <<>> ELSE recover_pending(d)
       IN  recovery \o compact_if_full(After(d, recovery))

prepare(d) ==
  IF Broken(d) THEN rebuild(d)
  ELSE LET recovery == IF d.pending = None THEN <<>> ELSE recover_pending(d)
           e        == After(d, recovery)
           full     == compact_if_full(e)
       IN  recovery \o full \o << Step("sweep", After(e, full).manifest.generation) >>

(* put_time_meta once the row is written. *)
index_row(d, k) ==
  LET added == IF contains_key(d, k) THEN <<>> ELSE append_delta(d, k)
      steps == added \o << Step("clear", 0) >>
  IN  steps \o compact_if_full(After(d, steps))

-----------------------------------------------------------------------------
(* Queries: list the first limit rows after a cursor (page), or the last   *)
(* limit rows (last).  Each takes its candidates from the delta and from   *)
(* the base, limit of them, and looks every candidate up.                  *)
Queries ==
  [forward : BOOLEAN, after : {0} \union Keys, limit : 1..Cardinality(Keys)]

Ahead(q, j, k) == IF q.forward THEN j < k ELSE j > k
First(q, S) == {k \in S : Cardinality({j \in S : Ahead(q, j, k)}) < q.limit}
Eligible(q, S) == {k \in S : q.forward => k > q.after}

Candidates(q) == Eligible(q, Delta(disk)) \union First(q, Eligible(q, Base(disk)))

resolve_candidates(q) == First(q, Candidates(q) \intersect disk.rows)

Stale(q) ==
  \E k \in Candidates(q) \ disk.rows :
    Cardinality({j \in Candidates(q) \intersect disk.rows : Ahead(q, j, k)}) < q.limit

-----------------------------------------------------------------------------
NoOp == [kind |-> "none", key |-> None]

Init ==
  /\ disk \in [rows : SUBSET Keys, marker : {FALSE}, pending : {None}, manifest : {None},
               bases : {<<>>}, delta : {None}, torn : {FALSE}, temps : {{}}]
  /\ op = NoOp /\ stage = "idle" /\ todo = <<>> /\ raced = FALSE

(* with_locked. *)
Lock(o) ==
  /\ op = NoOp
  /\ op' = o /\ stage' = "prepared" /\ todo' = prepare(disk) /\ raced' = FALSE
  /\ UNCHANGED disk

DoStep ==
  /\ todo # <<>>
  /\ disk' = Done(disk, Head(todo)) /\ todo' = Tail(todo)
  /\ UNCHANGED <<op, stage, raced>>

Continue(at, next, steps) ==
  /\ todo = <<>> /\ stage = at
  /\ stage' = next /\ todo' = steps
  /\ UNCHANGED <<disk, op, raced>>

Unlock ==
  /\ op' = NoOp /\ stage' = "idle" /\ todo' = <<>> /\ raced' = FALSE

WriteRowFirst ==
  /\ op.kind = "put"
  /\ Continue("prepared", "written", << Step("row", op.key), Step("pending", op.key) >>)

WriteRow ==
  /\ op.kind = "put"
  /\ Continue("prepared", "written", << Step("pending", op.key), Step("row", op.key) >>)

IndexRow == Continue("written", "indexed", index_row(disk, op.key))

(* FsBackend::rebuild_time_index, which also ends an eviction. *)
Rebuild == op.kind = "rebuild" /\ Continue("prepared", "indexed", rebuild(disk))

Requery ==
  /\ op.kind = "query"
  /\ Continue("prepared", "again", rebuild(disk))
  /\ \E q \in Queries : Stale(q)

Answering == op.kind = "query" /\ todo = <<>>

Answer ==
  /\ Answering
  /\ stage = "prepared" => \E q \in Queries : ~Stale(q)
  /\ Unlock /\ UNCHANGED disk

Finish ==
  /\ todo = <<>> /\ stage = "indexed"
  /\ Unlock /\ UNCHANGED disk

(* Store::evict_cached deletes rows without the index's lock. *)
DeleteRow(k) ==
  /\ k \in disk.rows
  /\ disk' = [disk EXCEPT !.rows = @ \ {k}]
  /\ raced' = (stage = "again")
  /\ UNCHANGED <<op, stage, todo>>

Stop ==
  /\ todo # <<>>
  /\ disk' \in Interrupted(disk, Head(todo))
  /\ Unlock

Operations == [kind : {"put"}, key : Keys] \union [kind : {"query", "rebuild"}, key : {None}]

Next ==
  \/ \E o \in Operations : Lock(o)
  \/ DoStep \/ WriteRow \/ IndexRow \/ Rebuild \/ Requery \/ Answer \/ Finish
  \/ \E k \in Keys : DeleteRow(k)
  \/ Stop

Spec == Init /\ [][Next]_vars

-----------------------------------------------------------------------------
(* The model's variables keep their types. *)
TypeOK ==
  /\ disk.rows \subseteq Keys /\ disk.pending \in Keys \union {None}
  /\ disk.delta # None => Range(disk.delta) \subseteq Keys
  /\ \A g \in DOMAIN disk.bases : g \in Nat \ {0} /\ disk.bases[g] \subseteq Keys
  /\ op = NoOp \/ op \in Operations
  /\ stage \in {"idle", "prepared", "written", "again", "indexed"}

(* A page, or the list of the last rows, is what a scan of the             *)
(* authoritative rows would give: no row is missing, after any             *)
(* interruption and any eviction (page, last, resolve_candidates).  Only a *)
(* row deleted while a query rebuilds may cut its answer short, and even   *)
(* then the answer holds every row before the last one it lists.           *)
QueryExact ==
  Answering => \A q \in Queries : stage = "again" \/ ~Stale(q) =>
    LET answer == resolve_candidates(q)
        rows   == Eligible(q, disk.rows)
    IN  /\ raced \/ answer = First(q, rows)
        /\ \A k \in answer : {j \in rows : Ahead(q, j, k)} \subseteq answer

(* The index stays bounded when every operation is interrupted: the delta  *)
(* is short enough to make a query cheap (compact, append_delta), and the  *)
(* temporaries and orphaned bases never fill the directory up to the limit *)
(* at which cleanup_orphan_bases and clear_base_files refuse to work, from *)
(* which no later operation could recover.                                 *)
IndexIsBounded ==
  /\ stage = "prepared" /\ todo = <<>> => disk.manifest.delta_count < MAX_DELTA_RECORDS
  /\ 5 + Cardinality(DOMAIN disk.bases) + Cardinality(disk.temps) <= MAX_INDEX_DIRECTORY_ENTRIES
=============================================================================
