----------------------------- MODULE MCService -----------------------------
(***************************************************************************)
(* The application service for TLC: delivery and publishing, and the store *)
(* below it with its time index.  They share no state here, so each        *)
(* behaviour runs the component that its initial state names, and the      *)
(* others stay where they start.                                           *)
(***************************************************************************)
EXTENDS Delivery

CONSTANTS Unlocking, a, b, o1, o2, post, reply, profile, photo

VARIABLES
  component,
  \* Publish
  account, service, identity, next, request, writes, replayed, told, offer, failures,
  \* TimeIndex
  index, update, stage, indexing, raced,
  \* Replica
  replica, storing, whole, cut, stops

publish     == <<account, service, identity, next, request, writes, replayed, told, offer, failures>>
timeIndex   == <<index, update, stage, indexing, raced>>
store       == <<replica, storing, whole, cut, stops>>
serviceVars == <<component, vars, publish, timeIndex, store>>

-----------------------------------------------------------------------------
(* Two queued objects in an outbox that they fill, or an empty outbox, in  *)
(* which nothing is due; each budget brings a different mix of requests    *)
(* and trouble.                                                            *)
MCOps      == 1..3
MCObjects  == {a, b}
MCOutboxes == {<<Record(a), Record(b), None>>, <<None, None, None>>}

Budget(r, d, f, c) == [requests |-> r, drops |-> d, faults |-> f, crashes |-> c]
MCBudgets == {Budget(2, 0, 0, 0), Budget(1, 1, 1, 1)}

Inputs   == {post, reply, profile, photo}
MCKind   == [i \in Inputs |-> CASE i = post -> "plain" [] i = reply -> "reply"
                                [] i = profile -> "head" [] i = photo -> "photo"]
MCOffers == {{post, reply}, {profile, photo}}

Publish == INSTANCE Publish WITH
  disk <- account, up <- service, unlocked <- identity, todo <- writes,
  Ops <- {o1, o2}, kind <- MCKind, Offers <- MCOffers,
  MAX_PENDING_OPERATIONS <- 1, MaxSequence <- 4, Imports <- {2, 4}, MaxFailures <- 2

TimeIndex == INSTANCE TimeIndex WITH
  disk <- index, op <- update, todo <- indexing,
  Keys <- 1..3, MAX_DELTA_RECORDS <- 2, MAX_INDEX_DIRECTORY_ENTRIES <- 8

(* A post, a reply whose id comes after it, and three heads, of which two  *)
(* have the same sequence.                                                 *)
Replica == INSTANCE Replica WITH
  disk <- replica, todo <- storing,
  Objects <- 1..5, parent <- <<0, 1, 0, 0, 0>>, sequence <- <<0, 0, 2, 1, 2>>, MaxStops <- 2

ASSUME Publish!PublishAssumption /\ TimeIndex!TimeIndexAssumption /\ Replica!ReplicaAssumption

ServiceInit ==
  /\ component \in {"delivery", "publish", "time index", "replica"}
  /\ Init /\ Publish!Init /\ TimeIndex!Init /\ Replica!Init
  /\ component # "delivery" => box[1] = None /\ left = Budget(1, 1, 1, 1)
  /\ component # "publish" => offer = {post, reply}
  /\ component # "time index" => index.rows = {}
  /\ component = "delivery" => box[1] # None

ServiceNext ==
  \/ component = "delivery" /\ Next /\ UNCHANGED <<component, publish, timeIndex, store>>
  \/ component = "publish" /\ Publish!Next /\ UNCHANGED <<component, vars, timeIndex, store>>
  \/ component = "time index" /\ TimeIndex!Next /\ UNCHANGED <<component, vars, publish, store>>
  \/ component = "replica" /\ Replica!Next /\ UNCHANGED <<component, vars, publish, timeIndex>>

ServiceSpec ==
  /\ ServiceInit /\ [][ServiceNext]_serviceVars
  /\ Fairness
  /\ component = "publish" => Publish!Fairness

-----------------------------------------------------------------------------
(* The properties are the components' own; see the modules. *)

(* The variables of every component keep their types. *)
ServiceTypeOK == TypeOK /\ Publish!TypeOK /\ TimeIndex!TypeOK /\ Replica!TypeOK

(* A retried request is signed into one mutation. *)
SignedOnce == Publish!SignedOnce

(* No sequence number is handed out twice. *)
SequenceUnique == Publish!SequenceUnique

(* What was reported as published stays published. *)
ReportedIsPublished == Publish!ReportedIsPublished

(* A query answers what a scan of the rows would. *)
QueryExact == TimeIndex!QueryExact

(* The delta and the directory stay within their limits. *)
IndexIsBounded == TimeIndex!IndexIsBounded

(* No row names an object whose content is gone. *)
ListedHasContent == Replica!ListedHasContent

(* Eviction takes no parent from a reply that stays. *)
RepliesKeepParents == Replica!RepliesKeepParents

(* The slot names the latest head, in any arrival order. *)
HeadsConverge == Replica!HeadsConverge

(* A service that went down opens again, while there are numbers left. *)
Reopens == component = "publish" => Publish!Reopens
=============================================================================
