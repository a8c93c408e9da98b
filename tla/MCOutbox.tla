------------------------------ MODULE MCOutbox ------------------------------
(***************************************************************************)
(* Delivery for TLC with an outbox of one record that is full, two         *)
(* requests and one file operation that fails.                             *)
(***************************************************************************)
EXTENDS Delivery

CONSTANT a

MCOps      == 1..2
MCOutboxes == {<<Record(a), None>>}
MCBudgets  == {[requests |-> 2, drops |-> 0, faults |-> 1, crashes |-> 0]}
=============================================================================
