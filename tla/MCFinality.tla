----------------------------- MODULE MCFinality -----------------------------
(***************************************************************************)
(* What a height decides and what its block then does, for TLC: a          *)
(* behaviour is either the votes of one height, or the ledger and its      *)
(* clients over blocks that are decided.                                   *)
(***************************************************************************)
EXTENDS MCVoting, MCAccounts

CONSTANT NoClaim

VARIABLES
  component,
  \* Settlement, and the Ledger it extends
  ledger, height, pool, reserved, now, won, fresh,
  client, journal, open, outgoing, sent, crashes, work

settlement   == <<ledger, height, pool, reserved, now, won, fresh,
                  client, journal, open, outgoing, sent, crashes, work>>
finalityVars == <<component, vars, settlement>>

Settlement == INSTANCE Settlement WITH
  Accounts <- {1, 2, 3}, Claims <- MCClaims, Spends <- MCSpends,
  Allocation <- MCAllocation, Funding <- MCFunding,
  MaxPool <- 3, MaxPerPayer <- 2, MaxBody <- 2, MaxHeight <- 2, MaxIssued <- 1, EndOfTime <- 1,
  Payouts <- MCPayouts, Escrow <- MCEscrow, Deadline <- 1, MaxCrashes <- 1

ASSUME Settlement!LedgerAssumption /\ Settlement!SettlementAssumption

FinalityInit ==
  /\ component \in {"voting", "ledger"}
  /\ Init /\ Settlement!Init
  /\ component = "voting" => client = "none"

VotingNext == component = "voting" /\ Next /\ UNCHANGED <<component, settlement>>
LedgerNext == component = "ledger" /\ Settlement!Next /\ UNCHANGED <<component, vars>>

FinalitySpec == FinalityInit /\ [][VotingNext \/ LedgerNext]_finalityVars

-----------------------------------------------------------------------------
(* The properties are Voting's, and the ledger's and its clients'; see the *)
(* modules.                                                                *)

(* Every balance is what the winning claims make it, and no payer wins     *)
(* twice with one sequence number.                                         *)
MoneyFollowsWinners == component = "ledger" => Settlement!MoneyFollowsWinners

(* A state that blocks can produce is one that a snapshot can bring back.  *)
EveryStateRestores == component = "ledger" => Settlement!EveryStateRestores

(* After a revalidation every prefix of the candidates executes in full.   *)
PoolExecutes == component = "ledger" => Settlement!PoolExecutes

(* An allocation is paid at most once, and Finalized means paid.           *)
PaidOnce == component = "ledger" => Settlement!PaidOnce
=============================================================================
