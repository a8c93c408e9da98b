------------------------------ MODULE MCLedger ------------------------------
(* The ledger and its clients for TLC, where the recipient makes another payment  *)
(* after the one that is in escrow.                                               *)
EXTENDS Settlement, MCAccounts

LaterToo == MCClaims \cup {Claim(2, 3, 1, 2, 2, "none")}
=============================================================================
