----------------------------- MODULE MCAccounts -----------------------------
(* A treasury (1), its recipient (2) and a third account (3). Two claims pay the  *)
(* same allocation; others conflict with them, pay it back, pay oneself, pay      *)
(* nothing or are not for this ledger. Of the shielded claims two want the same   *)
(* image, two create the same output, and one does not verify.                    *)
EXTENDS Naturals, TLC

Claim(payer, payee, amount, sequence, until, flaw) ==
    [payer |-> payer, payee |-> payee, amount |-> amount, sequence |-> sequence,
     until |-> until, flaw |-> flaw]

MCPayouts == {Claim(1, 2, 1, 1, 2, "none"), Claim(1, 2, 1, 2, 2, "none")}
MCEscrow == Claim(2, 1, 1, 1, 2, "none")
MCClaims == MCPayouts \cup
    {MCEscrow,
     Claim(1, 3, 2, 1, 1, "none"),      \* the treasury's other payment
     Claim(1, 1, 1, 3, 2, "none"),      \* to itself
     Claim(2, 3, 0, 1, 2, "none"),      \* of nothing
     Claim(2, 1, 1, 3, 2, "network")}
MCAllocation == (1 :> 2) @@ (2 :> 1)

Spend(images, ring, outputs, fee, valid) ==
    [images |-> images, ring |-> ring, outputs |-> outputs, fee |-> fee, valid |-> valid]
MCSpends ==
    {Spend({"i"}, {"o", "p"}, {"q"}, 1, TRUE),
     Spend({"i", "j"}, {"o", "p"}, {"r"}, 0, TRUE),
     Spend({"k"}, {"q"}, {"r"}, 1, TRUE),
     Spend({"l"}, {"o"}, {"s"}, 0, FALSE)}
MCFunding == ("o" :> 1) @@ ("p" :> 1)
=============================================================================
