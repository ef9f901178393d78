---------------------------- MODULE MCRedemption ----------------------------
(* Model-checking instance of Redemption: every ledger of up to four       *)
(* troves with debts 1..3 and every pool below its total debt.             *)
EXTENDS Redemption

MCDebts == 1..3
MCMaxLen == 4
=============================================================================
