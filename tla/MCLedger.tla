------------------------------ MODULE MCLedger ------------------------------
(* Two responses of one agent, or of two, over four days and both stores.     *)
EXTENDS CostLedger
=============================================================================
