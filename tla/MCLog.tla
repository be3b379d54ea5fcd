------------------------------- MODULE MCLog -------------------------------
(* Three entries; the constants of ActionLog are numbers and need no more.   *)
EXTENDS ActionLog
=============================================================================
