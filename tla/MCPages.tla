------------------------------- MODULE MCPages -------------------------------
(* One text: what differs between two versions is whether they are enabled.   *)
EXTENDS Pages
=============================================================================
