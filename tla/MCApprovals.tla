---------------------------- MODULE MCApprovals ----------------------------
(* Some of the subjects are gated: the bodies h1.  The others go upstream     *)
(* without a decision.                                                        *)
EXTENDS Approvals, TLC

CONSTANTS h1  \* a member of Hashes

GatedBodies == {s \in Subjects : s.hash = h1}

Symmetric == Permutations(Ids) \cup Permutations(Requests)
=============================================================================
