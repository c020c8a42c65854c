------------------------------ MODULE MCReview ------------------------------
(***************************************************************************)
(* Two people and the workflow's job.                                      *)
(***************************************************************************)
EXTENDS Review, TLC

CONSTANTS ada, bob

Reviewed == {ada, bob}
Alone == {ada}
Symmetric == Permutations(Reviewed)
=============================================================================
