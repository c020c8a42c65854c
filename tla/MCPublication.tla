---------------------------- MODULE MCPublication ----------------------------
(***************************************************************************)
(* The workflow's job and two people.                                      *)
(***************************************************************************)
EXTENDS Publication

CONSTANTS bootstrap, ada, bob

Everyone == {bootstrap, ada, bob}
Scheduled == {bootstrap}
=============================================================================
