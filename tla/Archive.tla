------------------------------- MODULE Archive -------------------------------
(***************************************************************************)
(* What the repository promises of its main branch (METHODOLOGY.md,        *)
(* section 4), without clones, steps or failures: results are only added,  *)
(* and all of them can be read.                                            *)
(***************************************************************************)
CONSTANT Results      \* the result files summarize can read

VARIABLE published    \* the results on main

vars == <<published>>

Init == published = {}

Append ==
  /\ published \subseteq published'
  /\ published' \subseteq Results

Spec == Init /\ [][Append]_vars
=============================================================================
