-------------------------------- MODULE Render --------------------------------
(***************************************************************************)
(* SUMMARY.md, summary/render.go, without its layout.  A row of a table is *)
(* the figure it shows; citable figures are left out, there are none.      *)
(* latest.json is in Publication, where appends meet.                      *)
(***************************************************************************)
EXTENDS Summary

\* writeFigures: the rows, and what has no figure, by its reason.
WriteFigures(report, scope) ==
  LET figures == {f \in report.figures : f.scope = scope}
      without == {f \in figures : ~f.hasStats}
  IN  [rows     |-> figures \ without,
       noFigure |-> [reason \in {<<f.flags, f.counts>> : f \in without} |->
                       {f \in without : <<f.flags, f.counts>> = reason}]]

ListedAs(table) == {table.noFigure[reason] : reason \in DOMAIN table.noFigure}

\* Markdown: the rules in the table at HEAD, every run, the figures.
Markdown(report) ==
  [rules   |-> {[id |-> id, committed |-> report.rules[id].committed,
                 refused |-> report.refused[id]] : id \in DOMAIN report.rules},
   runs    |-> {[path |-> run.runID, track |-> run.track, version |-> run.version,
                 startedAt |-> run.startedAt, machine |-> run.machine,
                 repetitions |-> Len(run.reps)] : run \in report.runs},
   within  |-> WriteFigures(report, "within-run"),
   between |-> WriteFigures(report, "between-run")]
=============================================================================
