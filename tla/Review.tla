-------------------------------- MODULE Review --------------------------------
(***************************************************************************)
(* The other way to main: a branch, the checks pr.yml runs on it (the      *)
(* generated artifacts are up to date, results/ is append-only), and its   *)
(* merge, while the bootstrap job pushes and other branches are merged.    *)
(*                                                                         *)
(* A tree is [results, summary, latest]: each result file's text, the row  *)
(* of SUMMARY.md's Runs table that was made of it, and result_files of     *)
(* latest.json. newest_result_at, next to it, is left out: two branches    *)
(* with the same count then have the same lines in latest.json, or not.    *)
(* How a result and its artifacts come to be in a clone is Publication's   *)
(* subject.                                                                *)
(***************************************************************************)
EXTENDS Integers, FiniteSets

CONSTANTS People,        \* who opens branches
          Job,           \* the bootstrap workflow
          MaxRuns,       \* a bound on the results of each
          MaxForged      \* a bound on what a branch falsifies at a time

ASSUME ReviewAssumption == MaxRuns \in Nat /\ MaxForged \in Nat /\ IsFiniteSet(People)

Names == (People \cup {Job}) \X (1..MaxRuns)
Texts == {"absent", "measured", "edited"}
Results == [Names -> Texts]
Rows == Texts \cup {"by hand"}
ByHand == -1
Trees == [results : Results, summary : [Names -> Rows], latest : Nat \cup {ByHand}]

VARIABLES main,     \* origin/main
          branch,   \* each person's branch
          base,     \* the main each branch was last based on
          state     \* of the pull request: closed, open, or open and green

vars == <<main, branch, base, state>>

NoResults == [n \in Names |-> "absent"]
Empty == [results |-> NoResults, summary |-> NoResults, latest |-> 0]

Present(results) == {n \in Names : results[n] # "absent"}
Count(results) == Cardinality(Present(results))

Init ==
  /\ main = Empty
  /\ branch = [p \in People |-> Empty] /\ base = [p \in People |-> Empty]
  /\ state = [p \in People |-> "closed"]

-----------------------------------------------------------------------------
(* What git and the checks make of two or three trees.                     *)

\* A three-way merge of one path, one row or one count.
Clash(b, ours, theirs) == ours # b /\ theirs # b /\ ours # theirs
Pick(b, ours, theirs) == IF ours = b THEN theirs ELSE ours

Merged(b, ours, theirs) ==
  [results |-> [n \in Names |-> Pick(b.results[n], ours.results[n], theirs.results[n])],
   summary |-> [n \in Names |-> Pick(b.summary[n], ours.summary[n], theirs.summary[n])],
   latest  |-> Pick(b.latest, ours.latest, theirs.latest)]

\* The same line changed in two ways is a conflict.
MustConflict(b, ours, theirs) ==
  \/ \E n \in Names : \/ Clash(b.results[n], ours.results[n], theirs.results[n])
                     \/ Clash(b.summary[n], ours.summary[n], theirs.summary[n])
  \/ Clash(b.latest, ours.latest, theirs.latest)

\* Two changes of an artifact may meet in it, whatever they are: rows that are
\* next to each other, or equal counts next to two times.
Touched(b, tree) == tree.summary # b.summary \/ tree.latest # b.latest
MayConflict(b, ours, theirs) ==
  MustConflict(b, ours, theirs) \/ (Touched(b, ours) /\ Touched(b, theirs))

\* Mutant: a conflict is committed with its markers.
MainsWithMarkers(b, ours, theirs) == [Merged(b, ours, theirs) EXCEPT !.summary = [n \in Names |-> "<<<<<<<"]]

\* A person settles a conflict with main's artifacts, and, where the results
\* clash, main's result.
Settled(b, ours, theirs) ==
  [Merged(b, ours, theirs) EXCEPT !.summary = ours.summary, !.latest = ours.latest]

\* Mutant: --diff-filter=MRC.
NothingModified(from, to) ==
  \A n \in Names : from.results[n] # "absent" => to.results[n] \in {"absent", from.results[n]}

\* append-only-check.sh: nothing modified, deleted or renamed between the merge
\* base and HEAD, under results/ without the derived latest.json.
OnlyAdds(from, to) ==
  \A n \in Names : from.results[n] # "absent" => to.results[n] = from.results[n]

\* Mutant: summarize --check compares latest.json only.
LatestIsFresh(tree) == tree.latest = Count(tree.results)

\* summarize --check.
Fresh(tree) == tree.summary = tree.results /\ tree.latest = Count(tree.results)

\* The two steps of pr.yml that read results/.
Green(mergeBase, head) == Fresh(head) /\ OnlyAdds(mergeBase, head)

\* pr.yml on a push to main: github.base_ref is empty, so HEAD, which is main,
\* is compared with origin/main.
GreenOnPush(head) == Green(head, head)

-----------------------------------------------------------------------------
(* A person and a branch.  Every new commit asks for a new verdict.        *)

Open(p) ==
  /\ state[p] = "closed"
  /\ branch' = [branch EXCEPT ![p] = main]
  /\ base' = [base EXCEPT ![p] = main]
  /\ state' = [state EXCEPT ![p] = "open"]
  /\ UNCHANGED main

Commit(p, tree) ==
  /\ state[p] # "closed" /\ tree # branch[p]
  /\ branch' = [branch EXCEPT ![p] = tree]
  /\ state' = [state EXCEPT ![p] = "open"]
  /\ UNCHANGED <<main, base>>

AddResult(p, n) ==
  /\ n[1] = p
  /\ branch[p].results[n] = "absent"
  /\ Commit(p, [branch[p] EXCEPT !.results[n] = "measured"])

\* The results of main's that the branch changes, and what in the artifacts
\* was written by hand.
Forged(p) ==
  Cardinality({n \in Names : base[p].results[n] \notin {"absent", branch[p].results[n]}})
  + Cardinality({n \in Names : branch[p].summary[n] = "by hand"})
  + IF branch[p].latest = ByHand THEN 1 ELSE 0

\* A result of main's is edited, deleted, or renamed to one of the person's
\* own. One that is not on main yet is measured, whatever its text.
Rewrite(p, n, text) ==
  /\ base[p].results[n] # "absent"
  /\ branch[p].results[n] \notin {"absent", text}
  /\ Forged(p) < MaxForged
  /\ Commit(p, [branch[p] EXCEPT !.results[n] = text])

Regenerate(p) ==
  Commit(p, [branch[p] EXCEPT !.summary = branch[p].results, !.latest = Count(branch[p].results)])

EditRow(p, n) ==
  /\ Forged(p) < MaxForged
  /\ Commit(p, [branch[p] EXCEPT !.summary[n] = "by hand"])

EditCount(p) ==
  /\ Forged(p) < MaxForged
  /\ Commit(p, [branch[p] EXCEPT !.latest = ByHand])

\* git merge origin/main on the branch.
Update(p) ==
  /\ state[p] # "closed"
  /\ \/ /\ ~MustConflict(base[p], main, branch[p])
        /\ branch' = [branch EXCEPT ![p] = Merged(base[p], main, @)]
     \/ /\ MayConflict(base[p], main, branch[p])
        /\ branch' = [branch EXCEPT ![p] = Settled(base[p], main, @)]
  /\ base' = [base EXCEPT ![p] = main]
  /\ state' = [state EXCEPT ![p] = "open"]
  /\ UNCHANGED main

Delete(p) ==
  /\ branch' = [branch EXCEPT ![p] = Empty] /\ base' = [base EXCEPT ![p] = Empty]
  /\ state' = [state EXCEPT ![p] = "closed"]

Close(p) ==
  /\ state[p] # "closed"
  /\ Delete(p)
  /\ UNCHANGED main

-----------------------------------------------------------------------------
(* The checks and the changes of main.                                     *)

\* pr.yml on a pull request: the checkout is the merge of the branch into main,
\* and its merge base with origin/main is that main.
Check(p) ==
  /\ state[p] = "open"
  /\ ~MustConflict(base[p], main, branch[p])
  /\ Green(main, Merged(base[p], main, branch[p]))
  /\ state' = [state EXCEPT ![p] = "green"]
  /\ UNCHANGED <<main, branch, base>>

\* A green verdict stays, whatever has reached main since.
Merge(p) ==
  /\ state[p] = "green"
  /\ ~MustConflict(base[p], main, branch[p])
  /\ main' = Merged(base[p], main, branch[p])
  /\ Delete(p)

\* The bootstrap job: a result more, its row, and the count of all, or, when its
\* rebase merged equal counts (Publication), one that counts itself but not all.
JobPushes(n) ==
  /\ n[1] = Job
  /\ main.results[n] = "absent"
  /\ LET results == [main.results EXCEPT ![n] = "measured"] IN
     \E count \in main.latest..Count(results) :
       /\ count > 0
       /\ main' = [results |-> results, summary |-> results, latest |-> count]
  /\ UNCHANGED <<branch, base, state>>

Next ==
  \/ \E p \in People :
       \/ Open(p) \/ Close(p) \/ Update(p) \/ Check(p) \/ Merge(p)
       \/ Regenerate(p) \/ EditCount(p)
       \/ \E n \in Names : \/ AddResult(p, n) \/ EditRow(p, n)
                          \/ \E text \in {"absent", "edited"} : Rewrite(p, n, text)
  \/ \E n \in Names : JobPushes(n)

Spec == Init /\ [][Next]_vars

\* A push to main without a review, where no ruleset forbids it.
PushDirectly(p) ==
  /\ state[p] # "closed"
  /\ base[p] = main
  /\ branch[p] # main
  /\ main' = branch[p]
  /\ Delete(p)

Unprotected == Init /\ [][Next \/ \E p \in People : PushDirectly(p)]_vars

-----------------------------------------------------------------------------
\* Types.
TypeOK ==
  /\ main \in Trees
  /\ branch \in [People -> Trees] /\ base \in [People -> Trees]
  /\ state \in [People -> {"closed", "open", "green"}]

\* What a green verdict is worth that was reached on a main long gone: git
\* merges the branch as long as no line clashes, and nothing is checked again.
\* No order of branches, verdicts, pushes and merges leaves on main a run's row
\* of another result, a missing one or one written by hand; but it may leave
\* too small a count.
CountLags(tree) == tree.summary = tree.results /\ tree.latest \in 0..Count(tree.results)
OnlyTheCountLags == CountLags(main)

Published(results) == {<<n, results[n]>> : n \in Present(results)}

Archived == INSTANCE Archive WITH
  Results   <- Names \X {"measured", "edited"},
  published <- Published(main.results)

\* The header of append-only-check.sh, "Only additions pass": while main is
\* only changed by the job and by merges of branches with a green verdict, it
\* is the abstract archive. No merge takes away or changes a result that
\* was on main, however old the verdict and the branch.
ImplementsArchive == Archived!Spec

\* METHODOLOGY.md, section 4: "CI diffs the results/ tree against the previous
\* commit and fails on any modification or deletion".
EditsFailCI == [][~OnlyAdds(main, main') => ~GreenOnPush(main')]_vars
=============================================================================
