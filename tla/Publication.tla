----------------------------- MODULE Publication -----------------------------
(***************************************************************************)
(* How a measurement reaches the main branch: the steps of the bootstrap   *)
(* workflow (checkout, knobench run, knobench summarize, commit, pull      *)
(* --rebase, push), each of which stops the job when it fails, next to     *)
(* other writers who go through the same steps by hand and go on after a   *)
(* failure.  The workflow's concurrency group makes it one writer.         *)
(*                                                                         *)
(* A clone is [files, derived]: the result files and what is in the two    *)
(* generated artifacts.  A result file is [by, startedAt, text]: whose, of *)
(* a run started when, and whether it holds a complete sweep, a partial    *)
(* one, or JSON cut off by a write that did not end.                       *)
(*                                                                         *)
(* Git merges an artifact by its lines.  latest.json has two that a result *)
(* changes, result_files and newest_result_at, one below the other, so     *)
(* that git takes them for one change.  Of SUMMARY.md the model has the    *)
(* Runs table: a row per file, in the order of their paths, which a merge  *)
(* interleaves unless two changes meet.                                    *)
(***************************************************************************)
EXTENDS Integers, FiniteSets

CONSTANTS Writers,   \* who measures and pushes
          Jobs,      \* those that are workflow jobs
          MaxRuns    \* a bound on the runs of all

ASSUME PublicationAssumption == Jobs \subseteq Writers /\ MaxRuns \in Nat

VARIABLES main,     \* origin/main
          at,       \* the step each writer is at
          clone,    \* each writer's working tree
          base,     \* the main each clone is based on
          clock,    \* when the last run was started; no two start at once
          began,    \* when each writer's current run was
          written,  \* every result file Run.Write has begun
          lost      \* why jobs ended without publishing: [file, why]

vars == <<main, at, clone, base, clock, began, written, lost>>

Artifacts == {"summary", "latest"}

\* result_files is a number, newest_result_at "" or the one latest time.
Latests == [result_files : Nat, newest_result_at : SUBSET Nat]
Clones == [files : SUBSET written, derived : [summary : SUBSET written, latest : Latests]]

NewestResultAt(files) ==
  LET starts == {f.startedAt : f \in files} IN
  {t \in starts : \A u \in starts : u <= t}

\* The artifacts of a set of results.
Made(files) ==
  [summary |-> files,
   latest  |-> [result_files |-> Cardinality(files), newest_result_at |-> NewestResultAt(files)]]

\* summarize --check: both artifacts are those of the clone's results.
Fresh(tree) == tree.derived = Made(tree.files)

\* The file of the writer's current run. Its name has the run's own id in
\* it: Run.Write never finds it present.
File(w, text) == [by |-> w, startedAt |-> began[w], text |-> text]
Own(w) == {f \in clone[w].files : f.by = w /\ f.startedAt = began[w]}

\* loadRuns reads every result file, and fails on the first that is no JSON.
Unreadable(tree) == {f \in tree.files : f.text = "cut"}

\* Mutant: loadRuns passes over what it cannot parse.
ReadableOrSkipped(tree) == TRUE

Readable(tree) == Unreadable(tree) = {}

Empty == [files |-> {}, derived |-> Made({})]

Init ==
  /\ main = Empty
  /\ at = [w \in Writers |-> "idle"]
  /\ clone = [w \in Writers |-> Empty]
  /\ base = [w \in Writers |-> Empty]
  /\ clock = 0
  /\ began = [w \in Writers |-> 0]
  /\ written = {}
  /\ lost = {}

Goto(w, step) == at' = [at EXCEPT ![w] = step]

\* A step fails. A job ends there, and its clone goes with its runner.
Fail(w, why, files) ==
  IF w \in Jobs THEN Goto(w, "idle") /\ lost' = lost \cup {[file |-> f, why |-> why] : f \in files}
                ELSE Goto(w, "stopped") /\ UNCHANGED lost

Checkout(w) ==
  /\ at[w] = "idle"
  /\ clock < MaxRuns
  /\ clock' = clock + 1
  /\ began' = [began EXCEPT ![w] = clock + 1]
  /\ clone' = [clone EXCEPT ![w] = main]
  /\ base' = [base EXCEPT ![w] = main]
  /\ Goto(w, "run")
  /\ UNCHANGED <<main, written, lost>>

\* runCmd: the file is written either way, and a partial run is an error.
Run(w, text) ==
  /\ at[w] = "run"
  /\ written' = written \cup {File(w, text)}
  /\ clone' = [clone EXCEPT ![w].files = @ \cup {File(w, text)}]
  /\ IF text = "partial" /\ w \in Jobs THEN Fail(w, "partial", {File(w, text)})
                                        ELSE Goto(w, "summarize") /\ UNCHANGED lost
  /\ UNCHANGED <<main, base, clock, began>>

\* Run.Write writes in place: a full disk or a crash leaves the file's
\* beginning. A person summarizes whatever is there.
WriteBreaks(w) ==
  /\ at[w] = "run"
  /\ written' = written \cup {File(w, "cut")}
  /\ clone' = [clone EXCEPT ![w].files = @ \cup {File(w, "cut")}]
  /\ IF w \in Jobs THEN Fail(w, "broken", {File(w, "cut")})
                   ELSE Goto(w, "summarize") /\ UNCHANGED lost
  /\ UNCHANGED <<main, base, clock, began>>

\* The run, or identify before it, fails before Run.Write.
RunFails(w) ==
  /\ at[w] = "run"
  /\ Goto(w, "idle")
  /\ UNCHANGED <<main, clone, base, clock, began, written, lost>>

\* summarizeCmd builds its report from the clone's results, and writes the
\* two artifacts in any order.
WriteOne(w, a) ==
  /\ at[w] = "summarize"
  /\ Readable(clone[w])
  /\ clone' = [clone EXCEPT ![w].derived[a] = Made(clone[w].files)[a]]
  /\ Goto(w, "halfway")
  /\ UNCHANGED <<main, base, clock, began, written, lost>>

WriteOther(w) ==
  /\ at[w] = "halfway"
  /\ clone' = [clone EXCEPT ![w].derived = Made(clone[w].files)]
  /\ Goto(w, "rebase")
  /\ UNCHANGED <<main, base, clock, began, written, lost>>

\* The second write fails: the artifacts are of two sets of results. A person
\* runs summarize again.
SummarizeBreaks(w) ==
  /\ at[w] = "halfway"
  /\ IF w \in Jobs THEN Fail(w, "broken", Own(w)) ELSE Goto(w, "summarize") /\ UNCHANGED lost
  /\ UNCHANGED <<main, clone, base, clock, began, written>>

\* summarizeCmd refuses the clone until what it cannot read has been removed.
Discard(w) ==
  /\ at[w] = "summarize"
  /\ ~Readable(clone[w])
  /\ clone' = [clone EXCEPT ![w].files = @ \ Unreadable(clone[w])]
  /\ Goto(w, "idle")
  /\ UNCHANGED <<main, base, clock, began, written, lost>>

\* Both sides changed the same lines, each in its own way.
Clash(b, ours, theirs) == ours # b /\ theirs # b /\ ours # theirs

\* Mutant: git pull --rebase -X theirs.
NoConflict(w) == FALSE

MustConflict(w) == Clash(base[w].derived.latest, main.derived.latest, clone[w].derived.latest)

\* Rows that both sides added are next to each other in the table, or are
\* not: it depends on the tracks, versions and times in their paths.
MayConflict(w) ==
  MustConflict(w) \/ Clash(base[w].derived.summary, main.derived.summary, clone[w].derived.summary)

\* git's merge without a conflict: of the lines taken for one change, and of
\* rows apart. A change that both sides made is made once.
Pick(b, ours, theirs) == IF theirs = b THEN ours ELSE theirs
PickRows(b, ours, theirs) == (ours \cap theirs) \cup (ours \ b) \cup (theirs \ b)

\* git pull --rebase origin main: new files never clash.
Rebase(w) ==
  /\ at[w] = "rebase"
  /\ ~MustConflict(w)
  /\ LET b == base[w].derived ours == main.derived theirs == clone[w].derived IN
     clone' = [clone EXCEPT ![w] =
       [files   |-> @.files \cup main.files,
        derived |-> [summary |-> PickRows(b.summary, ours.summary, theirs.summary),
                     latest  |-> Pick(b.latest, ours.latest, theirs.latest)]]]
  /\ base' = [base EXCEPT ![w] = main]
  /\ Goto(w, "push")
  /\ UNCHANGED <<main, clock, began, written, lost>>

\* Mutant: the conflict is committed with its markers.
RebaseCommitsMarkers(w) ==
  /\ at[w] = "rebase"
  /\ MayConflict(w)
  /\ clone' = [clone EXCEPT ![w].derived.summary =
       @ \cup {[by |-> w, startedAt |-> began[w], text |-> "<<<<<<<"]}]
  /\ base' = [base EXCEPT ![w] = main]
  /\ Goto(w, "push")
  /\ UNCHANGED <<main, clock, began, written, lost>>

RebaseConflicts(w) ==
  /\ at[w] = "rebase"
  /\ MayConflict(w)
  /\ Fail(w, "conflict", Own(w))
  /\ UNCHANGED <<main, clone, base, clock, began, written>>

\* Mutant: git push --force.
ForcedPush(w) ==
  /\ at[w] = "push"
  /\ main' = clone[w]
  /\ Goto(w, "idle")
  /\ UNCHANGED <<clone, base, clock, began, written, lost>>

\* git push: only a fast-forward is accepted.
Push(w) ==
  /\ at[w] = "push"
  /\ main = base[w]
  /\ main' = clone[w]
  /\ Goto(w, "idle")
  /\ UNCHANGED <<clone, base, clock, began, written, lost>>

PushRejected(w) ==
  /\ at[w] = "push"
  /\ main # base[w]
  /\ Fail(w, "rejected", Own(w))
  /\ UNCHANGED <<main, clone, base, clock, began, written>>

\* By hand: the conflict is resolved by taking main's artifacts and
\* regenerating them.
Resolve(w) ==
  /\ at[w] = "stopped"
  /\ clone' = [clone EXCEPT ![w] = [files |-> @.files \cup main.files, derived |-> main.derived]]
  /\ base' = [base EXCEPT ![w] = main]
  /\ Goto(w, "summarize")
  /\ UNCHANGED <<main, clock, began, written, lost>>

Next == \E w \in Writers :
  \/ Checkout(w) \/ RunFails(w) \/ WriteBreaks(w)
  \/ \E text \in {"whole", "partial"} : Run(w, text)
  \/ Discard(w) \/ (\E a \in Artifacts : WriteOne(w, a)) \/ WriteOther(w) \/ SummarizeBreaks(w)
  \/ Rebase(w) \/ RebaseConflicts(w) \/ Push(w) \/ PushRejected(w)
  \/ Resolve(w)

Spec == Init /\ [][Next]_vars

-----------------------------------------------------------------------------
Steps == {"idle", "run", "summarize", "halfway", "rebase", "push", "stopped"}

\* Types; a clone and its base only hold files that were written.
TypeOK ==
  /\ main \in Clones
  /\ at \in [Writers -> Steps]
  /\ clone \in [Writers -> Clones] /\ base \in [Writers -> Clones]
  /\ clock \in 0..MaxRuns
  /\ began \in [Writers -> 0..clock]
  /\ written \subseteq [by : Writers, startedAt : 0..clock, text : {"whole", "partial", "cut"}]
  /\ lost \subseteq [file : written, why : {"partial", "broken", "conflict", "rejected"}]

\* The artifacts of the tree name its results, and its newest, and count no
\* more than there are.
CountLags(tree) ==
  /\ tree.derived.summary = tree.files
  /\ tree.derived.latest.newest_result_at = NewestResultAt(tree.files)
  /\ tree.derived.latest.result_files <= Cardinality(tree.files)

\* Every base is a main of the past, a clone only adds to its base, and it is
\* regenerated before it is rebased.
ClonesOnlyAdd ==
  \A w \in Writers :
    /\ CountLags(base[w])
    /\ base[w].files \subseteq main.files
    /\ at[w] # "idle" => base[w].files \subseteq clone[w].files
    /\ at[w] = "rebase" => Fresh(clone[w])
    /\ at[w] = "push" => CountLags(clone[w])

\* Why main stays readable: past summarize, so is the clone.
ClonesAreReadable ==
  \A w \in Writers : at[w] \in {"halfway", "rebase", "push", "stopped"} => Readable(clone[w])

\* What a rebase that regenerates nothing may do to these lines on main: make
\* result_files too small, and nothing else. However the writers race, from
\* however old a clone and after whatever failure, SUMMARY.md has a row for
\* each result on main and for no other, and newest_result_at is that of
\* the newest. A merge that lost a row, or kept an older time, would not be
\* found by anyone who reads the artifacts alone.
OnlyTheCountLags == CountLags(main)

\* Run.Write may leave half a file, and loadRuns fails on one, so a cut result
\* that reached main could neither be summarized nor, results being
\* append-only, be removed. It never does.
MainIsReadable == \A f \in main.files : f.text # "cut"

WholeResults == [by : Writers, startedAt : Nat, text : {"whole", "partial"}]

Archived == INSTANCE Archive WITH Results <- WholeResults, published <- main.files

\* The steps of all writers, seen from main, are those of the abstract
\* archive: METHODOLOGY.md's results tree that only gains files, whoever
\* pushes, from however old a clone, and after whatever failure.
ImplementsArchive == Archived!Spec

-----------------------------------------------------------------------------
(* What the docs say of publication and the code does not do.              *)

\* METHODOLOGY.md: "SUMMARY.md and results/latest.json are derived, never
\* written", and the workflow's comment on git pull --rebase: "a concurrent
\* append can never conflict with this one". What summarize --check asks is
\* then true of main: its artifacts are those of its results.
MainIsCurrent == Fresh(main)

\* METHODOLOGY.md: "Every run is committed to results/, including failed,
\* partial, budget-aborted" ones: no job ends with a result it drops for
\* being partial.
PartialRunsAreCommitted == \A l \in lost : l.why # "partial"
=============================================================================
