-------------------------------- MODULE Rules --------------------------------
(***************************************************************************)
(* How summary/exclusion.go dates the exclusion rules of METHODOLOGY.md.   *)
(* The file's history is a sequence of commits, oldest first, each         *)
(* [authored, landed, table, text]: its author timestamp, when it reached  *)
(* the main branch, the rule ids with a row in the table and those that    *)
(* occur anywhere in the text.                                             *)
(***************************************************************************)
EXTENDS Integers, SequencesExt

NoCommit == [committed |-> FALSE, effectiveAt |-> 0]

\* The commits whose change alters the number of occurrences of id
\* (git log -S).  The oldest commit in hand counts as adding all it holds.
Touching(history, id) ==
  {i \in DOMAIN history :
     (id \in history[i].text) # (i > 1 /\ id \in history[i - 1].text)}

\* firstCommitContaining, with the author timestamp (%aI).
FirstCommitContaining(history, id) ==
  IF Touching(history, id) = {} THEN NoCommit
  ELSE [committed   |-> TRUE,
        effectiveAt |-> history[Min(Touching(history, id))].authored]

RuleIDs == {"EX-1", "EX-2"}

\* LoadRules: the table of the newest commit, each rule dated from the
\* commits of the clone at hand.  A file that was never committed is read
\* from the working tree, where it holds the two rules, undated.
LoadRules(history) ==
  IF history = <<>> THEN [id \in RuleIDs |-> NoCommit]
  ELSE [id \in Last(history).table |-> FirstCommitContaining(history, id)]

\* Mutant: being committed is enough.
AppliesOnceCommitted(rules, id, observedAt) ==
  id \in DOMAIN rules /\ rules[id].committed

\* Rule.Applies, and applyRule's lookup in front of it.
Applies(rules, id, observedAt) ==
  /\ id \in DOMAIN rules
  /\ rules[id].committed
  /\ rules[id].effectiveAt <= observedAt
=============================================================================
