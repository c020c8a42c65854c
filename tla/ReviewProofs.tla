----------------------------- MODULE ReviewProofs -----------------------------
(***************************************************************************)
(* For any number of people, branches and results: while main is changed   *)
(* by the job and by merges of green branches only, it is the abstract     *)
(* archive, however old the verdict a merge relies on, and its artifacts   *)
(* fall behind in nothing but the count of results.                        *)
(***************************************************************************)
EXTENDS Review, FiniteSetTheorems, TLAPS

\* There are finitely many names, so results can be counted.
LEMMA CountIsNumber ==
  ASSUME NEW r
  PROVE  /\ IsFiniteSet(Present(r))
         /\ Count(r) \in Nat
<1>1. IsFiniteSet(People \cup {Job})
  BY ReviewAssumption, FS_AddElement
<1>2. IsFiniteSet(1..MaxRuns)
  BY ReviewAssumption, FS_Interval
<1>3. IsFiniteSet(Names)
  BY <1>1, <1>2, FS_Product DEF Names
<1>4. IsFiniteSet(Present(r))
  BY <1>3, FS_Subset DEF Present
<1> QED
  BY <1>4, FS_CardinalityType DEF Count

\* A three-way merge of trees is a tree.
LEMMA MergedIsTree ==
  ASSUME NEW b \in Trees, NEW m \in Trees, NEW t \in Trees
  PROVE  Merged(b, m, t) \in Trees
BY DEF Trees, Results, Merged, Pick

\* Settling conflicts in main's favour gives a tree.
LEMMA SettledIsTree ==
  ASSUME NEW b \in Trees, NEW m \in Trees, NEW t \in Trees
  PROVE  Settled(b, m, t) \in Trees
<1>1. \A tree \in Trees : [tree EXCEPT !.summary = m.summary, !.latest = m.latest] \in Trees
  BY DEF Trees
<1> QED
  BY <1>1, MergedIsTree DEF Settled

\* Artifacts that were just made count what there is.
LEMMA FreshLags ==
  ASSUME NEW tree, Fresh(tree)
  PROVE  CountLags(tree)
BY CountIsNumber DEF Fresh, CountLags

\* Nothing at all is a tree.
LEMMA EmptyIsTree == Empty \in Trees /\ CountLags(Empty) /\ Present(NoResults) = {}
<1>1. Present(NoResults) = {}
  BY DEF Present, NoResults
<1>2. Empty \in Trees
  BY DEF Empty, NoResults, Trees, Results, Texts, Rows
<1>3. Count(NoResults) = 0
  BY <1>1, FS_EmptySet DEF Count
<1> QED
  BY <1>1, <1>2, <1>3 DEF CountLags, Empty

\* The initial state is of its type.
LEMMA TypeInit == Init => TypeOK
BY EmptyIsTree DEF Init, TypeOK

\* The job's push gives a tree with one more result, and its row.
LEMMA JobsTree ==
  ASSUME TypeOK, NEW n \in Names, JobPushes(n)
  PROVE  main' \in Trees /\ (CountLags(main) => CountLags(main')) /\ OnlyAdds(main, main')
<1> DEFINE results == [main.results EXCEPT ![n] = "measured"]
<1>1. main.results \in Results /\ main.latest \in Int
  BY DEF TypeOK, Trees, ByHand
<1>2. results \in Results /\ results \in [Names -> Rows]
  BY <1>1 DEF Results, Texts, Rows
<1>3. PICK count \in main.latest..Count(results) :
        count > 0 /\ main' = [results |-> results, summary |-> results, latest |-> count]
  BY DEF JobPushes
<1>4. count \in 0..Count(results)
  BY <1>1, <1>3, CountIsNumber
<1>5. main' \in Trees /\ CountLags(main')
  BY <1>2, <1>3, <1>4, CountIsNumber DEF Trees, CountLags
<1>6. OnlyAdds(main, main')
  BY <1>1, <1>3 DEF OnlyAdds, JobPushes, Results
<1> QED
  BY <1>5, <1>6

\* A commit is any new tree on an open branch.
IsCommit(p) ==
  \E tree \in Trees :
    /\ branch' = [branch EXCEPT ![p] = tree]
    /\ state' = [state EXCEPT ![p] = "open"]
    /\ UNCHANGED <<main, base>>
    /\ state[p] # "closed"

\* Adding, rewriting, regenerating and editing by hand are commits.
LEMMA Commits ==
  ASSUME TypeOK, NEW p \in People,
         \/ Regenerate(p) \/ EditCount(p)
         \/ \E n \in Names : \/ AddResult(p, n) \/ EditRow(p, n)
                            \/ \E text \in {"absent", "edited"} : Rewrite(p, n, text)
  PROVE  IsCommit(p)
<1>0. branch[p] \in Trees
  BY DEF TypeOK
<1>1. CASE Regenerate(p)
  <2>1. [branch[p] EXCEPT !.summary = branch[p].results, !.latest = Count(branch[p].results)] \in Trees
    BY <1>0, CountIsNumber DEF Trees, Results, Rows
  <2> QED
    BY <1>1, <2>1 DEF Regenerate, Commit, IsCommit
<1>2. CASE EditCount(p)
  <2>1. [branch[p] EXCEPT !.latest = ByHand] \in Trees
    BY <1>0 DEF Trees
  <2> QED
    BY <1>2, <2>1 DEF EditCount, Commit, IsCommit
<1>3. ASSUME NEW n \in Names, AddResult(p, n) PROVE IsCommit(p)
  <2>1. [branch[p] EXCEPT !.results[n] = "measured"] \in Trees
    BY <1>0 DEF Trees, Results, Texts
  <2> QED
    BY <1>3, <2>1 DEF AddResult, Commit, IsCommit
<1>4. ASSUME NEW n \in Names, NEW text \in {"absent", "edited"}, Rewrite(p, n, text) PROVE IsCommit(p)
  <2>1. [branch[p] EXCEPT !.results[n] = text] \in Trees
    BY <1>0 DEF Trees, Results, Texts
  <2> QED
    BY <1>4, <2>1 DEF Rewrite, Commit, IsCommit
<1>5. ASSUME NEW n \in Names, EditRow(p, n) PROVE IsCommit(p)
  <2>1. [branch[p] EXCEPT !.summary[n] = "by hand"] \in Trees
    BY <1>0 DEF Trees, Rows
  <2> QED
    BY <1>5, <2>1 DEF EditRow, Commit, IsCommit
<1> QED
  BY <1>1, <1>2, <1>3, <1>4, <1>5

\* Types are kept.
LEMMA TypeStep == TypeOK /\ [Next]_vars => TypeOK'
<1> SUFFICES ASSUME TypeOK, [Next]_vars PROVE TypeOK'
  OBVIOUS
<1> USE DEF TypeOK
<1>1. CASE UNCHANGED vars
  BY <1>1 DEF vars
<1>2. ASSUME NEW p \in People, Open(p) PROVE TypeOK'
  BY <1>2 DEF Open
<1>3. ASSUME NEW p \in People, Close(p) PROVE TypeOK'
  BY <1>3, EmptyIsTree DEF Close, Delete
<1>4. ASSUME NEW p \in People, Update(p) PROVE TypeOK'
  <2>1. branch' \in [People -> Trees]
    BY <1>4, SettledIsTree, MergedIsTree DEF Update
  <2> QED
    BY <1>4, <2>1 DEF Update
<1>5. ASSUME NEW p \in People, Check(p) PROVE TypeOK'
  BY <1>5 DEF Check
<1>6. ASSUME NEW p \in People, Merge(p) PROVE TypeOK'
  BY <1>6, EmptyIsTree, MergedIsTree DEF Merge, Delete
<1>8. ASSUME NEW p \in People, IsCommit(p) PROVE TypeOK'
  BY <1>8 DEF IsCommit
<1>9. ASSUME NEW n \in Names, JobPushes(n) PROVE TypeOK'
  BY <1>9, JobsTree DEF JobPushes
<1> QED
  BY <1>1, <1>2, <1>3, <1>4, <1>5, <1>6, <1>8, <1>9, Commits DEF Next

\* Every reachable state of the review is of its type.
THEOREM ReviewTyped == Spec => []TypeOK
BY TypeInit, TypeStep, PTL DEF Spec

-----------------------------------------------------------------------------
\* Results are kept along a chain of trees.
LEMMA OnlyAddsIsOrder ==
  ASSUME NEW a, NEW b, NEW c
  PROVE  OnlyAdds(a, a) /\ (OnlyAdds(a, b) /\ OnlyAdds(b, c) => OnlyAdds(a, c))
BY DEF OnlyAdds

\* The heart of the matter.  b is what the branch t is based on, s the main its
\* green verdict was reached on, m the main it is merged into.
LEMMA StaleVerdictHolds ==
  ASSUME NEW b \in Trees, NEW s \in Trees, NEW m \in Trees, NEW t \in Trees,
         CountLags(b), CountLags(s), CountLags(m), OnlyAdds(b, s), OnlyAdds(s, m),
         ~MustConflict(b, s, t), Green(s, Merged(b, s, t))
  PROVE  CountLags(Merged(b, m, t)) /\ OnlyAdds(m, Merged(b, m, t))
<1> DEFINE k == Merged(b, m, t)
<1> DEFINE g == Merged(b, s, t)
<1>1. /\ b.results \in [Names -> Texts] /\ s.results \in [Names -> Texts]
      /\ m.results \in [Names -> Texts] /\ t.results \in [Names -> Texts]
  BY DEF Trees, Results
<1>2. /\ k.results = [n \in Names |-> Pick(b.results[n], m.results[n], t.results[n])]
      /\ k.summary = [n \in Names |-> Pick(b.summary[n], m.summary[n], t.summary[n])]
      /\ k.latest = Pick(b.latest, m.latest, t.latest)
      /\ g.results = [n \in Names |-> Pick(b.results[n], s.results[n], t.results[n])]
      /\ g.summary = [n \in Names |-> Pick(b.summary[n], s.summary[n], t.summary[n])]
      /\ g.latest = Pick(b.latest, s.latest, t.latest)
  BY DEF Merged
<1>3. /\ \A n \in Names : s.results[n] # "absent" => g.results[n] = s.results[n]
      /\ g.summary = g.results /\ g.latest = Count(g.results)
  BY DEF Green, OnlyAdds, Fresh
<1>4. b.summary = b.results /\ s.summary = s.results /\ m.summary = m.results
  BY DEF CountLags
<1> HIDE DEF k, g
\* The branch changes no result of its base.
<1>5. ASSUME NEW n \in Names, b.results[n] # "absent" PROVE t.results[n] = b.results[n]
  <2>1. s.results[n] = b.results[n]
    BY <1>5 DEF OnlyAdds
  <2>2. g.results[n] = t.results[n]
    BY <1>2, <2>1 DEF Pick
  <2> QED
    BY <1>3, <1>5, <2>1, <2>2
<1>6. OnlyAdds(m, k)
  <2> SUFFICES ASSUME NEW n \in Names, m.results[n] # "absent" PROVE k.results[n] = m.results[n]
    BY DEF OnlyAdds
  <2> QED
    BY <1>2, <1>5 DEF Pick
\* Each row of the merge is main's, or the one the verdict found right.
<1>7. ASSUME NEW n \in Names PROVE k.summary[n] = k.results[n]
  <2>1. CASE m.results[n] # b.results[n]
    BY <1>2, <1>4, <2>1 DEF Pick
  <2>2. CASE m.results[n] = b.results[n]
    <3>1. s.results[n] = b.results[n]
      BY <2>2 DEF OnlyAdds
    <3>2. k.summary[n] = g.summary[n] /\ k.results[n] = g.results[n]
      BY <1>2, <1>4, <2>2, <3>1 DEF Pick
    <3> QED
      BY <1>3, <3>2
  <2> QED
    BY <2>1, <2>2
<1>8. k.summary = k.results
  BY <1>2, <1>7
\* Its count is one of main's, or the one the verdict found right.
<1>9. /\ Count(b.results) <= Count(k.results) /\ Count(s.results) <= Count(k.results)
      /\ Count(m.results) <= Count(k.results) /\ Count(g.results) <= Count(k.results)
  <2>1. \A n \in Names : b.results[n] # "absent" => k.results[n] # "absent"
    BY <1>6 DEF OnlyAdds
  <2>2. \A n \in Names : s.results[n] # "absent" => k.results[n] # "absent"
    BY <1>6 DEF OnlyAdds
  <2>3. \A n \in Names : m.results[n] # "absent" => k.results[n] # "absent"
    BY <1>6 DEF OnlyAdds
  <2>4. \A n \in Names : g.results[n] # "absent" => k.results[n] # "absent"
    <3> SUFFICES ASSUME NEW n \in Names, g.results[n] # "absent", k.results[n] = "absent" PROVE FALSE
      OBVIOUS
    <3>1. m.results[n] = "absent" /\ b.results[n] = "absent" /\ s.results[n] = "absent"
      BY <2>1, <2>2, <2>3
    <3> QED
      BY <1>2, <3>1 DEF Pick
  <2>5. /\ Present(b.results) \in SUBSET Present(k.results) /\ Present(s.results) \in SUBSET Present(k.results)
        /\ Present(m.results) \in SUBSET Present(k.results) /\ Present(g.results) \in SUBSET Present(k.results)
    BY <2>1, <2>2, <2>3, <2>4 DEF Present
  <2> QED
    BY <2>5, CountIsNumber, FS_Subset DEF Count
<1>10. k.latest \in 0..Count(k.results)
  <2>1. /\ b.latest \in 0..Count(b.results) /\ s.latest \in 0..Count(s.results)
        /\ m.latest \in 0..Count(m.results)
    BY DEF CountLags
  <2>2. /\ Count(b.results) \in Nat /\ Count(s.results) \in Nat /\ Count(m.results) \in Nat
        /\ Count(g.results) \in Nat /\ Count(k.results) \in Nat
    BY CountIsNumber
  <2>3. \/ k.latest = m.latest \/ k.latest = b.latest \/ k.latest = s.latest
        \/ k.latest = g.latest
    <3>1. CASE s.latest = b.latest
      BY <1>2, <3>1 DEF Pick
    <3>2. CASE s.latest # b.latest
      <4>1. t.latest = b.latest \/ t.latest = s.latest
        BY <3>2 DEF MustConflict, Clash
      <4> QED
        BY <1>2, <4>1 DEF Pick
    <3> QED
      BY <3>1, <3>2
  <2>4. k.latest \in Nat /\ k.latest <= Count(k.results)
    BY <1>3, <1>9, <2>1, <2>2, <2>3
  <2> QED
    BY <2>2, <2>4
<1> QED
  BY <1>6, <1>8, <1>10 DEF CountLags, k

-----------------------------------------------------------------------------
\* A green verdict was reached on a main of the past.
Reached(p) ==
  \E s \in Trees :
    /\ CountLags(s) /\ OnlyAdds(base[p], s) /\ OnlyAdds(s, main)
    /\ ~MustConflict(base[p], s, branch[p])
    /\ Green(s, Merged(base[p], s, branch[p]))

\* Why main keeps its rows: a base is a main of the past too.
Reviewed(p) ==
  /\ state[p] # "closed" => CountLags(base[p]) /\ OnlyAdds(base[p], main)
  /\ state[p] = "green" => Reached(p)

Safe == TypeOK /\ OnlyTheCountLags /\ \A p \in People : Reviewed(p)

\* A main that only gained keeps what is known of a branch left alone.
LEMMA ReviewedKept ==
  ASSUME NEW p \in People, Reviewed(p), OnlyAdds(main, main'),
         branch'[p] = branch[p], base'[p] = base[p], state'[p] = state[p]
  PROVE  Reviewed(p)'
<1>1. CASE state[p] = "green"
  <2>1. PICK s \in Trees :
          /\ CountLags(s) /\ OnlyAdds(base[p], s) /\ OnlyAdds(s, main)
          /\ ~MustConflict(base[p], s, branch[p])
          /\ Green(s, Merged(base[p], s, branch[p]))
    BY <1>1 DEF Reviewed, Reached
  <2>2. OnlyAdds(s, main') /\ OnlyAdds(base[p], main')
    BY <1>1, <2>1, OnlyAddsIsOrder DEF Reviewed
  <2>3. Reached(p)'
    BY <2>1, <2>2 DEF Reached
  <2> QED
    BY <1>1, <2>2, <2>3 DEF Reviewed
<1>2. CASE state[p] # "green"
  BY <1>2, OnlyAddsIsOrder DEF Reviewed
<1> QED
  BY <1>1, <1>2

\* Every step keeps the invariant, and results are only added to main.
LEMMA SafeStep ==
  ASSUME Safe, [Next]_vars
  PROVE  Safe' /\ OnlyAdds(main, main')
<1>0. TypeOK'
  BY TypeStep DEF Safe
<1>1. CASE UNCHANGED vars
  <2>1. OnlyAdds(main, main')
    BY <1>1, OnlyAddsIsOrder DEF vars
  <2> QED
    BY <1>0, <1>1, <2>1, ReviewedKept DEF vars, Safe, OnlyTheCountLags
\* One person's step that leaves main alone.
<1>2. ASSUME NEW p \in People, main' = main, Reviewed(p)',
             \A q \in People \ {p} : branch'[q] = branch[q] /\ base'[q] = base[q] /\ state'[q] = state[q]
      PROVE  Safe' /\ OnlyAdds(main, main')
  <2>1. OnlyAdds(main, main')
    BY <1>2, OnlyAddsIsOrder
  <2>2. \A q \in People : Reviewed(q)'
    BY <1>2, <2>1, ReviewedKept DEF Safe
  <2> QED
    BY <1>0, <1>2, <2>1, <2>2 DEF Safe, OnlyTheCountLags
<1>3. ASSUME NEW p \in People, Open(p) PROVE Safe' /\ OnlyAdds(main, main')
  <2>1. Reviewed(p)'
    BY <1>3, OnlyAddsIsOrder DEF Open, Reviewed, Safe, TypeOK, OnlyTheCountLags
  <2> QED
    BY <1>2, <1>3, <2>1 DEF Open
<1>4. ASSUME NEW p \in People, Close(p) PROVE Safe' /\ OnlyAdds(main, main')
  <2>1. Reviewed(p)'
    BY <1>4 DEF Close, Delete, Reviewed, Safe, TypeOK
  <2> QED
    BY <1>2, <1>4, <2>1 DEF Close, Delete
<1>5. ASSUME NEW p \in People, Update(p) PROVE Safe' /\ OnlyAdds(main, main')
  <2>1. base'[p] = main /\ state'[p] = "open" /\ main' = main
    BY <1>5 DEF Update, Safe, TypeOK
  <2>2. Reviewed(p)'
    BY <2>1, OnlyAddsIsOrder DEF Reviewed, Safe, OnlyTheCountLags
  <2>3. \E tree : branch' = [branch EXCEPT ![p] = tree]
    BY <1>5 DEF Update
  <2>4. \A q \in People \ {p} : branch'[q] = branch[q] /\ base'[q] = base[q] /\ state'[q] = state[q]
    BY <1>5, <2>3 DEF Update, Safe, TypeOK
  <2> QED
    BY <1>2, <2>1, <2>2, <2>4
<1>6. ASSUME NEW p \in People, IsCommit(p) PROVE Safe' /\ OnlyAdds(main, main')
  <2>1. Reviewed(p)'
    BY <1>6 DEF IsCommit, Reviewed, Safe, TypeOK
  <2> QED
    BY <1>2, <1>6, <2>1 DEF IsCommit
<1>7. ASSUME NEW p \in People, Check(p) PROVE Safe' /\ OnlyAdds(main, main')
  <2>1. /\ UNCHANGED <<main, branch, base>> /\ state'[p] = "green" /\ state[p] = "open"
        /\ ~MustConflict(base[p], main, branch[p])
        /\ Green(main, Merged(base[p], main, branch[p]))
    BY <1>7 DEF Check, Safe, TypeOK
  <2>2. CountLags(base[p]) /\ OnlyAdds(base[p], main) /\ OnlyAdds(main, main)
    BY <2>1, OnlyAddsIsOrder DEF Safe, Reviewed
  <2>3. Reached(p)'
    BY <2>1, <2>2 DEF Reached, Safe, TypeOK, OnlyTheCountLags
  <2>4. Reviewed(p)'
    BY <2>1, <2>2, <2>3 DEF Reviewed
  <2> QED
    BY <1>2, <1>7, <2>1, <2>4 DEF Check
\* A step that changes main to a tree with its rows and more results.
<1>8. ASSUME CountLags(main'), OnlyAdds(main, main'),
             \A p \in People : \/ state'[p] = "closed"
                               \/ branch'[p] = branch[p] /\ base'[p] = base[p] /\ state'[p] = state[p]
      PROVE  Safe' /\ OnlyAdds(main, main')
  <2>1. ASSUME NEW p \in People PROVE Reviewed(p)'
    <3>1. CASE state'[p] = "closed"
      BY <3>1 DEF Reviewed
    <3>2. CASE branch'[p] = branch[p] /\ base'[p] = base[p] /\ state'[p] = state[p]
      BY <1>8, <3>2, ReviewedKept DEF Safe
    <3> QED
      BY <1>8, <3>1, <3>2
  <2> QED
    BY <1>0, <1>8, <2>1 DEF Safe, OnlyTheCountLags
<1>9. ASSUME NEW p \in People, Merge(p) PROVE Safe' /\ OnlyAdds(main, main')
  <2>1. /\ Reached(p) /\ CountLags(base[p]) /\ CountLags(main)
        /\ base[p] \in Trees /\ branch[p] \in Trees /\ main \in Trees
    BY <1>9 DEF Merge, Safe, Reviewed, TypeOK, OnlyTheCountLags
  <2>2. CountLags(main') /\ OnlyAdds(main, main')
    BY <1>9, <2>1, StaleVerdictHolds DEF Merge, Reached
  <2>3. \A q \in People : \/ state'[q] = "closed"
                          \/ branch'[q] = branch[q] /\ base'[q] = base[q] /\ state'[q] = state[q]
    BY <1>9 DEF Merge, Delete, Safe, TypeOK
  <2> QED
    BY <1>8, <2>2, <2>3
<1>10. ASSUME NEW n \in Names, JobPushes(n) PROVE Safe' /\ OnlyAdds(main, main')
  <2>1. CountLags(main') /\ OnlyAdds(main, main')
    BY <1>10, JobsTree DEF Safe, OnlyTheCountLags
  <2> QED
    BY <1>8, <1>10, <2>1 DEF JobPushes
<1> QED
  BY <1>1, <1>3, <1>4, <1>5, <1>6, <1>7, <1>9, <1>10, Commits DEF Next, Safe

\* The invariant holds in every reachable state.
LEMMA SafeAlways ==
  Spec => []Safe /\ [][OnlyAdds(main, main')]_vars
<1>1. Init => Safe
  BY TypeInit, EmptyIsTree DEF Init, Safe, OnlyTheCountLags, Reviewed
<1>2. Safe /\ [Next]_vars => Safe' /\ OnlyAdds(main, main')
  BY SafeStep
<1> QED
  BY <1>1, <1>2, PTL DEF Spec

\* No verdict is too old: merges of green branches leave main every row of its
\* results and no other, and a count that is at most too small.
THEOREM ReviewedCountsFallBehind == Spec => []OnlyTheCountLags
<1>1. Safe => OnlyTheCountLags
  BY DEF Safe
<1> QED
  BY <1>1, SafeAlways, PTL

\* What is added to the results is added to what is published.
LEMMA PublishedGrows ==
  ASSUME NEW a \in Trees, NEW b \in Trees, OnlyAdds(a, b)
  PROVE  /\ Published(a.results) \subseteq Published(b.results)
         /\ Published(b.results) \subseteq Names \X {"measured", "edited"}
BY DEF OnlyAdds, Published, Present, Trees, Results, Texts

\* Merges and the job's pushes are appends to the abstract archive.
THEOREM ReviewImplementsArchive == Spec => ImplementsArchive
<1>1. Init => Archived!Init
  <2> SUFFICES ASSUME Init PROVE Archived!Init
    OBVIOUS
  <2>1. Published(main.results) = {}
    BY EmptyIsTree DEF Init, Published, Empty
  <2> QED
    BY <2>1 DEF Archived!Init
<1>2. Safe /\ Safe' /\ [OnlyAdds(main, main')]_vars => [Archived!Append]_(Archived!vars)
  <2> SUFFICES ASSUME Safe, Safe', OnlyAdds(main, main') \/ UNCHANGED vars
               PROVE  [Archived!Append]_(Archived!vars)
    OBVIOUS
  <2>1. CASE UNCHANGED vars
    BY <2>1 DEF vars, Archived!vars
  <2>2. CASE OnlyAdds(main, main')
    <3>1. /\ Published(main.results) \subseteq Published(main'.results)
          /\ Published(main'.results) \subseteq Names \X {"measured", "edited"}
      BY <2>2, PublishedGrows DEF Safe, TypeOK
    <3> QED
      BY <3>1 DEF Archived!Append
  <2> QED
    BY <2>1, <2>2
<1> QED
  BY <1>1, <1>2, SafeAlways, PTL DEF ImplementsArchive, Archived!Spec, Spec
=============================================================================
