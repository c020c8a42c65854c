-------------------------- MODULE PublicationProofs --------------------------
(***************************************************************************)
(* For any set of writers, however many of them race and wherever they     *)
(* fail: main implements the abstract archive, and what git merges by      *)
(* itself falls behind in nothing but the count of results.                *)
(***************************************************************************)
EXTENDS Publication, SumProofs, FiniteSetTheorems

USE DEF Goto, Empty

\* The types, and that there are always finitely many results: only of those
\* is Cardinality a number.
Typed == TypeOK /\ IsFiniteSet(written)

Whys == {"partial", "broken", "conflict", "rejected"}

\* A failure keeps the types of the two variables it touches.
LEMMA FailTyped ==
  ASSUME TypeOK, NEW w \in Writers, NEW why \in Whys, NEW files \in SUBSET written', Fail(w, why, files),
         written \subseteq written'
  PROVE  /\ at' \in [Writers -> Steps]
         /\ lost' \subseteq [file : written', why : Whys]
<1>1. at' \in [Writers -> Steps]
  BY DEF Fail, TypeOK, Steps
<1>2. \A r \in lost : r \in [file : written', why : Whys]
  <2>1. lost \subseteq [file : written, why : Whys]
    BY DEF TypeOK, Whys
  <2> QED
    BY <2>1
<1>3. CASE w \in Jobs
  <2>1. lost' = lost \cup {[file |-> f, why |-> why] : f \in files}
    BY <1>3 DEF Fail
  <2> QED
    BY <1>1, <1>2, <2>1
<1>4. CASE w \notin Jobs
  BY <1>1, <1>2, <1>4 DEF Fail
<1> QED
  BY <1>3, <1>4

\* The artifacts of written results are of their type.
LEMMA MadeTyped ==
  ASSUME Typed, NEW files \in SUBSET written
  PROVE  /\ Made(files) \in [summary : SUBSET written, latest : Latests]
         /\ NewestResultAt(files) \in SUBSET Nat
         /\ Cardinality(files) \in Nat
<1>1. Cardinality(files) \in Nat
  BY FS_Subset, FS_CardinalityType DEF Typed
<1>2. \A f \in files : f.startedAt \in Nat
  BY DEF Typed, TypeOK
<1>3. NewestResultAt(files) \in SUBSET Nat
  BY <1>2 DEF NewestResultAt
<1> QED
  BY <1>1, <1>3 DEF Made, Latests

\* A run's file, whole or not, is added to the clone and to what was written.
LEMMA WriteTyped ==
  ASSUME TypeOK, NEW w \in Writers, NEW text \in {"whole", "partial", "cut"},
         written' = written \cup {File(w, text)},
         clone' = [clone EXCEPT ![w].files = @ \cup {File(w, text)}],
         UNCHANGED <<main, base, clock, began>>
  PROVE  /\ main' \in Clones' /\ clone' \in [Writers -> Clones]' /\ base' \in [Writers -> Clones]'
         /\ written \subseteq written' /\ {File(w, text)} \in SUBSET written'
         /\ written' \subseteq [by : Writers, startedAt : 0..clock', text : {"whole", "partial", "cut"}]
         /\ clock' \in 0..MaxRuns /\ began' \in [Writers -> 0..clock']
<1>1. Clones \subseteq Clones'
  BY DEF Clones
<1>2. clone[w] \in Clones
  BY DEF TypeOK
<1>3. [clone[w] EXCEPT !.files = @ \cup {File(w, text)}] \in Clones'
  BY <1>2 DEF Clones
<1>4. clone' \in [Writers -> Clones']
  BY <1>1, <1>3 DEF TypeOK
<1>5. File(w, text) \in [by : Writers, startedAt : 0..clock, text : {"whole", "partial", "cut"}]
  BY DEF TypeOK, File
<1> QED
  BY <1>1, <1>4, <1>5 DEF TypeOK

\* Types are kept; a clone and its base only hold files that were written.
LEMMA TypeStep == Typed /\ [Next]_vars => TypeOK'
<1> SUFFICES ASSUME TypeOK, Typed, [Next]_vars PROVE TypeOK'
  BY DEF Typed
<1> USE DEF TypeOK
<1>1. CASE UNCHANGED vars
  BY <1>1 DEF vars, Clones
<1>2. ASSUME NEW w \in Writers, Checkout(w) PROVE TypeOK'
  <2>1. clock \in Nat /\ clock + 1 \in 0..MaxRuns /\ 0..clock \subseteq 0..clock'
        /\ clock' = clock + 1 /\ clock + 1 \in 0..clock'
    BY <1>2, PublicationAssumption DEF Checkout
  <2>2. began' \in [Writers -> 0..clock']
    BY <1>2, <2>1 DEF Checkout
  <2>3. written' \subseteq [by : Writers, startedAt : 0..clock', text : {"whole", "partial", "cut"}]
    BY <1>2, <2>1 DEF Checkout
  <2>4. /\ main' \in Clones' /\ at' \in [Writers -> Steps]
        /\ clone' \in [Writers -> Clones]' /\ base' \in [Writers -> Clones]'
        /\ lost' \subseteq [file : written', why : {"partial", "broken", "conflict", "rejected"}]
    BY <1>2 DEF Checkout, Clones, Steps
  <2> QED
    BY <2>1, <2>2, <2>3, <2>4
<1>3. ASSUME NEW w \in Writers, RunFails(w) PROVE TypeOK'
  BY <1>3 DEF RunFails, Clones, Steps
<1>4. ASSUME NEW w \in Writers, NEW text \in {"whole", "partial"}, Run(w, text) PROVE TypeOK'
  <2>1. /\ main' \in Clones' /\ clone' \in [Writers -> Clones]' /\ base' \in [Writers -> Clones]'
        /\ written \subseteq written' /\ {File(w, text)} \in SUBSET written'
        /\ written' \subseteq [by : Writers, startedAt : 0..clock', text : {"whole", "partial", "cut"}]
        /\ clock' \in 0..MaxRuns /\ began' \in [Writers -> 0..clock']
    BY <1>4, WriteTyped DEF Run
  <2>2. CASE text = "partial" /\ w \in Jobs
    <3>1. Fail(w, "partial", {File(w, text)}) /\ "partial" \in Whys
      BY <1>4, <2>2 DEF Run, Whys
    <3> QED
      BY <2>1, <3>1, FailTyped DEF Whys
  <2>3. CASE ~(text = "partial" /\ w \in Jobs)
    <3>1. Goto(w, "summarize") /\ lost' = lost
      BY <1>4, <2>3 DEF Run
    <3>2. at' \in [Writers -> Steps]
      BY <3>1 DEF Steps
    <3> QED
      BY <2>1, <3>1, <3>2
  <2> QED
    BY <2>2, <2>3
<1>5. ASSUME NEW w \in Writers, WriteBreaks(w) PROVE TypeOK'
  <2>1. /\ main' \in Clones' /\ clone' \in [Writers -> Clones]' /\ base' \in [Writers -> Clones]'
        /\ written \subseteq written' /\ {File(w, "cut")} \in SUBSET written'
        /\ written' \subseteq [by : Writers, startedAt : 0..clock', text : {"whole", "partial", "cut"}]
        /\ clock' \in 0..MaxRuns /\ began' \in [Writers -> 0..clock']
    BY <1>5, WriteTyped DEF WriteBreaks
  <2>2. CASE w \in Jobs
    <3>1. Fail(w, "broken", {File(w, "cut")}) /\ "broken" \in Whys
      BY <1>5, <2>2 DEF WriteBreaks, Whys
    <3> QED
      BY <2>1, <3>1, FailTyped DEF Whys
  <2>3. CASE w \notin Jobs
    <3>1. Goto(w, "summarize") /\ lost' = lost
      BY <1>5, <2>3 DEF WriteBreaks
    <3>2. at' \in [Writers -> Steps]
      BY <3>1 DEF Steps
    <3> QED
      BY <2>1, <3>1, <3>2
  <2> QED
    BY <2>2, <2>3
<1>6. ASSUME NEW w \in Writers, NEW a \in Artifacts, WriteOne(w, a) PROVE TypeOK'
  <2>1. clone[w] \in Clones /\ Made(clone[w].files) \in [summary : SUBSET written, latest : Latests]
    BY MadeTyped DEF Clones
  <2>2. [clone[w] EXCEPT !.derived[a] = Made(clone[w].files)[a]] \in Clones
    BY <2>1 DEF Clones, Artifacts
  <2>3. clone' \in [Writers -> Clones]
    BY <1>6, <2>2 DEF WriteOne
  <2> QED
    BY <1>6, <2>3 DEF WriteOne, Clones, Steps
<1>7. ASSUME NEW w \in Writers, WriteOther(w) PROVE TypeOK'
  <2>1. clone[w] \in Clones /\ Made(clone[w].files) \in [summary : SUBSET written, latest : Latests]
    BY MadeTyped DEF Clones
  <2>2. clone' \in [Writers -> Clones]
    BY <1>7, <2>1 DEF WriteOther, Clones
  <2> QED
    BY <1>7, <2>2 DEF WriteOther, Clones, Steps
<1>8. ASSUME NEW w \in Writers, SummarizeBreaks(w) PROVE TypeOK'
  <2>1. Own(w) \in SUBSET written' /\ written' = written /\ "broken" \in Whys
    BY <1>8 DEF SummarizeBreaks, Own, Clones, Whys
  <2>2. UNCHANGED <<main, clone, base, clock, began, written>>
    BY <1>8 DEF SummarizeBreaks
  <2>3. CASE w \in Jobs
    <3>1. Fail(w, "broken", Own(w))
      BY <1>8, <2>3 DEF SummarizeBreaks
    <3>2. at' \in [Writers -> Steps] /\ lost' \subseteq [file : written', why : Whys]
      BY <2>1, <3>1, FailTyped
    <3> QED
      BY <2>2, <3>2 DEF Whys, Clones
  <2>4. CASE w \notin Jobs
    BY <1>8, <2>2, <2>4 DEF SummarizeBreaks, Steps, Clones
  <2> QED
    BY <2>3, <2>4
<1>9. ASSUME NEW w \in Writers, Discard(w) PROVE TypeOK'
  BY <1>9 DEF Discard, Clones, Steps
<1>10. ASSUME NEW w \in Writers, Rebase(w) PROVE TypeOK'
  <2>1. clone[w] \in Clones /\ base[w] \in Clones /\ main \in Clones
    OBVIOUS
  <2>2. /\ PickRows(base[w].derived.summary, main.derived.summary, clone[w].derived.summary)
             \in SUBSET written
        /\ Pick(base[w].derived.latest, main.derived.latest, clone[w].derived.latest) \in Latests
    BY <2>1 DEF PickRows, Pick, Clones
  <2>3. clone' \in [Writers -> Clones]
    BY <1>10, <2>1, <2>2 DEF Rebase, Clones
  <2> QED
    BY <1>10, <2>3 DEF Rebase, Clones, Steps
<1>11. ASSUME NEW w \in Writers, RebaseConflicts(w) \/ PushRejected(w) PROVE TypeOK'
  <2>1. /\ UNCHANGED <<main, clone, base, clock, began, written>>
        /\ \E why \in Whys : Fail(w, why, Own(w))
    BY <1>11 DEF RebaseConflicts, PushRejected, Whys
  <2>2. Own(w) \in SUBSET written' /\ written' = written
    BY <2>1 DEF Own, Clones
  <2>3. at' \in [Writers -> Steps] /\ lost' \subseteq [file : written', why : Whys]
    BY <2>1, <2>2, FailTyped
  <2> QED
    BY <2>1, <2>3 DEF Whys, Clones
<1>12. ASSUME NEW w \in Writers, Push(w) PROVE TypeOK'
  BY <1>12 DEF Push, Clones, Steps
<1>13. ASSUME NEW w \in Writers, Resolve(w) PROVE TypeOK'
  BY <1>13 DEF Resolve, Clones, Steps
<1> QED
  BY <1>1, <1>2, <1>3, <1>4, <1>5, <1>6, <1>7, <1>8, <1>9, <1>10, <1>11, <1>12, <1>13 DEF Next

\* A step writes at most one file.
LEMMA FiniteStep == IsFiniteSet(written) /\ [Next]_vars => IsFiniteSet(written')
<1> SUFFICES ASSUME IsFiniteSet(written), [Next]_vars PROVE IsFiniteSet(written')
  OBVIOUS
<1>1. CASE \E f : written' = written \cup {f}
  BY <1>1, FS_AddElement
<1>2. CASE UNCHANGED written
  BY <1>2
<1> QED
  BY <1>1, <1>2 DEF Next, vars, Checkout, RunFails, Run, WriteBreaks, WriteOne, WriteOther,
       SummarizeBreaks, Discard, Rebase, RebaseConflicts, Push, PushRejected, Resolve

\* The initial state is of its type.
LEMMA TypeInit == Init => Typed
<1> SUFFICES ASSUME Init PROVE Typed
  OBVIOUS
<1>1. NewestResultAt({}) = {} /\ Cardinality({}) = 0
  BY FS_EmptySet DEF NewestResultAt
<1>2. Empty \in Clones
  BY <1>1 DEF Made, Latests, Clones
<1>3. /\ main \in Clones /\ clone \in [Writers -> Clones] /\ base \in [Writers -> Clones]
  BY <1>2 DEF Init
<1>4. clock \in 0..MaxRuns /\ began \in [Writers -> 0..clock]
  BY PublicationAssumption DEF Init
<1>5. at \in [Writers -> Steps]
  BY DEF Init, Steps
<1>6. written = {} /\ lost = {}
  BY DEF Init
<1>7. TypeOK
  BY <1>3, <1>4, <1>5, <1>6 DEF TypeOK
<1>8. IsFiniteSet(written)
  BY <1>6, FS_EmptySet
<1> QED
  BY <1>7, <1>8 DEF Typed

\* The types and the finiteness are kept together.
LEMMA TypedStep == Typed /\ [Next]_vars => Typed'
BY TypeStep, FiniteStep DEF Typed

\* Every reachable state of the publication is of its type.
THEOREM PublicationTyped == Spec => []TypeOK
<1>1. Typed => TypeOK
  BY DEF Typed
<1> QED
  BY <1>1, TypeInit, TypedStep, PTL DEF Spec

-----------------------------------------------------------------------------
\* The artifacts that were just made count what there is.
LEMMA FreshLags ==
  ASSUME Typed, NEW tree \in Clones, Fresh(tree)
  PROVE  CountLags(tree)
<1>1. Cardinality(tree.files) \in Nat
  BY MadeTyped DEF Clones
<1> QED
  BY <1>1 DEF Fresh, Made, CountLags

Starts(files) == {f.startedAt : f \in files}

\* A newest result is one that no other is newer than, and there is one: the
\* least of the numbers that no start exceeds is a start.
LEMMA NewestIsMax ==
  ASSUME Typed, NEW files \in SUBSET written, files # {}
  PROVE  \E m \in Starts(files) :
           NewestResultAt(files) = {m} /\ \A u \in Starts(files) : u <= m
<1> USE DEF Starts
<1>1. Starts(files) \in SUBSET Nat /\ \A u \in Starts(files) : u <= clock
  BY DEF Typed, TypeOK
<1> DEFINE Bounds == {n \in Nat : \A u \in Starts(files) : u <= n}
<1>2. clock \in Bounds /\ Bounds \in SUBSET Nat
  BY <1>1 DEF Typed, TypeOK
<1>3. PICK m \in Bounds : \A n \in Bounds : m <= n
  BY <1>2, LeastNumber
<1>4. m \in Nat /\ \A u \in Starts(files) : u \in Nat /\ u <= m
  BY <1>1, <1>3
<1>5. m \in Starts(files)
  <2> SUFFICES ASSUME m \notin Starts(files) PROVE FALSE
    OBVIOUS
  <2>1. \A u \in Starts(files) : u \in Nat /\ u < m
    BY <1>4
  <2>2. PICK u \in Starts(files) : TRUE
    OBVIOUS
  <2>3. m - 1 \in Nat
    BY <1>4, <2>1, <2>2
  <2>4. m - 1 \in Bounds
    BY <1>4, <2>1, <2>3
  <2> QED
    BY <1>3, <1>4, <2>4
<1>6. NewestResultAt(files) = {t \in Starts(files) : \A u \in Starts(files) : u <= t}
  BY DEF NewestResultAt
<1>7. \A t \in Starts(files) : (\A u \in Starts(files) : u <= t) => t = m
  BY <1>4, <1>5
<1>8. NewestResultAt(files) = {m}
  BY <1>4, <1>5, <1>6, <1>7
<1> QED
  BY <1>4, <1>5, <1>8

\* The newest of two sets of results is that of the first, when the second has
\* none newer than what both come from.
LEMMA NewestOfBoth ==
  ASSUME Typed, NEW b \in SUBSET written, NEW ours \in SUBSET written, NEW theirs \in SUBSET written,
         b \subseteq ours, NewestResultAt(theirs) = NewestResultAt(b)
  PROVE  NewestResultAt(ours \cup theirs) = NewestResultAt(ours)
<1>1. CASE theirs = {}
  BY <1>1
<1>2. CASE theirs # {}
  <2>1. PICK m \in Starts(theirs) :
          NewestResultAt(theirs) = {m} /\ \A u \in Starts(theirs) : u <= m
    BY <1>2, NewestIsMax
  <2>2. m \in Starts(ours)
    BY <2>1 DEF NewestResultAt, Starts
  <2>3. \A u \in Starts(ours) \cup Starts(theirs) : u \in Nat
    BY DEF Typed, TypeOK, Starts
  <2>4. \A t \in Starts(ours) : (\A u \in Starts(ours) : u <= t) => \A u \in Starts(theirs) : u <= t
    BY <2>1, <2>2, <2>3
  <2>5. \A t \in Starts(theirs) :
          (\A u \in Starts(ours) \cup Starts(theirs) : u <= t) => t = m
    BY <2>1, <2>2, <2>3
  <2>6. Starts(ours \cup theirs) = Starts(ours) \cup Starts(theirs)
    BY DEF Starts
  <2>7. \A A \in SUBSET written :
          NewestResultAt(A) = {t \in Starts(A) : \A u \in Starts(A) : u <= t}
    BY DEF NewestResultAt, Starts
  <2>8. NewestResultAt(ours) = {t \in Starts(ours) : \A u \in Starts(ours) : u <= t}
    BY <2>7
  <2>9. NewestResultAt(ours \cup theirs) =
          {t \in Starts(ours) \cup Starts(theirs) : \A u \in Starts(ours) \cup Starts(theirs) : u <= t}
    BY <2>6, <2>7
  <2> QED
    BY <2>2, <2>4, <2>5, <2>8, <2>9
<1> QED
  BY <1>1, <1>2

-----------------------------------------------------------------------------
Sound == OnlyTheCountLags /\ ClonesOnlyAdd

\* Only a push changes main, and only from a clone that holds it.
LEMMA MainGrows ==
  ASSUME TypeOK, Sound, [Next]_vars
  PROVE  main.files \subseteq main'.files
<1>1. ASSUME NEW w \in Writers, Push(w) PROVE main.files \subseteq main'.files
  BY <1>1 DEF Push, ClonesOnlyAdd, Sound
<1>2. CASE UNCHANGED main
  BY <1>2
<1> QED
  BY <1>1, <1>2 DEF Next, vars, Checkout, RunFails, Run, WriteBreaks, WriteOne, WriteOther,
                    SummarizeBreaks, Discard, Rebase, RebaseConflicts, PushRejected, Resolve

\* A rebase without a conflict keeps every row, and the time of the newest
\* result: only one side changed latest.json, and then the other side had no
\* result newer than the base's, or both sides changed it to the same.
LEMMA RebaseLags ==
  ASSUME Typed, Sound, NEW w \in Writers, Rebase(w)
  PROVE  CountLags(clone'[w]) /\ main.files \subseteq clone'[w].files
<1> DEFINE b == base[w].files
           ours == main.files
           theirs == clone[w].files
           kept == Pick(base[w].derived.latest, main.derived.latest, clone[w].derived.latest)
<1>1. /\ clone'[w].files = theirs \cup ours
      /\ clone'[w].derived.latest = kept
      /\ clone'[w].derived.summary =
           PickRows(base[w].derived.summary, main.derived.summary, clone[w].derived.summary)
  BY DEF Rebase, Typed, TypeOK
<1>2. /\ b \in SUBSET written /\ ours \in SUBSET written /\ theirs \in SUBSET written
      /\ ours \cup theirs \in SUBSET written /\ ours \cup theirs = theirs \cup ours
  BY DEF Typed, TypeOK, Clones
<1>3. b \subseteq ours /\ b \subseteq theirs
  BY DEF Rebase, Sound, ClonesOnlyAdd
<1>4. CountLags(base[w]) /\ CountLags(main) /\ Fresh(clone[w])
  BY DEF Rebase, Sound, OnlyTheCountLags, ClonesOnlyAdd
<1>5. CountLags(clone[w])
  BY <1>4, FreshLags DEF Typed, TypeOK
<1>6. clone'[w].derived.summary = theirs \cup ours
  BY <1>1, <1>3, <1>4, <1>5 DEF CountLags, PickRows
<1>7. /\ Cardinality(ours) <= Cardinality(ours \cup theirs)
      /\ Cardinality(theirs) <= Cardinality(ours \cup theirs)
  <2>1. IsFiniteSet(ours \cup theirs)
    BY <1>2, FS_Subset DEF Typed
  <2> QED
    BY <2>1, FS_Subset
<1>8. /\ Cardinality(ours) \in Nat /\ Cardinality(theirs) \in Nat
      /\ Cardinality(ours \cup theirs) \in Nat
      /\ main.derived.latest.result_files \in Nat /\ clone[w].derived.latest.result_files \in Nat
  BY <1>2, MadeTyped DEF Typed, TypeOK, Clones, Latests
<1>9. /\ main.derived.latest.result_files <= Cardinality(ours \cup theirs)
      /\ clone[w].derived.latest.result_files <= Cardinality(ours \cup theirs)
  BY <1>4, <1>5, <1>7, <1>8 DEF CountLags
<1>10. /\ base[w].derived.latest.newest_result_at = NewestResultAt(b)
       /\ main.derived.latest.newest_result_at = NewestResultAt(ours)
       /\ clone[w].derived.latest.newest_result_at = NewestResultAt(theirs)
  BY <1>4, <1>5 DEF CountLags
<1>11. /\ kept.newest_result_at = NewestResultAt(ours \cup theirs)
       /\ kept.result_files <= Cardinality(ours \cup theirs)
  <2>1. CASE clone[w].derived.latest = base[w].derived.latest
    <3>1. NewestResultAt(ours \cup theirs) = NewestResultAt(ours)
      BY <1>2, <1>3, <1>10, <2>1, NewestOfBoth
    <3> QED
      BY <1>9, <1>10, <2>1, <3>1 DEF Pick
  <2>2. CASE clone[w].derived.latest # base[w].derived.latest
    <3>1. \/ main.derived.latest = base[w].derived.latest
          \/ main.derived.latest = clone[w].derived.latest
      BY <2>2 DEF Rebase, MustConflict, Clash
    <3>2. \/ NewestResultAt(ours) = NewestResultAt(b)
          \/ NewestResultAt(ours) = NewestResultAt(theirs)
      BY <1>10, <3>1
    <3>3. NewestResultAt(theirs \cup ours) = NewestResultAt(theirs)
      BY <1>2, <1>3, <3>2, NewestOfBoth
    <3> QED
      BY <1>2, <1>9, <1>10, <2>2, <3>3 DEF Pick
  <2> QED
    BY <2>1, <2>2
<1> QED
  BY <1>1, <1>2, <1>6, <1>11 DEF CountLags

\* What a step of one writer owes: main, this writer's clone and its base, with
\* the other writers' clones and bases as they were.
LEMMA OthersKept ==
  ASSUME TypeOK, Sound, NEW w \in Writers,
         main.files \subseteq main'.files, CountLags(main'),
         \A v \in Writers \ {w} : clone'[v] = clone[v] /\ base'[v] = base[v] /\ at'[v] = at[v],
         /\ CountLags(base'[w])
         /\ base'[w].files \subseteq main'.files
         /\ at'[w] # "idle" => base'[w].files \subseteq clone'[w].files
         /\ at'[w] = "rebase" => Fresh(clone'[w])
         /\ at'[w] = "push" => CountLags(clone'[w])
  PROVE  Sound'
<1>1. ASSUME NEW v \in Writers
      PROVE  /\ CountLags(base'[v])
             /\ base'[v].files \subseteq main'.files
             /\ at'[v] # "idle" => base'[v].files \subseteq clone'[v].files
             /\ at'[v] = "rebase" => Fresh(clone'[v])
             /\ at'[v] = "push" => CountLags(clone'[v])
  <2>1. CASE v = w
    BY <2>1
  <2>2. CASE v # w
    BY <2>2 DEF Sound, ClonesOnlyAdd
  <2> QED
    BY <2>1, <2>2
<1> QED
  BY <1>1 DEF Sound, OnlyTheCountLags, ClonesOnlyAdd, Fresh, CountLags

\* Every step keeps main's rows and newest time, and the clones additive.
LEMMA SoundStep == Typed /\ Sound /\ [Next]_vars => Sound'
<1> SUFFICES ASSUME Typed, TypeOK, Sound, [Next]_vars PROVE Sound'
  BY DEF Typed
<1>0. /\ CountLags(main)
      /\ \A v \in Writers : /\ CountLags(base[v])
                            /\ base[v].files \subseteq main.files
                            /\ at[v] # "idle" => base[v].files \subseteq clone[v].files
  BY DEF Sound, OnlyTheCountLags, ClonesOnlyAdd
<1>1. CASE UNCHANGED vars
  BY <1>1 DEF vars, Sound, OnlyTheCountLags, ClonesOnlyAdd, Fresh, CountLags
<1>2. ASSUME NEW w \in Writers, Checkout(w) PROVE Sound'
  BY <1>0, <1>2, OthersKept DEF Checkout, TypeOK
<1>3. ASSUME NEW w \in Writers,
             RunFails(w) \/ SummarizeBreaks(w) \/ RebaseConflicts(w) \/ PushRejected(w)
      PROVE  Sound'
  <2>1. /\ UNCHANGED <<main, clone, base>>
        /\ \E step \in {"idle", "stopped", "summarize"} : at' = [at EXCEPT ![w] = step]
        /\ at[w] # "idle"
    BY <1>3 DEF RunFails, SummarizeBreaks, RebaseConflicts, PushRejected, Fail
  <2> QED
    BY <1>0, <2>1, OthersKept DEF TypeOK
<1>4. ASSUME NEW w \in Writers, (\E text \in {"whole", "partial"} : Run(w, text)) \/ WriteBreaks(w)
      PROVE  Sound'
  <2>1. /\ UNCHANGED <<main, base>> /\ at[w] = "run"
        /\ \E step \in {"idle", "stopped", "summarize"} : at' = [at EXCEPT ![w] = step]
        /\ \E f : clone' = [clone EXCEPT ![w].files = @ \cup {f}]
    BY <1>4 DEF Run, WriteBreaks, Fail
  <2>2. clone[w].files \subseteq clone'[w].files
    BY <2>1 DEF TypeOK, Clones
  <2> QED
    BY <1>0, <2>1, <2>2, OthersKept DEF TypeOK
<1>5. ASSUME NEW w \in Writers, (\E a \in Artifacts : WriteOne(w, a)) \/ WriteOther(w)
      PROVE  Sound'
  <2>1. /\ UNCHANGED <<main, base>> /\ at[w] # "idle"
        /\ \E step \in {"halfway", "rebase"} : at' = [at EXCEPT ![w] = step]
        /\ clone'[w].files = clone[w].files
        /\ \A v \in Writers \ {w} : clone'[v] = clone[v]
    BY <1>5 DEF WriteOne, WriteOther, TypeOK, Clones
  <2>2. at'[w] = "rebase" => Fresh(clone'[w])
    <3>1. CASE WriteOther(w)
      BY <3>1 DEF WriteOther, TypeOK, Clones, Fresh
    <3>2. CASE \E a \in Artifacts : WriteOne(w, a)
      BY <3>2 DEF WriteOne, TypeOK
    <3> QED
      BY <1>5, <3>1, <3>2
  <2> QED
    BY <1>0, <2>1, <2>2, OthersKept DEF TypeOK
<1>6. ASSUME NEW w \in Writers, Discard(w) PROVE Sound'
  <2>1. /\ UNCHANGED <<main, base>> /\ at' = [at EXCEPT ![w] = "idle"]
        /\ \A v \in Writers \ {w} : clone'[v] = clone[v]
    BY <1>6 DEF Discard, TypeOK
  <2> QED
    BY <1>0, <2>1, OthersKept DEF TypeOK
<1>7. ASSUME NEW w \in Writers, Rebase(w) PROVE Sound'
  <2>1. CountLags(clone'[w]) /\ main.files \subseteq clone'[w].files
    BY <1>7, RebaseLags
  <2>2. /\ main' = main /\ base' = [base EXCEPT ![w] = main]
        /\ at' = [at EXCEPT ![w] = "push"]
        /\ \A v \in Writers \ {w} : clone'[v] = clone[v]
    BY <1>7 DEF Rebase, TypeOK
  <2> QED
    BY <1>0, <2>1, <2>2, OthersKept DEF TypeOK
<1>8. ASSUME NEW w \in Writers, Push(w) PROVE Sound'
  <2>1. CountLags(clone[w]) /\ main.files \subseteq clone[w].files /\ main' = clone[w]
    BY <1>8 DEF Push, Sound, ClonesOnlyAdd
  <2>2. UNCHANGED <<clone, base>> /\ at' = [at EXCEPT ![w] = "idle"] /\ main = base[w]
    BY <1>8 DEF Push
  <2> QED
    BY <1>0, <2>1, <2>2, OthersKept DEF TypeOK
<1>9. ASSUME NEW w \in Writers, Resolve(w) PROVE Sound'
  <2>1. /\ main' = main /\ base' = [base EXCEPT ![w] = main]
        /\ at' = [at EXCEPT ![w] = "summarize"]
        /\ \A v \in Writers \ {w} : clone'[v] = clone[v]
        /\ main.files \subseteq clone'[w].files
    BY <1>9 DEF Resolve, TypeOK
  <2> QED
    BY <1>0, <2>1, OthersKept DEF TypeOK
<1> QED
  BY <1>1, <1>2, <1>3, <1>4, <1>5, <1>6, <1>7, <1>8, <1>9 DEF Next

-----------------------------------------------------------------------------
\* A clone that was read by summarize stays readable until its next run, and
\* only such a clone is pushed.
LEMMA ReadableStep ==
  TypeOK /\ MainIsReadable /\ ClonesAreReadable /\ [Next]_vars => (MainIsReadable /\ ClonesAreReadable)'
<1> SUFFICES ASSUME TypeOK, MainIsReadable, ClonesAreReadable, [Next]_vars
             PROVE  (MainIsReadable /\ ClonesAreReadable)'
  OBVIOUS
<1> DEFINE Kept(v) == clone'[v].files = clone[v].files /\ at'[v] = at[v]
<1> USE DEF MainIsReadable, ClonesAreReadable, Readable, Unreadable
<1>1. CASE UNCHANGED vars
  BY <1>1 DEF vars
<1>2. ASSUME NEW w \in Writers, Checkout(w) \/ Discard(w) \/ Resolve(w)
             \/ (\E text \in {"whole", "partial"} : Run(w, text)) \/ WriteBreaks(w)
      PROVE  (MainIsReadable /\ ClonesAreReadable)'
  <2>1. /\ main' = main
        /\ at'[w] \notin {"halfway", "rebase", "push", "stopped"}
        /\ \A v \in Writers \ {w} : Kept(v)
    BY <1>2 DEF Checkout, Discard, Resolve, Run, WriteBreaks, Fail, TypeOK
  <2> QED
    BY <2>1
<1>3. ASSUME NEW w \in Writers,
             RunFails(w) \/ SummarizeBreaks(w) \/ RebaseConflicts(w) \/ PushRejected(w)
      PROVE  (MainIsReadable /\ ClonesAreReadable)'
  <2>1. /\ UNCHANGED <<main, clone>>
        /\ \/ at'[w] \in {"idle", "summarize"}
           \/ at[w] \in {"halfway", "rebase", "push"}
        /\ \A v \in Writers \ {w} : at'[v] = at[v]
    BY <1>3 DEF RunFails, SummarizeBreaks, RebaseConflicts, PushRejected, Fail, TypeOK
  <2> QED
    BY <2>1
<1>4. ASSUME NEW w \in Writers, (\E a \in Artifacts : WriteOne(w, a)) \/ WriteOther(w)
      PROVE  (MainIsReadable /\ ClonesAreReadable)'
  <2>1. /\ main' = main
        /\ \A v \in Writers : clone'[v].files = clone[v].files
        /\ Readable(clone[w])
        /\ \A v \in Writers \ {w} : at'[v] = at[v]
    <3>1. CASE WriteOther(w)
      BY <3>1 DEF WriteOther, TypeOK
    <3>2. CASE \E a \in Artifacts : WriteOne(w, a)
      BY <3>2 DEF WriteOne, TypeOK
    <3> QED
      BY <1>4, <3>1, <3>2
  <2> QED
    BY <2>1
<1>5. ASSUME NEW w \in Writers, Rebase(w) PROVE (MainIsReadable /\ ClonesAreReadable)'
  <2>1. /\ main' = main
        /\ clone'[w].files = clone[w].files \cup main.files
        /\ \A v \in Writers \ {w} : Kept(v)
        /\ Readable(clone[w])
    BY <1>5 DEF Rebase, TypeOK, Clones
  <2> QED
    BY <2>1
<1>6. ASSUME NEW w \in Writers, Push(w) PROVE (MainIsReadable /\ ClonesAreReadable)'
  BY <1>6 DEF Push, TypeOK
<1> QED
  BY <1>1, <1>2, <1>3, <1>4, <1>5, <1>6 DEF Next

-----------------------------------------------------------------------------
Safe == Typed /\ Sound /\ MainIsReadable /\ ClonesAreReadable

\* The inductive invariant holds in every reachable state.
LEMMA SafeAlways == Spec => []Safe
<1>1. Init => Safe
  <2> SUFFICES ASSUME Init PROVE Safe
    OBVIOUS
  <2>1. Typed
    BY TypeInit
  <2>2. Empty.files = {} /\ Fresh(Empty)
    BY DEF Fresh
  <2>3. CountLags(Empty)
    <3>1. main = Empty
      BY DEF Init
    <3>2. Empty \in Clones
      BY <2>1, <3>1 DEF Typed, TypeOK
    <3> QED
      BY <2>1, <2>2, <3>2, FreshLags
  <2> HIDE DEF Empty
  <2>4. main = Empty /\ \A w \in Writers : at[w] = "idle" /\ base[w] = Empty
    BY DEF Init
  <2>5. ClonesOnlyAdd /\ ClonesAreReadable
    BY <2>2, <2>3, <2>4 DEF ClonesOnlyAdd, ClonesAreReadable
  <2>6. MainIsReadable
    BY <2>2, <2>4 DEF MainIsReadable
  <2> QED
    BY <2>1, <2>3, <2>4, <2>5, <2>6 DEF Safe, Sound, OnlyTheCountLags
<1>2. Safe /\ [Next]_vars => Safe'
  BY TypedStep, SoundStep, ReadableStep DEF Safe, Typed
<1> QED
  BY <1>1, <1>2, PTL DEF Spec

\* On main SUMMARY.md's Runs table has every result and newest_result_at is
\* that of the newest, whoever raced whom and whatever failed: what git merges
\* without a conflict can make no more than result_files too small.
THEOREM OnlyCountsFallBehind == Spec => []OnlyTheCountLags
<1>1. Safe => OnlyTheCountLags
  BY DEF Safe, Sound
<1> QED
  BY <1>1, SafeAlways, PTL

\* A result cut off by a failed write never reaches main.
THEOREM MainStaysReadable == Spec => []MainIsReadable
<1>1. Safe => MainIsReadable
  BY DEF Safe
<1> QED
  BY <1>1, SafeAlways, PTL

-----------------------------------------------------------------------------
\* The initial state maps to the archive's, and every step to an append or
\* to a stutter.
THEOREM PublicationImplementsArchive == Spec => ImplementsArchive
<1>1. Init => Archived!Init
  BY DEF Init, Archived!Init
<1>2. Safe /\ Safe' /\ [Next]_vars => [Archived!Append]_(Archived!vars)
  <2> SUFFICES ASSUME Safe, Safe', [Next]_vars PROVE [Archived!Append]_(Archived!vars)
    OBVIOUS
  <2>1. main.files \subseteq main'.files
    BY MainGrows DEF Safe, Typed
  <2>2. main'.files \subseteq WholeResults
    <3> SUFFICES ASSUME NEW f \in main'.files PROVE f \in WholeResults
      OBVIOUS
    <3>1. /\ f \in [by : Writers, startedAt : 0..clock', text : {"whole", "partial", "cut"}]
          /\ clock' \in Nat
      BY PublicationAssumption DEF Safe, Typed, TypeOK, Clones
    <3>2. f.text # "cut"
      BY DEF Safe, MainIsReadable
    <3> QED
      BY <3>1, <3>2 DEF WholeResults
  <2> QED
    BY <2>1, <2>2 DEF Archived!Append
<1> QED
  BY <1>1, <1>2, SafeAlways, PTL DEF Spec, ImplementsArchive, Archived!Spec
=============================================================================
