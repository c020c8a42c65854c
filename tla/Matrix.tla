------------------------------- MODULE Matrix -------------------------------
(***************************************************************************)
(* What harness/matrix.go makes of a matrix file: the defaults filled in,  *)
(* the file accepted or rejected as a whole, and the sequence of           *)
(* configurations the runner is given.                                     *)
(*                                                                         *)
(* A file is [schemaVersion, defaults, baseSize, configurations].  A raw   *)
(* configuration's missing fields are the zero values Unset and 0, except  *)
(* warmups, a pointer: <<>> when absent and <<n>> when given.  Assets,     *)
(* cases and concurrency are treated alike throughout and are one field,   *)
(* size.                                                                   *)
(***************************************************************************)
EXTENDS Invoke

\* A configuration as the file has it.
Raw(id, agent, stages, reps, warmups, size, deferred, reason, cost, calls) ==
  [id |-> id, agent |-> agent, stages |-> stages, repetitions |-> reps,
   warmups |-> warmups, size |-> size, deferred |-> deferred, reason |-> reason,
   maxCostUSD |-> cost, maxCalls |-> calls]

Unset == "unset"                                 \* the empty string

Or(value, zero, fallback) == IF value = zero THEN fallback ELSE value
AtLeast0(n) == IF n < 0 THEN 0 ELSE n

\* Mutant: an explicit zero is taken for an absent one.
WarmupsOrDefault(m, r) ==
  AtLeast0(IF r.warmups = <<>> \/ r.warmups = <<0>> THEN m.defaults.warmups ELSE r.warmups[1])

\* The resolved count: an explicit number, zero included, is honoured.
Warmups(m, r) ==
  AtLeast0(IF r.warmups = <<>> THEN m.defaults.warmups ELSE r.warmups[1])

\* Resolve: a copy of the configuration with the defaults filled in.
Resolve(m, r) ==
  [r EXCEPT !.agent       = Or(Or(@, Unset, m.defaults.agent), Unset, FakeAgent),
            !.repetitions = Or(@, 0, m.defaults.repetitions),
            !.warmups     = Warmups(m, r),
            !.size        = Or(@, 0, m.baseSize)]

Resolved(m) == [i \in DOMAIN m.configurations |-> Resolve(m, m.configurations[i])]

\* Mutant: one ceiling is enough.
LacksBothCeilings(c) == c.agent # FakeAgent /\ c.maxCostUSD <= 0 /\ c.maxCalls <= 0

\* The checks made of every configuration, and those a deferred one is spared.
LacksACeiling(c) == c.agent # FakeAgent /\ (c.maxCostUSD <= 0 \/ c.maxCalls <= 0)

Described(c) ==
  /\ c.id # Unset
  /\ c.stages # <<>>
  /\ \A j \in DOMAIN c.stages : c.stages[j] \in KnownStages
  /\ c.deferred => c.reason
Runnable(c) == c.size >= 1 /\ c.repetitions >= 1 /\ ~LacksACeiling(c)

\* validate returns nil.
Valid(m) ==
  LET rs == Resolved(m) IN
  /\ m.schemaVersion = 1
  /\ rs # <<>>
  /\ \A i \in DOMAIN rs : Described(rs[i]) /\ (rs[i].deferred \/ Runnable(rs[i]))
  /\ \A i, j \in DOMAIN rs : rs[i].id = rs[j].id => i = j

\* The fields the runner's model reads.
Driven(c) ==
  [id |-> c.id, agent |-> c.agent, stages |-> c.stages,
   warmups |-> c.warmups, repetitions |-> c.repetitions,
   maxCostUSD |-> c.maxCostUSD, maxCalls |-> c.maxCalls]

\* Active: out after the first n configurations.
Active(m) ==
  LET rs == Resolved(m)
      out[n \in 0..Len(rs)] == IF n = 0 THEN <<>>
                               ELSE IF rs[n].deferred THEN out[n - 1]
                               ELSE Append(out[n - 1], Driven(rs[n]))
  IN  out[Len(rs)]

\* LintMatrix: the file as a whole when it does not load, else the
\* configurations with a stage BuildArgs refuses although every run id is at hand.
LintMatrix(m) ==
  LET allIDs == [s \in DOMAIN NoIDs |-> <<s>>]
      active == Active(m)
  IN  IF ~Valid(m) THEN {0}
      ELSE {i \in DOMAIN active :
              \E j \in DOMAIN active[i].stages : BuildFails(active[i].stages[j], active[i], allIDs)}

\* The types of the file: any number where YAML has one.
RawConfigs == [id : STRING, agent : STRING, stages : Seq(STRING), repetitions : Int,
               warmups : {w \in Seq(Int) : Len(w) <= 1}, size : Int,
               deferred : BOOLEAN, reason : BOOLEAN, maxCostUSD : Int, maxCalls : Int]
MatrixFiles == [schemaVersion : Int, baseSize : Int,
                defaults : [agent : STRING, repetitions : Int, warmups : Int],
                configurations : Seq(RawConfigs)]
=============================================================================
