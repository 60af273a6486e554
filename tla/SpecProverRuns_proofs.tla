------------------------ MODULE SpecProverRuns_proofs ------------------------
(***************************************************************************)
(* What the prover's good reports say about the functions themselves, for  *)
(* every set of states, every program and every depth of calls: promises   *)
(* are kept and invariants preserved on every run.                         *)
(*                                                                         *)
(* ReportsTrue adds to the bookkeeping of SpecProver_proofs what a report  *)
(* stands for: a check that succeeded proved its goal, a round has looked  *)
(* at every primitive it is through with.  The runs are an iteration over  *)
(* the depth of calls; the induction over it is by the least depth at      *)
(* which a statement fails.                                                *)
(***************************************************************************)
EXTENDS SpecProver_proofs, WellFoundedInduction

Depths == 0..RunDepth

\* A set of depths that holds a depth whenever it holds all smaller ones.
LEMMA DepthInduction ==
    ASSUME NEW S,
           \A k \in Depths : (\A m \in 0..(k - 1) : m \in S) => k \in S
    PROVE  Depths \subseteq S
  <1> DEFINE R == {ss \in Nat \X Nat : ss[1] < ss[2]}
  <1> DEFINE T == {k \in Depths : k \notin S}
  <1>1. IsWellFoundedOn(R, Nat)
    BY NatLessThanWellFounded DEF OpToRel
  <1>2. RunDepth \in Nat
    BY ProgramAssumption
  <1>3. T \subseteq Nat
    BY <1>2 DEF Depths
  <1>4. SUFFICES ASSUME T # {} PROVE FALSE
    OBVIOUS
  <1> HIDE DEF R, T
  <1>5. PICK k \in T : \A m \in T : ~(<<m, k>> \in R)
    BY <1>1, <1>3, <1>4, WFMin
  <1>6. k \in Depths /\ k \notin S
    BY <1>5 DEF T
  <1>7. ASSUME NEW m \in 0..(k - 1) PROVE m \in S
    <2>1. k \in Nat /\ m \in Nat /\ m < k /\ m \in Depths
      BY <1>2, <1>6, <1>7 DEF Depths
    <2>2. <<m, k>> \in R
      BY <2>1 DEF R
    <2> QED
      BY <1>5, <2>1, <2>2 DEF T
  <1> QED
    BY <1>6, <1>7

-----------------------------------------------------------------------------

NoRuns == [f \in prog.funcs |-> {}]

\* The iteration up to depth n.
IsIteration(g, n) ==
    g = [k \in 0..n |-> IF k = 0 THEN NoRuns ELSE RunFrom(g[k - 1])]

\* There is an iteration up to every depth.
LEMMA IterationExists == \A n \in Depths : \E g : IsIteration(g, n)
  <1> DEFINE S == {n \in Depths : \E g : IsIteration(g, n)}
  <1>1. ASSUME NEW n \in Depths, \A m \in 0..(n - 1) : m \in S PROVE n \in S
    <2>1. n \in Nat
      BY ProgramAssumption DEF Depths
    <2>2. CASE n = 0
      <3> DEFINE g == [k \in 0..0 |-> NoRuns]
      <3>1. g = [k \in 0..0 |-> IF k = 0 THEN NoRuns ELSE RunFrom(g[k - 1])]
        OBVIOUS
      <3> QED
        BY <2>2, <3>1 DEF IsIteration
    <2>3. CASE n # 0
      <3>1. n - 1 \in 0..(n - 1)
        BY <2>1, <2>3
      <3>2. PICK g : IsIteration(g, n - 1)
        BY <1>1, <3>1
      <3> DEFINE h == [k \in 0..n |-> IF k = n THEN RunFrom(g[n - 1]) ELSE g[k]]
      <3>3. ASSUME NEW k \in 0..n
            PROVE  h[k] = IF k = 0 THEN NoRuns ELSE RunFrom(h[k - 1])
        <4>1. CASE k = n
          <5>1. h[k] = RunFrom(g[n - 1]) /\ h[k - 1] = g[n - 1]
            BY <2>1, <2>3, <4>1
          <5> QED
            BY <2>3, <4>1, <5>1
        <4>2. CASE k # n
          <5>1. k \in 0..(n - 1) /\ h[k] = g[k]
            BY <2>1, <3>3, <4>2
          <5>2. g[k] = IF k = 0 THEN NoRuns ELSE RunFrom(g[k - 1])
            BY <3>2, <5>1 DEF IsIteration
          <5>3. k # 0 => h[k - 1] = g[k - 1]
            BY <2>1, <5>1
          <5> QED
            BY <5>1, <5>2, <5>3
        <4> QED
          BY <4>1, <4>2
      <3>4. h = [k \in 0..n |-> IF k = 0 THEN NoRuns ELSE RunFrom(h[k - 1])]
        <4> DEFINE r == [k \in 0..n |-> IF k = 0 THEN NoRuns ELSE RunFrom(h[k - 1])]
        <4>1. \A k \in 0..n : h[k] = r[k]
          BY <3>3
        <4>2. DOMAIN h = 0..n /\ DOMAIN r = 0..n
          OBVIOUS
        <4> HIDE DEF h, r
        <4>3. h = [k \in 0..n |-> h[k]] /\ r = [k \in 0..n |-> r[k]]
          BY DEF h, r
        <4>4. h = r
          BY <4>1, <4>3
        <4> QED
          BY <4>4 DEF r
      <3> QED
        BY <3>4 DEF IsIteration
    <2> QED
      BY <2>2, <2>3
  <1> HIDE DEF S
  <1>2. Depths \subseteq S
    BY <1>1, DepthInduction
  <1> QED
    BY <1>2 DEF S

\* What the iteration computes.
LEMMA Rounds ==
    \A k \in Depths : RunAfter[k] = IF k = 0 THEN NoRuns ELSE RunFrom(RunAfter[k - 1])
  <1>1. RunDepth \in Depths
    BY ProgramAssumption DEF Depths
  <1>2. \E g : g = [k \in 0..RunDepth |-> IF k = 0 THEN NoRuns ELSE RunFrom(g[k - 1])]
    BY <1>1, IterationExists DEF IsIteration
  <1>3. RunAfter = [k \in 0..RunDepth |-> IF k = 0 THEN NoRuns ELSE RunFrom(RunAfter[k - 1])]
    BY <1>2 DEF RunAfter, NoRuns
  <1> QED
    BY <1>3 DEF Depths

-----------------------------------------------------------------------------

Assumed(n) == {s \in States : \A m \in 1..(n - 1) : s \in prog.invs[m]}

LoopProof(f) ==
    f \in prog.specified /\ Proved(f, prog.pre[f], prog.promise[f], States, "LOOP")

DefProof(f) ==
    f \notin prog.loops /\ Proved(f, States, prog.promise[f], States, "PREPOST")

InvProof(n, f) ==
    Proved(f, prog.invs[n] \cap prog.pre[f] \cap Assumed(n), States \X prog.invs[n],
           prog.invs[n], "SYS")

\* What a good report is about.
ReportTrue(r) ==
    r.ok =>
        /\ r.kind = "loop" => LoopProof(r.func)
        /\ r.kind = "prepost" => DefProof(r.func)
        /\ r.kind = "inv" => InvProof(r.inv, r.func)

ReportsTrue == \A r \in log : ReportTrue(r)

\* Invariants are verified in their order.
Behind == verified \subseteq 1..(inv - 1)

InvReported(n, p) == \E ok \in BOOLEAN : Report("inv", n, p, ok) \in log

Visited ==
    "inv" \in prog.opts =>
        \A n \in 1..Len(prog.invs), p \in Prims :
            n < inv \/ (n = inv /\ p \notin todo) => InvReported(n, p)

Through == "inv" \in prog.opts /\ phase # "invariants" => inv > Len(prog.invs)

Evidence == ReportsTrue /\ Behind /\ Visited /\ Through

-----------------------------------------------------------------------------

\* The program is what a proof is about, and it does not change.
LEMMA ProofsStay ==
    ASSUME prog' = prog
    PROVE  /\ \A f : LoopProof(f) => LoopProof(f)'
           /\ \A f : DefProof(f) => DefProof(f)'
           /\ \A n, f : InvProof(n, f) => InvProof(n, f)'
  <1>1. \A g : Specified(g)' <=> Specified(g)
    BY DEF Specified
  <1>2. \A g, t : Promised(g, t)' = Promised(g, t)
    BY <1>1 DEF Promised
  <1>3. \A g, t : PreChecked(g, t)' <=> PreChecked(g, t)
    BY <1>1 DEF PreChecked
  <1>4. \A x, t, s, goal, after :
            CallProved(x, t, s, goal, after)' <=> CallProved(x, t, s, goal, after)
    BY <1>2, <1>3 DEF CallProved
  <1>5. \A x, t, s, goal, mode :
            TailProved(x, t, s, goal, mode)' <=> TailProved(x, t, s, goal, mode)
    BY <1>2, <1>3 DEF TailProved
  <1>6. \A f, start, goal, after, mode :
            Proved(f, start, goal, after, mode)' <=> Proved(f, start, goal, after, mode)
    BY <1>4, <1>5 DEF Proved, ReturnProved
  <1>7. \A f : LoopProof(f) => LoopProof(f)'
    BY <1>6 DEF LoopProof
  <1>8. \A f : DefProof(f) => DefProof(f)'
    BY <1>6 DEF DefProof
  <1>9. \A n : Assumed(n)' = Assumed(n)
    BY DEF Assumed
  <1>10. \A n, f : InvProof(n, f) => InvProof(n, f)'
    BY <1>6, <1>9 DEF InvProof
  <1> QED
    BY <1>7, <1>8, <1>10

\* A report that is true stays true.
LEMMA ReportStays ==
    ASSUME prog' = prog, NEW r, ReportTrue(r)
    PROVE  ReportTrue(r)'
  BY ProofsStay DEF ReportTrue

\* A check succeeds only where the goal is proved.
LEMMA LoopInvProves ==
    ASSUME NEW f, NEW o \in CheckLoopInv(f), o.ok
    PROVE  LoopProof(f)
  BY DEF CheckLoopInv, Outcomes, LoopProof

\* A specification that is accepted is proved.
LEMMA PrePostProves ==
    ASSUME NEW f, f \notin prog.loops, NEW o \in CheckPrePost(f), o.ok
    PROVE  DefProof(f)
  BY DEF CheckPrePost, Outcomes, DefProof

\* A proof from fewer starting states is one as well.
LEMMA ProvedFromFewer ==
    ASSUME NEW f, NEW start, NEW fewer, NEW goal, NEW after, NEW mode,
           fewer \subseteq start, Proved(f, start, goal, after, mode)
    PROVE  Proved(f, fewer, goal, after, mode)
  BY DEF Proved

\* An invariant that is accepted is proved of the function.
LEMMA InvByPathProves ==
    ASSUME TypeOK, Behind, NEW f, NEW o \in CheckInvByPath(f), o.ok
    PROVE  InvProof(inv, f)
  <1>1. Proved(f, prog.invs[inv] \cap prog.pre[f] \cap Known, States \X prog.invs[inv],
               prog.invs[inv], "SYS")
    BY DEF CheckInvByPath, Outcomes
  <1>2. Assumed(inv) \subseteq Known
    BY DEF Assumed, Known, Behind
  <1>3. prog.invs[inv] \cap prog.pre[f] \cap Assumed(inv)
            \subseteq prog.invs[inv] \cap prog.pre[f] \cap Known
    BY <1>2
  <1> QED
    BY <1>1, <1>3, ProvedFromFewer DEF InvProof

-----------------------------------------------------------------------------

\* Nothing is reported at first.
LEMMA InitEvidence == Init => Evidence
  <1> SUFFICES ASSUME Init PROVE Evidence
    OBVIOUS
  <1>1. log = {} /\ verified = {} /\ inv = 1 /\ todo = prog.prims /\ prog \in Programs
    BY DEF Init
  <1>2. ReportsTrue /\ Behind
    BY <1>1 DEF ReportsTrue, Behind
  <1>3. Visited
    BY <1>1, ProgramParts DEF Visited, Prims
  <1>4. Through
    BY DEF Init, Through
  <1> QED
    BY <1>2, <1>3, <1>4 DEF Evidence

\* A step of the worklist adds a report that is true, or that failed.
LEMMA ReportedEvidence ==
    ASSUME TypeOK, Evidence, phase # "invariants",
           prog' = prog, inv' = inv, todo' = todo, verified' = verified,
           NEW r, log' \subseteq log \cup {r}, log \subseteq log', ReportTrue(r)
    PROVE  Evidence'
  <1>1. ReportsTrue'
    <2> SUFFICES ASSUME NEW q \in log' PROVE ReportTrue(q)'
      BY DEF ReportsTrue
    <2>1. ReportTrue(q)
      BY DEF Evidence, ReportsTrue
    <2> QED
      BY <2>1, ReportStays
  <1>2. Behind'
    BY DEF Evidence, Behind
  <1>3. \A n, p : InvReported(n, p) => InvReported(n, p)'
    BY DEF InvReported, Report
  <1>4. Visited'
    BY <1>3 DEF Evidence, Visited, Prims
  <1>5. Through'
    BY DEF Evidence, Through
  <1> QED
    BY <1>1, <1>2, <1>4, <1>5 DEF Evidence

\* Every step keeps the evidence for the reports.
LEMMA StepEvidence == TypeOK /\ Evidence /\ [Next]_vars => Evidence'
  <1> SUFFICES ASSUME TypeOK, Evidence, [Next]_vars PROVE Evidence'
    OBVIOUS
  <1>0. prog \in Programs /\ inv \in Nat /\ Len(prog.invs) \in Nat
    BY ProgramParts DEF TypeOK
  <1>1. ASSUME NEW f \in Names, CheckPrimitive(f) PROVE Evidence'
    <2>1. /\ phase = "invariants" /\ f \in todo /\ todo' = todo \ {f}
          /\ phase' = phase /\ prog' = prog /\ inv' = inv /\ verified' = verified
      BY <1>1 DEF CheckPrimitive
    <2>2. Behind' /\ Through'
      BY <2>1 DEF Evidence, Behind, Through
    <2>3. CASE f \in prog.funcs
      <3>1. PICK o \in CheckInvByPath(f) : log' = log \cup {Report("inv", inv, f, o.ok)}
        BY <1>1, <2>3 DEF CheckPrimitive
      <3>2. o.ok \in BOOLEAN
        BY InvByPathShape
      <3> DEFINE new == Report("inv", inv, f, o.ok)
      <3>3. new.func = f /\ new.ok = o.ok /\ new.kind = "inv" /\ new.inv = inv
        BY DEF Report
      <3>4. o.ok => InvProof(inv, f)
        BY InvByPathProves DEF Evidence
      <3> HIDE DEF new
      <3>5. ReportTrue(new)
        BY <3>3, <3>4 DEF ReportTrue
      <3>6. log' = log \cup {new}
        BY <3>1 DEF new
      <3>7. ReportsTrue'
        <4> SUFFICES ASSUME NEW q \in log' PROVE ReportTrue(q)'
          BY DEF ReportsTrue
        <4>1. ReportTrue(q)
          BY <3>5, <3>6 DEF Evidence, ReportsTrue
        <4> QED
          BY <2>1, <4>1, ReportStays
      <3>8. \A n, p : InvReported(n, p) => InvReported(n, p)'
        BY <3>6 DEF InvReported, Report
      <3>9. InvReported(inv, f)'
        BY <2>1, <3>2, <3>6 DEF InvReported, Report, new
      <3>10. Visited'
        BY <2>1, <3>8, <3>9 DEF Evidence, Visited, Prims
      <3> QED
        BY <2>2, <3>7, <3>10 DEF Evidence
    <2>4. CASE f \notin prog.funcs
      <3>1. log' = log
        BY <1>1, <2>4 DEF CheckPrimitive
      <3>2. ReportsTrue'
        BY <2>1, <3>1, ReportStays DEF Evidence, ReportsTrue
      <3>3. Visited'
        BY <2>1, <2>4, <3>1 DEF Evidence, Visited, Prims, InvReported, Report
      <3> QED
        BY <2>2, <3>2, <3>3 DEF Evidence
    <2> QED
      BY <2>3, <2>4
  <1>2. CASE EndRound
    <2>1. /\ phase = "invariants" /\ phase' = phase /\ prog' = prog /\ log' = log
          /\ todo = {} /\ inv' = inv + 1 /\ todo' = prog.prims
          /\ verified' \subseteq verified \cup {inv}
      BY <1>2 DEF EndRound
    <2>2. ReportsTrue'
      BY <2>1, ReportStays DEF Evidence, ReportsTrue
    <2>3. Behind'
      <3>1. inv \in 1..inv /\ 1..(inv - 1) \subseteq 1..inv /\ inv' - 1 = inv
        BY <1>0, <2>1 DEF TypeOK
      <3> QED
        BY <2>1, <3>1 DEF Evidence, Behind
    <2>4. Visited'
      <3> SUFFICES ASSUME "inv" \in prog.opts, NEW n \in 1..Len(prog.invs), NEW p \in Prims,
                          n < inv + 1 \/ (n = inv + 1 /\ p \notin prog.prims)
                   PROVE  InvReported(n, p)
        BY <2>1 DEF Visited, Prims, InvReported, Report
      <3>1. n < inv \/ n = inv
        BY <1>0 DEF Prims
      <3> QED
        BY <2>1, <3>1 DEF Evidence, Visited
    <2> QED
      BY <2>1, <2>2, <2>3, <2>4 DEF Evidence, Through
  <1>3. CASE StartWorklist
    <2>1. /\ inv > Len(prog.invs) /\ prog' = prog /\ log' = log /\ inv' = inv
          /\ todo' = todo /\ verified' = verified
      BY <1>3 DEF StartWorklist
    <2>2. ReportsTrue'
      BY <2>1, ReportStays DEF Evidence, ReportsTrue
    <2>3. Behind' /\ Through'
      BY <2>1 DEF Evidence, Behind, Through
    <2>4. Visited'
      BY <2>1 DEF Evidence, Visited, Prims, InvReported, Report
    <2> QED
      BY <2>2, <2>3, <2>4 DEF Evidence
  <1>4. ASSUME NEW f \in Names, CheckLoop(f) PROVE Evidence'
    <2>1. PICK o \in CheckLoopInv(f) : log' = log \cup {Report("loop", 0, f, o.ok)}
      BY <1>4 DEF CheckLoop
    <2>2. ReportTrue(Report("loop", 0, f, o.ok))
      BY LoopInvProves DEF ReportTrue, Report
    <2> QED
      BY <1>4, <2>1, <2>2, ReportedEvidence DEF CheckLoop
  <1>5. ASSUME NEW f \in Names, CheckDefinition(f) PROVE Evidence'
    <2>1. PICK o \in CheckPrePost(f) : log' = log \cup {Report("prepost", 0, f, o.ok)}
      BY <1>5 DEF CheckDefinition
    <2>2. f \notin prog.loops
      BY <1>5 DEF CheckDefinition
    <2>3. ReportTrue(Report("prepost", 0, f, o.ok))
      BY <2>2, PrePostProves DEF ReportTrue, Report
    <2> QED
      BY <1>5, <2>1, <2>3, ReportedEvidence DEF CheckDefinition
  <1>6. ASSUME NEW f \in Names, Skip(f) \/ Undefined(f) PROVE Evidence'
    <2>1. ReportTrue(Report("missing", 0, f, FALSE))
      BY DEF ReportTrue, Report
    <2>2. log' \subseteq log \cup {Report("missing", 0, f, FALSE)} /\ log \subseteq log'
      BY <1>6 DEF Skip, Undefined
    <2> QED
      BY <1>6, <2>1, <2>2, ReportedEvidence DEF Skip, Undefined
  <1>7. CASE Finish \/ Done \/ UNCHANGED vars
    <2>1. /\ prog' = prog /\ log' = log /\ inv' = inv /\ todo' = todo /\ verified' = verified
          /\ phase' = "invariants" => phase = "invariants"
          /\ phase = "invariants" => phase' = phase
      BY <1>7 DEF Finish, Done, vars
    <2>2. ReportsTrue'
      BY <2>1, ReportStays DEF Evidence, ReportsTrue
    <2>3. Behind' /\ Through'
      BY <2>1 DEF Evidence, Behind, Through
    <2>4. Visited'
      BY <2>1 DEF Evidence, Visited, Prims, InvReported, Report
    <2> QED
      BY <2>2, <2>3, <2>4 DEF Evidence
  <1> QED
    BY <1>1, <1>2, <1>3, <1>4, <1>5, <1>6, <1>7 DEF Next, Step

\* The reports are true in every run.
LEMMA AlwaysEvidence == Spec => [](TypeOK /\ Evidence /\ WorklistClosed)
  <1>1. Init => IInv /\ Evidence
    BY InitTyped, InitWorklist, InitEvidence DEF IInv
  <1>2. IInv /\ Evidence /\ [Next]_vars => (IInv /\ Evidence)'
    BY StepTyped, StepWorklist, StepEvidence DEF IInv
  <1>3. IInv => TypeOK /\ WorklistClosed
    BY EmptyMeansClosed DEF IInv
  <1> QED
    BY <1>1, <1>2, <1>3, PTL DEF Spec

-----------------------------------------------------------------------------

\* What the bodies of a program are made of.
LEMMA PathParts ==
    ASSUME prog \in Programs, NEW f \in prog.funcs, NEW x \in prog.paths[f]
    PROVE  /\ x.end \in {"return", "call", "tail"}
           /\ x.before \subseteq States \X States
           /\ x.after \subseteq States \X States
           /\ x.end # "return" => x.callee \in prog.funcs /\ x.callee \in Calls(f)
           /\ x.end = "tail" /\ f \in prog.loops => x.callee = f
  <1>1. Program(prog)
    BY ProgramAssumption
  <1>2. prog.funcs \subseteq Names /\ NoFunc \notin Names
    BY <1>1, ProgramAssumption DEF Program
  <1>3. prog.paths[f] \subseteq Path
    BY <1>1 DEF Program
  <1>4. /\ x.end \in {"return", "call", "tail"}
        /\ x.before \subseteq States \X States
        /\ x.after \subseteq States \X States
    BY <1>3 DEF Path, Rels
  <1>5. /\ x.end # "return" => x.callee \in prog.funcs
        /\ x.end = "tail" /\ f \in prog.loops => x.callee = f
    BY <1>1 DEF Program
  <1>6. x.end # "return" => x.callee \in Calls(f)
    BY <1>2, <1>5 DEF Calls
  <1> QED
    BY <1>4, <1>5, <1>6

\* A pair of a composition has a state in between.
LEMMA Between ==
    ASSUME NEW r, NEW q, NEW e \in Then(r, q)
    PROVE  /\ e \in States \X States
           /\ \E m \in States : <<e[1], m>> \in r /\ <<m, e[2]>> \in q
  BY DEF Then

\* A run of depth k + 1 is along a path whose call is a run of depth k.
LEMMA RunAlongPath ==
    ASSUME prog \in Programs, NEW k \in Depths, NEW f \in prog.funcs, NEW e \in RunAfter[k][f]
    PROVE  /\ k # 0 /\ k - 1 \in Depths
           /\ \E x \in prog.paths[f] : e \in PathRun(x, RunAfter[k - 1])
  <1>1. RunAfter[k] = IF k = 0 THEN NoRuns ELSE RunFrom(RunAfter[k - 1])
    BY Rounds
  <1>2. k # 0
    BY <1>1 DEF NoRuns
  <1>3. k - 1 \in Depths
    BY <1>2, ProgramAssumption DEF Depths
  <1>4. e \in UNION {PathRun(x, RunAfter[k - 1]) : x \in prog.paths[f]}
    BY <1>1, <1>2 DEF RunFrom
  <1> QED
    BY <1>2, <1>3, <1>4

\* A run takes a path to its end, or up to the call and, after it, on.
LEMMA RunShape ==
    ASSUME prog \in Programs, NEW run, NEW f \in prog.funcs, NEW x \in prog.paths[f],
           NEW e \in PathRun(x, run)
    PROVE  /\ e \in States \X States
           /\ \/ x.end = "return" /\ e \in x.before
              \/ /\ x.end = "call"
                 /\ \E t \in States, u \in States :
                       /\ <<e[1], t>> \in x.before
                       /\ <<t, u>> \in run[x.callee]
                       /\ <<u, e[2]>> \in x.after
              \/ /\ x.end = "tail"
                 /\ \E t \in States :
                       <<e[1], t>> \in x.before /\ <<t, e[2]>> \in run[x.callee]
  <1>1. x.end \in {"return", "call", "tail"} /\ x.before \subseteq States \X States
    BY PathParts
  <1>2. CASE x.end = "return"
    BY <1>1, <1>2 DEF PathRun
  <1>3. CASE x.end = "call"
    <2>1. e \in Then(Then(x.before, run[x.callee]), x.after)
      BY <1>3 DEF PathRun
    <2>2. e \in States \X States
      BY <2>1, Between
    <2>3. PICK u \in States : /\ <<e[1], u>> \in Then(x.before, run[x.callee])
                              /\ <<u, e[2]>> \in x.after
      BY <2>1, Between
    <2>4. PICK t \in States : <<e[1], t>> \in x.before /\ <<t, u>> \in run[x.callee]
      BY <2>3 DEF Then
    <2> QED
      BY <1>3, <2>2, <2>3, <2>4
  <1>4. CASE x.end = "tail"
    <2>1. e \in Then(x.before, run[x.callee])
      BY <1>4 DEF PathRun
    <2> QED
      BY <1>4, <2>1, Between
  <1> QED
    BY <1>1, <1>2, <1>3, <1>4

-----------------------------------------------------------------------------

\* Of a function with a good report the promise is proved, its own if it is a loop.
LEMMA ReportedProved ==
    ASSUME ReportsTrue, AllValid, NEW f, Reported(f)
    PROVE  \/ /\ f \in prog.specified
              /\ Proved(f, prog.pre[f], prog.promise[f], States, "LOOP")
           \/ /\ f \notin prog.loops
              /\ Proved(f, States, prog.promise[f], States, "PREPOST")
  <1>1. PICK r \in log : r.func = f /\ r.kind \in {"loop", "prepost"}
    BY DEF Reported
  <1>2. ReportTrue(r) /\ r.ok
    BY DEF ReportsTrue, AllValid
  <1> QED
    BY <1>1, <1>2 DEF ReportTrue, LoopProof, DefProof

\* Whoever a reported function calls is reported too.
LEMMA CalleesReported ==
    ASSUME TypeOK, WorklistClosed, AllChecked, NEW r \in log, NEW g \in Calls(r.func)
    PROVE  Reported(g)
  BY DEF AllChecked, AllValid, WorklistClosed, Enabled

Kept(run, f) == \A e \in run[f] : e[1] \in prog.pre[f] => e \in prog.promise[f]

\* One more call: if the functions reported keep their promises on runs of
\* depth k - 1, one of them keeps its own on a run of depth k.
LEMMA OneMoreCall ==
    ASSUME TypeOK, ReportsTrue, WorklistClosed, AllChecked, OnlyLoopsTail, NEW run,
           \A g \in prog.funcs : Reported(g) => Kept(run, g),
           NEW f \in prog.funcs, Reported(f),
           NEW x \in prog.paths[f], NEW e \in PathRun(x, run), e[1] \in prog.pre[f]
    PROVE  e \in prog.promise[f]
  <1>1. prog \in Programs
    BY DEF TypeOK
  <1>2. e \in States \X States
    BY <1>1, RunShape
  <1>3. PICK start, mode : /\ Proved(f, start, prog.promise[f], States, mode)
                           /\ e[1] \in start
                           /\ f \in prog.loops => f \in prog.specified /\ mode = "LOOP"
    BY <1>2, ReportedProved DEF AllChecked
  <1>4. x.end # "return" => x.callee \in prog.funcs /\ Reported(x.callee)
    <2>1. PICK r \in log : r.func = f
      BY DEF Reported
    <2> QED
      BY <1>1, <2>1, PathParts, CalleesReported
  <1>5. e = <<e[1], e[2]>> /\ e[1] \in States /\ e[2] \in States
    BY <1>2
  <1>6. CASE x.end = "return"
    <2>1. e \in x.before
      BY <1>1, <1>6, RunShape
    <2> QED
      BY <1>3, <1>5, <1>6, <2>1 DEF Proved, ReturnProved
  <1>7. CASE x.end = "call"
    <2>1. PICK t \in States, u \in States :
             <<e[1], t>> \in x.before /\ <<t, u>> \in run[x.callee] /\ <<u, e[2]>> \in x.after
      BY <1>1, <1>7, RunShape
    <2>2. CallProved(x, t, e[1], prog.promise[f], States)
      BY <1>3, <1>7, <2>1 DEF Proved
    <2>3. u \in Promised(x.callee, t)
      BY <1>4, <1>7, <2>1, <2>2 DEF CallProved, PreChecked, Promised, Kept
    <2>4. <<e[1], e[2]>> \in prog.promise[f]
      BY <1>5, <2>1, <2>2, <2>3 DEF CallProved
    <2> QED
      BY <1>5, <2>4
  <1>8. CASE x.end = "tail"
    <2>1. PICK t \in States : <<e[1], t>> \in x.before /\ <<t, e[2]>> \in run[x.callee]
      BY <1>1, <1>8, RunShape
    <2>2. f \in prog.loops /\ x.callee = f
      BY <1>1, <1>8, PathParts DEF OnlyLoopsTail
    <2>3. TailProved(x, t, e[1], prog.promise[f], "LOOP")
      BY <1>3, <1>8, <2>1, <2>2 DEF Proved
    <2>4. e[2] \in Promised(x.callee, t)
      BY <1>3, <1>4, <1>5, <1>8, <2>1, <2>2, <2>3 DEF TailProved, PreChecked, Promised, Kept
    <2>5. <<e[1], e[2]>> \in prog.promise[f]
      BY <2>3, <2>4 DEF TailProved
    <2> QED
      BY <1>5, <2>5
  <1> QED
    BY <1>1, <1>6, <1>7, <1>8, PathParts

\* What one round of calls keeps, calls of every depth keep.
LEMMA KeptAtEveryDepth ==
    ASSUME TypeOK, ReportsTrue, WorklistClosed, AllChecked, OnlyLoopsTail
    PROVE  \A k \in Depths : \A f \in prog.funcs : Reported(f) => Kept(RunAfter[k], f)
  <1> DEFINE S == {k \in Depths : \A f \in prog.funcs : Reported(f) => Kept(RunAfter[k], f)}
  <1>1. ASSUME NEW k \in Depths, \A m \in 0..(k - 1) : m \in S PROVE k \in S
    <2> SUFFICES ASSUME NEW f \in prog.funcs, Reported(f), NEW e \in RunAfter[k][f],
                        e[1] \in prog.pre[f]
                 PROVE  e \in prog.promise[f]
      BY DEF Kept
    <2>1. prog \in Programs
      BY DEF TypeOK
    <2>2. k # 0 /\ k - 1 \in Depths /\ \E x \in prog.paths[f] : e \in PathRun(x, RunAfter[k - 1])
      BY <2>1, RunAlongPath
    <2>3. k - 1 \in 0..(k - 1)
      BY <2>2, ProgramAssumption DEF Depths
    <2>4. \A g \in prog.funcs : Reported(g) => Kept(RunAfter[k - 1], g)
      BY <1>1, <2>3
    <2> QED
      BY <2>2, <2>4, OneMoreCall
  <1> HIDE DEF S
  <1>2. Depths \subseteq S
    BY <1>1, DepthInduction
  <1> QED
    BY <1>2 DEF S

\* Where the reports are good a round of calls keeps the invariants.
LEMMA GoodReportsKeep ==
    ASSUME TypeOK, ReportsTrue, WorklistClosed
    PROVE  PromisesKept
  <1>1. RunDepth \in Depths
    BY ProgramAssumption DEF Depths
  <1> QED
    BY <1>1, KeptAtEveryDepth DEF PromisesKept, Kept, Run

\* When every report is good, every function the worklist reached keeps its
\* promise on every run, of whatever depth, although each proof assumed the
\* promises of the functions called, a loop's its own.
THEOREM ProverKeepsPromises == Spec => []PromisesKept
  <1>1. TypeOK /\ Evidence /\ WorklistClosed => PromisesKept
    BY GoodReportsKeep DEF Evidence
  <1> QED
    BY <1>1, AlwaysEvidence, PTL

-----------------------------------------------------------------------------

\* Deeper calls have the runs of shallower ones.
LEMMA MoreRuns ==
    ASSUME prog \in Programs, NEW run, NEW more, \A g \in prog.funcs : run[g] \subseteq more[g],
           NEW f \in prog.funcs, NEW x \in prog.paths[f]
    PROVE  PathRun(x, run) \subseteq PathRun(x, more)
  <1>1. x.end \in {"return", "call", "tail"} /\ (x.end # "return" => x.callee \in prog.funcs)
    BY PathParts
  <1>2. CASE x.end = "return"
    BY <1>2 DEF PathRun
  <1>3. ASSUME x.end # "return"
        PROVE  Then(x.before, run[x.callee]) \subseteq Then(x.before, more[x.callee])
    <2>1. run[x.callee] \subseteq more[x.callee]
      BY <1>1, <1>3
    <2> QED
      BY <2>1 DEF Then
  <1>4. CASE x.end = "call"
    <2>1. Then(x.before, run[x.callee]) \subseteq Then(x.before, more[x.callee])
      BY <1>3, <1>4
    <2>2. Then(Then(x.before, run[x.callee]), x.after)
              \subseteq Then(Then(x.before, more[x.callee]), x.after)
      BY <2>1 DEF Then
    <2> QED
      BY <1>4, <2>2 DEF PathRun
  <1>5. CASE x.end = "tail"
    BY <1>3, <1>5 DEF PathRun
  <1> QED
    BY <1>1, <1>2, <1>4, <1>5

\* A run of one depth is a run of the next.
LEMMA RunsGrow ==
    ASSUME prog \in Programs
    PROVE  \A k \in Depths : k # 0 => \A f \in prog.funcs : RunAfter[k - 1][f] \subseteq RunAfter[k][f]
  <1> DEFINE S == {k \in Depths :
                      k # 0 => \A f \in prog.funcs : RunAfter[k - 1][f] \subseteq RunAfter[k][f]}
  <1>1. ASSUME NEW k \in Depths, \A m \in 0..(k - 1) : m \in S PROVE k \in S
    <2> SUFFICES ASSUME k # 0, NEW f \in prog.funcs, NEW e \in RunAfter[k - 1][f]
                 PROVE  e \in RunAfter[k][f]
      OBVIOUS
    <2>1. k \in Nat /\ k - 1 \in Depths /\ k - 1 \in 0..(k - 1)
      BY ProgramAssumption DEF Depths
    <2>2. PICK x \in prog.paths[f] : e \in PathRun(x, RunAfter[k - 2])
      <3>1. (k - 1) - 1 = k - 2
        BY <2>1
      <3> QED
        BY <2>1, <3>1, RunAlongPath
    <2>3. k - 1 # 0
      BY <2>1, RunAlongPath
    <2>4. \A g \in prog.funcs : RunAfter[k - 2][g] \subseteq RunAfter[k - 1][g]
      <3>1. (k - 1) - 1 = k - 2
        BY <2>1
      <3> QED
        BY <1>1, <2>1, <2>3, <3>1
    <2>5. e \in PathRun(x, RunAfter[k - 1])
      BY <2>2, <2>4, MoreRuns
    <2>6. RunAfter[k] = RunFrom(RunAfter[k - 1])
      BY Rounds
    <2> QED
      BY <2>5, <2>6 DEF RunFrom
  <1> HIDE DEF S
  <1>2. Depths \subseteq S
    BY <1>1, DepthInduction
  <1> QED
    BY <1>2 DEF S

\* Of every primitive every invariant is proved.
LEMMA PrimitiveProved ==
    ASSUME TypeOK, Evidence, AllChecked, NEW p \in Prims, NEW n \in 1..Len(prog.invs)
    PROVE  /\ InvProof(n, p)
           /\ \E r \in log : r.func = p
  <1>1. inv > Len(prog.invs) /\ "inv" \in prog.opts
    BY DEF AllChecked, Evidence, Through
  <1>2. n < inv
    BY <1>1, ProgramParts DEF TypeOK
  <1>3. PICK ok \in BOOLEAN : Report("inv", n, p, ok) \in log
    BY <1>1, <1>2 DEF Evidence, Visited, InvReported
  <1>4. ReportTrue(Report("inv", n, p, ok)) /\ Report("inv", n, p, ok).ok
    BY <1>3 DEF Evidence, ReportsTrue, AllChecked, AllValid
  <1> QED
    BY <1>3, <1>4 DEF ReportTrue, Report

\* Where the reports are good every call keeps the invariants.
LEMMA GoodReportsPreserve ==
    ASSUME TypeOK, Evidence, WorklistClosed
    PROVE  InvariantsPreserved
  <1> SUFFICES ASSUME AllChecked, OnlyLoopsTail, CalleesEstablish,
                      NEW p \in Prims, NEW e \in Run[p], e[1] \in Invariant \cap prog.pre[p],
                      NEW n \in 1..Len(prog.invs)
               PROVE  e[2] \in States /\ e[2] \in prog.invs[n]
    <2> SUFFICES ASSUME AllChecked, OnlyLoopsTail, CalleesEstablish,
                        NEW p \in Prims, NEW e \in Run[p], e[1] \in Invariant \cap prog.pre[p]
                 PROVE  e[2] \in Invariant
      BY DEF InvariantsPreserved, Preserved
    <2>1. e[2] \in States
      <3>1. prog \in Programs /\ p \in prog.funcs /\ RunDepth \in Depths
        BY ProgramAssumption DEF TypeOK, Prims, Depths
      <3>2. PICK x \in prog.paths[p] : e \in PathRun(x, RunAfter[RunDepth - 1])
        BY <3>1, RunAlongPath DEF Run
      <3>3. e \in States \X States
        BY <3>1, <3>2, RunShape
      <3> QED
        BY <3>3
    <2> QED
      BY <2>1 DEF Invariant
  <1>1. prog \in Programs /\ p \in prog.funcs /\ RunDepth \in Depths
    BY ProgramAssumption DEF TypeOK, Prims, Depths
  <1>2. RunDepth - 1 \in Depths /\ RunDepth # 0
    BY <1>1, RunAlongPath DEF Run
  <1>3. PICK x \in prog.paths[p] : e \in PathRun(x, RunAfter[RunDepth - 1])
    BY <1>1, RunAlongPath DEF Run
  <1>4. e = <<e[1], e[2]>> /\ e[1] \in States /\ e[2] \in States
    <2>1. e \in States \X States
      BY <1>1, <1>3, RunShape
    <2> QED
      BY <2>1
  <1> DEFINE start == prog.invs[n] \cap prog.pre[p] \cap Assumed(n)
  <1>5. Proved(p, start, States \X prog.invs[n], prog.invs[n], "SYS")
    BY PrimitiveProved DEF InvProof
  <1>6. e[1] \in start
    <2>1. \A m \in 1..(n - 1) : m \in 1..Len(prog.invs)
      BY <1>1, ProgramParts
    <2> QED
      BY <1>4, <2>1 DEF Invariant, Assumed
  <1> HIDE DEF start
  <1>7. ASSUME x.end # "return", NEW t \in States, NEW u \in States,
               <<e[1], t>> \in x.before, <<t, u>> \in RunAfter[RunDepth - 1][x.callee]
        PROVE  u \in prog.invs[n]
    <2>1. x.callee \in prog.funcs
      BY <1>1, <1>7, PathParts
    <2>2. <<t, u>> \in Run[x.callee]
      BY <1>1, <1>2, <1>7, <2>1, RunsGrow DEF Run
    <2>3. <<e[1], u>> \in Then(x.before, Run[x.callee])
      BY <1>4, <1>7, <2>2 DEF Then
    <2>4. u \in Invariant
      BY <1>7, <2>3 DEF CalleesEstablish
    <2> QED
      BY <2>4 DEF Invariant
  <1>8. CASE x.end = "return"
    <2>1. e \in x.before
      BY <1>1, <1>3, <1>8, RunShape
    <2>2. <<e[1], e[2]>> \in States \X prog.invs[n]
      BY <1>4, <1>5, <1>6, <1>8, <2>1 DEF Proved, ReturnProved
    <2> QED
      BY <1>4, <2>2
  <1>9. CASE x.end = "call"
    <2>1. PICK t \in States, u \in States :
             /\ <<e[1], t>> \in x.before
             /\ <<t, u>> \in RunAfter[RunDepth - 1][x.callee]
             /\ <<u, e[2]>> \in x.after
      BY <1>1, <1>3, <1>9, RunShape
    <2>2. u \in prog.invs[n]
      BY <1>7, <1>9, <2>1
    <2>3. CallProved(x, t, e[1], States \X prog.invs[n], prog.invs[n])
      BY <1>5, <1>6, <1>9, <2>1 DEF Proved
    <2>4. x.callee \in prog.funcs /\ Reported(x.callee)
      BY <1>1, <1>9, PathParts, PrimitiveProved, CalleesReported
    <2>5. Kept(RunAfter[RunDepth - 1], x.callee)
      BY <1>2, <2>4, KeptAtEveryDepth DEF Evidence
    <2>6. u \in Promised(x.callee, t)
      BY <2>1, <2>3, <2>5 DEF CallProved, PreChecked, Promised, Kept
    <2>7. <<e[1], e[2]>> \in States \X prog.invs[n]
      BY <1>4, <2>1, <2>2, <2>3, <2>6 DEF CallProved
    <2> QED
      BY <1>4, <2>7
  <1>10. CASE x.end = "tail"
    <2>1. PICK t \in States :
             <<e[1], t>> \in x.before /\ <<t, e[2]>> \in RunAfter[RunDepth - 1][x.callee]
      BY <1>1, <1>3, <1>10, RunShape
    <2> QED
      BY <1>4, <1>7, <1>10, <2>1
  <1> QED
    BY <1>1, <1>8, <1>9, <1>10, PathParts

\* When every report is good and every call a primitive makes returns in the
\* invariants, the primitives preserve all of them, although each proof took
\* the invariants before it and the promises of the callees for granted.
THEOREM ProverPreservesInvariants == Spec => []InvariantsPreserved
  <1>1. TypeOK /\ Evidence /\ WorklistClosed => InvariantsPreserved
    BY GoodReportsPreserve
  <1> QED
    BY <1>1, AlwaysEvidence, PTL
=============================================================================
