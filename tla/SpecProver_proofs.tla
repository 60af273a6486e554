-------------------------- MODULE SpecProver_proofs --------------------------
(***************************************************************************)
(* What holds of the prover's bookkeeping for every set of states, names   *)
(* and programs: its type invariant, and that the worklist misses nothing. *)
(*                                                                         *)
(* While it is not empty the worklist may hold a function that nobody has  *)
(* checked yet.  IInv adds the sets that make the property inductive: what *)
(* the invariant phase has met is kept until the worklist starts, and from *)
(* then on every function owed a check is reported or still to be visited. *)
(***************************************************************************)
EXTENDS SpecProver, TLAPS

Working == prog.opts \cap {"loop", "prepost"} # {}

\* A function that is owed a check has had it, or is waiting for it.
Owed(g) == Enabled(g) => Reported(g) \/ g \in used

\* A check that succeeded was made of a function that is defined.
Sound == \A r \in log : r.ok => r.func \in prog.funcs

Gathered == phase = "invariants" => \A r \in log : r.ok => Calls(r.func) \subseteq used

Closed ==
    phase # "invariants" /\ Working =>
        /\ \A p \in Prims : Owed(p)
        /\ \A r \in log : r.ok => \A g \in Calls(r.func) : Owed(g)

Emptied == phase = "done" /\ Working => used = {}

Worklist == Sound /\ Gathered /\ Closed /\ Emptied

IInv == TypeOK /\ Worklist

-----------------------------------------------------------------------------

\* What a program is made of.
LEMMA ProgramParts ==
    ASSUME prog \in Programs
    PROVE  /\ prog.funcs \subseteq Names
           /\ prog.loops \subseteq prog.funcs
           /\ prog.prims \subseteq Names
           /\ prog.invs \in Seq(SUBSET States)
           /\ Len(prog.invs) \in Nat
           /\ \A f \in prog.funcs : Calls(f) \subseteq prog.funcs
  <1>1. Program(prog)
    BY ProgramAssumption
  <1>2. /\ prog.funcs \subseteq Names
        /\ prog.loops \subseteq prog.funcs
        /\ prog.prims \subseteq Names
        /\ prog.invs \in Seq(SUBSET States)
    BY <1>1 DEF Program
  <1>3. Len(prog.invs) \in Nat
    BY <1>2
  <1>4. ASSUME NEW f \in prog.funcs, NEW x \in prog.paths[f], x.callee # NoFunc
        PROVE  x.callee \in prog.funcs
    BY <1>1, <1>4 DEF Program
  <1>5. \A f \in prog.funcs : Calls(f) \subseteq prog.funcs
    BY <1>4 DEF Calls
  <1> QED
    BY <1>2, <1>3, <1>5

\* A check that returns true has met every call, and no check meets more.
LEMMA OutcomeShape ==
    ASSUME NEW proved, NEW f, NEW o \in Outcomes(proved, f)
    PROVE  /\ o.ok \in BOOLEAN
           /\ o.met \subseteq Calls(f)
           /\ o.ok => o.met = Calls(f)
  <1>1. CASE o \in [ok : {FALSE}, met : SUBSET Calls(f)]
    BY <1>1
  <1>2. CASE o \in [ok : {TRUE}, met : {Calls(f)}]
    BY <1>2
  <1> QED
    BY <1>1, <1>2 DEF Outcomes

\* The same of the check of an invariant.
LEMMA InvByPathShape ==
    ASSUME NEW f, NEW o \in CheckInvByPath(f)
    PROVE  o.ok \in BOOLEAN /\ o.met \subseteq Calls(f) /\ (o.ok => o.met = Calls(f))
  BY OutcomeShape DEF CheckInvByPath

\* The same of the check of a loop.
LEMMA LoopInvShape ==
    ASSUME NEW f, NEW o \in CheckLoopInv(f)
    PROVE  o.ok \in BOOLEAN /\ o.met \subseteq Calls(f) /\ (o.ok => o.met = Calls(f))
  <1>1. CASE f \notin prog.specified
    <2>1. o \in [ok : {FALSE}, met : {{}}]
      BY <1>1 DEF CheckLoopInv
    <2> QED
      BY <2>1
  <1>2. CASE f \in prog.specified
    BY <1>2, OutcomeShape DEF CheckLoopInv
  <1> QED
    BY <1>1, <1>2

\* The same of the check of a specification.
LEMMA PrePostShape ==
    ASSUME NEW f, NEW o \in CheckPrePost(f)
    PROVE  o.ok \in BOOLEAN /\ o.met \subseteq Calls(f) /\ (o.ok => o.met = Calls(f))
  BY OutcomeShape DEF CheckPrePost

\* A report is one.
LEMMA ReportShape ==
    ASSUME NEW kind \in {"inv", "loop", "prepost", "missing"}, NEW n \in Nat, NEW f \in Names,
           NEW ok \in BOOLEAN
    PROVE  /\ Report(kind, n, f, ok) \in Reports
           /\ Report(kind, n, f, ok).kind = kind
           /\ Report(kind, n, f, ok).func = f
           /\ Report(kind, n, f, ok).ok = ok
  BY DEF Report, Reports

-----------------------------------------------------------------------------

\* The variables are typed at first.
LEMMA InitTyped == Init => TypeOK
  <1> SUFFICES ASSUME Init PROVE TypeOK
    OBVIOUS
  <1>1. prog \in Programs
    BY DEF Init
  <1>2. phase \in {"invariants", "worklist", "done"}
    BY DEF Init, AfterInvariants
  <1>3. used \subseteq Names
    BY <1>1, ProgramParts DEF Init
  <1>4. inv \in 1..(Len(prog.invs) + 1)
    BY <1>1, ProgramParts DEF Init
  <1> QED
    BY <1>1, <1>2, <1>3, <1>4, ProgramParts DEF Init, TypeOK

\* Every step keeps the types.
LEMMA StepTyped == TypeOK /\ [Next]_vars => TypeOK'
  <1> SUFFICES ASSUME TypeOK, [Next]_vars PROVE TypeOK'
    OBVIOUS
  <1> USE ProgramParts
  <1>1. ASSUME NEW f \in Names, CheckPrimitive(f) PROVE TypeOK'
    <2>1. inv \in Nat
      BY DEF TypeOK
    <2>2. CASE f \in prog.funcs
      <3>1. PICK o \in CheckInvByPath(f) :
              /\ valid' = (valid \/ o.ok)
              /\ used' = used \cup o.met
              /\ log' = log \cup {Report("inv", inv, f, o.ok)}
        BY <1>1, <2>2 DEF CheckPrimitive
      <3>2. o.ok \in BOOLEAN /\ o.met \subseteq Names
        BY <2>2, InvByPathShape DEF TypeOK
      <3>3. log' \subseteq Reports
        BY <2>1, <3>1, <3>2, ReportShape DEF TypeOK
      <3> QED
        BY <1>1, <3>1, <3>2, <3>3 DEF CheckPrimitive, TypeOK
    <2>3. CASE f \notin prog.funcs
      BY <1>1, <2>3 DEF CheckPrimitive, TypeOK
    <2> QED
      BY <2>2, <2>3
  <1>2. CASE EndRound
    <2>1. inv' \in 1..(Len(prog.invs') + 1)
      <3>1. inv \in Nat /\ Len(prog.invs) \in Nat
        BY DEF TypeOK
      <3>2. inv' = inv + 1 /\ inv <= Len(prog.invs) /\ prog' = prog
        BY <1>2 DEF EndRound
      <3> QED
        BY <3>1, <3>2 DEF TypeOK
    <2>2. verified' \subseteq 1..Len(prog.invs')
      BY <1>2 DEF EndRound, TypeOK
    <2>3. todo' \subseteq prog.prims' /\ valid' \in BOOLEAN
      BY <1>2 DEF EndRound
    <2> QED
      BY <1>2, <2>1, <2>2, <2>3 DEF EndRound, TypeOK
  <1>3. CASE StartWorklist
    BY <1>3 DEF StartWorklist, AfterInvariants, TypeOK
  <1>4. ASSUME NEW f \in Names, CheckLoop(f) PROVE TypeOK'
    <2>1. PICK o \in CheckLoopInv(f) :
            /\ used' = (used \cup o.met) \ {f}
            /\ log' = log \cup {Report("loop", 0, f, o.ok)}
      BY <1>4 DEF CheckLoop
    <2>2. o.ok \in BOOLEAN /\ o.met \subseteq Names
      BY <1>4, LoopInvShape DEF CheckLoop, TypeOK
    <2>3. log' \subseteq Reports
      BY <2>1, <2>2, ReportShape DEF TypeOK
    <2> QED
      BY <1>4, <2>1, <2>2, <2>3 DEF CheckLoop, TypeOK
  <1>5. ASSUME NEW f \in Names, CheckDefinition(f) PROVE TypeOK'
    <2>1. PICK o \in CheckPrePost(f) :
            /\ used' = (used \ {f}) \cup o.met
            /\ log' = log \cup {Report("prepost", 0, f, o.ok)}
      BY <1>5 DEF CheckDefinition
    <2>2. o.ok \in BOOLEAN /\ o.met \subseteq Names
      BY <1>5, PrePostShape DEF CheckDefinition, TypeOK
    <2>3. log' \subseteq Reports
      BY <2>1, <2>2, ReportShape DEF TypeOK
    <2> QED
      BY <1>5, <2>1, <2>2, <2>3 DEF CheckDefinition, TypeOK
  <1>6. ASSUME NEW f \in Names, Skip(f) PROVE TypeOK'
    BY <1>6 DEF Skip, TypeOK
  <1>7. ASSUME NEW f \in Names, Undefined(f) PROVE TypeOK'
    <2>1. Report("missing", 0, f, FALSE) \in Reports
      BY ReportShape
    <2>2. log' \subseteq log \cup {Report("missing", 0, f, FALSE)}
      BY <1>7 DEF Undefined
    <2> QED
      BY <1>7, <2>1, <2>2 DEF Undefined, TypeOK
  <1>8. CASE Finish
    BY <1>8 DEF Finish, TypeOK
  <1>9. CASE Done \/ UNCHANGED vars
    BY <1>9 DEF Done, vars, TypeOK
  <1> QED
    BY <1>1, <1>2, <1>3, <1>4, <1>5, <1>6, <1>7, <1>8, <1>9 DEF Next, Step

\* The prover's variables keep their types in every run, whatever the program.
THEOREM ProverTyping == Spec => []TypeOK
  <1> QED
    BY InitTyped, StepTyped, PTL DEF Spec

-----------------------------------------------------------------------------

\* The worklist at first.
LEMMA InitWorklist == Init => Worklist
  <1> SUFFICES ASSUME Init PROVE Worklist
    OBVIOUS
  <1>1. log = {} /\ prog \in Programs
    BY DEF Init
  <1>2. Sound /\ Gathered
    BY <1>1 DEF Sound, Gathered
  <1>3. CASE "inv" \in prog.opts
    BY <1>2, <1>3 DEF Init, Worklist, Closed, Emptied
  <1>4. CASE "inv" \notin prog.opts
    <2>1. phase = AfterInvariants /\ used = prog.prims
      BY <1>4 DEF Init
    <2>2. Closed
      BY <1>1, <2>1 DEF Closed, Prims, Owed
    <2>3. Emptied
      BY <2>1 DEF Emptied, Working, AfterInvariants
    <2> QED
      BY <1>2, <2>2, <2>3 DEF Worklist
  <1> QED
    BY <1>3, <1>4

(***************************************************************************)
(* The two checks of the worklist change it alike: f is reported, it may   *)
(* be erased, and a report that is good names what f calls.                *)
(***************************************************************************)
LEMMA CheckedWorklist ==
    ASSUME TypeOK, Worklist, phase = "worklist",
           UNCHANGED <<prog, phase>>,
           NEW f \in prog.funcs, NEW kind \in {"loop", "prepost"}, NEW ok \in BOOLEAN,
           NEW met, met \subseteq Calls(f), ok => met = Calls(f),
           log' = log \cup {Report(kind, 0, f, ok)},
           used \ {f} \subseteq used', met \ {f} \subseteq used'
    PROVE  Worklist'
  <1>1. prog \in Programs /\ f \in Names
    BY ProgramParts DEF TypeOK
  <1> DEFINE new == Report(kind, 0, f, ok)
  <1>2. new.func = f /\ new.kind = kind /\ new.ok = ok
    BY <1>1, ReportShape
  <1> HIDE DEF new
  <1>3. log' = log \cup {new}
    BY DEF new
  <1>4. Sound'
    BY <1>2, <1>3 DEF Worklist, Sound
  <1>5. Gathered'
    BY DEF Gathered
  <1>6. Reported(f)'
    BY <1>2, <1>3 DEF Reported
  <1>7. ASSUME NEW g, Owed(g) PROVE Owed(g)'
    <2>1. CASE g = f
      BY <1>6, <2>1 DEF Owed
    <2>2. CASE g # f
      <3>1. Enabled(g)' => Enabled(g)
        BY DEF Enabled
      <3>2. Reported(g) => Reported(g)'
        BY <1>3 DEF Reported
      <3>3. g \in used => g \in used'
        BY <2>2
      <3> QED
        BY <1>7, <3>1, <3>2, <3>3 DEF Owed
    <2> QED
      BY <2>1, <2>2
  <1>8. Closed'
    <2> SUFFICES ASSUME Working
                 PROVE  /\ \A p \in Prims : Owed(p)'
                        /\ \A r \in log' : r.ok => \A g \in Calls(r.func) : Owed(g)'
      BY DEF Closed, Working, Prims, Calls
    <2>1. /\ \A p \in Prims : Owed(p)
          /\ \A r \in log : r.ok => \A g \in Calls(r.func) : Owed(g)
      BY DEF Worklist, Closed
    <2>2. ASSUME ok, NEW g \in Calls(f) PROVE Owed(g)'
      <3>1. g = f \/ g \in used'
        BY <2>2
      <3> QED
        BY <1>6, <3>1 DEF Owed
    <2> QED
      BY <1>2, <1>3, <1>7, <2>1, <2>2
  <1>9. Emptied'
    BY DEF Emptied
  <1> QED
    BY <1>4, <1>5, <1>8, <1>9 DEF Worklist

\* A step that drops a function nobody is owed.
LEMMA DroppedWorklist ==
    ASSUME TypeOK, Worklist, phase = "worklist", UNCHANGED <<prog, phase>>,
           NEW f, f \in prog.funcs => ~Enabled(f),
           log \subseteq log', \A r \in log' : r \in log \/ ~r.ok,
           used' = used \ {f}
    PROVE  Worklist'
  <1>1. Sound'
    BY DEF Worklist, Sound
  <1>2. Gathered' /\ Emptied'
    BY DEF Gathered, Emptied
  <1>3. ASSUME NEW g \in prog.funcs, Owed(g) PROVE Owed(g)'
    <2>1. Enabled(g)' => Enabled(g)
      BY DEF Enabled
    <2>2. Reported(g) => Reported(g)'
      BY DEF Reported
    <2>3. Enabled(g) /\ g \in used => g \in used'
      OBVIOUS
    <2> QED
      BY <1>3, <2>1, <2>2, <2>3 DEF Owed
  <1>4. Closed'
    <2> SUFFICES ASSUME Working
                 PROVE  /\ \A p \in Prims : Owed(p)'
                        /\ \A r \in log' : r.ok => \A g \in Calls(r.func) : Owed(g)'
      BY DEF Closed, Working, Prims, Calls
    <2>1. /\ \A p \in Prims : Owed(p)
          /\ \A r \in log : r.ok => \A g \in Calls(r.func) : Owed(g)
      BY DEF Worklist, Closed
    <2>2. Prims \subseteq prog.funcs
      BY DEF Prims
    <2>3. \A r \in log : r.ok => Calls(r.func) \subseteq prog.funcs
      BY ProgramParts DEF TypeOK, Worklist, Sound
    <2> QED
      BY <1>3, <2>1, <2>2, <2>3
  <1> QED
    BY <1>1, <1>2, <1>4 DEF Worklist

\* Every step keeps what the worklist owes.
LEMMA StepWorklist == TypeOK /\ Worklist /\ [Next]_vars => Worklist'
  <1> SUFFICES ASSUME TypeOK, Worklist, [Next]_vars PROVE Worklist'
    OBVIOUS
  <1>1. ASSUME NEW f \in Names, CheckPrimitive(f) PROVE Worklist'
    <2>1. phase = "invariants" /\ phase' = phase /\ prog' = prog
      BY <1>1 DEF CheckPrimitive
    <2>2. Closed' /\ Emptied'
      BY <2>1 DEF Closed, Emptied
    <2>3. Sound /\ \A r \in log : r.ok => Calls(r.func) \subseteq used
      BY <2>1 DEF Worklist, Gathered
    <2>4. CASE f \in prog.funcs
      <3>1. PICK o \in CheckInvByPath(f) :
              used' = used \cup o.met /\ log' = log \cup {Report("inv", inv, f, o.ok)}
        BY <1>1, <2>4 DEF CheckPrimitive
      <3>2. o.ok \in BOOLEAN /\ (o.ok => o.met = Calls(f))
        BY InvByPathShape
      <3> DEFINE new == Report("inv", inv, f, o.ok)
      <3>3. new.func = f /\ new.ok = o.ok
        BY DEF Report
      <3> HIDE DEF new
      <3>4. log' = log \cup {new}
        BY <3>1 DEF new
      <3>5. Sound'
        BY <2>1, <2>3, <2>4, <3>3, <3>4 DEF Sound
      <3>6. Gathered'
        <4> SUFFICES ASSUME NEW r \in log', r.ok PROVE Calls(r.func) \subseteq used'
          BY <2>1 DEF Gathered, Calls
        <4>1. CASE r \in log
          BY <2>3, <3>1, <4>1
        <4>2. CASE r = new
          BY <3>1, <3>2, <3>3, <4>2
        <4> QED
          BY <3>4, <4>1, <4>2
      <3> QED
        BY <2>2, <3>5, <3>6 DEF Worklist
    <2>5. CASE f \notin prog.funcs
      <3>1. used' = used /\ log' = log
        BY <1>1, <2>5 DEF CheckPrimitive
      <3>2. Sound' /\ Gathered'
        BY <2>1, <3>1 DEF Worklist, Sound, Gathered, Calls
      <3> QED
        BY <2>2, <3>2 DEF Worklist
    <2> QED
      BY <2>4, <2>5
  <1>2. CASE EndRound
    <2>1. phase = "invariants" /\ phase' = phase /\ prog' = prog /\ used' = used /\ log' = log
      BY <1>2 DEF EndRound
    <2>2. Sound' /\ Gathered'
      BY <2>1 DEF Worklist, Sound, Gathered, Calls
    <2> QED
      BY <2>1, <2>2 DEF Worklist, Closed, Emptied
  <1>3. CASE StartWorklist
    <2>1. /\ phase = "invariants" /\ phase' = AfterInvariants
          /\ prog' = prog /\ log' = log /\ used' = used \cup prog.prims
      BY <1>3 DEF StartWorklist
    <2>2. phase' # "invariants" /\ (Working' => phase' = "worklist")
      BY <2>1 DEF AfterInvariants, Working
    <2>3. Sound'
      BY <2>1 DEF Worklist, Sound
    <2>4. Gathered' /\ Emptied'
      BY <2>2 DEF Gathered, Emptied
    <2>5. \A r \in log : r.ok => Calls(r.func) \subseteq used
      BY <2>1 DEF Worklist, Gathered
    <2>6. Closed'
      <3> SUFFICES /\ \A p \in Prims : Owed(p)'
                   /\ \A r \in log : r.ok => \A g \in Calls(r.func) : Owed(g)'
        BY <2>1 DEF Closed, Prims, Calls
      <3> QED
        BY <2>1, <2>5 DEF Owed, Prims
    <2> QED
      BY <2>3, <2>4, <2>6 DEF Worklist
  <1>4. ASSUME NEW f \in Names, CheckLoop(f) PROVE Worklist'
    <2>1. PICK o \in CheckLoopInv(f) :
            /\ used' = (used \cup o.met) \ {f}
            /\ log' = log \cup {Report("loop", 0, f, o.ok)}
      BY <1>4 DEF CheckLoop
    <2>2. phase = "worklist" /\ f \in prog.funcs /\ UNCHANGED <<prog, phase>>
      BY <1>4, ProgramParts DEF CheckLoop, TypeOK
    <2>3. used \ {f} \subseteq used' /\ o.met \ {f} \subseteq used'
      BY <2>1
    <2> QED
      BY <2>1, <2>2, <2>3, LoopInvShape, CheckedWorklist
  <1>5. ASSUME NEW f \in Names, CheckDefinition(f) PROVE Worklist'
    <2>1. PICK o \in CheckPrePost(f) :
            /\ used' = (used \ {f}) \cup o.met
            /\ log' = log \cup {Report("prepost", 0, f, o.ok)}
      BY <1>5 DEF CheckDefinition
    <2>2. phase = "worklist" /\ f \in prog.funcs /\ UNCHANGED <<prog, phase>>
      BY <1>5 DEF CheckDefinition
    <2>3. used \ {f} \subseteq used' /\ o.met \ {f} \subseteq used'
      BY <2>1
    <2> QED
      BY <2>1, <2>2, <2>3, PrePostShape, CheckedWorklist
  <1>6. ASSUME NEW f \in Names, Skip(f) PROVE Worklist'
    <2>1. phase = "worklist" /\ ~Enabled(f) /\ UNCHANGED <<prog, phase>>
      BY <1>6 DEF Skip, Enabled
    <2>2. used' = used \ {f} /\ log' = log
      BY <1>6 DEF Skip
    <2> QED
      BY <2>1, <2>2, DroppedWorklist
  <1>7. ASSUME NEW f \in Names, Undefined(f) PROVE Worklist'
    <2>1. phase = "worklist" /\ f \notin prog.funcs /\ UNCHANGED <<prog, phase>>
      BY <1>7 DEF Undefined
    <2>2. Report("missing", 0, f, FALSE).ok = FALSE
      BY DEF Report
    <2>3. log \subseteq log' /\ log' \subseteq log \cup {Report("missing", 0, f, FALSE)}
      BY <1>7 DEF Undefined
    <2>4. used' = used \ {f}
      BY <1>7 DEF Undefined
    <2>5. \A r \in log' : r \in log \/ ~r.ok
      BY <2>2, <2>3
    <2> QED
      BY <2>1, <2>3, <2>4, <2>5, DroppedWorklist
  <1>8. CASE Finish
    <2>1. /\ phase = "worklist" /\ phase' = "done" /\ used = {}
          /\ prog' = prog /\ log' = log /\ used' = used
      BY <1>8 DEF Finish
    <2>2. Sound' /\ Gathered' /\ Emptied'
      BY <2>1 DEF Worklist, Sound, Gathered, Emptied
    <2>3. Closed'
      BY <2>1 DEF Worklist, Closed, Working, Prims, Calls, Owed, Enabled, Reported
    <2> QED
      BY <2>2, <2>3 DEF Worklist
  <1>9. CASE Done \/ UNCHANGED vars
    <2>1. UNCHANGED <<prog, phase, used, log>>
      BY <1>9 DEF Done, vars
    <2>2. Sound' /\ Gathered' /\ Emptied'
      BY <2>1 DEF Worklist, Sound, Gathered, Emptied, Calls, Working
    <2>3. Closed'
      BY <2>1 DEF Worklist, Closed, Working, Prims, Calls, Owed, Enabled, Reported
    <2> QED
      BY <2>2, <2>3 DEF Worklist
  <1> QED
    BY <1>1, <1>2, <1>3, <1>4, <1>5, <1>6, <1>7, <1>8, <1>9 DEF Next, Step

\* Once the worklist is empty nothing is owed.
LEMMA EmptyMeansClosed == TypeOK /\ Worklist => WorklistClosed
  <1> SUFFICES ASSUME TypeOK, Worklist, phase = "done", Working PROVE
          /\ \A p \in Prims : Enabled(p) => Reported(p)
          /\ \A r \in log : r.ok => \A g \in Calls(r.func) : Enabled(g) => Reported(g)
    BY DEF WorklistClosed, Working
  <1>1. used = {}
    BY DEF Worklist, Emptied
  <1> QED
    BY <1>1 DEF Worklist, Closed, Owed

\* When the worklist is empty, every primitive and every function that a
\* successful check relied on has been checked, for every program.
THEOREM ProverMissesNothing == Spec => []WorklistClosed
  <1>1. Init => IInv
    BY InitTyped, InitWorklist DEF IInv
  <1>2. IInv /\ [Next]_vars => IInv'
    BY StepTyped, StepWorklist DEF IInv
  <1>3. IInv => WorklistClosed
    BY EmptyMeansClosed DEF IInv
  <1> QED
    BY <1>1, <1>2, <1>3, PTL DEF Spec

=============================================================================
