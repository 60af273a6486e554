----------------------------- MODULE SpecProver -----------------------------
(***************************************************************************)
(* spec_prover (optimizations/symbolic.cpp): the system invariants are     *)
(* checked one after the other on every primitive, then a worklist checks  *)
(* the loop invariants and postconditions of the primitives and of every   *)
(* function their proofs relied on.                                        *)
(*                                                                         *)
(* A program is what the checks read: for every function the paths of its  *)
(* specification as relations on abstract states, its precondition and its *)
(* promise (the loop invariant of a Fixpoint, the postcondition of a       *)
(* Definition).  prove_by_traverse, path by path, becomes the predicate    *)
(* Proved below: a check may fail to prove what is provable, never the     *)
(* converse.  The goals are asked through QueryCache, and two things found *)
(* there are left out: a "False" that the traversal takes for a proof, and *)
(* an answer from before the lemmas were replaced in the same proof.       *)
(* A path makes at most one call.  The paths of a function are those of    *)
(* its body after coi_reduction; one that ends in None returns no state    *)
(* and is no path here.                                                    *)
(***************************************************************************)
EXTENDS Naturals, Sequences

CONSTANTS
    States,     \* abstract states
    Names,      \* the names of functions
    NoFunc,     \* the callee of a path that makes no call
    Programs,   \* the programs, see Program
    RunDepth    \* bound on the calls a run of a program nests

Rels == SUBSET (States \X States)

Path == [end : {"return", "call", "tail"}, before : Rels,
         callee : Names \cup {NoFunc}, after : Rels]

Program(p) ==
    /\ p.funcs \subseteq Names              \* the functions that are defined
    /\ p.paths \in [p.funcs -> SUBSET Path]
    /\ p.pre \in [p.funcs -> SUBSET States]
    /\ p.promise \in [p.funcs -> Rels]
    /\ p.loops \subseteq p.funcs            \* those that are Fixpoints
    /\ p.specified \subseteq p.loops        \* loops with an entry in loop_invs
    /\ p.prims \subseteq Names              \* cmds.invs
    /\ p.invs \in Seq(SUBSET States)        \* sys_invs by sys_inv_order
    /\ p.opts \subseteq {"inv", "loop", "prepost"}
    /\ p.rank \in [p.funcs -> Nat]         \* only a Fixpoint is recursive, by itself
    /\ \A f \in p.funcs : \A x \in p.paths[f] :
          IF x.end = "return"
          THEN x.callee = NoFunc
          ELSE /\ x.callee \in p.funcs
               /\ p.rank[x.callee] < p.rank[f] \/ (x.callee = f /\ f \in p.loops)
               \* A Fixpoint ends in a call of itself only.
               /\ x.end = "tail" /\ f \in p.loops => x.callee = f

ASSUME ProgramAssumption ==
    /\ NoFunc \notin Names
    /\ RunDepth \in Nat
    /\ \A p \in Programs : Program(p)

VARIABLES
    prog,      \* the program: chosen at the start
    phase,     \* "invariants", "worklist" or "done"
    inv,       \* the invariant of the round, by its place in sys_inv_order
    todo,      \* primitives left in the round
    valid,     \* has some primitive passed in this round?
    verified,  \* proj->verified_invariants
    used,      \* used_abstract_funcs
    entries,   \* the keys of proj->defs
    log        \* the reports: one record for each check

vars == <<prog, phase, inv, todo, valid, verified, used, entries, log>>

Calls(f) == {x.callee : x \in prog.paths[f]} \ {NoFunc}

Report(kind, n, f, ok) == [kind |-> kind, inv |-> n, func |-> f, ok |-> ok]

Reports ==
    [kind : {"inv", "loop", "prepost", "missing"}, inv : Nat, func : Names, ok : BOOLEAN]

TypeOK ==
    /\ prog \in Programs
    /\ phase \in {"invariants", "worklist", "done"}
    /\ inv \in 1..(Len(prog.invs) + 1)
    /\ todo \subseteq prog.prims
    /\ valid \in BOOLEAN
    /\ verified \subseteq 1..Len(prog.invs)
    /\ used \subseteq Names
    /\ entries \subseteq Names
    /\ log \subseteq Reports

-----------------------------------------------------------------------------

(***************************************************************************)
(* What prove_by_traverse can establish.  start: the states it begins in.  *)
(* goal: what must relate the first and last state of every path.  after:  *)
(* the states it takes for granted a call returns in (the invariant itself *)
(* in SYS mode).                                                           *)
(***************************************************************************)
Specified(g) == g \in prog.loops => g \in prog.specified

\* The precondition of the callee is checked where it is called.
PreChecked(g, t) == Specified(g) => t \in prog.pre[g]

Promised(g, t) == {u \in States : Specified(g) => <<t, u>> \in prog.promise[g]}

ReturnProved(t, s, goal) == <<s, t>> \in goal

\* The goal asked of the state the call returns in, not of the path's last.
CallProvedAtReturn(x, t, s, goal, after) ==
    /\ PreChecked(x.callee, t)
    /\ \A u \in Promised(x.callee, t) \cap after : <<s, u>> \in goal

CallProved(x, t, s, goal, after) ==
    /\ PreChecked(x.callee, t)
    /\ \A u \in Promised(x.callee, t) \cap after :
          \A w \in States : <<u, w>> \in x.after => <<s, w>> \in goal

\* The loop invariant not asked of the next iteration.
TailTrusted(x, t, s, goal, mode) == x.callee \in prog.loops => PreChecked(x.callee, t)

\* A path that ends in a call: only LOOP mode asks for the goal.
TailProved(x, t, s, goal, mode) ==
    /\ x.callee \in prog.loops => PreChecked(x.callee, t)
    /\ mode = "LOOP" => \A u \in Promised(x.callee, t) : <<s, u>> \in goal

Proved(f, start, goal, after, mode) ==
    \A x \in prog.paths[f] : \A s \in start, t \in States :
        <<s, t>> \in x.before =>
            /\ x.end = "return" => ReturnProved(t, s, goal)
            /\ x.end = "call" => CallProved(x, t, s, goal, after)
            /\ x.end = "tail" => TailProved(x, t, s, goal, mode)

\* A check that returns true has met every call; one that fails may have
\* stopped before some.
Outcomes(proved, f) ==
    [ok : {FALSE}, met : SUBSET Calls(f)]
        \cup (IF proved THEN [ok : {TRUE}, met : {Calls(f)}] ELSE {})

Known == {s \in States : \A n \in verified : s \in prog.invs[n]}

\* check_inv_by_path: the invariant itself, the precondition and every
\* invariant verified before are assumed of the first state.
CheckInvByPath(f) ==
    Outcomes(Proved(f, prog.invs[inv] \cap prog.pre[f] \cap Known, States \X prog.invs[inv],
                    prog.invs[inv], "SYS"), f)

\* check_loop_inv_v2: a loop without an invariant fails at once.
CheckLoopInv(f) ==
    IF f \notin prog.specified
    THEN [ok : {FALSE}, met : {{}}]
    ELSE Outcomes(Proved(f, prog.pre[f], prog.promise[f], States, "LOOP"), f)

\* check_pre_post: the precondition is evaluated but not pushed.
CheckPrePost(f) ==
    Outcomes(Proved(f, States, prog.promise[f], States, "PREPOST"), f)

-----------------------------------------------------------------------------

AfterInvariants == IF prog.opts \cap {"loop", "prepost"} = {} THEN "done" ELSE "worklist"

Init ==
    /\ prog \in Programs
    /\ inv = 1
    /\ todo = prog.prims
    /\ valid = FALSE
    /\ verified = {}
    /\ entries = prog.funcs
    /\ log = {}
    /\ IF "inv" \in prog.opts
       THEN phase = "invariants" /\ used = {}
       ELSE phase = AfterInvariants /\ used = prog.prims

\* One primitive of the round.  proj->defs[prim] makes an (empty) entry for a
\* name that has none, and such a primitive is passed over.
CheckPrimitive(p) ==
    /\ phase = "invariants"
    /\ inv <= Len(prog.invs)
    /\ p \in todo
    /\ todo' = todo \ {p}
    /\ entries' = entries \cup {p}
    /\ IF p \in prog.funcs
       THEN \E o \in CheckInvByPath(p) :
               /\ valid' = (valid \/ o.ok)
               /\ used' = used \cup o.met
               /\ log' = log \cup {Report("inv", inv, p, o.ok)}
       ELSE UNCHANGED <<valid, used, log>>
    /\ UNCHANGED <<prog, phase, inv, verified>>

\* No end to the rounds.
EndRoundForever ==
    /\ phase = "invariants"
    /\ todo = {}
    /\ verified' = IF valid THEN verified \cup {inv} ELSE verified
    /\ inv' = inv + 1
    /\ todo' = prog.prims
    /\ valid' = FALSE
    /\ UNCHANGED <<prog, phase, used, entries, log>>

EndRound ==
    /\ phase = "invariants"
    /\ inv <= Len(prog.invs)
    /\ todo = {}
    /\ verified' = IF valid THEN verified \cup {inv} ELSE verified
    /\ inv' = inv + 1
    /\ todo' = prog.prims
    /\ valid' = FALSE
    /\ UNCHANGED <<prog, phase, used, entries, log>>

StartWorklist ==
    /\ phase = "invariants"
    /\ inv > Len(prog.invs)
    /\ phase' = AfterInvariants
    /\ used' = used \cup prog.prims
    /\ UNCHANGED <<prog, inv, todo, valid, verified, entries, log>>

\* The loop's own name is not removed.
CheckLoopAgain(f) ==
    /\ phase = "worklist"
    /\ f \in used \cap prog.loops
    /\ "loop" \in prog.opts
    /\ \E o \in CheckLoopInv(f) :
          /\ used' = used \cup o.met
          /\ log' = log \cup {Report("loop", 0, f, o.ok)}
    /\ UNCHANGED <<prog, phase, inv, todo, valid, verified, entries>>

CheckLoop(f) ==
    /\ phase = "worklist"
    /\ f \in used \cap prog.loops
    /\ "loop" \in prog.opts
    /\ \E o \in CheckLoopInv(f) :
          /\ used' = (used \cup o.met) \ {f}
          /\ log' = log \cup {Report("loop", 0, f, o.ok)}
    /\ UNCHANGED <<prog, phase, inv, todo, valid, verified, entries>>

\* What the check met is not added to the worklist.
CheckDefinitionAlone(f) ==
    /\ phase = "worklist"
    /\ f \in used \cap (prog.funcs \ prog.loops)
    /\ "prepost" \in prog.opts
    /\ \E o \in CheckPrePost(f) :
          /\ used' = used \ {f}
          /\ log' = log \cup {Report("prepost", 0, f, o.ok)}
    /\ UNCHANGED <<prog, phase, inv, todo, valid, verified, entries>>

CheckDefinition(f) ==
    /\ phase = "worklist"
    /\ f \in used \cap (prog.funcs \ prog.loops)
    /\ "prepost" \in prog.opts
    /\ \E o \in CheckPrePost(f) :
          /\ used' = (used \ {f}) \cup o.met
          /\ log' = log \cup {Report("prepost", 0, f, o.ok)}
    /\ UNCHANGED <<prog, phase, inv, todo, valid, verified, entries>>

\* A kind of function whose check is switched off is dropped, and what it calls
\* with it.
Skip(f) ==
    /\ phase = "worklist"
    /\ f \in used \cap prog.funcs
    /\ (IF f \in prog.loops THEN "loop" ELSE "prepost") \notin prog.opts
    /\ used' = used \ {f}
    /\ UNCHANGED <<prog, phase, inv, todo, valid, verified, entries, log>>

\* A name without a definition; one with an empty entry is dropped in silence.
Undefined(f) ==
    /\ phase = "worklist"
    /\ f \in used \ prog.funcs
    /\ used' = used \ {f}
    /\ log' = IF f \in entries THEN log ELSE log \cup {Report("missing", 0, f, FALSE)}
    /\ UNCHANGED <<prog, phase, inv, todo, valid, verified, entries>>

Finish ==
    /\ phase = "worklist"
    /\ used = {}
    /\ phase' = "done"
    /\ UNCHANGED <<prog, inv, todo, valid, verified, used, entries, log>>

Step ==
    \/ \E f \in Names : CheckPrimitive(f) \/ CheckLoop(f) \/ CheckDefinition(f)
                        \/ Skip(f) \/ Undefined(f)
    \/ EndRound \/ StartWorklist \/ Finish

Done == phase = "done" /\ UNCHANGED vars

Next == Step \/ Done

Spec == Init /\ [][Next]_vars /\ WF_vars(Step)

-----------------------------------------------------------------------------
(***************************************************************************)
(* What the functions do: the least relations that satisfy their bodies.   *)
(* Every round of the iteration follows one more call.                     *)
(***************************************************************************)
Then(r, q) ==
    {e \in States \X States : \E m \in States : <<e[1], m>> \in r /\ <<m, e[2]>> \in q}

PathRun(x, run) ==
    CASE x.end = "return" -> x.before
      [] x.end = "call" -> Then(Then(x.before, run[x.callee]), x.after)
      [] x.end = "tail" -> Then(x.before, run[x.callee])

RunFrom(run) == [f \in prog.funcs |-> UNION {PathRun(x, run) : x \in prog.paths[f]}]

RunAfter[n \in 0..RunDepth] ==
    IF n = 0 THEN [f \in prog.funcs |-> {}] ELSE RunFrom(RunAfter[n - 1])

Run == RunAfter[RunDepth]

Enabled(f) == (IF f \in prog.loops THEN "loop" ELSE "prepost") \in prog.opts

Reported(f) == \E r \in log : r.func = f /\ r.kind \in {"loop", "prepost"}

AllValid == \A r \in log : r.ok

AllChecked == phase = "done" /\ prog.opts = {"inv", "loop", "prepost"} /\ AllValid

Prims == prog.prims \cap prog.funcs

(***************************************************************************)
(* The worklist misses nothing: when it is empty, every primitive, and     *)
(* every function that a successful check or invariant proof met and so    *)
(* relied on, has been checked itself (as far as its check is switched     *)
(* on), though checked functions are forgotten and a loop erases itself.   *)
(***************************************************************************)
WorklistClosed ==
    phase = "done" /\ prog.opts \cap {"loop", "prepost"} # {} =>
        /\ \A p \in Prims : Enabled(p) => Reported(p)
        /\ \A r \in log : r.ok =>
              \A g \in Calls(r.func) : Enabled(g) => Reported(g)

\* check_pre_post does not ask for the postcondition where a Definition ends in
\* a call: programs without such Definitions.
OnlyLoopsTail == \A f \in prog.funcs \ prog.loops : \A x \in prog.paths[f] : x.end # "tail"

(***************************************************************************)
(* When every report is good, every function the worklist reached keeps    *)
(* its promise on every run: assuming the promises of callees, a loop's    *)
(* own included, is not circular.                                          *)
(***************************************************************************)
PromisesKept ==
    AllChecked /\ OnlyLoopsTail =>
        \A f \in prog.funcs : Reported(f) =>
            \A e \in Run[f] : e[1] \in prog.pre[f] => e \in prog.promise[f]

Invariant == {s \in States : \A n \in 1..Len(prog.invs) : s \in prog.invs[n]}

Preserved ==
    \A p \in Prims : \A e \in Run[p] :
        e[1] \in Invariant \cap prog.pre[p] => e[2] \in Invariant

\* Called as the primitives call them, their callees return in the invariants.
CalleesEstablish ==
    \A p \in Prims : \A x \in {x \in prog.paths[p] : x.end # "return"} :
        \A e \in Then(x.before, Run[x.callee]) :
            e[1] \in Invariant \cap prog.pre[p] => e[2] \in Invariant

(***************************************************************************)
(* When every report is good, and every call a primitive makes returns in  *)
(* a state that satisfies the invariants, the primitives preserve them: an *)
(* invariant proved with the help of the ones before it, and of what the   *)
(* callees promise, really holds.                                          *)
(***************************************************************************)
InvariantsPreserved == AllChecked /\ OnlyLoopsTail /\ CalleesEstablish => Preserved

(***************************************************************************)
(* The comment above spec_prover (symbolic.cpp:1286): "Prove inv           *)
(* path-by-path, recursively check abst function": no assumption on the    *)
(* callees should be needed.                                               *)
(***************************************************************************)
AbstractCalleesChecked == AllChecked => Preserved

(***************************************************************************)
(* The comment on verified_invariants (project.h:180): "only added when    *)
(* the spec have proved to satisfy the invariant".                         *)
(***************************************************************************)
VerifiedMeansProved ==
    \A n \in verified : \A p \in Prims : Report("inv", n, p, TRUE) \in log

(***************************************************************************)
(* The comment above check_pre_post (symbolic.cpp:1159): "check            *)
(* precondition implies post condition", for the Definitions it reports as *)
(* valid.                                                                  *)
(***************************************************************************)
PrePostChecked ==
    AllChecked =>
        \A f \in prog.funcs \ prog.loops : Reported(f) =>
            \A e \in Run[f] : e[1] \in prog.pre[f] => e \in prog.promise[f]

(***************************************************************************)
(* The prover ends: no function is visited for ever, although none is      *)
(* marked as visited and the loops call themselves.                        *)
(***************************************************************************)
Terminates == <>(phase = "done")
=============================================================================
