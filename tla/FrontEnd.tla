-------------------------------- MODULE FrontEnd --------------------------------
(***************************************************************************)
(* The way of a function from its basic blocks to its specification: the   *)
(* conversion of its control flow (irloader.cpp, control_flow.cpp) and     *)
(* then the translation of the body that is left (ir_to_spec).             *)
(***************************************************************************)
EXTENDS ControlFlow, IrToSpec

VARIABLE spec    \* the specification, once there is one

feVars == <<func, graph, sc, pc, round, spec>>

RECURSIVE HasLoop(_), LoopInLoop(_)

NoSpec == [n |-> None, args |-> <<>>, defs |-> <<>>]
TheBody == graph.insts[graph.order[1]]

Translate ==
    /\ pc = "done"
    /\ pc' = "translated"
    /\ spec' = ir_to_spec(func, TheBody)
    /\ UNCHANGED <<func, graph, sc, round>>

FeInit == Init /\ spec = NoSpec
FeNext ==
    \/ EliminateLeaf /\ UNCHANGED spec
    \/ EliminateBridge /\ UNCHANGED spec
    \/ MergeBranches /\ UNCHANGED spec
    \/ DestructScc /\ UNCHANGED spec
    \/ DestructInnerScc /\ UNCHANGED spec
    \/ ConstructLoop /\ UNCHANGED spec
    \/ MergeBranchesLocal /\ UNCHANGED spec
    \/ DuplicateNode /\ UNCHANGED spec
    \/ GiveUp /\ UNCHANGED spec
    \/ Translate
FeSpec == FeInit /\ [][FeNext]_feVars

(* The main loop of the conversion is sequential code: while it runs it    *)
(* goes round.  Every round changes round, so this is its weak fairness.   *)
FairFeSpec == FeSpec /\ ([]<>(pc # "running") \/ []<><<FeNext>>_feVars)

(***************************************************************************)
(* The shapes of bodies the properties speak of.                           *)
(***************************************************************************)
HasLoop(is) == \E i \in ToSet(is) : i.k = "loop" \/ (i.k = "if" /\ (HasLoop(i.t) \/ HasLoop(i.e)))
LoopInLoop(is) ==
    \E i \in ToSet(is) : \/ i.k = "loop" /\ HasLoop(i.body)
                         \/ i.k = "if" /\ (LoopInLoop(i.t) \/ LoopInLoop(i.e))

(***************************************************************************)
(* Properties.                                                             *)
(***************************************************************************)
(* The conversion and the translation keep their states well-formed: a     *)
(* graph has an entry for each node, the rules meet and make the names the *)
(* proof of BackwardsConsistent counts on, and a specification is there    *)
(* only after the conversion is done.                                      *)
TypeOK ==
    /\ func \in Functions /\ round \in BOOLEAN
    /\ pc \in {"running", "done", "failed", "crashed", "looping", "translated"}
    /\ ToSet(graph.order) = DOMAIN graph.edges /\ NamesOK
    /\ pc # "translated" => spec = NoSpec

(* The fixpoints of one specification have distinct names: "find a         *)
(* loop_spec_name not in conflict" (ir2spec.cpp:871).                      *)
LoopNamesDistinct == \A i, j \in DOMAIN spec.defs : spec.defs[i].name = spec.defs[j].name => i = j

(* A specification and each of its fixpoints get every name they read: the *)
(* names an if hands on and the arguments of a loop are enough.            *)
Closed ==
    pc = "translated" /\ ~LoopInLoop(TheBody) =>
        /\ FreeNames(spec.n) \subseteq {N(a) : a \in ToSet(spec.args)}
        /\ \A d \in ToSet(spec.defs) :
              FreeNames(d.zero) \cup FreeNames(d.succ) \subseteq {N(a) : a \in ToSet(d.args)}

(* The specification of a function denotes what its blocks do: the same    *)
(* calls with the same arguments in the same order, the same result and    *)
(* the stack frame given back, for ranks that are large enough and relies  *)
(* of the user that hold; and nothing where the function does not return.  *)
SpecEnv(env) == [x \in {N(y) : y \in DOMAIN env} |-> AsSpec(env[x[1]])]
SpecMeansCode ==
    pc = "translated" /\ Reducible(func) /\ ~DefaultIsCase(func) /\ ~LoopInLoop(TheBody) /\ LoopNamesDistinct =>
        \A o \in Oracles, env \in Envs(func) :
            SpecOf(spec, SpecEnv(env), o) = Expected(func, TheBody, RunFunction(func, env, o))

(* The conversion comes to an end: no rules undo each other.               *)
ConversionEnds == <>(pc # "running")
==============================================================================
