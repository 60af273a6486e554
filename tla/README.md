# Verification of Spoq2 in TLA+

Spoq2 reads the LLVM IR of a system and a project file (`.v`), turns every function into a
specification, unfolds and simplifies the specifications layer by layer, and then checks
properties of them with Z3: system invariants, loop invariants, pre- and postconditions,
relational simulation. A backend writes Coq. These modules model that pipeline from the
statements of a project and the basic blocks of a function to the report of the prover;
characters, LLVM's own data and the Coq text stay outside.

Paths below leave out the leading `src/src/` (`optimizations/symbolic.cpp` is
`src/src/optimizations/symbolic.cpp`; `include/` is `src/include/`).

## Inventory

| component | state it keeps | operations | how it interacts | what makes it correct | status |
|---|---|---|---|---|---|
| query layer and `Z3Cache` (`optimizations/z3_utils.cpp` 84-504) | `Z3Cache`, a map from hashes to results | `z3_check` (with and without condition), `z3_check_unsat`, `z3_verify`, `z3_verify_state_sat`, `clear` | called by the rules, the evaluator and the prover; calls Z3 or the race | a computed answer is right about its query, a cached one about it and the lemmas it was found under | modelled |
| solver race (`z3_utils.cpp` 134-245, `QueryInfo`) | two children, their pipes, the saved queries | `z3_race_check`, `QueryInfo::dump` | called by `z3_check_unsat` with `--race` | right verdict, no answer lost, it ends, nothing is left behind | modelled |
| prover driver (`optimizations/symbolic.cpp` 1041-1391) | `verified_invariants`, the worklist `used_abstract_funcs` | `spec_prover` | starts the checks of the proof stage | every assumption a proof makes is discharged; it ends | partly |
| path traversal (`symbolic.cpp` 474-1039) | a `ProveState` per path | `check_inv_by_path`, `check_loop_inv_v2`, `check_pre_post`, `prove_by_traverse` | asks the query layer; adds callees to the worklist | TRUE holds of every run of the body | modelled |
| relational simulation (`simulate.cpp`, `decompose.cpp`) | the recorded branches, `unverified_relations` | `check_hprop_by_path`, `forward_simulation`, `decompose` | as the path traversal, with two runs | TRUE holds of every two related runs | modelled |
| cone of influence (`coi.cpp`) | fields of a goal, work list, marks | `analyze_cone`, `coi_reduction`, `mark_determ_branch` | reduces a body before it is proved | the goal cannot tell the reduced body from the original; marked branches are agreed on | modelled |
| symbolic evaluator (`z3_utils.cpp` from 505) | values kept in the nodes | `z3_eval`, `z3_expr`, `resolve_pattern` | used by rules and proofs | a term denotes what its tree does | partly |
| rule engine (`rules.cpp`, `z3_rules.cpp`) | the body being rewritten, unfolding flags | the rules, `partial_eval`, `subst_v2`, `simple_if/match/rely` | asks the query layer | meaning is kept, no name escapes | partly |
| transformer and projection (`projection.cpp`) | `changed`, rule group, globals of the unfolding | `spec_transformer`, `spec_transformer_v2` | drives the rules | it ends, and keeps the meaning | partly |
| project and layers (`libs/project.cpp`) | definitions in order, symbols with their places, types, layers, flags | `add_definition`, `add_struct`, `add_command`, `finalize_project(_v2)`, `prepare_abstraction`, `infer_spec_task(_v2)` | filled by the parser's visitor; drives frontend, type inference, transformer | no definition is lost; a layer is finished after those below it, and completely | partly |
| parser of specifications (`frontend/parser/parse.cpp`) | the open section | `visitStatement` and the visits below it | calls the `add_` functions of the project | what is read stands in the right table and section | partly |
| expressions and values (`include/nodes.h`, `values.h`) | syntax trees | constructors, types, meaning | everywhere | | partly |
| IR loader (`frontend/IRLoader/control_flow.cpp`) | the graph, as edges and backward references | about twenty rules, until one node is left | feeds the translation | each rule keeps what the blocks do; it ends | partly |
| IR translation (`frontend/ir2spec.cpp`) | names read and assigned, loop depth | `ir_to_spec` | feeds the layers | the specification means what the blocks do | partly |
| memory abstraction (`project.cpp` 1542-1632) | assumed regions, abstract specifications, layouts | `prepare_abstraction` | reads the commands, and what the text defined | accepted regions are disjoint | partly |
| type inference (`frontend/type_inference.cpp`) | a type in every node | `infer_type`, `check_well_typed` | called when a definition is added, and again by whoever remembers | a node's type is that of its value | modelled |
| LLVM front end, Coq backend, utilities, persistent cache, Coq library, scripts | | | | text, external data structures, offline tools | not modelled |

Spoq2 is one thread. What makes it hard to test is elsewhere: a global cache shared by
callers that mean different things by the same query; children and a clock that run
concurrently with the race; a worklist that the check of one function feeds for others;
assumptions made in one proof and owed by another; rewriting systems with more than a
hundred rules in which one rule meets what the others left; a graph kept twice by hand; a
type inference that is postponed and resumed from seven places. `PROJECT.json` lists these
hazards at their lines.

## Modules

An arrow reads "is extended by".

    QueryCache -> QueryCache_proofs                                    MCQueryCache
    SolverOracle = RaceCheck -> RaceCheck_proofs   (RaceCheck refines) MCRaceCheck
    SpecProver -> SpecProver_proofs -> SpecProverRuns_proofs           MCSpecProver
    SpecLang -> Subst -> SpecRules -> Z3Rules -> PartialEval
        -> SpecTransformer                                             MCSpecTransformer
    IRSyntax, Containers -> FlowGraph; IRSyntax -> IR; both -> ControlFlow
    IR, SpecLang -> IrToSpec; ControlFlow, IrToSpec -> FrontEnd        MCFrontEnd
    Subst -> Coi -> ProofEval -> Contracts -> PathProver
        -> Simulation -> Proofs                                        MCProofs
    Containers -> Commands -> ProjectText; with MemoryRegions -> Layers
    Layers; Subst -> TypeInference; both -> LayerTrees                 MCLayers
    Containers -> Containers_proofs; MemoryRegions -> MemoryRegions_proofs;
        both and Layers -> Layers_proofs
    Containers_proofs and FlowGraph -> FlowGraph_proofs

The families meet in one language. `SpecLang` gives the syntax trees of `nodes.h` and their
meaning (`Denote`): what `IrToSpec` builds, what `TypeInference` types, what `Layers`
stores, what the rules rewrite, what `Proofs` proves about. So "meaning is preserved" is the
same statement at every stage, and "proved" is a statement about what a definition does.
`RaceCheck` refines `SolverOracle`; its three verdicts are those `QueryCache` allows
`z3_check_unsat` to obtain. `SpecProver` takes it that a check never succeeds on a goal that
does not follow; `QueryCache` gives it that as long as one proof keeps its lemmas and the
answer is not a cached `False` (see "Known disagreements"). `SpecProver` treats a check as
one step on paths given as relations; `Proofs` opens that step for one check on one syntax
tree.

### The prover and its solvers

**QueryCache.** One action per function. A formula is a model value with the set of worlds
it holds in; a solver answers rightly or gives up. Keys are modelled as the code computes
them: the sorted hashes of the conditions, then the condition's, then the timeout, in one
sequence, so that a query about a path alone (`z3_check(state)`) and a query with a
condition do share keys. The lemmas are not part of a key and a plain `EvalState` has
none, as in the code. The order of queries is free: a goal is a set, any of its queries may
be put at any time, again and again. `StartProof` and `ClearInProof` are the places that
clear the cache, `NextTransform` the one that does not. Nothing is assumed of the lemmas of a
proof's queries: the traversal replaces them after a call (`symbolic.cpp` 975-985), and an
abstract primitive as the source of a match pushes no condition with them (807-816). The
history variable `asked` holds the queries put since the goal was begun. `AnswerSound` says how
far an answer may be trusted then: a computed one fully, a cached one under lemmas this goal
has put the same key under before.

**RaceCheck.** One action per step of the parent between two points where a child or the
clock can matter: each turn of the spawn loop, each `waitpid`, the clock test. A solver may
end at any moment with the right answer or none, or never. `pipe` and `fork` may fail.
Races follow each other, so a zombie or a forgotten solver of one is there in the next.
`kill` and `waitpid` with -1 do what the system calls do.

**SpecProver.** A program is chosen at the start: for every function the paths of its body
as relations on abstract states (before and after the call a path makes), precondition,
promise (loop invariant or postcondition), and the options. `Proved` says what
`prove_by_traverse` can establish in each of its modes; a check that could succeed may also
fail, and then have met any of the calls. `Run` is what the functions really do, the least
relations that satisfy their bodies; the properties compare the two.

### The rule engine

A name is a pair of a text and a number, so that "a fresh name" is a number; a tree is a
record; a rule maps a node to a node and whether it reports a change.

* `SpecLang`: trees, the queries rules make of them, `Denote`. Integers are mathematical as
  in Gallina, constants are words of `Width` bits as in `IntConst`.
* `Subst`: `free_vars`, `subst_v2`, `eliminate_ambiguity`, fresh names.
* `SpecRules`: the rules of both groups, one operator each under the name it has in the
  code, and `ApplyRule`, the walk of `rec_apply`.
* `Z3Rules`: `z3_eval`, `simple_if_by_z3`, `simple_match_by_z3`, `simple_rely_by_z3`. A Z3
  term is the function from environments to values it denotes; path conditions are the
  set of environments they leave. With `decides = FALSE` the solver gives up on every query.
* `PartialEval`: `partial_eval`, its cases in the code's order.
* `SpecTransformer`: the two drivers. Variables are the body, where the driver is in its
  rounds (`pc`, `at`), its flags `changed`, `this_changed`, `force_simpl` and the unfolding
  policy. A pass over the whole tree is one action.

### The front end

* `IRSyntax`: instructions, terminators, conditions and types as terms. `IR`: what running
  blocks or a structured body does: an oracle answers the calls, and the calls made, with
  their arguments, are the trace.
* `FlowGraph`: the graph of a function's blocks, with its edges and backward references kept
  apart as in the code, and the rules on it. Edges have identities because the code shares
  them by pointer. One action per rule is one turn of the conversion loop: the first rule
  that applies to some node, at the first node it applies to. Asserts of the code that guard
  a rule are modelled as active and make the conversion crash. What the rules take from the
  instructions (their jumps, the list with another loop's jumps made into flags) and the
  search for components are operators among the CONSTANTS.
* `ControlFlow`: these operators, recursive as in the code, with the run of a graph and the
  properties about what it computes. `FrontEnd.cfg` gives the one to the other.
* `IrToSpec`: `ir_to_spec` as one recursion; loops become fixpoints with a rank.
* `FrontEnd`: a function goes through both. `RunFunction` (blocks) is the reference for
  every step; `SpecOf` runs the specification.

### The proof stage

* `Coi`: fields of a goal, `analyze_cone` with its work list, `hide_write`, `merge_branch`,
  `mark_determ_branch`.
* `ProofEval`: the state of a proof and both evaluators. A name declared twice is one Z3
  constant, as in Z3; so a capture is visible.
* `Contracts`: what a callee promises and asks for, written over the names of a call.
* `PathProver`: `prove_by_traverse` in modes SYS, LOOP and PREPOST; one visit of a node at a
  time, work list in the order of the recursion.
* `Simulation`: the two traversals of a relational check, and `decompose`.
* `Proofs`: one check from goal to answer. Variables: the task and its definition, the
  cone with its work list, the reduced body, the traversal's work, the answer, `used_abs`.

### The layers

* `Containers`: what is done with `std::map` and `std::vector`, as functions and sequences.
* `Commands`: the commands of a project file, with what `add_options` makes of them.
* `ProjectText`: a project is read statement by statement into the tables of `Project`. The
  text is part of the project; a statement has its kind, names, written types and tree, and
  the definitions every project starts with come before it. Variables: the open section, the
  symbols with kind, place and what they are part of, types, declarations, invariants,
  layers, the definitions and their order. One action per kind of statement; a definition is
  inferred when it is added, and flagged if that throws. A type nobody knows and a section
  that is opened or closed out of place end the program with an exception (`rejected`);
  data, primitives, operations and code outside a section go through a null `current_layer`
  (`crashed`).
* `MemoryRegions`: `prepare_abstraction`'s check of assumed regions, with its `int`s.
* `TypeInference`: `infer_type` and `check_well_typed` for every node, under a table of the
  symbols read so far. A visit that throws leaves the types it has written, as in the code.
* `Layers`: `finalize_project` and `finalize_project_v2`, from the end of the text on. One
  action for `prepare_abstraction`, one per layer for its dependencies, one per relation,
  lemma, invariant and condition that is transformed, one per helper, and one per primitive
  and specification for the low and the high ones. Hash tables are walked in any order. Bodies
  are opaque here: what is done to one (inferring, renaming, unfolding it, listing its calls)
  is an operator among the CONSTANTS.
* `LayerTrees`: these operators on the trees of `SpecLang`, with `visitType` and
  `TypeInference`, and the properties about the bodies. `Layers.cfg` gives the one to the
  other, so TLC checks the layers with the real operators and the theorems hold for any.

## Runs

| run | question | result |
|---|---|---|
| `query_cache` | `AnswerSound`, `CounterexampleReal`: how right is an answer, whoever stored it? | holds, 88176 states |
| `query_unsat_never_false` | `z3_utils.cpp:443`: can `z3_check_unsat` return `False`? | it can |
| `race` | `VerdictSound`, `AnswerNotLost`, `Descriptors`, `NoneLeftRunning`, `ImplementsOracle` | holds, 597278 states |
| `race_fork_failure` | `z3_utils.cpp:220`: are only solvers killed? | no: `kill(-1)` after a failed fork |
| `spec_prover` | `WorklistClosed`, `PromisesKept`, `InvariantsPreserved`, `Terminates` | holds, 181766 states |
| `abstract_callees` | `symbolic.cpp:1286`: are callees checked for the invariants? | no |
| `verified_invariants` | `include/project.h:180`: is a verified invariant one that was proved? | no: one passing primitive suffices |
| `tail_calls` | `symbolic.cpp:1159`: is the postcondition of a valid Definition implied? | not if it ends in a call |
| `transformer` | `MeaningPreserved`, `NoFreeNames`, `Terminates`: do both drivers keep what a definition computes, pass by pass? | holds, 15451 states |
| `frontend` | `BackwardsConsistent`, `MeaningPreserved`, `Converts`, `SpecMeansCode`, `Closed`, `ConversionEnds`: does the specification do what the blocks do? | holds, 24257 states, 1792 functions |
| `proofs` | `ConeKeepsGoal`, `ProvedHolds`, `DeterminedAgree`, `SimulationHolds`, `CalleesRecorded`, `ChecksEnd`: is TRUE true? | holds, 4486 states |
| `layers` | `DependenciesBelow`, `SpecsTyped`, `TypesSound`, `HighCallsHigh`, `RegionsDisjoint`, `AncestorsNest`, `Finishes`: is a project, read from its text, finished, and as it should be? | holds, 21161 states, 263 projects |

The violations are the findings of `PROJECT.json`, each with the line it contradicts.
`PromisesKept` and `tail_calls` belong together: `spec_prover` runs over programs in which
only loops end in a call. In the same way the families of the last four runs leave out the
inputs of the section "Known disagreements", and their properties say which they exclude.

### Bounds

* `QueryCache`: six formulas over four worlds, four goals chosen so that each way two
  queries can share a key occurs (a path query against a conditional one, an `EvalState`
  copy against its original, a formula twice on a path, the same path under other lemmas in
  another proof and in the same one, two timeouts). The theorems have no bound.
* `RaceCheck`: three races (`MaxRaces`), because the third is the first that can find the
  process table full of what two others left; two files per `QueryInfo` (`MaxSaved`), the
  least at which the newest is not the only one; a process table of three (`ProcLimit`).
  The theorems have no bound.
* `SpecProver`: four states, so that two invariants can overlap in two states and one can
  depend on the other; a primitive, a helper, a loop and a name without a definition; 1968
  programs. `RunDepth` = 8 nested calls: the relations no longer change after seven.
* `SpecTransformer`: `Width` = 6; two integers, an option, a record, a map; a body for every
  construct a rule looks at, and every source of options (in a `when` and in a `match` that
  recovers from `None`) before every continuation; both drivers; a solver that decides and
  one that does not. `OptOnRely`, `OptOnArith` and `OptOnMatch` are the defaults of the
  program (`include/cmd.h` 41-43).
* `FrontEnd`: every choice of terminators for three blocks a, b, c entered from e and left
  to d, which has every loop nest of three blocks, and functions with data (straight line,
  diamond, loop with PHI, loads, stores, alloc, getelementptr, select, function pointers)
  and switches. Oracles of at most five answers of one bit: enough for every path through a
  nest twice. Rank 8 exceeds the iterations such an oracle allows.
* `Proofs`: fields of one or two values, which is enough to tell a write from none; about a
  dozen bodies, each with one way a dependency can flow (through a condition, a nested
  match, a callee, a dropped write, a record seen as a whole), every mode, 56 tasks of
  `decompose`; every order of the cone's work list.
* `Layers`: 263 texts of four layers, the least in which a passthrough, a dropped layer and
  a call over two layers occur together; a loop; a record in a record and in a map;
  relations, lemmas, invariants and conditions; provided, filtered, transformed and
  untransformed variants; three memory regions that are apart, touch, overlap or contain
  each other; eleven texts that are wrong or end early, entries without a section among
  them; `Finishes` is about the texts whose entries stand in sections (`EntriesInSections`),
  the others crash. `IntLimit` = 16 stands for 2^31; `MemoryRegions` has the theorem for
  every limit.

### Fairness

* `RaceCheck`: weak fairness of the parent (a running program) and of the clock. None of
  the solvers, which may hang, or of the caller.
* `SpecProver`: weak fairness of the prover's steps. Which outcome a check has is free.
* `SpecTransformer`, `FrontEnd`, `Proofs`, `Layers`: the pipeline is one thread that never
  waits, so it takes its next step as long as there is one: weak fairness of `Next`,
  written `[]<>Ended \/ []<><<Next>>_vars`, because `Ended` is where `Next` is disabled or
  idle and need not be found by evaluating a whole pass once more.
* `QueryCache` has no liveness property and no fairness.

Deadlock is checked everywhere but in `frontend` and `proofs`, whose pipeline stops at its
answer.

## Proofs

`QueryCache_proofs` proves `[]AnswerSound`, `[]CounterexampleReal`, and that a cached answer is
right about the query itself at every state in which this goal has put its key under its own
lemmas only (`TransparentWhileLemmasStay`; so always for the transformer, which has no lemmas).
The invariant says of every entry of the cache (`CacheSound`): among transformer goals it is
right without lemmas, in a proof it is right under the lemmas of a query with its key put since
the proof began. Two assumptions carry the proof: formulas have meanings, and their hashes are
bounded and distinct (so that the largest one of a path exists and a key determines what a query
constrains the solver with, `KeyConstraints`). The third, `GoalAssumption`, only says that goals
are sets of queries and that the transformer's carry no lemmas.

`RaceCheck_proofs` proves `VerdictSound`, `AnswerNotLost`, `Descriptors`,
`NoneLeftRunning` (`RaceClosesDescriptors`, `RaceLeavesNoneRunning`) and the safety part of
the refinement. The invariant (`IInv`) says which children of the current race exist at each
point of the loop (`Fresh`), that what was read from a pipe is what that child wrote
(`Reading`), how `done`, the state of a child and its descriptor go together (`Slots`), and
what older races may have left (`Left`).

`SpecProver_proofs` proves `[]TypeOK` and `[]WorklistClosed`. While it is at work the
worklist may hold functions not yet checked, so the invariant says instead that whoever is
owed a check is reported or waiting (`Closed`), that the invariant phase keeps what it has
met until the worklist starts (`Gathered`), and that successful reports are about defined
functions (`Sound`).

`SpecProverRuns_proofs` proves `[]PromisesKept` and `[]InvariantsPreserved`: when every
report is good, what was promised holds of every run of the functions themselves, at every
depth of calls. The invariant (`Evidence`) says that a good report stands for a check that
proved its goal, and that a round has looked at every primitive it is through with. The step
from "each body, assuming its callees" to "each run" is an induction over the depth of calls,
done as an induction by the least depth that fails (`DepthInduction`, from
`NatLessThanWellFounded`). The theorems assume that only loops end in a call; without it the
finding `tail_calls` is a counterexample.

`MemoryRegions_proofs` proves `AcceptedDisjoint`: comparing each region with the next in the
order of their lower bounds is enough, for any number and order of regions whose bounds fit
an `int`. From the least region after a given one (`NeighbourExists`) it climbs to all
(`EndsBefore`).

`Layers_proofs` proves `[]TypeOK`, `[]DependenciesBelow`, `[]RegionsDisjoint` and
`[][Grown]_vars` for every text of a project and whatever is done to the bodies.
`DependenciesBelow` is not inductive: while the walk goes down the layers a dependency may
not have been found yet. `LayersInv` says of every layer that is done with that what it
calls is satisfied in between or still needed and passed through so far (`DoneWith`), that
`prim_deps` has what each primitive of it calls (`Recorded`), and that the lists stay lists
with finitely many calls, so that the bottom can take what is left. The step of `OnlyTrans`
rests on three lemmas: `merge_keep` is closed (`KeepClosed`), a layer loses just the
primitives not kept (`FilteredIs`), and the layers left are old ones in their old order
(`FilteredLayersAre`, from `NthIs` of `Containers_proofs`). `RegionsDisjoint` needs that the
commands keep their form through any list of them (`AddCommandTyped`), and
`AcceptedDisjoint`. `DefinitionsGrow` says that no step, of reading or of finishing, takes a
definition away, and that a new one is the last of the order: `Derived` follows the
definitions and symbols through `add_definition`, the inference of what was postponed, the
unfolding and the relocation, whatever these do to a body. `TypeCorrect` needs all of it at
once (`TypesInv`): `LayersInv`, the definitions, their order and the symbols in step
(`DefsOK`), and that the layer, the primitive and the specification at hand exist
(`PlaceOK`) - those listed for a primitive stay defined because definitions only grow. The
bottom layer's primitives, each once, come from `SetToSeqDistinct` of `Containers_proofs`.
`TextAssumption` and `BuiltinsAssumption` say what the grammar guarantees (a section has a
name, names are strings) and that a command has the operands `add_command` asserts;
`ProjectsAssumption` that code has finitely many calls and ends its low specifications with
that of its function.

`FlowGraph_proofs` proves `[]BackwardsConsistent` for every function, every search and
whatever the jumps of a list are taken to be. The invariant (`GraphOK`) has two parts. `Sound`:
nothing is listed twice, an edge leaves one node, the next identity is no edge's. `Backed`:
every reference is an edge's, and every edge to a node has its reference, *but for* the edges
of a set. The set is there for one rule: the node put before an inner loop takes over the
references from outside and drops those from inside the loop, so in between the graph is
inconsistent by just the edges from the loop to its head, which `CutLoop` then cuts
(`WithPrepKeeps`, `CutLoopKeeps`). There is a lemma for what each operation on a graph does to
its links, one per rule on top of them, and `BuildKeeps` for the graph of a function, where
the references come out of the blocks in order (`InOrderIs` of `Containers_proofs`).
`FunctionsAssumption` says that no block is named twice or by the empty name. The theorem has
a hypothesis, `[]NamesOK`: the search lists only nodes, and the nodes put before and after an
inner loop get names that no node has and no edge leads to. The first is what the recursive
`Searched` does, which the prover cannot reason about. The second the code does not ensure: a
block called `x..prep` beside a loop headed by `x` is overwritten (`control_flow.cpp:653`), and
that no inner loop is taken apart twice under one head depends on what the other rules do
before. TLC checks `NamesOK` in `TypeOK` of the run `frontend`. `Translate` of `FrontEnd` leaves
the graph alone, so what holds of the conversion holds of the way to the specification.

Only checked by TLC: `Terminates`, `ChecksEnd`, `ConversionEnds`, `Finishes` and the liveness
part of `ImplementsOracle` (liveness and ENABLED are out of the prover's reach), and the
safety properties of `transformer` and `proofs` and the other ones of `frontend` and `layers`,
which are about syntax trees and recursive operators on them: a statement about all trees is
an induction over data, which the prover does not support. So are the `TypeOK`s of
`transformer`, `frontend` and `proofs`, whose variables hold such trees.

## Known disagreements

What the models show of the code beyond the five findings. The families and preconditions of
the four pipeline runs leave these inputs out; everything else of the kind is in them.

Query layer: within one proof an answer found under old lemmas is given under new ones. The
key has no lemmas in it (`z3_utils.cpp:98-117`); `prove_by_traverse` replaces them after a
call (`symbolic.cpp` 975-985) and adds nothing to the path when the source is an abstract
primitive (402-404, 807-816), and keeps the old ones in the arm of `None`; `z3_eval`
(`z3_utils.cpp` 1836, 1879, 1899) and `check_none` (`symbolic.cpp:605`) write the cache in
between. The calls saved are then not redundant ones, as the repository's `README.md:59` has
it. `Proof1` of `MCQueryCache` puts one question under two sets of lemmas, and TLC finds the
stale answer when `AnswerSound` is asked of the query's own lemmas.

Rule engine. `MCSpecTransformer` has a definition for each (`RelyInputs`, `AnnoInputs`, ...):
* a `rely` moved out of the source of a match that recovers from `None` (`rules.cpp:3290`);
* an `Anno` with a constant property sends `partial_eval` into itself (1575);
* `rule_eliminate_when` captures a free name of the body (2669);
* new names of a quantifier bound nowhere (2494), old ones left in its hypotheses (2119);
* `z3_eval` of a match whose later arms are `true` (`z3_utils.cpp:1855`);
* the negation of `<>` becomes `*` (3750);
* constants folded modulo 2^64 (3684);
* a refuted `rely` at the top leaves no body (1441);
* one step of an unrolled loop is lost (3553).

Front end:
* `assert(P != "")` (`control_flow.cpp`) fails for a nested loop followed by another loop;
  a break of the outer loop on the first edge loses its node, and the conversion fails; heads
  with two edges from outside fail; an irreducible graph may be converted wrongly;
* `merge_branches_local` drops instructions of the merged node, and the default status of an
  edge; `construct_loop` has no last instruction for some predecessors;
* PHI nodes are assigned one after the other (a swap is lost);
* copies of a node share their instructions (`duplicate_node` copies pointers), and
  `modify_continue_break_unique` (712-742) moves the bodies out of a shared `IIf`; the model
  copies values, and no function of the run has plain instructions in an `IIf` that is shared
  when an inner loop is taken apart;
* nested loops are mistranslated by `ir2spec` (`LoopInLoop`); the third loop of a line takes
  the name of the second (871-882); a function pointer called below an if in a loop is not
  passed on; a name assigned in the true branch hides a read in the false one; `PostEnsure`
  may mention a result that is not bound; too small a rank without a break is silent;
  `Cne` of pointers is a plain negation; integers up to -100 become unsigned.

Proof stage:
* not in the cone: `Some st` returned as a symbol, sources of matches, propositions of
  `rely`, the value a callee returns, the value `SET` stores, conditions below a negation, a
  record read as a field; `merge_branch` is wrong in two of its cases and ignores returned
  values; a name bound twice can make `analyze_cone` run forever;
* answers TRUE without asking: tail calls in PREPOST and SYS; an `Anno`'s body; in SYS a
  precondition that fails is only logged;
* checks that stop instead of answering: a callee without postcondition, `PreserveInv` with
  a tuple, a LOOP check whose payload is the bare state, a tail call of a plain definition;
* relational: both runs share the names they bind to values, so a relation that does not
  hold is proved (`build_simulate_spec`, `rules.cpp:4073`, against `simulate.cpp:305`;
  `MCNameTasks`); a match left unmarked reads the recorded path out of range; `decompose`
  skips relations although a match asks outside the public fields, and overwrites the
  project's relations by the end relations through a reference.

Layers and types:
* a release build drops the assertion on the regions; bounds are truncated to `int`;
  adjacent regions are rejected;
* types nobody infers: a provided high specification of the top layer (v2), a provided low
  one wrapped by `InitRely` (v2), what is provided for a primitive that `OnlyTrans` drops;
* uncaught exceptions: a provided specification that calls what `OnlyTrans` filtered out,
  a call within one layer or upwards, propositions that call generated specifications;
* v1: `InitRely` is ignored for provided low specifications; layer 0 not named `Bottom` reads
  `layers[-1]`; the default rank gets an empty name;
* nested map types are missing from the ancestors; `merge_keep` recurs forever on a recursive
  function; a command with too few operands fails an assertion;
* data, primitives, operations or code outside a section dereference a null pointer
  (`parse.cpp` 137, 280, 292) where every other misplaced statement throws;
* inference: `EQUAL` repeats a step instead of reversing it, `LIST_EQ` has the type of its
  first element, `List.is_empty` that of a list, `CONCAT` mistypes its elements, a shadowing
  pattern variable gets the type of the shadowed one.

## Not modelled, and why

* Hash collisions: `HashAssumption` takes the hashes of a run's formulas as distinct. The
  code does not compare formulas, so nothing holds without it.
* A `False` from `Z3Cache` taken for a proof: `prove_by_traverse` rejects only `Sat` and
  `Unknown` (lines 698-713). `QueryCache` shows that `z3_check_unsat` can return it; the
  proof stage's model has an honest solver without the cache.
* The memo of values in syntax tree nodes (`cached_eval`): what is read depends on which
  nodes share memory, and the trees of the models are values.
* A loop specification the user provides (`ir2spec.cpp:917`): loops are always generated.
* In the inference of types: the renaming of `llvm.` operators, constructors with arguments, and
  operators that are trees.
* The two loops of `simulate` over primitives: it returns after the first, and its results
  are only logged.
* Code nothing reaches: the fields-of-interest and lens rules (`rules.cpp` 141-1083), the
  conditional specification, `collect_exprs` and `reconstruct_expr`, `symbolic()`
  (`z3_utils.cpp` 1114-1555), `check_drf_by_traverse`, the older `check_loop_inv`, the
  projection under `PRIME_SPEC` and the persistent cache under `Z3_PCACHE`, which no build
  file defines.
* Text and external data: the generated parser, the visits of expressions (the tree of a
  body is taken as given), loop invariants and annotations of globals in a project file,
  JSON and LLVM readers, the second front end over LLVM's own analyses, inline assembly, the
  Coq backend, options, logging, scripts, the Coq library.
* Z3 sorts of values, printing, the older `infer_type` member of each node.

## Plan

Done: `QueryCache`, `RaceCheck`, `SpecProver` with proofs; the rule engine; the front end;
the proof stage; the reading of a project and its layers, with type inference; the proofs
about tables, layers and graphs that do not depend on the bodies.

Left, in this order:
1. `simulate`'s loops, and the proof stage composed with `QueryCache`, so that what a cached
   `False`, or an answer from under old lemmas, does to a check is a run and not a remark.
2. The memo of `z3_eval`: trees with identities.
3. Loop splitting of the LLVM front end, inline assembly.
4. Proofs of operators that are not recursive, in modules apart: the ancestors of fields, the
   marks of branches as agreement of two runs.
