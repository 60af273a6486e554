-------------------------------- MODULE Layers --------------------------------
(***************************************************************************)
(* finalize_project and finalize_project_v2 (libs/project.cpp): a project  *)
(* that has been read is finished layer by layer, from the bottom up.      *)
(* Every primitive gets its low specification, generated from its code or  *)
(* provided, and from it its high one, in which the specifications of the  *)
(* layers below are unfolded.  A definition that was flagged when it was   *)
(* added is inferred on the way, wherever one remembers to.                *)
(*                                                                         *)
(* What is done to the syntax trees is left open here, and given by        *)
(* LayerTrees: the bodies are opaque, and the operations on them are       *)
(* parameters.                                                             *)
(*                                                                         *)
(* External: the code, which comes as what it calls, the assembly it       *)
(* contains and the low specifications the front end makes of it           *)
(* (IrToSpec).  Left out: the sizes compute_smart_configs works out for a  *)
(* layout, and loop unrolling on command.                                  *)
(***************************************************************************)
EXTENDS ProjectText, MemoryRegions

CONSTANTS
    TypedInvariant(_, _, _),  \* a proposition inferred with the types and that of the state
    Dependencies(_, _),       \* what a body calls, and which of the symbols it names
    RenamedCalls(_, _),       \* a body with the names of its calls mapped
    Unfoldings(_, _, _, _),   \* the definitions met when a body is unfolded
    UnfoldedBody(_, _, _),    \* the body with its calls unfolded
    Assuming(_, _),           \* a body under an assumption
    IsExpr(_),                \* whether a body is an Expr
    IsStruct(_),              \* whether a type is a struct
    FieldAncestors(_)         \* the nesting of the fields of the structs

(* A finite number of calls, and a low specification of the function's     *)
(* name behind those of its loops.                                         *)
ASSUME ProjectsAssumption ==
    \A p \in Projects : \A f \in DOMAIN p.code :
        /\ IsFiniteSet(p.code[f].calls)
        /\ p.code[f].low \in Seq(ToSet(p.code[f].low)) /\ p.code[f].low # <<>>
        /\ Last(p.code[f].low).name = LowName(f)

VARIABLES
    abstraction,  \* what prepare_abstraction makes of the commands
    prim_deps,    \* Project::prim_deps
    need,         \* the dependencies no layer has satisfied yet
    collected,    \* the relations and lemmas, with their kinds
    transformed,  \* the propositions trans_inv is done with
    validated,    \* the functions whose instructions are converted (spoq_insts_converted)
    name_map,     \* low name -> high name, of one primitive
    renames,      \* have_loop || have_sub
    deps,         \* Project::deps
    field_ancestor

layer_vars == <<prim_deps, need>>
inv_vars == <<collected, transformed>>
prim_vars == <<name_map, renames>>
text_read == <<project, section, typedefs, structs, decls>>
vars == <<text_vars, abstraction, layer_vars, inv_vars, validated, prim_vars, deps, field_ancestor>>

(***************************************************************************)
(* Inference of what is left to infer; here nobody catches the exception.  *)
(***************************************************************************)
Late(v, keep) == [v.d EXCEPT !.delayed = keep]
(* A plausible slip: the flag is cleared, nothing is inferred. *)
ClearDelayed(r, f, clear) ==
    IF f \in DOMAIN r.ds THEN Kept(r, f, [r.ds[f] EXCEPT !.delayed = FALSE], r.s) ELSE r
InferDelayed(r, f, clear) ==
    IF f \notin DOMAIN r.ds \/ ~r.ds[f].delayed THEN r
    ELSE LET v == TypedDefinition(r.ds[f], Types(r))
         IN  Kept(r, f, Late(v, ~clear), IF v.s = "ok" THEN r.s ELSE "crashed")

InferAll(r, fs) ==
    LET late == {f \in fs \cap DOMAIN r.ds : r.ds[f].delayed}
        v    == [f \in late |-> TypedDefinition(r.ds[f], Types(r))]
    IN  [ds |-> [f \in DOMAIN r.ds |-> IF f \in late THEN Late(v[f], FALSE) ELSE r.ds[f]],
         sy |-> r.sy,
         s  |-> IF \A f \in late : v[f].s = "ok" THEN r.s ELSE "crashed"]

(***************************************************************************)
(* The transformer: the specifications a body calls are unfolded, and so   *)
(* are those their bodies call; a definition is inferred first if that was *)
(* delayed (rule_unfold_specs).  Without unfolding the meaning stays, and  *)
(* here the body.                                                          *)
(***************************************************************************)
Unfoldable(f, ds) ==
    /\ f \notin cmds.NoUnfold \/ f \in cmds.Unfold
    /\ ~ds[f].fix
    /\ ~cmds.NoUnfoldAll
MayUnfold(ds) == {f \in DOMAIN ds : Unfoldable(f, ds)}

CallsIn(n, sy) == Dependencies(n, Callable(sy))

(* r, and n after it. *)
WithNode(r, n) == [ds |-> r.ds, sy |-> r.sy, s |-> r.s, n |-> n]
Unfolded(r, n) == WithNode(r, IF r.s = "ok" THEN UnfoldedBody(n, r.ds, MayUnfold(r.ds)) ELSE n)
spec_transformer(r, n, unfold) ==
    IF r.s # "ok" \/ ~unfold THEN WithNode(r, n)
    ELSE Unfolded(InferAll(r, Unfoldings(n, r.ds, MayUnfold(r.ds), Callable(r.sy))), n)

(* The transformed body becomes that of f. *)
WithBody(t, f) == Kept(t, f, [t.ds[f] EXCEPT !.body = t.n], t.s)

Relocated(r, fs, loc) ==
    [ds |-> r.ds, s |-> r.s,
     sy |-> [f \in DOMAIN r.sy |-> IF f \in fs THEN [r.sy[f] EXCEPT !.loc = loc] ELSE r.sy[f]]]

(***************************************************************************)
(* The text is read.  A section that is open is lost.  A project without   *)
(* layers, code or (finalize_project_v2) a state for its first layer ends  *)
(* here; a layer without a state has that of the layer below.              *)
(***************************************************************************)
Init ==
    /\ TextInit
    /\ abstraction = <<>>
    /\ prim_deps = <<>> /\ need = {}
    /\ collected = {} /\ transformed = {}
    /\ validated = {}
    /\ name_map = <<>> /\ renames = FALSE
    /\ deps = <<>>
    /\ field_ancestor = {}

Reads ==
    /\ ReadText
    /\ UNCHANGED <<abstraction, layer_vars, inv_vars, validated, prim_vars, deps, field_ancestor>>

InheritsFrom(i) ==
    CHOOSE j \in 1..i : layers[j].data # <<>> /\ \A k \in (j + 1)..i : layers[k].data = <<>>
WithData == [i \in DOMAIN layers |-> [layers[i] EXCEPT !.data = layers[InheritsFrom(i)].data]]

Unfit ==
    layers # <<>> =>
        IF project.v2 THEN layers[1].data = <<>> ELSE \A i \in DOMAIN layers : layers[i].code = ""

TextRead == pc = "parse" /\ at.p > TextLen

Unfinished ==
    /\ TextRead
    /\ Unfit
    /\ pc' = "rejected"
    /\ UNCHANGED <<text_read, cmds, at, symbols, invs, layers, defs, order, abstraction, layer_vars,
                   inv_vars, validated, prim_vars, deps, field_ancestor>>

EndOfText ==
    /\ TextRead
    /\ ~Unfit
    /\ cmds' = add_options(cmds, project.target)
    /\ layers' = IF project.v2 THEN WithData ELSE layers
    /\ pc' = IF project.v2 THEN "abstract" ELSE "structure"
    /\ at' = [at EXCEPT !.l = Len(layers)]
    /\ UNCHANGED <<text_read, symbols, invs, defs, order, abstraction, layer_vars, inv_vars, validated,
                   prim_vars, deps, field_ancestor>>

(***************************************************************************)
(* prepare_abstraction: the specifications named for abstraction must be   *)
(* expressions, the memory regions it assumes must not overlap, which an   *)
(* assertion demands of their bounds as ints, sorted, and layouts are of   *)
(* structs that exist.                                                     *)
(***************************************************************************)
Regions == cmds.AbstractConstant

IsExprDef(f) == f \in DOMAIN defs /\ IsExpr(defs[f].body)
Abstractable ==
    /\ \A i \in DOMAIN cmds.AbstractSpec :
          IsExprDef(cmds.AbstractSpec[i].raw) /\ IsExprDef(cmds.AbstractSpec[i].abs)
    /\ Accepted(Regions)
    /\ \A i \in DOMAIN cmds.AbstractLayout : cmds.AbstractLayout[i].struct \in DOMAIN structs

(* The laid out fields that are structs themselves, and what is attached   *)
(* to the code: the abstractions of arguments and results that it has.     *)
RichFields(layout) ==
    {fld \in ToSet(structs[layout.struct]) :
        IsStruct(fld[2]) /\ \E i \in DOMAIN layout.fields : layout.fields[i].name = fld[1]}
HasVariable(f, v) == f \in DOMAIN project.funcs /\ v \notin project.funcs[f].lacks
Prepared ==
    [specs    |-> [i \in DOMAIN cmds.AbstractSpec |->
                      [raw |-> defs[cmds.AbstractSpec[i].raw].body, abs |-> defs[cmds.AbstractSpec[i].abs].body]],
     rich     |-> [i \in DOMAIN cmds.AbstractLayout |-> RichFields(cmds.AbstractLayout[i])],
     metadata |-> {key \in DOMAIN cmds.Abstract : HasVariable(key[1], key[2])}]

PrepareAbstraction ==
    /\ pc = "abstract"
    /\ pc' = IF Abstractable THEN "structure" ELSE "rejected"
    /\ abstraction' = IF Abstractable THEN Prepared ELSE abstraction
    /\ UNCHANGED <<text_read, cmds, at, symbols, invs, layers, defs, order, layer_vars, inv_vars,
                   validated, prim_vars, deps, field_ancestor>>

(***************************************************************************)
(* The layers from the top: what a layer does not have and a higher one    *)
(* calls passes through it; what nobody has is the bottom's.               *)
(***************************************************************************)
Prims(L) == ToSet(L.prims)
HasBody(f) == f \in DOMAIN project.code

(* What f calls (get_prim_dependencies, get_func_dependencies), with AddDep. *)
Calls(f) == project.code[f].calls
            \cup ToSet(ListOf(cmds.AddDep, f))

StructureLayer ==
    /\ pc = "structure"
    /\ at.l > 1
    /\ LET L    == layers[at.l]
           mine == [f \in {g \in Prims(L) : HasBody(g)} |-> Calls(f)]
           open == need \ Prims(L)
       IN  /\ layers' = [layers EXCEPT ![at.l].passthrough = open, ![at.l].deps = mine]
           /\ prim_deps' = LaidOver(mine, prim_deps)
           /\ need' = open \cup UNION {mine[f] : f \in DOMAIN mine}
    /\ at' = [at EXCEPT !.l = @ - 1]
    /\ UNCHANGED <<text_read, cmds, pc, symbols, invs, defs, order, abstraction, inv_vars, validated,
                   prim_vars, deps, field_ancestor>>

(* A plausible slip: what the bottom has already is added once more. *)
NeededAndOwn == SetToSeq(need) \o layers[1].prims
BottomPrims == SetToSeq(need \cup Prims(layers[1]))

BottomLayer ==
    /\ pc = "structure"
    /\ at.l = 1
    /\ layers' = [layers EXCEPT ![1].prims = BottomPrims]
    /\ need' = {}
    /\ pc' = "filter"
    /\ UNCHANGED <<text_read, cmds, at, symbols, invs, defs, order, abstraction, prim_deps, inv_vars,
                   validated, prim_vars, deps, field_ancestor>>

(***************************************************************************)
(* filter_only_trans: OnlyTrans and what it depends on.  merge_keep walks  *)
(* the calls without remembering where it was, and never returns from a    *)
(* recursion: when it returns, what it kept is the least set that contains *)
(* what is listed and is closed under the calls.  Every name it looks up   *)
(* has an entry in prim_deps from then on.                                 *)
(***************************************************************************)
PrimDeps(f) == IF f \in DOMAIN prim_deps THEN prim_deps[f] ELSE {}

(* A plausible slip: only what is listed is kept, not what it calls. *)
KeepListed(fs) == fs
merge_keep(fs) ==
    LET all == fs \cup UNION {prim_deps[f] : f \in DOMAIN prim_deps}
    IN  {f \in all : \A K \in SUBSET all :
                        fs \subseteq K /\ (\A g \in K : PrimDeps(g) \subseteq K) => f \in K}

Recursive == \E f \in merge_keep(cmds.OnlyTrans) : f \in merge_keep(PrimDeps(f))

KeptPrims(L, keep) == {i \in DOMAIN L.prims : L.prims[i] \in keep}
Filtered(L, keep) == [L EXCEPT !.prims = Subsequence(@, KeptPrims(L, keep))]

(* The bottom layer stays as it is, the others as long as they are not empty. *)
KeptLayers(keep) == {1} \cup {i \in 2..Len(layers) : KeptPrims(layers[i], keep) # {}}
FilteredLayers(keep) ==
    Subsequence([i \in DOMAIN layers |-> IF i = 1 THEN layers[1] ELSE Filtered(layers[i], keep)],
                KeptLayers(keep))

FilterOnlyTrans ==
    /\ pc = "filter"
    /\ IF cmds.OnlyTrans = {} THEN layers' = layers /\ prim_deps' = prim_deps
       ELSE LET keep == merge_keep(cmds.OnlyTrans)
            IN  /\ layers' = FilteredLayers(keep)
                /\ prim_deps' = [f \in DOMAIN prim_deps \cup keep |-> PrimDeps(f)]
    /\ pc' = IF cmds.OnlyTrans # {} /\ Recursive THEN "crashed" ELSE "collect"
    /\ UNCHANGED <<text_read, cmds, at, symbols, invs, defs, order, abstraction, need, inv_vars,
                   validated, prim_vars, deps, field_ancestor>>

(***************************************************************************)
(* collect_relations, collect_lemmas: the definitions by the section they  *)
(* stand in, in the order of a hash table; relations are unfolded, and a   *)
(* Fixpoint is neither.                                                    *)
(***************************************************************************)
RelationKinds == {"Relations", "SecureRelations", "WeakStepRelations", "EndRelations"}
LemmaKinds == {"Lemmas", "Axioms"}
SectionOf(f) == symbols[f].loc[1]
Collectable(kinds) ==
    {f \in DOMAIN defs \cap DOMAIN symbols : \E k \in kinds : symbols[f].loc = <<k, "Spec", "">>}
Uncollected(kinds) == {f \in Collectable(kinds) : <<SectionOf(f), f>> \notin collected}

CollectRelation(r, f) == WithBody(spec_transformer(r, r.ds[f].body, TRUE), f)
CollectLemma(r, f) == r

Collect ==
    /\ pc = "collect"
    /\ \E f \in IF Uncollected(RelationKinds) # {} THEN Uncollected(RelationKinds)
                                                   ELSE Uncollected(LemmaKinds) :
          /\ collected' = collected \cup {<<SectionOf(f), f>>}
          /\ IF defs[f].fix THEN pc' = "rejected" /\ UNCHANGED <<defs, symbols>>
             ELSE \E r \in {InferDelayed(Now, f, TRUE)} :
                  Continue(IF SectionOf(f) \in RelationKinds THEN CollectRelation(r, f)
                                                             ELSE CollectLemma(r, f), "collect")
    /\ UNCHANGED <<text_read, cmds, at, invs, layers, order, abstraction, layer_vars, transformed,
                   validated, prim_vars, deps, field_ancestor>>

(***************************************************************************)
(* trans_inv: the system's invariants, then the post- and preconditions,   *)
(* each inferred over the state st and unfolded where it stands.  The      *)
(* names come in the order of a hash table, the conditions of one name in  *)
(* theirs.                                                                 *)
(***************************************************************************)
Lists == <<[f \in DOMAIN invs |-> <<invs[f]>>], cmds.Postcondition, cmds.Precondition>>
Untransformed ==
    UNION {UNION {{<<k, f, i>> : i \in DOMAIN Lists[k][f]} : f \in DOMAIN Lists[k]} : k \in DOMAIN Lists}
        \ transformed
Begun(c) == \E d \in transformed : d[1] = c[1] /\ d[2] = c[2]
Turn(c) ==
    /\ \A d \in Untransformed : c[1] <= d[1] /\ (d[1] = c[1] /\ d[2] = c[2] => c[3] <= d[3])
    /\ (\E d \in Untransformed : d[1] = c[1] /\ Begun(d)) => Begun(c)

TransTyped(r, v) == IF v.s # "ok" THEN [ds |-> r.ds, sy |-> r.sy, s |-> "crashed", n |-> v.n]
                    ELSE spec_transformer(r, v.n, TRUE)
TransOne(r, n) == TransTyped(r, TypedInvariant(n, Types(r), layers[1].data))

SetAt(lists, c, n) == Updated(lists, c[2], [lists[c[2]] EXCEPT ![c[3]] = n])
WithCondition(c, n) ==
    [cmds EXCEPT ![IF c[1] = 2 THEN "Postcondition" ELSE "Precondition"] = SetAt(@, c, n)]

TransInv ==
    /\ pc = "collect"
    /\ Uncollected(RelationKinds \cup LemmaKinds) = {}
    /\ \E c \in Untransformed :
          /\ Turn(c)
          /\ transformed' = transformed \cup {c}
          /\ \E t \in {TransOne(Now, Lists[c[1]][c[2]][c[3]])} :
                /\ Continue(t, "collect")
                /\ invs' = IF c[1] = 1 THEN Updated(invs, c[2], t.n) ELSE invs
                /\ cmds' = IF c[1] = 1 THEN cmds ELSE WithCondition(c, t.n)
    /\ UNCHANGED <<text_read, at, layers, order, abstraction, layer_vars, collected, validated,
                   prim_vars, deps, field_ancestor>>

(* finalize_project_v2 starts above the first layer. *)
TransDone ==
    /\ pc = "collect"
    /\ Uncollected(RelationKinds \cup LemmaKinds) = {}
    /\ Untransformed = {}
    /\ pc' = "help"
    /\ at' = [at EXCEPT !.l = IF project.v2 THEN 2 ELSE 1, !.p = 1]
    /\ UNCHANGED <<text_read, cmds, symbols, invs, layers, defs, order, abstraction, layer_vars, inv_vars,
                   validated, prim_vars, deps, field_ancestor>>

(* The helpers of finalize_project_v2 are unfolded in place; one that does *)
(* not exist is skipped.                                                   *)
Helpers == IF project.v2 THEN project.helpers ELSE <<>>
Helped(h) == IF h \in DOMAIN defs THEN WithBody(spec_transformer(Now, defs[h].body, TRUE), h) ELSE Now

Help ==
    /\ pc = "help"
    /\ at.p <= Len(Helpers)
    /\ \E r \in {Helped(Helpers[at.p])} : Continue(r, "help")
    /\ at' = [at EXCEPT !.p = @ + 1]
    /\ UNCHANGED <<text_read, cmds, invs, layers, order, abstraction, layer_vars, inv_vars, validated,
                   prim_vars, deps, field_ancestor>>

HelpDone ==
    /\ pc = "help"
    /\ at.p > Len(Helpers)
    /\ pc' = "enter"
    /\ at' = [at EXCEPT !.p = 1]
    /\ UNCHANGED <<text_read, cmds, symbols, invs, layers, defs, order, abstraction, layer_vars, inv_vars,
                   validated, prim_vars, deps, field_ancestor>>

(***************************************************************************)
(* A layer is entered: what was provided for the one below and could not   *)
(* be inferred when it was read is inferred now.  finalize_project looks   *)
(* below every layer that is not called Bottom.                            *)
(***************************************************************************)
IsBottom == ~project.v2 /\ layers[at.l].name = "Bottom"

PassBottom ==
    /\ pc = "enter"
    /\ at.l <= Len(layers)
    /\ IsBottom
    /\ at' = [at EXCEPT !.l = @ + 1]
    /\ UNCHANGED <<text_read, cmds, pc, symbols, invs, layers, defs, order, abstraction, layer_vars,
                   inv_vars, validated, prim_vars, deps, field_ancestor>>

NothingBelow ==
    /\ pc = "enter"
    /\ at.l = 1
    /\ ~IsBottom
    /\ pc' = "rejected"
    /\ UNCHANGED <<text_read, cmds, at, symbols, invs, layers, defs, order, abstraction, layer_vars,
                   inv_vars, validated, prim_vars, deps, field_ancestor>>

NamesBelow(L) ==
    [k \in 1..(2 * Len(L.prims)) |->
        IF k % 2 = 1 THEN LowName(L.prims[(k + 1) \div 2]) ELSE HighName(L.prims[k \div 2])]

EnterName ==
    /\ pc = "enter"
    /\ at.l \in 2..Len(layers)
    /\ ~IsBottom
    /\ LET names == NamesBelow(layers[at.l - 1])
       IN  IF at.p <= Len(names)
           THEN /\ Continue(InferDelayed(Now, names[at.p], FALSE), "enter")
                /\ at' = [at EXCEPT !.p = @ + 1]
           ELSE /\ Continue(Now, "low")
                /\ at' = [at EXCEPT !.p = 1]
    /\ UNCHANGED <<text_read, cmds, invs, layers, order, abstraction, layer_vars, inv_vars, validated,
                   prim_vars, deps, field_ancestor>>

Prim == layers[at.l].prims[at.p]
InLayer == pc = "low" /\ at.p <= Len(layers[at.l].prims)
Provided(f) == LowName(f) \in DOMAIN defs

(* No code, or (finalize_project_v2) code that cannot be translated, or    *)
(* has been already.                                                       *)
Untranslatable == project.v2 /\ (~project.code[Prim].converted \/ Prim \in validated)

SkipPrim ==
    /\ InLayer
    /\ HasBody(Prim) => ~Provided(Prim) /\ Untranslatable
    /\ at' = [at EXCEPT !.p = @ + 1]
    /\ UNCHANGED <<text_read, cmds, pc, symbols, invs, layers, defs, order, abstraction, layer_vars,
                   inv_vars, validated, prim_vars, deps, field_ancestor>>

(***************************************************************************)
(* The low specifications are generated, the loops' first, each added and  *)
(* transformed without unfolding (infer_low_spec, infer_low_spec_v2).      *)
(* finalize_project_v2 asks first that the assembly of all functions       *)
(* translated so far has a specification; a dry run goes no further.       *)
(***************************************************************************)
AsmMissing == \E f \in validated \cup {Prim} : \E a \in project.code[f].asm : HighName(a) \notin DOMAIN defs

ValidateLow ==
    /\ InLayer
    /\ HasBody(Prim) /\ ~Provided(Prim) /\ ~Untranslatable
    /\ validated' = IF project.v2 THEN validated \cup {Prim} ELSE validated
    /\ pc' = IF ~project.v2 THEN "generate"
             ELSE IF project.dry THEN "low" ELSE IF AsmMissing THEN "rejected" ELSE "generate"
    /\ at' = IF project.v2 /\ project.dry THEN [at EXCEPT !.p = @ + 1] ELSE at
    /\ UNCHANGED <<text_read, cmds, symbols, invs, layers, defs, order, abstraction, layer_vars, inv_vars,
                   prim_vars, deps, field_ancestor>>

(* The function's is under the assumptions of InitRely, and                *)
(* (finalize_project_v2) those its memory accesses ask for, outermost.     *)
UnderAll(props, n) == FoldLeft(LAMBDA body, c : Assuming(c, body), n, props)
Relied(f, n) == UnderAll(ListOf(cmds.InitRely, f), n)
AbsRely(f) == IF project.v2 THEN project.code[f].abs_rely ELSE <<>>
CodeToSpec(f) ==
    [i \in DOMAIN project.code[f].low |->
        LET g == project.code[f].low[i]
        IN  IF g.name = LowName(f) THEN [g EXCEPT !.d.body = UnderAll(AbsRely(f), Relied(f, @))] ELSE g]

AddLow(g) == add_definition(Now, g.name, g.d, <<layers[at.l].name, Prim, "LowSpec">>)
LowAdded(r, f) == WithBody(spec_transformer(r, r.ds[f].body, FALSE), f)

(* finalize_project walks each body, finalize_project_v2 takes the calls   *)
(* of the function's code.                                                 *)
LowDeps(g) ==
    IF ~project.v2 THEN Updated(deps, g.name, CallsIn(g.d.body, symbols))
    ELSE IF g.name = LowName(Prim) THEN Updated(deps, g.name, project.code[Prim].calls)
    ELSE deps

GenerateLow ==
    /\ pc = "generate"
    /\ LET low  == CodeToSpec(Prim)
           g    == low[Len(at.todo) + 1]
           last == Len(at.todo) + 1 = Len(low)
       IN  /\ \E r \in {LowAdded(AddLow(g), g.name)} :
                 /\ Continue(r, IF last THEN "high" ELSE "generate")
                 /\ order' = Ordered(r, g.name)
           /\ at' = [at EXCEPT !.todo = Append(@, g.name)]
           /\ name_map' = IF g.name \in DOMAIN project.high
                          THEN Updated(name_map, g.name, project.high[g.name]) ELSE name_map
           /\ renames' = (renames \/ g.d.fix)
           /\ deps' = LowDeps(g)
    /\ UNCHANGED <<text_read, cmds, invs, layers, abstraction, layer_vars, inv_vars, validated,
                   field_ancestor>>

(* The provided ones: found by their names among all definitions.  Only   *)
(* finalize_project_v2 puts the assumptions of InitRely around them.      *)
PartsOf(f) ==
    Subsequence(order, {i \in DOMAIN order : order[i] \in DOMAIN project.part /\ project.part[order[i]] = f})
ProvidedLow(f) == IF ~project.v2 THEN defs[LowName(f)]
                  ELSE [defs[LowName(f)] EXCEPT !.body = Relied(f, @)]

CollectLow ==
    /\ InLayer
    /\ HasBody(Prim) /\ Provided(Prim)
    /\ LET low == PartsOf(Prim)
       IN  /\ Continue(Relocated(Kept(Now, LowName(Prim), ProvidedLow(Prim), "ok"), ToSet(low),
                                 <<layers[at.l].name, Prim, "LowSpec">>), "high")
           /\ at' = [at EXCEPT !.todo = low]
           /\ name_map' = [f \in ToSet(low) |-> project.high[f]]
           /\ renames' = \E f \in ToSet(low) : f # LowName(Prim)
    /\ UNCHANGED <<text_read, cmds, invs, layers, order, abstraction, layer_vars, inv_vars, validated,
                   deps, field_ancestor>>

(***************************************************************************)
(* infer_spec_task, infer_spec_task_v2: the high specification of a low    *)
(* one.  A provided one is kept; only finalize_project infers its types.   *)
(* A definition without a high name - the default rank of a loop - gets    *)
(* the empty one, from then on.                                            *)
(***************************************************************************)
Low == Head(at.todo)
High == IF Low \in DOMAIN name_map THEN name_map[Low] ELSE ""
HighProvided == High \in DOMAIN defs /\ defs[High].body # <<>>
NamesSeen == Updated(name_map, Low, High)
AtSpec == <<layers[at.l].name, "Spec", "">>
InHigh == pc = "high" /\ at.todo # <<>> /\ at' = [at EXCEPT !.todo = Tail(@)] /\ name_map' = NamesSeen

KeepHigh ==
    /\ InHigh
    /\ HighProvided
    /\ \E r \in {IF project.v2 THEN Now ELSE InferDelayed(Now, High, FALSE)} :
          Continue(Relocated(r, {High}, AtSpec), "high")
    /\ deps' = Updated(deps, High, CallsIn(defs[High].body, symbols))
    /\ UNCHANGED <<text_read, cmds, invs, layers, order, abstraction, layer_vars, inv_vars, validated,
                   renames, field_ancestor>>

no_trans == \/ cmds.NoHighSpec
            \/ High \in cmds.NoTrans
            \/ project.v2 /\ defs[Low].fix /\ High \notin cmds.LoopTrans

(* A plausible slip: the calls of the low specifications stay. *)
NotRenamed(n) == n
Renamed1(n) == IF renames THEN RenamedCalls(n, NamesSeen) ELSE n

(* A Fixpoint's name is declared, without a body, before it is transformed. *)
Declared(r) == IF r.s = "ok" /\ r.ds[Low].fix
               THEN add_definition(r, High, [r.ds[Low] EXCEPT !.body = <<>>], AtSpec) ELSE r

HighBody(r) == spec_transformer(Declared(r), Renamed1(r.ds[Low].body), ~no_trans)
AddHigh(t) == IF t.s # "ok" THEN t ELSE add_definition(t, High, [t.ds[Low] EXCEPT !.body = t.n], AtSpec)

InferHigh ==
    /\ InHigh
    /\ ~HighProvided
    /\ \E t \in {HighBody(InferDelayed(Now, Low, TRUE))} : \E r \in {AddHigh(t)} :
          /\ Continue(r, "high")
          /\ deps' = Updated(deps, High, CallsIn(t.n, t.sy))
          /\ order' = Ordered(r, High)
    /\ UNCHANGED <<text_read, cmds, invs, layers, abstraction, layer_vars, inv_vars, validated, renames,
                   field_ancestor>>

PrimDone ==
    /\ pc = "high"
    /\ at.todo = <<>>
    /\ pc' = "low"
    /\ at' = [at EXCEPT !.p = @ + 1]
    /\ name_map' = <<>>
    /\ renames' = FALSE
    /\ UNCHANGED <<text_read, cmds, symbols, invs, layers, defs, order, abstraction, layer_vars, inv_vars,
                   validated, deps, field_ancestor>>

LayerDone ==
    /\ pc = "low"
    /\ at.p > Len(layers[at.l].prims)
    /\ pc' = "enter"
    /\ at' = [at EXCEPT !.l = @ + 1, !.p = 1]
    /\ UNCHANGED <<text_read, cmds, symbols, invs, layers, defs, order, abstraction, layer_vars, inv_vars,
                   validated, prim_vars, deps, field_ancestor>>

Finish ==
    /\ pc = "enter"
    /\ at.l > Len(layers)
    /\ field_ancestor' = FieldAncestors(structs)
    /\ pc' = "done"
    /\ UNCHANGED <<text_read, cmds, at, symbols, invs, layers, defs, order, abstraction, layer_vars,
                   inv_vars, validated, prim_vars, deps>>

Ended == pc \in {"done", "crashed", "rejected"}
End == Ended /\ UNCHANGED vars

Next ==
    \/ Reads \/ Unfinished \/ EndOfText \/ PrepareAbstraction
    \/ StructureLayer \/ BottomLayer \/ FilterOnlyTrans
    \/ Collect \/ TransInv \/ TransDone \/ Help \/ HelpDone
    \/ PassBottom \/ NothingBelow \/ EnterName
    \/ SkipPrim \/ ValidateLow \/ GenerateLow \/ CollectLow
    \/ KeepHigh \/ InferHigh \/ PrimDone \/ LayerDone \/ Finish \/ End

Spec == Init /\ [][Next]_vars
FairSpec == Spec /\ ([]<>Ended \/ []<><<Next>>_vars)

(***************************************************************************)
(* Properties.                                                             *)
(***************************************************************************)
Structured == pc \notin {"parse", "abstract", "structure", "crashed", "rejected"}

(* Every variable has its type: the layer and the specifications being     *)
(* worked on exist, the definitions are listed once each, in order, every  *)
(* symbol of a definition or a declaration has one, and the bottom layer   *)
(* has no primitive twice.                                                 *)
TypeOK ==
    /\ pc \in {"parse", "abstract", "structure", "filter", "collect", "help", "enter", "low", "generate",
               "high", "done", "crashed", "rejected"}
    /\ at.l \in 1..(Len(layers) + 1) /\ at.p \in Nat \ {0}
    /\ at.todo \in Seq(DOMAIN defs)
    /\ Distinct(order) /\ ToSet(order) = DOMAIN defs
    /\ \A f \in DOMAIN symbols : /\ symbols[f].kind = "Def" => f \in DOMAIN defs
                                 /\ symbols[f].kind = "Decl" => f \in DOMAIN decls
    /\ Structured => Distinct(layers[1].prims)

(* Once the layers are structured, whatever a primitive calls is a         *)
(* primitive of a lower layer and passes through every layer in between;   *)
(* the filter of OnlyTrans, which drops primitives and whole layers, keeps *)
(* it so (finalize_project's pass over the layers, filter_only_trans).     *)
DependenciesBelow ==
    Structured =>
        \A i \in 2..Len(layers) : \A f \in {g \in Prims(layers[i]) : HasBody(g)} : \A d \in Calls(f) :
            \E j \in 1..(i - 1) : /\ d \in Prims(layers[j])
                                  /\ \A k \in (j + 1)..(i - 1) : d \in layers[k].passthrough

(* A project whose layers' entries stand in sections is finished whatever  *)
(* is generated, provided or left out, or rejected with an error: no       *)
(* exception of an inference that was delayed too long is left uncaught.   *)
(* Fairness: the program takes its next step.                              *)
Finishes == EntriesInSections(project.text) => <>(pc \in {"done", "rejected"})

(* The memory regions that prepare_abstraction accepts have no address in  *)
(* common, when their bounds fit the int it compares.                      *)
RegionsDisjoint ==
    project.v2 /\ pc \notin {"parse", "abstract", "rejected", "crashed"} /\ Fits(Regions)
        => Disjoint(Regions)

===============================================================================
