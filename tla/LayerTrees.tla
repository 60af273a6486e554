------------------------------ MODULE LayerTrees ------------------------------
(***************************************************************************)
(* The syntax trees of a project (libs/project.cpp, optimizations/rules.cpp): *)
(* what a body calls, the renaming and the unfolding of its calls, and the *)
(* nesting of the fields of the project's structs.  They are what Layers   *)
(* leaves open; the properties here are about the bodies it ends up with.  *)
(*                                                                         *)
(* External: the transformer, taken as the unfolding of the calls it may   *)
(* unfold (SpecTransformer has its passes).                                *)
(***************************************************************************)
EXTENDS TypeInference, Layers

CONSTANT Values     \* the values of each argument type

RECURSIVE visitType(_, _, _)
RECURSIVE calc_dependencies(_, _)
RECURSIVE replace_spec_name(_, _)
RECURSIVE Instantiate(_, _)
RECURSIVE MetUnfolding(_, _, _, _)
RECURSIVE UnfoldCalls(_, _, _)
RECURSIVE Closure(_)
RECURSIVE HasType(_, _)
RECURSIVE TypedAsValued(_, _)
RECURSIVE Inside(_)
RECURSIVE ArgEnvs(_)

(***************************************************************************)
(* Written types.  Curried arguments become those of one function, and a   *)
(* name is that of a record, an inductive type or a typedef; any other is  *)
(* an exception.                                                           *)
(***************************************************************************)
NamedType(c, sy, tds) ==
    IF c \notin DOMAIN sy THEN {}
    ELSE CASE sy[c].kind = "Struct"  -> {StructT("mk" \o c)}
           [] sy[c].kind = "IndType" -> {InductiveT(c)}
           [] sy[c].kind = "TypeDef" -> {tds[c]}
           [] OTHER                  -> {}

Curried(arg, t) == IF t[1] = "Function" THEN FunT(t[2], <<arg>> \o t[3]) ELSE FunT(t, <<arg>>)

visitType(t, sy, tds) ==
    CASE t[1] = "name" -> NamedType(t[2], sy, tds)
      [] t[1] \in {"Option", "List", "ZMap"} -> {<<t[1], u>> : u \in visitType(t[2], sy, tds)}
      [] t[1] = "Arrow" -> {Curried(a, u) : a \in visitType(t[2], sy, tds), u \in visitType(t[3], sy, tds)}
      [] t[1] = "Tuple" ->
             LET each == [i \in DOMAIN t[2] |-> visitType(t[2][i], sy, tds)]
             IN  IF \E i \in DOMAIN each : each[i] = {} THEN {}
                 ELSE {TupleT([i \in DOMAIN each |-> CHOOSE u \in each[i] : TRUE])}
      [] OTHER -> {t}

IsExprNode(n) == n # <<>> /\ n.k = "expr"
IsStructType(t) == t[1] = "Struct"

(***************************************************************************)
(* What every project starts with (Project::Project): pointers, natural    *)
(* numbers, and two definitions.                                           *)
(***************************************************************************)
PtrFields == Statement("record", "Ptr", <<"pbase", "poffset">>, <<StringT, ZT>>, <<>>)
NatConstructors == Statement("inductive", "nat", <<"O", "S">>, <<>>, <<>>)
ptr_offset ==
    LET p == Sym(N("_ptr"))
        offset == Expr("RecordGet", <<p, Sym(N("poffset"))>>)
    IN  Statement("def", "ptr_offset", <<N("_ptr"), N("_offs")>>, <<PtrT, PtrT, ZT>>,
                  Expr("mkPtr", <<Expr("RecordGet", <<p, Sym(N("pbase"))>>),
                                  Expr("ADD", <<offset, Sym(N("_offs"))>>)>>))
bool_to_int ==
    Statement("def", "bool_to_int", <<N("_b")>>, <<ZT, BoolT>>, If(Sym(N("_b")), IntC(1), IntC(0)))
Constructed == <<PtrFields, NatConstructors, ptr_offset, bool_to_int>>

(***************************************************************************)
(* Walks over bodies.  typed are the names that have a type.               *)
(***************************************************************************)
calc_dependencies(n, typed) ==
    LET kids == IF n.k = "match"
                THEN <<n.src>> \o [i \in DOMAIN n.arms |-> n.arms[i].body]
                ELSE Kids(n)
    IN  UNION {calc_dependencies(kids[i], typed) : i \in DOMAIN kids}
        \cup (IF n.k = "expr" /\ n.op \notin DOMAIN Signatures \cup Pairs \cup Ops THEN {n.op} ELSE {})
        \cup (IF n.k = "sym" /\ n.x[2] = -1 /\ n.x[1] \in typed THEN {n.x[1]} ELSE {})

Around(n, kids) == IF "ty" \in DOMAIN n THEN WithTy(Rebuild(n, kids), n.ty) ELSE Rebuild(n, kids)

(* rec_apply of the renaming of the calls. *)
replace_spec_name(n, names) ==
    LET new == Around(n, Each(LAMBDA k : replace_spec_name(k, names), Kids(n)))
    IN  IF n.k = "expr" /\ n.op \in DOMAIN names THEN [new EXCEPT !.op = names[n.op]] ELSE new

(* A proposition about the state st. *)
infer_invariant(n, types, data) == infer_type(n, N("st") :> data, types, BoolT)

(***************************************************************************)
(* Unfolding: the definitions a body calls are unfolded, and so are those  *)
(* their bodies call, as far as they may be.                               *)
(***************************************************************************)
MetUnfolding(n, ds, may, typed) ==
    LET now == {f \in calc_dependencies(n, typed) \cap may : ds[f].args # <<>>}
    IN  now \cup UNION {MetUnfolding(ds[f].body, ds, may, typed) : f \in now}

Instantiate(n, sub) ==
    IF n.k = "sym" THEN IF n.x \in DOMAIN sub THEN sub[n.x] ELSE n
    ELSE Around(n, Each(LAMBDA k : Instantiate(k, sub), Kids(n)))

UnfoldCalls(n, ds, may) ==
    LET new == Around(n, Each(LAMBDA k : UnfoldCalls(k, ds, may), Kids(n)))
        d   == ds[n.op]
    IN  IF n.k = "expr" /\ n.op \in may
        THEN UnfoldCalls(Instantiate(d.body,
                 [x \in DOMAIN ArgTypes(d) |->
                     new.e[CHOOSE i \in DOMAIN d.args : d.args[i][1] = x]]), ds, may)
        ELSE new

(***************************************************************************)
(* collect_field_ancestors: which field a field is nested in.              *)
(***************************************************************************)
(* The fields whose type has the name of struct c, or of a map of it. *)
AllFields(ss) == UNION {ToSet(ss[c]) : c \in DOMAIN ss}
(* A plausible slip: a map of structs does not nest them. *)
FieldsOfStruct(ss, c) == {fld[1] : fld \in {g \in AllFields(ss) : g[2] = StructT("mk" \o c)}}
FieldsOfType(ss, c) ==
    {fld[1] : fld \in {g \in AllFields(ss) : g[2] \in {StructT("mk" \o c), ZMapT(StructT("mk" \o c))}}}

Closure(rel) ==
    LET more == {<<pair[1][1], pair[2][2]>> : pair \in {q \in rel \X rel : q[1][2] = q[2][1]}}
    IN  IF more \subseteq rel THEN rel ELSE Closure(rel \cup more)

Parents(ss) ==
    UNION {{<<fld[1], g>> : fld \in ToSet(ss[c]), g \in FieldsOfType(ss, c)} : c \in DOMAIN ss}
collect_field_ancestors(ss) == Closure(Parents(ss))

(***************************************************************************)
(* Properties.                                                             *)
(***************************************************************************)
(* At the end every definition has all its types, the ones whose inference *)
(* was delayed included.  Left out are the three nobody infers: what was   *)
(* provided for a primitive the filter dropped, a provided low             *)
(* specification that InitRely wrapped, and in finalize_project_v2 a       *)
(* provided high one of the top layer.                                     *)
Dropped == DOMAIN project.code \ UNION {Prims(layers[i]) : i \in DOMAIN layers}
Given == {st.name : st \in {t \in ToSet(Text) : t.k \in {"def", "fixpoint"}}}
Overlooked ==
    {HighName(f) : f \in Dropped} \cup {LowName(f) : f \in Dropped}
    \cup ({LowName(f) : f \in DOMAIN cmds.InitRely} \cap Given)
    \cup IF project.v2 THEN {HighName(f) : f \in Prims(Last(layers))} ELSE {}
SpecsTyped ==
    pc = "done" =>
        \A f \in DOMAIN defs \ Overlooked :
            defs[f].body = <<>> \/ check_well_typed(defs[f].body, DOMAIN ArgTypes(defs[f]), Types(Now))

(* The type infer_type wrote into a node is the type of the value the node *)
(* has, at every node an evaluation reaches: the translation to Z3 takes   *)
(* a node's sort from it.                                                  *)
HasType(v, t) ==
    CASE t = ZT              -> v.t = "Z"
      [] t \in {BoolT, PropT} -> v.t = "bool"
      [] t = StringT         -> v.t = "string"
      [] t[1] = "Option"     -> v = NoneV \/ (v.t = "Some" /\ HasType(v.v, t[2]))
      [] t[1] = "Tuple"      -> v.t = "Tuple" /\ Len(v.s) = Len(t[2])
                                /\ \A i \in DOMAIN v.s : HasType(v.s[i], t[2][i])
      [] t[1] = "Struct"     -> v.t = "struct" /\ v.c = t[2]
                                /\ \A f \in DOMAIN v.f : HasType(v.f[f], FieldType[f])
      [] t[1] = "ZMap"       -> v.t = "ZMap" /\ \A k \in DOMAIN v.f : HasType(v.f[k], t[2])
      [] OTHER               -> FALSE

IsFieldName(n) == n.k = "sym" /\ n.x[2] = -1 /\ n.x[1] \in DOMAIN FieldType

TypedAsValued(n, env) ==
    \/ IsFieldName(n)
    \/ /\ HasType(Denote(n, env), Ty(n))
       /\ CASE n.k = "match" ->
                  /\ TypedAsValued(n.src, env)
                  /\ LET v    == Denote(n.src, env)
                         hits == SelectSeq(n.arms, LAMBDA a : Bind(a.pattern, v) # {})
                     IN  hits # <<>> =>
                            TypedAsValued(hits[1].body,
                                          (CHOOSE b \in Bind(hits[1].pattern, v) : TRUE) @@ env)
             [] n.k = "rely" -> /\ TypedAsValued(n.prop, env)
                                /\ Denote(n.prop, env) = BV(TRUE) => TypedAsValued(n.body, env)
             [] n.k = "if"   -> /\ TypedAsValued(n.cond, env)
                                /\ TypedAsValued(IF Denote(n.cond, env) = BV(TRUE) THEN n.then ELSE n.else, env)
             [] IsQuant(n)   -> TRUE
             [] OTHER        -> \A i \in DOMAIN Kids(n) : TypedAsValued(Kids(n)[i], env)

ArgEnvs(args) ==
    IF args = <<>> THEN {<<>>}
    ELSE {(Head(args)[1] :> v) @@ e : v \in Values[Head(args)[2]], e \in ArgEnvs(Tail(args))}

TypesSound ==
    pc = "done" =>
        \A f \in DOMAIN defs \ Overlooked :
            defs[f].body # <<>> =>
                \A env \in ArgEnvs(defs[f].args) : TypedAsValued(defs[f].body, env)

(* When a primitive is finished, a high specification made from a low one  *)
(* calls none of the low ones, and nothing that does not exist: the proofs *)
(* about it would read a specification that was never abstracted.          *)
MadeHigh == {f \in DOMAIN deps \cap DOMAIN defs :
                f \notin DOMAIN project.part /\ f \notin Given}
HighCallsHigh ==
    pc \in {"generate", "high", "crashed"} \/ \A f \in MadeHigh : defs[f].body = <<>> \/
        /\ CallsIn(defs[f].body, symbols) \cap DOMAIN project.part = {}
        /\ CallsIn(defs[f].body, symbols) \subseteq
              Callable(symbols) \cup DOMAIN FieldsOf \cup {"ZMap.init"}

(* field_ancestor is the nesting of the structs: g is an ancestor of f     *)
(* when a value of g's type has a field f somewhere inside, through        *)
(* records and maps of records.  The cone of influence takes a write to    *)
(* an ancestor for a write to the field.                                   *)
Inside(t) ==
    CASE t[1] = "Struct" -> {t[2]} \cup UNION {Inside(FieldType[f]) : f \in ToSet(FieldsOf[t[2]])}
      [] t[1] = "ZMap"   -> Inside(t[2])
      [] OTHER           -> {}
AncestorsNest ==
    pc = "done" =>
        field_ancestor = {<<f, g>> \in (DOMAIN FieldType) \X (DOMAIN FieldType) :
                             \E c \in Inside(FieldType[g]) : f \in ToSet(FieldsOf[c])}
===============================================================================
