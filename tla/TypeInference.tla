----------------------------- MODULE TypeInference -----------------------------
(***************************************************************************)
(* infer_type and check_well_typed (frontend/type_inference.cpp): one pass *)
(* over a syntax tree that writes a type into every node, from the types   *)
(* of the arguments and the project's symbols as far as they are read: a   *)
(* definition or declaration stands for its type, any other for its kind   *)
(* and the type it belongs to.  A type already in a node is a hint from    *)
(* its parent, so the order of the visits matters and is kept: a node is   *)
(* visited again when its sibling turned out typed.                        *)
(*                                                                         *)
(* A type is a tuple headed by its constructor.  A node without a field ty *)
(* has the type it was built with.  A visit returns the node and how it    *)
(* went: an exception ("thrown") leaves the types written so far, a null   *)
(* pointer or an assertion of the debug build ends the program             *)
(* ("crashed").  Left out: operators that are themselves syntax trees, the *)
(* renaming of an operator that begins with llvm., and constructors with   *)
(* arguments.                                                              *)
(***************************************************************************)
EXTENDS Subst

CONSTANT FieldType      \* the type of each field of the structs

RECURSIVE Infer(_, _, _)
RECURSIVE infer_pattern(_, _, _)
RECURSIVE check_well_typed(_, _, _)
RECURSIVE AlongPath(_, _)

Unknown == <<"UNKNOWN_TYPE">>
ZT      == <<"Z">>
BoolT   == <<"bool">>
PropT   == <<"Prop">>
StringT == <<"string">>
PtrT    == <<"Struct", "mkPtr">>
NatT    == <<"nat">>
OptionT(t) == <<"Option", t>>
ListT(t)   == <<"List", t>>
ZMapT(t)   == <<"ZMap", t>>
TupleT(ts) == <<"Tuple", ts>>
StructT(c) == <<"Struct", c>>
InductiveT(c) == IF c = "nat" THEN NatT ELSE <<"Inductive", c>>
NullT   == <<"null">>           \* a null pointer to a type
FunT(r, a) == <<"Function", r, a>>

(* What t is made of when its constructor is c, as a set of at most one type. *)
Part(t, c) == IF t[1] = c THEN {t[2]} ELSE {}

Ty(n) ==
    IF "ty" \in DOMAIN n THEN n.ty
    ELSE CASE n.k = "int" -> ZT [] n.k = "bool" -> BoolT [] OTHER -> Unknown
WithTy(n, t) == [ty |-> t] @@ n
Hinted(n, ts) == IF ts = {} THEN n ELSE WithTy(n, CHOOSE t \in ts : TRUE)

(***************************************************************************)
(* A visit in progress: the node, and how it went so far.                  *)
(***************************************************************************)
Begin(n)    == [n |-> n, s |-> "ok"]
Fail(r, s)  == IF r.s = "ok" THEN [r EXCEPT !.s = s] ELSE r
Typed(r, t) == IF r.s = "ok" THEN [r EXCEPT !.n = WithTy(@, t)] ELSE r
TyAt(r, i)  == Ty(r.n.e[i])

(* Element i visited, with the hint of ts if there is one. *)
VisitAt(r, i, ts, env) ==
    IF r.s # "ok" THEN r
    ELSE LET v == Infer(Hinted(r.n.e[i], ts), env.known, env.types)
         IN  [n |-> [r.n EXCEPT !.e[i] = v.n], s |-> v.s]

(* The same for a child that is a field of the node. *)
VisitField(r, f, ts, env) ==
    IF r.s # "ok" THEN r
    ELSE LET v == Infer(Hinted(r.n[f], ts), env.known, env.types)
         IN  [n |-> [r.n EXCEPT ![f] = v.n], s |-> v.s]

(***************************************************************************)
(* Operators whose operands all have one type and whose result has one.    *)
(***************************************************************************)
Signatures ==
    [op \in Arith \cup {"Z.lnot", "Z.lxor", "Z.setbit", "Z.clearbit"} |-> <<ZT, ZT>>]
    @@ [op \in IntCompare \cup {"Z.testbit"}       |-> <<ZT, BoolT>>]
    @@ [op \in {"SEQ", "SNE"}                      |-> <<StringT, BoolT>>]
    @@ [op \in {"BAND", "BOR", "BNOT", "xorb"}     |-> <<BoolT, BoolT>>]
    @@ [op \in {"LT", "LTE", "GT", "GTE"}          |-> <<ZT, PropT>>]
    @@ [op \in {"AND", "OR", "IMPLIES", "IFONLYIF", "NOT"} |-> <<PropT, PropT>>]
    @@ [op \in {"ptr_to_int"} |-> <<PtrT, ZT>>]
    @@ [op \in {"int_to_ptr"} |-> <<ZT, PtrT>>]
    @@ [op \in {"z_to_nat"}   |-> <<ZT, NatT>>]

InferUniform(n, env) ==
    LET sig == Signatures[n.op]
    IN  Typed(FoldLeft(LAMBDA r, i : VisitAt(r, i, {sig[1]}, env),
                       Begin(n), [i \in DOMAIN n.e |-> i]),
              sig[2])

(***************************************************************************)
(* Operators whose two operands take their types from each other.          *)
(***************************************************************************)
ListPairs == {"LIST_EQ", "APPEND", "CONCAT"}
Pairs == ListPairs \cup {"EQUAL", "NOT_EQUAL"}

(* The hints of the operands from the type of the whole. *)
PairHint(n, i) ==
    LET elem == IF n.op \in ListPairs THEN Part(Ty(n), "List") ELSE {}
    IN  IF n.op = "APPEND" /\ i = 2 THEN {ListT(t) : t \in elem} ELSE elem

FillSecond(r, env) ==
    IF r.s = "ok" /\ TyAt(r, 1) # Unknown /\ TyAt(r, 2) = Unknown
    THEN VisitAt(r, 2, {IF r.n.op = "APPEND" THEN ListT(TyAt(r, 1)) ELSE TyAt(r, 1)}, env)
    ELSE r

(* The second repetition for an equality is the first one's copy. *)
FillFirst(r, env) ==
    IF r.n.op \notin ListPairs THEN FillSecond(r, env)
    ELSE IF r.s = "ok" /\ TyAt(r, 2) # Unknown /\ TyAt(r, 1) = Unknown
    THEN IF r.n.op # "APPEND" THEN VisitAt(r, 1, {TyAt(r, 2)}, env)
         ELSE IF Part(TyAt(r, 2), "List") = {} THEN Fail(r, "crashed")
         ELSE VisitAt(r, 1, Part(TyAt(r, 2), "List"), env)
    ELSE r

InferPair(n, env) ==
    LET both == VisitAt(VisitAt(Begin(n), 1, PairHint(n, 1), env), 2, PairHint(n, 2), env)
        done == FillFirst(FillSecond(both, env), env)
    IN  Typed(done, IF n.op \notin ListPairs THEN PropT
                    ELSE TyAt(done, IF n.op = "APPEND" THEN 2 ELSE 1))

(***************************************************************************)
(* Maps, records, tuples and options.                                      *)
(***************************************************************************)
InferTuple(n, env) ==
    LET hint(i) == {ts[i] : ts \in Part(Ty(n), "Tuple")}
        done == FoldLeft(LAMBDA r, i : VisitAt(r, i, hint(i), env),
                         Begin(n), [i \in DOMAIN n.e |-> i])
    IN  Typed(done, TupleT([i \in DOMAIN n.e |-> TyAt(done, i)]))

InferGet(n, env) ==
    LET key  == VisitAt(Begin(n), 2, {ZT}, env)
        done == VisitAt(key, 1, IF Ty(n) = Unknown THEN {} ELSE {ZMapT(Ty(n))}, env)
        elem == Part(TyAt(done, 1), "ZMap")
    IN  IF elem = {} THEN Fail(done, "crashed") ELSE Typed(done, CHOOSE t \in elem : TRUE)

(* The map, the element as the map has them, and each from the other. *)
VisitMap(r, env) == VisitAt(r, 1, IF Ty(r.n)[1] = "ZMap" THEN {Ty(r.n)} ELSE {}, env)
VisitElement(r, env) == VisitAt(r, 3, Part(TyAt(r, 1), "ZMap"), env)
FillElement(r, env) ==
    IF r.s # "ok" \/ TyAt(r, 1) = Unknown \/ TyAt(r, 3) # Unknown THEN r
    ELSE IF Part(TyAt(r, 1), "ZMap") = {} THEN Fail(r, "crashed")
    ELSE VisitElement(r, env)
FillMap(r, env) ==
    IF r.s = "ok" /\ TyAt(r, 3) # Unknown /\ TyAt(r, 1) = Unknown
    THEN VisitAt(r, 1, {ZMapT(TyAt(r, 3))}, env) ELSE r
LikeFirst(r) == Typed(r, TyAt(r, 1))
InferSet(n, env) ==
    LET both == VisitElement(VisitMap(VisitAt(Begin(n), 2, {ZT}, env), env), env)
    IN  LikeFirst(FillMap(FillElement(both, env), env))

(* A name the project knows by its kind, and the type it belongs to. *)
IsKind(x, kinds, types) == x \in DOMAIN types /\ types[x][1] = "symbol" /\ types[x][2] \in kinds
Owner(x, types) == types[x][3]

(* What a field is of; one of no record that was read is an exception, a   *)
(* constructor in its place a failed assertion.                            *)
StructOf(f, types) == StructT("mk" \o Owner(f, types))
NoField(n, f, types) == Fail(Begin(n), IF IsKind(f, {"StructConstr"}, types) THEN "crashed" ELSE "thrown")

(* The type at the end of a path of fields, or what ends the walk: a field *)
(* the record does not have, or a field of something that is no record.    *)
AlongPath(t, path) ==
    IF path = <<>> THEN t
    ELSE IF t[1] # "Struct" THEN <<"crashed">>
    ELSE IF Head(path) \in ToSet(FieldsOf[t[2]]) THEN AlongPath(FieldType[Head(path)], Tail(path))
    ELSE <<"thrown">>

FieldNames(es) == [i \in DOMAIN es |-> es[i].x[1]]

(* Only the first field of a path is read: one with two has the type of   *)
(* the first.                                                             *)
InferRecordGet(n, env) ==
    LET f == n.e[2].x[1]
    IN  IF ~IsKind(f, {"StructElem"}, env.types) THEN NoField(n, f, env.types)
        ELSE Typed(VisitAt(Begin(n), 1, {StructOf(f, env.types)}, env), FieldType[f])

InferRecordSet(n, env) ==
    LET path == FieldNames(SubSeq(n.e, 2, Len(n.e) - 1))
    IN  IF ~IsKind(path[1], {"StructElem"}, env.types) THEN NoField(n, path[1], env.types)
        ELSE LET rec  == StructOf(path[1], env.types)
                 a    == VisitAt(Begin(n), 1, {rec}, env)
                 kind == AlongPath(rec, path)
             IN  IF kind[1] \in {"thrown", "crashed"} THEN Fail(a, kind[1])
                 ELSE Typed(VisitAt(a, Len(n.e), {kind}, env), rec)

(* An operator that wraps its operand's type. *)
Wrappers == {"Some", "ZMap.init"}
(* A plausible slip: a map is typed by the case of the option. *)
WrapAsOption(n, env) ==
    LET done == VisitAt(Begin(n), 1, Part(Ty(n), "Option"), env)
    IN  Typed(done, OptionT(TyAt(done, 1)))
InferWrap(n, env) ==
    LET c    == IF n.op = "Some" THEN "Option" ELSE "ZMap"
        done == VisitAt(Begin(n), 1, Part(Ty(n), c), env)
    IN  Typed(done, <<c, TyAt(done, 1)>>)

ListTests == {"List.is_empty", "List.eq"}
InferListTest(n, env) ==
    LET done == FoldLeft(LAMBDA r, i : VisitAt(r, i, Part(Ty(n), "List"), env),
                         Begin(n), [i \in DOMAIN n.e |-> i])
    IN  Typed(done, IF n.op = "List.eq" THEN BoolT ELSE ListT(TyAt(done, 1)))

InferListEmpty(n, types) ==
    LET c == n.e[1].x[1]
    IN  CASE IsKind(c, {"Struct"}, types)  -> Typed(Begin(n), ListT(StructT("mk" \o c)))
          [] IsKind(c, {"IndType"}, types) -> Typed(Begin(n), ListT(InductiveT(c)))
          [] OTHER                         -> Fail(Begin(n), "thrown")

(***************************************************************************)
(* Calls.  The operands are hinted with the types of the callee's          *)
(* arguments; an operator that is a variable takes bools.                  *)
(***************************************************************************)
CalleeType(op, types) ==
    CASE IsKind(op, {"StructConstr"}, types) ->
            FunT(StructT(op), [i \in DOMAIN FieldsOf[op] |-> FieldType[FieldsOf[op][i]]])
      [] IsKind(op, {"IndConstructor"}, types) -> FunT(InductiveT(Owner(op, types)), <<>>)
      [] OTHER -> types[op]

InferCall(n, env) ==
    LET typ == CalleeType(n.op, env.types)
        Arg1(r, i) == IF i > Len(typ[3]) THEN Fail(r, "thrown") ELSE VisitAt(r, i, {typ[3][i]}, env)
    IN  IF typ[1] = "symbol" THEN Fail(Begin(n), "thrown")
        ELSE IF typ[1] # "Function" THEN Fail(Begin(n), "crashed")
        ELSE Typed(FoldLeft(Arg1, Begin(n), [i \in DOMAIN n.e |-> i]), typ[2])

InferVariableCall(n, env) ==
    Typed(FoldLeft(LAMBDA r, i : VisitAt(r, i, {BoolT}, env), Begin(n), [i \in DOMAIN n.e |-> i]),
          env.known[N(n.op)])

InferExpr(n, env) ==
    CASE n.op \in DOMAIN Signatures -> InferUniform(n, env)
      [] n.op \in Pairs             -> InferPair(n, env)
      [] n.op = "Tuple"             -> InferTuple(n, env)
      [] n.op = "GET"               -> InferGet(n, env)
      [] n.op = "SET"               -> InferSet(n, env)
      [] n.op = "RecordGet"         -> InferRecordGet(n, env)
      [] n.op = "RecordSet"         -> InferRecordSet(n, env)
      [] n.op \in Wrappers          -> InferWrap(n, env)
      [] n.op = "None"              -> Begin(n)
      [] n.op \in ListTests         -> InferListTest(n, env)
      [] n.op = "List.empty"        -> InferListEmpty(n, env.types)
      [] n.op \in DOMAIN env.types  -> InferCall(n, env)
      [] OTHER -> IF N(n.op) \in DOMAIN env.known THEN InferVariableCall(n, env)
                                                  ELSE Fail(Begin(n), "thrown")

(***************************************************************************)
(* The other nodes.                                                        *)
(***************************************************************************)
IsProjectSymbol(x, types) == x[2] = -1 /\ (is_ind_constr(x[1]) \/ x[1] \in DOMAIN types)

(* A constructor has the type it is of; a type, a field or the constructor *)
(* of a record keeps what its parent wrote into it.                        *)
SymbolType(x, types) ==
    CASE IsKind(x, {"IndConstructor"}, types) -> {InductiveT(Owner(x, types))}
      [] x \in DOMAIN types /\ types[x][1] # "symbol" -> {types[x]}
      [] OTHER -> {}
InferSymbol(n, env) ==
    Begin(Hinted(n, IF n.x \in DOMAIN env.known THEN {env.known[n.x]}
                    ELSE IF n.x[2] = -1 THEN SymbolType(n.x[1], env.types) ELSE {}))

(* The names a pattern binds, added to the known ones. *)
infer_pattern(p, known, types) ==
    CASE p.k = "sym"  -> IF ~IsProjectSymbol(p.x, types) /\ Ty(p) # Unknown
                         THEN (p.x :> Ty(p)) @@ known ELSE known
      [] p.k = "expr" -> FoldLeft(LAMBDA acc, e : infer_pattern(e, acc, types), known, p.e)
      [] OTHER        -> known

(* An arm: its pattern is a node like any other, visited with the names of *)
(* the outside, before its names are added for the body.                   *)
PatternOf(r, i, env) ==
    Infer(WithTy(r.n.arms[i].pattern, Ty(r.n.src)), env.known, env.types)
InferArm(r, i, env) ==
    IF r.s # "ok" THEN r
    ELSE LET p == PatternOf(r, i, env)
             b == Infer(WithTy(r.n.arms[i].body, Ty(r.n)),
                        infer_pattern(p.n, env.known, env.types), env.types)
         IN  IF p.s # "ok" THEN [n |-> [r.n EXCEPT !.arms[i].pattern = p.n], s |-> p.s]
             ELSE LET arm == [r.n EXCEPT !.arms[i] = Arm(p.n, b.n)]
                  IN  IF b.s = "ok" THEN Begin(WithTy(arm, Ty(b.n))) ELSE [n |-> arm, s |-> b.s]

InferMatch(n, env) ==
    FoldLeft(LAMBDA r, i : InferArm(r, i, env), VisitField(Begin(n), "src", {}, env),
             [i \in DOMAIN n.arms |-> i])

KnownHint(n) == IF Ty(n) = Unknown THEN {} ELSE {Ty(n)}

InferRelyAnno(n, env) ==
    LET done == VisitField(VisitField(Begin(n), "prop", {PropT}, env), "body", KnownHint(n), env)
    IN  Typed(done, Ty(done.n.body))

(* The branches end with one type, which an assertion demands. *)
InferIf(n, env) ==
    LET c == VisitField(Begin(n), "cond", {BoolT}, env)
        t == VisitField(c, "then", KnownHint(n), env)
        u == IF Ty(t.n.then) = Unknown THEN t ELSE Typed(t, Ty(t.n.then))
        e == VisitField(u, "else", KnownHint(u.n), env)
    IN  IF e.s = "ok" /\ (Ty(e.n.else) = Unknown \/ Ty(e.n.then) # Ty(e.n.else))
        THEN Fail(e, "crashed")
        ELSE Typed(e, Ty(e.n.else))

(* The body, then the hypotheses from the last to the first.  A hypothesis *)
(* has a name like a variable, but no type.                                *)
VarType(v) == IF v.hypo = <<>> THEN v.ty ELSE NullT
InferHypo(r, i, env) ==
    IF r.s # "ok" \/ r.n.vars[i].hypo = <<>> THEN r
    ELSE LET v == Infer(r.n.vars[i].hypo[1], env.known, env.types)
         IN  [n |-> [r.n EXCEPT !.vars[i].hypo = <<v.n>>], s |-> v.s]
InferQuantifier(n, env) ==
    LET known == FoldLeft(LAMBDA names, v : (v.name :> VarType(v)) @@ names, env.known, n.vars)
        in    == [env EXCEPT !.known = known]
        body  == Typed(VisitField(Begin(n), "body", {PropT}, in), PropT)
    IN  FoldRight(LAMBDA i, r : InferHypo(r, i, in), [i \in DOMAIN n.vars |-> i], body)

Infer(n, known, types) ==
    LET env == [known |-> known, types |-> types]
    IN CASE n.k = "sym"   -> InferSymbol(n, env)
         [] IsConst(n)    -> Begin(n)
         [] n.k = "expr"  -> InferExpr(n, env)
         [] n.k = "match" -> InferMatch(n, env)
         [] n.k \in {"rely", "anno"} -> InferRelyAnno(n, env)
         [] n.k = "if"    -> InferIf(n, env)
         [] IsQuant(n)    -> InferQuantifier(n, env)

infer_type(n, known, types, final) == Infer(WithTy(n, final), known, types)

(***************************************************************************)
(* check_well_typed: every node but a symbol has a type, every symbol is a *)
(* project's or a name in scope.                                           *)
(***************************************************************************)
check_well_typed(n, names, types) ==
    LET Deep(m) == check_well_typed(m, names, types)
    IN  IF n.k = "sym" THEN IsProjectSymbol(n.x, types) \/ n.x \in names
        ELSE /\ Ty(n) # Unknown
             /\ CASE n.k = "match" ->
                       /\ Deep(n.src)
                       /\ \A i \in DOMAIN n.arms :
                             LET in == names \cup collect_symbols(n.arms[i].pattern)
                             IN  /\ check_well_typed(n.arms[i].pattern, in, types)
                                 /\ check_well_typed(n.arms[i].body, in, types)
                  [] IsQuant(n) ->
                       check_well_typed(n.body, names \cup {n.vars[i].name : i \in DOMAIN n.vars}, types)
                  [] OTHER -> \A i \in DOMAIN Kids(n) : Deep(Kids(n)[i])

(* Definition::infer_type. *)
ArgTypes(d) == [x \in {d.args[i][1] : i \in DOMAIN d.args} |->
                   d.args[CHOOSE i \in DOMAIN d.args : d.args[i][1] = x][2]]
Asserted(d, v, types) ==
    [d |-> [d EXCEPT !.body = v.n],
     s |-> IF v.s = "ok" /\ ~check_well_typed(v.n, DOMAIN ArgTypes(d), types) THEN "crashed" ELSE v.s]
InferDefinition(d, types) ==
    IF d.body = <<>> THEN [d |-> d, s |-> "ok"]
    ELSE Asserted(d, infer_type(d.body, ArgTypes(d), types, d.ret), types)

get_type(d) == IF d.args = <<>> THEN d.ret
               ELSE FunT(d.ret, [i \in DOMAIN d.args |-> d.args[i][2]])
===============================================================================
