------------------------------- MODULE SpecLang -------------------------------
(***************************************************************************)
(* The specification language of the tool (include/nodes.h): its syntax    *)
(* trees, the queries the rules make of them, and their meaning.           *)
(*                                                                         *)
(* A name is a pair <<base, index>>: the text "x_3" is <<"x", 3>> and a    *)
(* text without a numeric suffix has index -1, so that choosing a fresh    *)
(* name counts instead of handling text.  An integer constant is the       *)
(* unsigned word of IntConst, Width bits wide; a value is a Gallina value. *)
(***************************************************************************)
EXTENDS Integers, Sequences, SequencesExt, Bitwise, TLC

CONSTANTS
    Width,        \* bits of IntConst's word (unsigned long)
    VarSort,      \* the type of a variable, by the base of its name
    FieldsOf,     \* the structs: constructor -> sequence of field names
    Codecs,       \* the inverse pairs of memory encodings: operator -> inverse
    Defs,         \* the project's definitions: name -> [args, body]
    FieldSort,    \* the type of each field, by its name
    KeySpace,     \* the keys at which maps are compared
    QuantSpace    \* the integers a quantifier ranges over

ASSUME WidthAssumption == Width \in Nat \ {0}

RECURSIVE collect_symbols(_)
RECURSIVE FreeNames(_)
RECURSIVE SortOf(_)
RECURSIVE GetPath(_, _), SetPath(_, _, _)
RECURSIVE Bind(_, _), BindAll(_, _)
RECURSIVE Denote(_, _)

N(base) == <<base, -1>>

(* A sequence with an operator applied to each of its elements. *)
Each(Op(_), s) == <<>> \o [i \in DOMAIN s |-> Op(s[i])]

(***************************************************************************)
(* Nodes.                                                                  *)
(***************************************************************************)
Sym(x)        == [k |-> "sym", x |-> x]
IntC(u)       == [k |-> "int", u |-> u % 2^Width]
BoolC(b)      == [k |-> "bool", b |-> b]
Expr(op, e)   == [k |-> "expr", op |-> op, e |-> e]
Arm(p, b)     == [pattern |-> p, body |-> b]
Match(s, l)   == [k |-> "match", src |-> s, arms |-> l]
Rely(p, b)    == [k |-> "rely", prop |-> p, body |-> b]
Anno(p, b)    == [k |-> "anno", prop |-> p, body |-> b]
If(c, t, e)   == [k |-> "if", cond |-> c, then |-> t, else |-> e]
Forall(vs, b) == [k |-> "forall", vars |-> vs, body |-> b]
Exists(vs, b) == [k |-> "exists", vars |-> vs, body |-> b]

None          == Sym(N("None"))
SomeOf(e)     == Expr("Some", <<e>>)
Let(x, v, b)  == Match(v, <<Arm(Sym(x), b)>>)
When(p, v, b) == Match(v, <<Arm(SomeOf(p), b), Arm(Expr("None", <<>>), None)>>)

IsConst(n) == n.k \in {"int", "bool"}
IsOp(n, op) == n.k = "expr" /\ n.op = op
IsQuant(n) == n.k \in {"forall", "exists"}

(* The operators the C++ enums name; any other op is a project symbol. *)
IntCompare == {"BEQ", "BNE", "BLT", "BGT", "BGE", "BLE"}
PropCompare == {"EQUAL", "NOT_EQUAL", "LT", "LTE", "GT", "GTE"}
Arith == {"ADD", "MINUS", "MULT", "DIV", "MOD", "BITAND", "BITOR", "LSHIFT", "RSHIFT"}
Junction == {"AND", "OR", "BAND", "BOR", "IMPLIES"}
Binops == IntCompare \cup PropCompare \cup Arith \cup Junction
Ops == {"SET", "GET", "NOT", "BNOT", "RecordSet", "RecordGet", "Tuple", "Some", "None"}

(***************************************************************************)
(* The project's symbol table, as far as the rules ask it.                 *)
(***************************************************************************)
is_struct_constr(c) == c = "Tuple" \/ c \in DOMAIN FieldsOf
is_ind_constr(c) == c \in {"None", "Some", "nil", "cons"}
Fields == UNION {ToSet(FieldsOf[s]) : s \in DOMAIN FieldsOf}
is_known_symbol(x) ==
    x[2] = -1 /\ (x[1] \in Fields \/ is_ind_constr(x[1]) \/ is_struct_constr(x[1]))

(***************************************************************************)
(* The subtrees of a node in the order rec_apply visits them, and the node *)
(* rebuilt around new subtrees.                                            *)
(***************************************************************************)
Hypos(vs) == FlattenSeq([i \in DOMAIN vs |-> vs[i].hypo])

Kids(n) ==
    CASE n.k = "expr"             -> n.e
      [] n.k = "match"            -> <<n.src>> \o FlattenSeq([i \in DOMAIN n.arms |->
                                        <<n.arms[i].pattern, n.arms[i].body>>])
      [] n.k \in {"rely", "anno"} -> <<n.prop, n.body>>
      [] n.k = "if"               -> <<n.cond, n.then, n.else>>
      [] IsQuant(n)               -> <<n.body>>
      [] OTHER                    -> <<>>

Rebuild(n, kids) ==
    CASE n.k = "expr"             -> [n EXCEPT !.e = kids]
      [] n.k = "match"            -> Match(kids[1], [i \in DOMAIN n.arms |->
                                        Arm(kids[2 * i], kids[2 * i + 1])])
      [] n.k \in {"rely", "anno"} -> [n EXCEPT !.prop = kids[1], !.body = kids[2]]
      [] n.k = "if"               -> If(kids[1], kids[2], kids[3])
      [] IsQuant(n)               -> [n EXCEPT !.body = kids[1]]
      [] OTHER                    -> n

(***************************************************************************)
(* Patterns.                                                               *)
(***************************************************************************)
collect_symbols(p) ==
    CASE p.k = "sym"  -> {p.x}
      [] p.k = "expr" -> UNION {collect_symbols(p.e[i]) : i \in DOMAIN p.e}
      [] OTHER        -> {}

get_vars_from_pattern(p) == {x \in collect_symbols(p) : ~is_known_symbol(x)}

is_let(m) ==
    /\ Len(m.arms) = 1
    /\ LET p == m.arms[1].pattern IN
       \/ p.k = "sym"
       \/ /\ p.k = "expr"
          /\ p.op \in Ops => p.op = "Tuple"
          /\ \A i \in DOMAIN p.e : p.e[i].k = "sym"

is_when(m) ==
    /\ Len(m.arms) = 2
    /\ IsOp(m.arms[1].pattern, "Some")
    /\ m.arms[2].body = None
    /\ LET none == m.arms[2].pattern
           elem == m.arms[1].pattern.e[1]
       IN  /\ IsOp(none, "None") \/ none \in {None, Sym(N("_"))}
           /\ \/ elem.k = "sym"
              \/ /\ IsOp(elem, "Tuple")
                 /\ Len(elem.e) < 3
                 /\ \A i \in DOMAIN elem.e : elem.e[i].k = "sym"

(***************************************************************************)
(* The names that occur free in a node: the reference the code's free_vars *)
(* is compared with.                                                       *)
(***************************************************************************)
FreeNames(n) ==
    CASE n.k = "sym"   -> IF is_known_symbol(n.x) THEN {} ELSE {n.x}
      [] n.k = "match" -> FreeNames(n.src) \cup UNION {
             FreeNames(n.arms[i].body) \ get_vars_from_pattern(n.arms[i].pattern) :
                 i \in DOMAIN n.arms}
      [] IsQuant(n)    -> UNION {FreeNames(h) : h \in ToSet(<<n.body>> \o Hypos(n.vars))}
                             \ {n.vars[i].name : i \in DOMAIN n.vars}
      [] OTHER         -> UNION {FreeNames(Kids(n)[i]) : i \in DOMAIN Kids(n)}

(***************************************************************************)
(* Types, as far as the rules read them off a node.                        *)
(***************************************************************************)
SortOf(n) ==
    CASE n.k = "sym" -> IF n.x = N("None") THEN "option"
                        ELSE IF n.x[1] \in DOMAIN VarSort THEN VarSort[n.x[1]] ELSE "unknown"
      [] n.k = "int"  -> "Z"
      [] n.k = "bool" -> "bool"
      [] n.k = "match" -> SortOf(n.arms[1].body)
      [] n.k \in {"rely", "anno"} -> "option"
      [] n.k = "if" -> SortOf(n.then)
      [] n.k = "expr" /\ n.op \in {"Some", "None"} -> "option"
      [] n.k = "expr" /\ n.op \in Arith \cup {"GET"} -> "Z"
      [] IsOp(n, "RecordGet") -> FieldSort[n.e[2].x[1]]
      [] OTHER -> "other"

(***************************************************************************)
(* Values and meaning.                                                     *)
(***************************************************************************)
ZV(i)    == [t |-> "Z", i |-> i]
BV(b)    == [t |-> "bool", b |-> b]
FieldV(f) == [t |-> "field", f |-> f]
NoneV    == [t |-> "None"]
SomeV(v) == [t |-> "Some", v |-> v]
TupV(s)  == [t |-> "Tuple", s |-> s]
RecV(c, f) == [t |-> "struct", c |-> c, f |-> f]
MapV(f)  == [t |-> "ZMap", f |-> f]

GetPath(r, path) == IF path = <<>> THEN r ELSE GetPath(r.f[Head(path)], Tail(path))
SetPath(r, path, v) ==
    IF path = <<>> THEN v
    ELSE RecV(r.c, [r.f EXCEPT ![Head(path)] = SetPath(@, Tail(path), v)])

PathOf(elems) == [i \in DOMAIN elems |-> elems[i].f]

Compare(op, a, b) ==
    CASE op \in {"BEQ", "EQUAL"}     -> a = b
      [] op \in {"BNE", "NOT_EQUAL"} -> a # b
      [] op \in {"BLT", "LT"}        -> a.i < b.i
      [] op \in {"BLE", "LTE"}       -> a.i <= b.i
      [] op \in {"BGT", "GT"}        -> a.i > b.i
      [] op \in {"BGE", "GTE"}       -> a.i >= b.i

Join(op, a, b) ==
    CASE op \in {"AND", "BAND"} -> a /\ b
      [] op \in {"OR", "BOR"}   -> a \/ b
      [] op = "IMPLIES"         -> a => b

(* The value of an operator applied to values. *)
Apply(op, v) ==
    CASE op \in IntCompare \cup PropCompare -> BV(Compare(op, v[1], v[2]))
      [] op \in Junction -> BV(Join(op, v[1].b, v[2].b))
      [] op \in {"NOT", "BNOT"} -> BV(~v[1].b)
      [] op = "ADD"   -> ZV(v[1].i + v[2].i)
      [] op = "MINUS" -> ZV(IF Len(v) = 1 THEN -v[1].i ELSE v[1].i - v[2].i)
      [] op = "MULT"  -> ZV(v[1].i * v[2].i)
      [] op = "DIV"   -> ZV(v[1].i \div v[2].i)
      [] op = "MOD"   -> ZV(v[1].i % v[2].i)
      [] op = "BITAND" -> ZV(v[1].i & v[2].i)
      [] op = "BITOR"  -> ZV(v[1].i | v[2].i)
      [] op = "LSHIFT" -> ZV(v[1].i * 2^v[2].i)
      [] op = "RSHIFT" -> ZV(v[1].i \div 2^v[2].i)
      [] op = "Some"  -> SomeV(v[1])
      [] op = "None"  -> NoneV
      [] op = "Tuple" -> TupV(v)
      [] op = "GET"   -> v[1].f[v[2].i]
      [] op = "SET"   -> MapV([v[1].f EXCEPT ![v[2].i] = v[3]])
      [] op = "ZMap.init" -> MapV([i \in KeySpace |-> v[1]])
      [] op = "RecordGet" -> GetPath(v[1], PathOf(Tail(v)))
      [] op = "RecordSet" -> SetPath(v[1], PathOf(SubSeq(v, 2, Len(v) - 1)), Last(v))
      [] op \in DOMAIN FieldsOf ->
            RecV(op, [f \in ToSet(FieldsOf[op]) |->
                         v[CHOOSE i \in DOMAIN v : FieldsOf[op][i] = f]])
      [] op \in DOMAIN Codecs ->
            IF v[1].t = "encoded" /\ v[1].by = Codecs[op] THEN v[1].v
            ELSE [t |-> "encoded", by |-> op, v |-> v[1]]

(* The bindings with which pattern p matches value v: none, or just one. *)
BindAll(ps, vs) ==
    IF ps = <<>> THEN {<<>>}
    ELSE {h @@ r : h \in Bind(Head(ps), Head(vs)), r \in BindAll(Tail(ps), Tail(vs))}
Bind(p, v) ==
    LET If1(c) == IF c THEN {<<>>} ELSE {}
    IN CASE p.k = "sym"  -> IF p.x = N("None") THEN If1(v = NoneV) ELSE {p.x :> v}
         [] p.k = "int"  -> If1(v = ZV(p.u))
         [] p.k = "bool" -> If1(v = BV(p.b))
         [] IsOp(p, "None") -> If1(v = NoneV)
         [] IsOp(p, "Some") -> IF v.t = "Some" THEN Bind(p.e[1], v.v) ELSE {}
         [] IsOp(p, "Tuple") -> BindAll(p.e, v.s)

(***************************************************************************)
(* What a node denotes when its free names have the values of env: the     *)
(* value Gallina computes for it.                                          *)
(***************************************************************************)
Denote(n, env) ==
    CASE n.k = "sym" ->
            IF n.x \in DOMAIN env THEN env[n.x]
            ELSE IF n.x = N("None") THEN NoneV ELSE FieldV(n.x[1])
      [] n.k = "int"  -> ZV(n.u)
      [] n.k = "bool" -> BV(n.b)
      [] n.k = "expr" ->
            LET v == Each(LAMBDA e : Denote(e, env), n.e) IN
            IF n.op \in DOMAIN Defs
            THEN Denote(Defs[n.op].body, [x \in ToSet(Defs[n.op].args) |->
                            v[CHOOSE i \in DOMAIN v : Defs[n.op].args[i] = x]])
            ELSE Apply(n.op, v)
      [] n.k = "match" ->
            LET v == Denote(n.src, env)
                hits == SelectSeq(n.arms, LAMBDA a : Bind(a.pattern, v) # {})
            IN  IF hits = <<>> THEN NoneV
                ELSE Denote(hits[1].body,
                            (CHOOSE b \in Bind(hits[1].pattern, v) : TRUE) @@ env)
      [] n.k = "rely" -> IF Denote(n.prop, env) = BV(TRUE) THEN Denote(n.body, env) ELSE NoneV
      [] n.k = "anno" -> Denote(n.body, env)
      [] n.k = "if"   -> IF Denote(n.cond, env) = BV(TRUE)
                           THEN Denote(n.then, env) ELSE Denote(n.else, env)
      [] IsQuant(n)   ->
            LET names == {n.vars[i].name : i \in {j \in DOMAIN n.vars : n.vars[j].hypo = <<>>}}
                Holds(q) ==
                    LET e == [x \in names |-> ZV(q[x])] @@ env
                    IN  (\A h \in ToSet(Hypos(n.vars)) : Denote(h, e) = BV(TRUE))
                            => Denote(n.body, e) = BV(TRUE)
            IN  BV(IF n.k = "forall" THEN \A q \in [names -> QuantSpace] : Holds(q)
                                     ELSE \E q \in [names -> QuantSpace] : Holds(q))
===============================================================================
