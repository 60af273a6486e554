------------------------------- MODULE SpecRules -------------------------------
(***************************************************************************)
(* The rewriting rules of SpecRules (include/rules.h, optimizations/       *)
(* rules.cpp).  A rule maps a node to [n, ch]: the new node, and whether   *)
(* the rule reports a change; ApplyRule runs one over a whole tree from    *)
(* the leaves up, as rec_apply does.                                       *)
(***************************************************************************)
EXTENDS Subst

CONSTANT FieldOrder     \* the field names in the order of their texts

RECURSIVE try_match(_, _, _), match_all(_, _, _)
RECURSIVE subst_when(_, _, _)
RECURSIVE subst_expr(_, _, _)
RECURSIVE ApplyRule(_, _)

Kept(n)    == [n |-> n, ch |-> FALSE]
Quiet(n)   == Kept(n)              \* rewritten, but not reported
Changed(n) == [n |-> n, ch |-> TRUE]

(* The unsigned word of a C++ expression over unsigned longs. *)
Word(i) == i % 2^Width
(* The same bits read as a long long. *)
Signed(u) == IF u >= 2^(Width - 1) THEN u - 2^Width ELSE u

is_const_zero(n) == n.k = "int" /\ n.u = 0

(***************************************************************************)
(* Matching a pattern with a source.  The result is a set with at most one *)
(* assignment; def is the answer where the source does not tell.           *)
(***************************************************************************)
get_constr(n) ==
    CASE n.k = "sym"                                      -> n.x[1]
      [] n.k = "expr" /\ n.op \notin Binops \cup (Ops \ {"Some", "None", "Tuple"}) -> n.op
      [] OTHER                                            -> ""
is_constr(c) == is_ind_constr(c) \/ is_struct_constr(c)
pattern_is_symbol(p) == p.k = "sym" \/ IsOp(p, "None")

match_all(ps, es, def) ==
    IF ps = <<>> THEN {<<>>}
    ELSE {r @@ h : h \in try_match(Head(ps), Head(es), def),
                   r \in match_all(Tail(ps), Tail(es), def)}
try_match(p, src, def) ==
    LET Sure(c) == IF c THEN {<<>>} ELSE {}
        constr  == is_constr(get_constr(p)) /\ is_constr(get_constr(src))
    IN CASE IsConst(p) /\ IsConst(src)                        -> Sure(p = src)
         [] constr /\ get_constr(p) # get_constr(src)         -> {}
         [] constr /\ get_constr(p) = get_constr(src)
                   /\ pattern_is_symbol(p) /\ src.k = "sym"   -> Sure(TRUE)
         [] constr /\ get_constr(p) = get_constr(src)
                   /\ p.k = "expr" /\ p.op # "None" /\ src.k = "expr" ->
               IF p.op \notin Ops /\ Len(p.e) # Len(src.e) THEN {}
               ELSE match_all(p.e, src.e, def)
         [] OTHER -> IF p.k = "sym" /\ ~is_known_symbol(p.x) THEN {p.x :> src} ELSE Sure(def)

(***************************************************************************)
(* rule_simplify_expr.                                                     *)
(***************************************************************************)
(* A plausible slip: "not less" read as "greater". *)
NegatedStrict ==
    [BEQ |-> "BNE", EQUAL |-> "NOT_EQUAL", LT |-> "GT", GTE |-> "LT", GT |-> "LT", LTE |-> "GT",
     BGT |-> "BLT", BLE |-> "BGT", BLT |-> "BGT", BGE |-> "BLT"]
Negated ==
    [BEQ |-> "BNE", EQUAL |-> "NOT_EQUAL", LT |-> "GTE", GTE |-> "LT", GT |-> "LTE", LTE |-> "GT",
     BGT |-> "BLE", BLE |-> "BGT", BLT |-> "BGE", BGE |-> "BLT"]
(* std::map's operator[]: a missing key is inserted with the first enumerator. *)
ReverseOf(op) == IF op \in DOMAIN Negated THEN Negated[op] ELSE "MULT"

(* Two integer constants under a binary operator, in unsigned longs. *)
FoldConstants(n, a, b) ==
    CASE n.op = "ADD"    -> Changed(IntC(Word(a + b)))
      [] n.op = "MINUS"  -> Changed(LET res == Signed(Word(a - b)) IN
                                    IF res < 0 THEN Expr("MINUS", <<IntC(Word(-res))>>)
                                               ELSE IntC(Word(a - b)))
      [] n.op = "MULT"   -> Changed(IntC(Word(a * b)))
      [] n.op = "DIV"    -> Changed(IntC(a \div b))
      [] n.op = "MOD"    -> Changed(IntC(a % b))
      [] n.op = "BITAND" -> Changed(IntC(a & b))
      [] n.op = "BITOR"  -> Changed(IntC(a | b))
      [] n.op = "LSHIFT" -> Changed(IntC(Word(a * 2^b)))
      [] n.op = "RSHIFT" -> Changed(IntC(a \div 2^b))
      [] n.op = "BGT"    -> Changed(BoolC(a > b))
      [] n.op = "BLT"    -> Changed(BoolC(a < b))
      [] n.op = "BGE"    -> Changed(BoolC(a >= b))
      [] n.op = "BLE"    -> Changed(BoolC(a <= b))
      [] OTHER           -> Kept(n)

SimplifyBinop(n) ==
    LET a == n.e[1]
        b == n.e[2]
    IN CASE n.op = "MINUS" /\ Len(n.e) = 1 -> Kept(n)
         [] /\ n.op \in IntCompare \cup PropCompare
            /\ SortOf(a) = "Z" /\ SortOf(b) = "Z" /\ ~IsConst(b) ->
               Quiet(Expr(n.op, <<Expr("MINUS", <<a, b>>), IntC(0)>>))
         [] n.op = "ADD" /\ is_const_zero(a) -> Changed(b)
         [] n.op = "ADD" /\ is_const_zero(b) -> Changed(a)
         [] n.op \in {"EQUAL", "BEQ"} /\ IsConst(a) /\ IsConst(b) -> Changed(BoolC(a = b))
         [] n.op \in {"NOT_EQUAL", "BNE"} /\ IsConst(a) /\ IsConst(b) -> Changed(BoolC(a # b))
         [] n.op = "MINUS" /\ is_const_zero(b) -> Changed(a)
         [] OTHER -> IF a.k = "int" /\ b.k = "int" THEN FoldConstants(n, a.u, b.u) ELSE Kept(n)

rule_simplify_expr(n) ==
    CASE n.k = "if" /\ n.cond.k = "bool" -> Quiet(IF n.cond.b THEN n.then ELSE n.else)
      [] n.k = "expr" /\ n.op \in Binops -> SimplifyBinop(n)
      [] /\ n.k = "expr" /\ n.op \in {"NOT", "BNOT"}
         /\ n.e[1].k = "expr" /\ n.e[1].op \in IntCompare \cup PropCompare ->
            Quiet(Expr(ReverseOf(n.e[1].op), n.e[1].e))
      [] /\ IsOp(n, "RecordGet") /\ IsOp(n.e[1], "RecordSet")
         /\ n.e[1].e[Len(n.e[1].e) - 1] = n.e[2] ->
            Changed(Last(n.e[1].e))
      [] OTHER -> Kept(n)

(***************************************************************************)
(* rule_eliminate_when: the body of a when moves into the leaves of its    *)
(* source.  No name is looked at: what an arm of the source binds is in    *)
(* scope of the body.  Empty when a leaf is neither None nor Some.         *)
(***************************************************************************)
subst_when(n, p, body) ==
    CASE n = None -> {None}
      [] IsOp(n, "Some") -> {Match(n.e[1], <<Arm(p, body)>>)}
      [] n.k = "match" ->
            LET new == Each(LAMBDA a : subst_when(a.body, p, body), n.arms)
            IN  IF \E i \in DOMAIN new : new[i] = {} THEN {}
                ELSE {Match(n.src, [i \in DOMAIN new |->
                                      Arm(n.arms[i].pattern, CHOOSE b \in new[i] : TRUE)])}
      [] n.k \in {"rely", "anno"} -> {[n EXCEPT !.body = b] : b \in subst_when(n.body, p, body)}
      [] n.k = "if" -> {If(n.cond, t, e) : t \in subst_when(n.then, p, body),
                                           e \in subst_when(n.else, p, body)}
      [] IsQuant(n) -> {n}
      [] OTHER -> {}

rule_eliminate_when(n) ==
    IF n.k = "match" /\ is_when(n)
    THEN LET new == subst_when(n.src, n.arms[1].pattern.e[1], n.arms[1].body)
         IN  IF new = {} THEN Kept(n) ELSE Changed(CHOOSE m \in new : TRUE)
    ELSE Kept(n)

rule_eliminate_if(n) ==
    IF n.k = "if" /\ n.cond.k = "bool" THEN Changed(IF n.cond.b THEN n.then ELSE n.else)
    ELSE Kept(n)

rule_eliminate_let(n) ==
    IF n.k = "match" /\ is_let(n) /\ n.arms[1].pattern.k = "sym"
       /\ ~is_known_symbol(n.arms[1].pattern.x)
    THEN Changed(subst(n.arms[1].body, n.arms[1].pattern.x, n.src))
    ELSE Kept(n)

(* A plausible slip: the arm is taken and its variables are left as they are. *)
TakeArmUnbound(n) ==
    IF n.k # "match" THEN Kept(n)
    ELSE LET sure == {i \in DOMAIN n.arms : try_match(n.arms[i].pattern, n.src, FALSE) # {}} IN
         IF Len(n.arms) = 1 \/ sure = {} THEN Kept(n)
         ELSE Changed(n.arms[CHOOSE i \in sure : \A j \in sure : i <= j].body)
rule_eliminate_match_simple(n) ==
    IF n.k # "match" THEN Kept(n)
    ELSE LET possible == {i \in DOMAIN n.arms : try_match(n.arms[i].pattern, n.src, TRUE) # {}}
             first    == CHOOSE i \in possible : \A j \in possible : i <= j
             sure     == try_match(n.arms[first].pattern, n.src, FALSE)
         IN  IF \/ Len(n.arms) = 1 /\ n.arms[1].pattern.k = "sym"
                \/ possible = {}
                \/ sure = {}
             THEN Kept(n)
             ELSE Changed(subst_v2(n.arms[first].body, CHOOSE a \in sure : TRUE))

(***************************************************************************)
(* rule_subst_match_src_with_content: below a pattern, the source is       *)
(* replaced with the pattern.                                              *)
(***************************************************************************)
subst_expr(n, expr, var) ==
    LET Below(m) == subst_expr(m, expr, var) IN
    CASE n = expr -> Changed(var)
      [] n # expr /\ n.k = "match" ->
            LET src == Below(n.src)
                Hidden(a) == \/ contains_vars(expr, get_vars_from_pattern(a.pattern))
                             \/ contains_vars(var, get_vars_from_pattern(a.pattern))
                new == Each(LAMBDA a : IF Hidden(a) THEN Kept(a.body) ELSE Below(a.body), n.arms)
            IN  [n  |-> Match(src.n, [i \in DOMAIN new |-> Arm(n.arms[i].pattern, new[i].n)]),
                 ch |-> src.ch \/ \E i \in DOMAIN new : new[i].ch]
      [] n # expr /\ IsQuant(n) /\ contains_vars(expr, {n.vars[i].name : i \in DOMAIN n.vars}) ->
            Kept(n)
      [] OTHER ->
            LET new == Each(Below, Kids(n))
            IN  [n  |-> Rebuild(n, Each(LAMBDA r : r.n, new)),
                 ch |-> \E i \in DOMAIN new : new[i].ch]

rule_subst_match_src_with_content(n) ==
    IF n.k # "match" \/ is_let(n) THEN Kept(n)
    ELSE LET new == Each(LAMBDA a :
                           IF contains_vars(n.src, get_vars_from_pattern(a.pattern))
                           THEN Kept(a.body) ELSE subst_expr(a.body, n.src, a.pattern), n.arms)
         IN  [n  |-> Match(n.src, [i \in DOMAIN new |-> Arm(n.arms[i].pattern, new[i].n)]),
              ch |-> \E i \in DOMAIN new : new[i].ch]

rule_simple_builtin_functions(n) ==
    CASE n.k = "expr" /\ n.op \in DOMAIN Codecs /\ IsOp(n.e[1], Codecs[n.op]) ->
            Changed(n.e[1].e[1])
      [] /\ IsOp(n, "BITOR") /\ IsOp(n.e[1], "BITOR")
         /\ n.e[1].e[2].k = "int" /\ n.e[2].k = "int" ->
            Quiet(Expr("BITOR", <<n.e[1].e[1], IntC(n.e[1].e[2].u | n.e[2].u)>>))
      [] OTHER -> Kept(n)

rule_simplify_map_get_set(n) ==
    IF ~(n.k = "expr" /\ n.op \in {"GET", "SET"} /\ n.e[1].k = "expr") THEN Kept(n)
    ELSE LET map == n.e[1] IN
         CASE n.op = "GET" /\ map.op = "ZMap.init"                     -> Quiet(map.e[1])
           [] n.op = "GET" /\ map.op = "SET" /\ n.e[2] = map.e[2]      -> Changed(map.e[3])
           [] /\ n.op = "GET" /\ map.op = "SET" /\ n.e[2] # map.e[2]
              /\ IsConst(n.e[2]) /\ IsConst(map.e[2])                  ->
                 Changed(Expr("GET", <<map.e[1], n.e[2]>>))
           [] n.op = "SET" /\ map.op = "SET" /\ n.e[2] = map.e[2]      ->
                 Changed(Expr("SET", <<map.e[1], n.e[2], n.e[3]>>))
           [] OTHER                                                    -> Kept(n)

(***************************************************************************)
(* rule_simple_record_get_set.  A get names one field, a set a path.  The  *)
(* rule's last cases, a set of a value read from the same place, ask for a *)
(* record type with a field of its own type, which no project has.         *)
(***************************************************************************)
Path(n) == [i \in 1..(Len(n.e) - 2) |-> n.e[i + 1].x[1]]
Value(n) == Last(n.e)
RecordGet(r, f) == Expr("RecordGet", <<r, Sym(N(f))>>)
RecordSet(r, path, v) ==
    Expr("RecordSet", <<r>> \o [i \in DOMAIN path |-> Sym(N(path[i]))] \o <<v>>)

Rank(f) == CHOOSE i \in DOMAIN FieldOrder : FieldOrder[i] = f
(* std::vector<string>'s operator<, for two paths neither of which is a prefix. *)
PathLess(p, q) ==
    \E i \in DOMAIN p \cap DOMAIN q :
        Rank(p[i]) < Rank(q[i]) /\ \A j \in 1..(i - 1) : p[j] = q[j]

GetOf(n, rec) ==
    LET f == n.e[2].x[1] IN
    CASE rec.op \in DOMAIN FieldsOf ->
            Changed(rec.e[CHOOSE i \in DOMAIN rec.e : FieldsOf[rec.op][i] = f])
      [] rec.op = "RecordSet" /\ Path(rec)[1] = f ->
            Changed(IF Len(Path(rec)) = 1 THEN Value(rec)
                    ELSE RecordSet(RecordGet(rec.e[1], f), Tail(Path(rec)), Value(rec)))
      [] rec.op = "RecordSet" /\ Path(rec)[1] # f -> Changed(RecordGet(rec.e[1], f))
      [] OTHER -> Kept(n)

SetOfSet(n, rec) ==
    LET fields == Path(n)
        sub    == Path(rec)
    IN CASE IsPrefix(fields, sub) -> Changed(RecordSet(rec.e[1], fields, Value(n)))
         [] IsStrictPrefix(sub, fields) ->
               Changed(RecordSet(rec.e[1], sub,
                   RecordSet(Value(rec), SubSeq(fields, Len(sub) + 1, Len(fields)), Value(n))))
         [] ~IsPrefix(fields, sub) /\ ~IsPrefix(sub, fields) /\ PathLess(fields, sub) ->
               Changed(RecordSet(RecordSet(rec.e[1], fields, Value(n)), sub, Value(rec)))
         [] OTHER -> Kept(n)

rule_simple_record_get_set(n) ==
    CASE IsOp(n, "RecordGet") /\ n.e[1].k = "expr"         -> GetOf(n, n.e[1])
      [] IsOp(n, "RecordSet") /\ IsOp(n.e[1], "RecordSet") -> SetOfSet(n, n.e[1])
      [] OTHER                                             -> Kept(n)

(***************************************************************************)
(* The rules that move a construct out of another one.                     *)
(***************************************************************************)
rule_move_rely_out_when(n) ==
    IF n.k = "match" /\ n.src.k = "rely"
    THEN Changed(Rely(n.src.prop, Match(n.src.body, n.arms)))
    ELSE Kept(n)

(* One arm from None to None is enough. *)
rule_move_when_out_when(n) ==
    IF /\ n.k = "match" /\ n.src.k = "match"
       /\ is_when(n.src)
       /\ SortOf(n) = "option"
       /\ \E a \in ToSet(n.arms) : (a.pattern = None \/ IsOp(a.pattern, "None")) /\ a.body = None
    THEN Changed(When(n.src.arms[1].pattern.e[1], n.src.src, Match(n.src.arms[1].body, n.arms)))
    ELSE Kept(n)

rule_move_if_out_match(n) ==
    IF n.k = "match" /\ n.src.k = "if"
    THEN Changed(If(n.src.cond, Match(n.src.then, n.arms), Match(n.src.else, n.arms)))
    ELSE Kept(n)

FirstElem(n, P(_)) ==
    LET found == {i \in DOMAIN n.e : P(i)}
    IN  {i \in found : \A j \in found : i <= j}

rule_move_if_out_expr(n) ==
    IF n.k # "expr" THEN Kept(n)
    ELSE LET at == FirstElem(n, LAMBDA i : n.e[i].k = "if")
             With(i, m) == [n EXCEPT !.e[i] = m]
         IN  IF at = {} THEN Kept(n)
             ELSE Changed(LET i == CHOOSE j \in at : TRUE
                          IN  If(n.e[i].cond, With(i, n.e[i].then), With(i, n.e[i].else)))

rule_move_match_out_expr(n) ==
    IF n.k # "expr" THEN Kept(n)
    ELSE LET Movable(i) ==
                 /\ n.e[i].k = "match"
                 /\ \A a \in ToSet(n.e[i].arms), j \in DOMAIN n.e \ {i} :
                        ~contains_vars(n.e[j], get_vars_from_pattern(a.pattern))
             at == FirstElem(n, Movable)
         IN  IF at = {} THEN Kept(n)
             ELSE Changed(LET i == CHOOSE j \in at : TRUE
                              m == n.e[i]
                          IN  Match(m.src, [j \in DOMAIN m.arms |->
                                 Arm(m.arms[j].pattern, [n EXCEPT !.e[i] = m.arms[j].body])]))

rule_eliminate_rely(n) ==
    IF n.k = "rely" /\ n.prop.k = "bool" THEN Changed(IF n.prop.b THEN n.body ELSE None)
    ELSE Kept(n)

(***************************************************************************)
(* rec_apply: a rule over a whole tree, patterns and the hypotheses of a   *)
(* forall included.                                                        *)
(***************************************************************************)
Rule(id, n) ==
    CASE id = "rule_simplify_expr"          -> rule_simplify_expr(n)
      [] id = "rule_eliminate_when"         -> rule_eliminate_when(n)
      [] id = "rule_eliminate_if"           -> rule_eliminate_if(n)
      [] id = "rule_eliminate_let"          -> rule_eliminate_let(n)
      [] id = "rule_eliminate_match_simple" -> rule_eliminate_match_simple(n)
      [] id = "rule_subst_match_src_with_content" -> rule_subst_match_src_with_content(n)
      [] id = "rule_simple_builtin_functions" -> rule_simple_builtin_functions(n)
      [] id = "rule_simplify_map_get_set"   -> rule_simplify_map_get_set(n)
      [] id = "rule_simple_record_get_set"  -> rule_simple_record_get_set(n)
      [] id = "rule_move_rely_out_when"     -> rule_move_rely_out_when(n)
      [] id = "rule_move_when_out_when"     -> rule_move_when_out_when(n)
      [] id = "rule_move_if_out_match"      -> rule_move_if_out_match(n)
      [] id = "rule_move_if_out_expr"       -> rule_move_if_out_expr(n)
      [] id = "rule_move_match_out_expr"    -> rule_move_match_out_expr(n)

ApplyRule(id, n) ==
    LET Below(kid) == ApplyRule(id, kid)
        kids  == Each(Below, Kids(n))
        hypos == IF n.k # "forall" THEN <<>> ELSE Each(LAMBDA q : Each(Below, q.hypo), n.vars)
        node  == Rebuild(n, Each(LAMBDA r : r.n, kids))
        done  == Rule(id, IF n.k # "forall" THEN node
                          ELSE [node EXCEPT !.vars = [i \in DOMAIN @ |-> [@[i] EXCEPT
                                   !.hypo = Each(LAMBDA r : r.n, hypos[i])]]])
    IN  [n  |-> done.n,
         ch |-> \/ done.ch
                \/ \E i \in DOMAIN kids : kids[i].ch
                \/ \E i \in DOMAIN hypos : \E j \in DOMAIN hypos[i] : hypos[i][j].ch]

RulesGroup1 ==
    <<"rule_simplify_expr", "rule_eliminate_when", "rule_eliminate_if",
      "rule_eliminate_match_simple", "rule_subst_match_src_with_content",
      "rule_simple_builtin_functions", "rule_simple_record_get_set",
      "rule_move_rely_out_when", "rule_move_when_out_when", "rule_move_if_out_expr",
      "rule_move_match_out_expr">>
RulesGroup2 ==
    <<"rule_eliminate_match_simple", "rule_simple_record_get_set", "rule_eliminate_let">>
===============================================================================
