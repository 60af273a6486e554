-------------------------------- MODULE Z3Rules --------------------------------
(***************************************************************************)
(* The rules that ask the solver (optimizations/z3_rules.cpp) and the      *)
(* symbolic evaluator under them (z3_eval, optimizations/z3_utils.cpp).    *)
(*                                                                         *)
(* A z3 term is what it denotes: a function from the environments of the   *)
(* definition's arguments to values, and whether it is a literal.  The     *)
(* conditions of an EvalState are the set of environments that satisfy     *)
(* them.  The solver decides a query or gives up; it decides none when     *)
(* `decides` is FALSE.  A variable bound by a quantifier is a name of its  *)
(* own in the environments.                                                *)
(***************************************************************************)
EXTENDS SpecRules

CONSTANTS
    Envs,           \* the environments: functions from names to values
    OptOnRely,      \* OPTS.__OPT_ON_RELY
    OptOnArith,     \* OPTS.__OPT_ON_ARITH
    OptOnMatch      \* OPTS.__OPT_ON_MATCH

RECURSIVE PatternVars(_, _)
RECURSIVE z3_eval(_, _, _)
RECURSIVE rule_simple_by_z3(_, _, _)
RECURSIVE UnderRelies(_)

(* What an accessor yields off its constructor, an uninterpreted value. *)
Junk(env) == env[N("?")]

Lift(F(_)) == [f |-> [e \in Envs |-> F(e)] @@ <<>>, lit |-> FALSE]
Literal(v) == [Lift(LAMBDA e : v) EXCEPT !.lit = TRUE]
(* z3::expr::simplify: a term that is the same everywhere becomes a literal. *)
Simplify(t) == [t EXCEPT !.lit = \E v \in {t.f[e] : e \in Envs} : \A e \in Envs : t.f[e] = v]
Where(t) == {e \in Envs : t.f[e] = BV(TRUE)}
Ite(c, t, u) == Lift(LAMBDA e : IF e \in c THEN t.f[e] ELSE u.f[e])

EvalState == [vars |-> <<>>, conds |-> Envs]
Declare(s, x) == [s EXCEPT !.vars = (x :> Lift(LAMBDA e : e[x])) @@ @]
Assume(s, c)  == [s EXCEPT !.conds = @ \cap c]

z3_check(s, c, decides) ==
    CASE ~decides                                           -> "Unknown"
      [] decides /\ s.conds \subseteq c                     -> "True"
      [] decides /\ ~(s.conds \subseteq c) /\ s.conds \cap c = {} -> "False"
      [] OTHER                                              -> "Unknown"

(***************************************************************************)
(* resolve_pattern: the variables of a pattern are the parts of the source *)
(* the accessors name, and the condition is that the source matches.       *)
(***************************************************************************)
Matches(p, t) == {e \in Envs : Bind(p, t.f[e]) # {}}
Payload(t) == Lift(LAMBDA e : IF t.f[e].t = "Some" THEN t.f[e].v ELSE Junk(e))
Elem(t, i) == Lift(LAMBDA e : IF t.f[e].t = "Tuple" THEN t.f[e].s[i] ELSE Junk(e))

PatternVars(p, t) ==
    CASE p.k = "sym"      -> IF is_ind_constr(p.x[1]) THEN <<>> ELSE p.x :> t
      [] IsOp(p, "Some")  -> PatternVars(p.e[1], Payload(t))
      [] IsOp(p, "Tuple") -> FoldFunction(LAMBDA a, b : a @@ b, <<>>,
                                 [i \in DOMAIN p.e |-> PatternVars(p.e[i], Elem(t, i))])
      [] OTHER            -> <<>>

(***************************************************************************)
(* z3_eval.                                                                *)
(***************************************************************************)
SymbolTerm(n, s) == IF n.x \in DOMAIN s.vars THEN s.vars[n.x] ELSE Lift(LAMBDA e : Denote(n, e))

(* An operator of the language, and a definition called as a function. *)
Operand(i) == <<"arg", i>>
CallTerm(f, args) ==
    Lift(LAMBDA e : Denote(Expr(f, [i \in DOMAIN args |-> Sym(Operand(i))]),
                           [x \in {Operand(i) : i \in DOMAIN args} |-> args[x[2]].f[e]]))
OperatorTerm(op, args) == Lift(LAMBDA e : Apply(op, Each(LAMBDA arg : arg.f[e], args)))
ExprTerm(op, args) ==
    CASE op \in DOMAIN Defs -> CallTerm(op, args)
      [] op = "EQUAL"       -> Simplify(OperatorTerm(op, args))
      [] OTHER              -> OperatorTerm(op, args)

(* The arms from the last to the first, the ones the solver refutes left   *)
(* out; an arm before a literal true stands without its condition.         *)
ArmTerm(a, src, s, decides) == z3_eval(a.body, [s EXCEPT !.vars = PatternVars(a.pattern, src) @@ @], decides)
LiveArms(n, src, s, decides) ==
    SelectSeq(n.arms, LAMBDA a : OptOnMatch \/ z3_check(s, Matches(a.pattern, src), decides) # "False")
ArmBefore(a, src, rest, s, decides) ==
    IF rest.lit /\ \A e \in Envs : rest.f[e] = BV(TRUE) THEN ArmTerm(a, src, s, decides)
    ELSE Ite(Matches(a.pattern, src), ArmTerm(a, src, s, decides), rest)
ArmTerms(live, src, s, decides) ==
    IF live = <<>> THEN Lift(LAMBDA e : NoneV)
    ELSE FoldRight(LAMBDA a, rest : ArmBefore(a, src, rest, s, decides), Front(live),
                   ArmTerm(Last(live), src, s, decides))
MatchTerm(n, src, s, decides) == ArmTerms(LiveArms(n, src, s, decides), src, s, decides)

(* A rely whose condition the solver leaves open is an ite with None. *)
RelyTerm(n, c, res, s, decides) ==
    CASE res = "True"  -> z3_eval(n.body, s, decides)
      [] res = "False" -> Lift(LAMBDA e : NoneV)
      [] OTHER         -> Simplify(Ite(c, z3_eval(n.body, s, decides), Lift(LAMBDA e : NoneV)))
RelyTermOn(n, c, s, decides) == RelyTerm(n, c, z3_check(s, c, decides), s, decides)

IfTerm(n, c, res, s, decides) ==
    CASE res = "True"  -> z3_eval(n.then, s, decides)
      [] res = "False" -> z3_eval(n.else, s, decides)
      [] OTHER         -> Simplify(Ite(c, z3_eval(n.then, Assume(s, c), decides),
                                          z3_eval(n.else, Assume(s, Envs \ c), decides)))
IfTermOn(n, c, s, decides) == IfTerm(n, c, z3_check(s, c, decides), s, decides)

QuantTerm(n, s) == Lift(LAMBDA e : Denote(n, [x \in DOMAIN s.vars |-> s.vars[x].f[e]]))

z3_eval(n, s, decides) ==
    CASE n.k = "sym"   -> SymbolTerm(n, s)
      [] IsConst(n)    -> Literal(Denote(n, <<>>))
      [] n.k = "expr"  -> ExprTerm(n.op, Each(LAMBDA m : z3_eval(m, s, decides), n.e))
      [] n.k = "match" -> MatchTerm(n, z3_eval(n.src, s, decides), s, decides)
      [] n.k = "rely"  -> RelyTermOn(n, Where(z3_eval(n.prop, s, decides)), s, decides)
      [] n.k = "if"    -> IfTermOn(n, Where(z3_eval(n.cond, s, decides)), s, decides)
      [] IsQuant(n)    -> QuantTerm(n, s)

Holds(n, s, decides) == Where(z3_eval(n, s, decides))
SameValue(n, m, s, decides) == Holds(Expr("EQUAL", <<n, m>>), s, decides)

(***************************************************************************)
(* simple_expr_by_z3.  A rule is split where it asks the solver, so that a *)
(* query and its answer are parameters of what follows.                    *)
(***************************************************************************)
Null == [k |-> "null"]          \* a null unique_ptr<SpecNode>
Nullified == [n |-> Null, ch |-> TRUE]

(* What the written place holds, for a write that may write it back. *)
ReadBack(n) ==
    CASE IsOp(n, "SET") /\ (\A i \in 1..3 : n.e[i].k = "expr") /\ n.e[3].op = "GET" ->
            {Expr("GET", <<n.e[1], n.e[2]>>)}
      [] IsOp(n, "RecordSet") -> {FoldLeft(RecordGet, n.e[1], Path(n))}
      [] OTHER                -> {}
reduce_id_write(n, s, decides) ==
    IF /\ ~OptOnArith
       /\ \E old \in ReadBack(n) :
            z3_check(s, SameValue(old, Last(n.e), s, decides), decides) = "True"
    THEN Changed(n.e[1])
    ELSE Kept(n)

(* A read or a write over a write of a map; empty when nothing is rebuilt. *)
OverInit(n) == IF n.op = "GET" THEN {n.e[1].e[1]} ELSE {}
OverSet(n, map, res) ==
    CASE res = "True" /\ n.op = "SET" -> {Expr("SET", <<map.e[1], map.e[2], n.e[3]>>)}
      [] res = "True" /\ n.op = "GET" /\ map.e[3].k = "expr" -> {map.e[3]}
      [] res = "False" /\ n.op = "GET" -> {Expr("GET", <<map.e[1], n.e[2]>>)}
      [] OTHER -> {}
reconstruct_zmap(n, s, decides) ==
    CASE n.k = "expr" /\ n.op \in {"GET", "SET"} /\ IsOp(n.e[1], "ZMap.init") -> OverInit(n)
      [] /\ n.k = "expr" /\ n.op \in {"GET", "SET"}
         /\ IsOp(n.e[1], "SET") /\ n.e[1].e[2].k # "sym" ->
            OverSet(n, n.e[1],
                    z3_check(s, SameValue(n.e[1].e[2], n.e[2], s, decides), decides))
      [] OTHER -> {}

(* What becomes of the expression: less after reduce_id_write, zmap of that. *)
Reconstructed(less, zmap, ch) ==
    IF zmap # {} THEN Changed(CHOOSE m \in zmap : TRUE) ELSE [less EXCEPT !.ch = @ \/ ch]
Reduced(less, ch, s, decides) == Reconstructed(less, reconstruct_zmap(less.n, s, decides), ch)
WithOperands(n, new, s, decides) ==
    IF \E i \in DOMAIN new : new[i].n = Null THEN Nullified
    ELSE Reduced(reduce_id_write([n EXCEPT !.e = Each(LAMBDA r : r.n, new)], s, decides),
                 \E i \in DOMAIN new : new[i].ch, s, decides)
simple_expr_by_z3(n, s, decides) ==
    IF n.op = "None" THEN Kept(n)
    ELSE WithOperands(n, Each(LAMBDA m : rule_simple_by_z3(m, s, decides), n.e), s, decides)

(***************************************************************************)
(* simple_rely_by_z3: prop is simplified, c is where it holds.  Under      *)
(* OptOnRely it is assumed without a question.                             *)
(***************************************************************************)
RelyOver(n, prop, body) ==
    [n  |-> IF body.n = Null THEN Null ELSE [n EXCEPT !.prop = prop.n, !.body = body.n],
     ch |-> prop.ch \/ body.ch]
RelyAnswered(n, prop, c, res, s, decides) ==
    CASE res = "True"  -> Changed(rule_simple_by_z3(n.body, s, decides).n)
      [] res = "False" -> Nullified
      [] OTHER -> RelyOver(n, prop, rule_simple_by_z3(n.body, Assume(s, c), decides))
RelyAsked(n, prop, c, s, decides) ==
    RelyAnswered(n, prop, c, IF OptOnRely THEN "Unknown" ELSE z3_check(s, c, decides), s, decides)
RelyWith(n, prop, s, decides) ==
    IF prop.n = Null THEN prop ELSE RelyAsked(n, prop, Holds(prop.n, s, decides), s, decides)
simple_rely_by_z3(n, s, decides) == RelyWith(n, rule_simple_by_z3(n.prop, s, decides), s, decides)

(***************************************************************************)
(* simple_if_by_z3: in a branch, the condition is replaced with its truth. *)
(***************************************************************************)
Replaced(r, cond, b) ==
    IF r.n = Null THEN r
    ELSE LET t == subst_expr(r.n, cond, BoolC(b)) IN [n |-> t.n, ch |-> r.ch \/ t.ch]
(* One branch is left: its condition becomes a rely where that is possible. *)
OneLeft(m, cond, b, ch) ==
    IF SortOf(m) = "option" THEN [n |-> Rely(Expr("EQUAL", <<cond, BoolC(b)>>), m), ch |-> ch]
    ELSE Changed(m)
IfOver(cond, then, else, ch) ==
    CASE then.n = Null /\ else.n = Null -> [n |-> Null, ch |-> ch]
      [] then.n = Null /\ else.n # Null -> OneLeft(else.n, cond, FALSE, ch)
      [] then.n # Null /\ else.n = Null -> OneLeft(then.n, cond, TRUE, ch)
      [] OTHER -> [n |-> If(cond, then.n, else.n), ch |-> ch]
BothBranches(cond, then, else) == IfOver(cond, then, else, then.ch \/ else.ch)
IfAnswered(n, cond, c, res, s, decides) ==
    CASE res = "True"  -> Changed(rule_simple_by_z3(n.then, s, decides).n)
      [] res = "False" -> Changed(rule_simple_by_z3(n.else, s, decides).n)
      [] OTHER ->
            BothBranches(cond,
                Replaced(rule_simple_by_z3(n.then, Assume(s, c), decides), cond, TRUE),
                Replaced(rule_simple_by_z3(n.else, Assume(s, Envs \ c), decides), cond, FALSE))
IfAsked(n, cond, c, s, decides) == IfAnswered(n, cond, c, z3_check(s, c, decides), s, decides)
IfWith(n, cond, s, decides) == IfAsked(n, cond, Holds(cond, s, decides), s, decides)
simple_if_by_z3(n, s, decides) == IfWith(n, rule_simple_by_z3(n.cond, s, decides).n, s, decides)

(***************************************************************************)
(* simple_match_by_z3: the arms whose bodies are gone are dropped; a match *)
(* on an option that lost a constructor gets an arm to None.               *)
(***************************************************************************)
UnderRelies(n) == IF n.k = "rely" THEN UnderRelies(n.body) ELSE n
Lacks(arms, constr) ==
    \A a \in ToSet(arms) : a.pattern # Sym(N("_")) /\ get_constr(a.pattern) # constr
MatchOver(src, arms, ch) ==
    CASE arms = <<>> -> Nullified
      [] arms # <<>> /\ (\A a \in ToSet(arms) : UnderRelies(a.body) = None) -> [n |-> None, ch |-> ch]
      [] OTHER -> [n |-> Match(src, arms), ch |-> ch]
ArmsLeft(n, src, left, ch) ==
    IF SortOf(src) = "option" /\ SortOf(n) = "option" /\ (Lacks(left, "Some") \/ Lacks(left, "None"))
    THEN MatchOver(src, Append(left, Arm(Sym(N("_")), None)), TRUE)
    ELSE MatchOver(src, left, ch)
ArmsDone(n, src, new) ==
    ArmsLeft(n, src.n,
             SelectSeq(Each(LAMBDA i : Arm(n.arms[i].pattern, new[i].n), [i \in DOMAIN new |-> i]),
                       LAMBDA a : a.body # Null),
             src.ch \/ \E i \in DOMAIN new : new[i].ch)
Inside(s, p, val) == Assume([s EXCEPT !.vars = PatternVars(p, val) @@ @], Matches(p, val))
(* An arm no environment takes is dropped, which is not reported as a change. *)
InArm(a, state, decides) ==
    IF ~OptOnMatch /\ decides /\ state.conds = {} THEN Kept(Null)
    ELSE rule_simple_by_z3(a.body, state, decides)
MatchOn(n, src, val, s, decides) ==
    ArmsDone(n, src, Each(LAMBDA a : InArm(a, Inside(s, a.pattern, val), decides), n.arms))
MatchWith(n, src, s, decides) ==
    IF src.n = Null THEN Nullified ELSE MatchOn(n, src, z3_eval(src.n, s, decides), s, decides)
simple_match_by_z3(n, s, decides) == MatchWith(n, rule_simple_by_z3(n.src, s, decides), s, decides)

rule_simple_by_z3(n, s, decides) ==
    CASE n.k = "expr"             -> simple_expr_by_z3(n, s, decides)
      [] n.k = "match"            -> simple_match_by_z3(n, s, decides)
      [] n.k \in {"rely", "anno"} -> simple_rely_by_z3(n, s, decides)
      [] n.k = "if"               -> simple_if_by_z3(n, s, decides)
      [] IsQuant(n) ->
            LET bound == SelectSeq(n.vars, LAMBDA v : v.hypo = <<>>)
                r == rule_simple_by_z3(n.body, FoldLeft(LAMBDA t, v : Declare(t, v.name), s, bound),
                                       decides)
            IN  [n |-> [n EXCEPT !.body = r.n], ch |-> r.ch]
      [] OTHER                    -> Kept(n)
===============================================================================
