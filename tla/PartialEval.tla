------------------------------ MODULE PartialEval ------------------------------
(***************************************************************************)
(* partial_eval (optimizations/rules.cpp): the rules applied by value, a   *)
(* node's parts before the node, until none applies.  Diverges stands for  *)
(* a call that is made again with the node it was made with.               *)
(***************************************************************************)
EXTENDS Z3Rules

RECURSIVE Offer(_, _)
RECURSIVE partial_eval(_)
RECURSIVE HasDiverged(_)

Diverges == [k |-> "diverges"]

(* A source whose outermost form tells which arm is taken. *)
whnf(n) ==
    \/ IsConst(n)
    \/ n.k = "sym" /\ (is_ind_constr(n.x[1]) \/ ~is_known_symbol(n.x))
    \/ n.k = "expr" /\ is_constr(n.op)

(* The rules an expression is offered, in this order. *)
ExprRules(n) ==
    <<"rule_move_if_out_expr", "rule_move_match_out_expr", "rule_simple_builtin_functions">> \o
    (CASE n.op \in Binops                   -> <<"rule_simplify_expr">>
       [] n.op \in {"RecordGet", "RecordSet"} -> <<"rule_simple_record_get_set">>
       [] n.op \in {"GET", "SET"}           -> <<"rule_simplify_map_get_set">>
       [] OTHER                             -> <<>>)

(* The node after the rules in turn, up to the first that reports a change. *)
Offered(r, rules) == IF r.ch THEN r ELSE Offer(rules, r.n)
Offer(rules, n) ==
    IF rules = <<>> \/ n.k # "expr" THEN Kept(n) ELSE Offered(Rule(Head(rules), n), Tail(rules))

(* A changed node is evaluated again. *)
Again(r) == IF r.ch THEN partial_eval(r.n) ELSE r.n
EvalExpr(n) == Again(Offer(ExprRules(n), n))

EvalIf(cond, then, else) ==
    CASE cond.k = "bool" -> IF cond.b THEN then ELSE else
      [] cond.k # "bool" /\ then.k = "bool" /\ else.k = "bool" ->
            IF then = else THEN then ELSE IF then.b THEN cond ELSE Expr("NOT", <<cond>>)
      [] OTHER -> If(cond, then, else)

(* The control flow of a source moves out of it; then an arm may be known. *)
MoveOut(m) ==
    CASE m.src.k = "if"    -> rule_move_if_out_match(m)
      [] m.src.k = "rely"  -> rule_move_rely_out_when(m)
      [] m.src.k = "match" -> rule_move_when_out_when(m)
      [] OTHER             -> Kept(m)
TakeArm(m) ==
    IF whnf(m.src) /\ ~(Len(m.arms) = 1 /\ m.arms[1].pattern.k = "sym")
    THEN rule_eliminate_match_simple(m) ELSE Kept(m)
InArms(r) ==
    IF r.ch THEN partial_eval(r.n)
    ELSE Match(r.n.src, Each(LAMBDA a : Arm(a.pattern, partial_eval(a.body)), r.n.arms))
Moved(r) == IF r.ch THEN partial_eval(r.n) ELSE InArms(TakeArm(r.n))

(* rule_eliminate_rely knows relies and not annotations. *)
EvalRely(m, r) ==
    CASE m.prop.k = "bool" /\ r.ch  -> partial_eval(r.n)
      [] m.prop.k = "bool" /\ ~r.ch -> Diverges
      [] OTHER -> [m EXCEPT !.body = partial_eval(@)]
WithProp(m) == EvalRely(m, rule_eliminate_rely(m))

partial_eval(n) ==
    CASE n.k = "expr"             -> EvalExpr([n EXCEPT !.e = Each(partial_eval, @)])
      [] n.k = "if"               -> EvalIf(partial_eval(n.cond), partial_eval(n.then),
                                            partial_eval(n.else))
      [] n.k = "match"            -> Moved(MoveOut(Match(partial_eval(n.src), n.arms)))
      [] n.k \in {"rely", "anno"} -> WithProp([n EXCEPT !.prop = partial_eval(@)])
      [] IsQuant(n)               -> [n EXCEPT !.body = partial_eval(@)]
      [] OTHER                    -> n

HasDiverged(n) == n = Diverges \/ \E i \in DOMAIN Kids(n) : HasDiverged(Kids(n)[i])
===============================================================================
