------------------------------- MODULE ProofEval -------------------------------
(***************************************************************************)
(* The state of a proof and the two evaluators of the proof stage: z3_expr *)
(* (optimizations/symbolic.cpp) for lemmas, axioms and the invariant of a  *)
(* call's state, and the z3_eval that the proof stage uses for everything  *)
(* else (optimizations/z3_utils.cpp).  The values they keep in the nodes   *)
(* are left out.                                                           *)
(*                                                                         *)
(* A z3 constant is a name: a name declared twice is one constant.  A term *)
(* is a function from the valuations of the constants to values, a formula *)
(* the set of the valuations where it holds; both name a valuation by its  *)
(* number.  The solver is honest *)
(* and decides every query, or, when `decides` is FALSE, none.  It knows   *)
(* what a call returns, where z3 has an uninterpreted function: it proves  *)
(* all that z3 proves, and more.                                           *)
(***************************************************************************)
EXTENDS Coi

CONSTANT Valuations     \* family -> sequence of valuations of the z3 constants

RECURSIVE Where(_, _)
RECURSIVE z3_check(_, _, _)
RECURSIVE z3_check_unsat(_, _, _)
RECURSIVE ValueOf(_, _)
RECURSIVE resolve_pattern(_, _, _)
RECURSIVE Matching(_, _, _)
RECURSIVE Operation(_, _, _)
RECURSIVE Quantified(_, _)
RECURSIVE PatternTerms(_, _, _)
RECURSIVE z3_expr(_, _, _)
RECURSIVE z3_eval(_, _, _)

(***************************************************************************)
(* ProveState: the variables, the path conditions, and the facts assumed   *)
(* of the current state (inductions).                                      *)
(***************************************************************************)
NewState(family) ==
    LET all == DOMAIN Valuations[family]
    IN  [family |-> family, vars |-> <<>>, conds |-> all, inductions |-> all]
AllOver(s) == DOMAIN Valuations[s.family]
At(s, e) == Valuations[s.family][e]
Term(F(_), s) == [e \in AllOver(s) |-> F(e)] @@ <<>>
(* The term of a declared constant, the valuations' own, is kept as <<>>. *)
Declare(s, x) == [s EXCEPT !.vars = (x :> <<>>) @@ @]
ValueOf(x, s) == IF s.vars[x] = <<>> THEN Term(LAMBDA e : At(s, e)[x], s) ELSE s.vars[x]
DeclareAll(s, xs) == FoldLeft(Declare, s, xs)
Push(s, c) == [s EXCEPT !.conds = @ \cap c]
add_induction(s, c) == [s EXCEPT !.inductions = @ \cap c]
(* EvalState::copy is not virtual: the copy an evaluator makes of a state *)
(* is an EvalState, without inductions.                                   *)
Branch(s, c) == [s EXCEPT !.conds = @ \cap c, !.inductions = AllOver(s)]

Assumed(s) == s.conds \cap s.inductions

(* z3_check, z3_check_unsat and z3_verify, and the check of a state alone. *)
z3_check(s, c, decides) ==
    CASE ~decides                                               -> "Unknown"
      [] decides /\ Assumed(s) \subseteq c                      -> "True"
      [] decides /\ ~(Assumed(s) \subseteq c) /\ Assumed(s) \cap c = {} -> "False"
      [] OTHER                                                  -> "Unknown"
z3_check_unsat(s, c, decides) ==
    IF ~decides THEN "Unknown" ELSE IF Assumed(s) \subseteq c THEN "True" ELSE "Sat"
z3_verify_state_sat(s, decides) ==
    IF ~decides THEN "Unknown" ELSE IF Assumed(s) = {} THEN "False" ELSE "True"
z3_check_state(s, decides) == IF decides /\ Assumed(s) = {} THEN "False" ELSE "Unknown"

Where(t, s) == {e \in AllOver(s) : t[e] = BV(TRUE)}
Ite(c, t, u, s) == Term(LAMBDA e : IF e \in c THEN t[e] ELSE u[e], s)
Const(v, s) == Term(LAMBDA e : v, s)

(***************************************************************************)
(* resolve_pattern: the parts of the source a pattern names, and where the *)
(* source matches.  Off its constructor an accessor yields any value.      *)
(***************************************************************************)
Junk(s, e) == At(s, e)[N("?")]
PatternTerms(p, t, s) ==
    CASE p.k = "sym"      -> IF is_ind_constr(p.x[1]) THEN <<>> ELSE p.x :> t
      [] IsOp(p, "Some")  ->
            PatternTerms(p.e[1], Term(LAMBDA e : IF t[e].t = "Some" THEN t[e].v ELSE Junk(s, e), s), s)
      [] IsOp(p, "Tuple") ->
            FoldFunction(LAMBDA f, g : f @@ g, <<>>,
                [i \in DOMAIN p.e |-> PatternTerms(p.e[i],
                    Term(LAMBDA e : IF t[e].t = "Tuple" THEN t[e].s[i] ELSE Junk(s, e), s), s)])
      [] OTHER -> <<>>
Matching(p, t, s) == {e \in AllOver(s) : Bind(p, t[e]) # {}}
resolve_pattern(p, t, s) ==
    Push([s EXCEPT !.vars = PatternTerms(p, t, s) @@ @], Matching(p, t, s))

(***************************************************************************)
(* What both evaluators make of a symbol, an operator and a quantifier.    *)
(***************************************************************************)
Symbolic(n, s) == IF n.x \in DOMAIN s.vars THEN ValueOf(n.x, s) ELSE Const(Denote(n, <<>>), s)
Operation(op, args, s) ==
    Term(LAMBDA e : LET v == Each(LAMBDA arg : arg[e], args) IN
            IF op \in DOMAIN Defs
            THEN Denote(Expr(op, [i \in DOMAIN v |-> Sym(<<"arg", i>>)]),
                        [x \in {<<"arg", i>> : i \in DOMAIN v} |-> v[x[2]]])
            ELSE Apply(op, v), s)
Quantified(n, s) == Term(LAMBDA e : Denote(n, [x \in DOMAIN s.vars |-> ValueOf(x, s)[e]]), s)

(***************************************************************************)
(* z3_expr.  A variable an arm binds keeps the value it has where its name *)
(* is taken (emplace); a failing rely is None.                             *)
(***************************************************************************)
ExprRely(n, s, decides, c) ==
    CASE z3_check(s, c, decides) = "True"  -> z3_expr(n.body, s, decides)
      [] z3_check(s, c, decides) = "False" -> Const(NoneV, s)
      [] OTHER -> Ite(c, z3_expr(n.body, s, decides), Const(NoneV, s), s)
ExprIf(n, s, decides, c) ==
    CASE z3_check(s, c, decides) = "True"  -> z3_expr(n.then, Push(s, c), decides)
      [] z3_check(s, c, decides) = "False" -> z3_expr(n.else, Push(s, AllOver(s) \ c), decides)
      [] OTHER -> Ite(c, z3_expr(n.then, Branch(s, c), decides),
                         z3_expr(n.else, Branch(s, AllOver(s) \ c), decides), s)
ExprMatch(n, s, decides, src) ==
    LET Arms(a) == z3_expr(a.body, [s EXCEPT !.vars = @ @@ PatternTerms(a.pattern, src, s),
                                             !.inductions = AllOver(s)], decides)
    IN  FoldRight(LAMBDA a, val : Ite(Matching(a.pattern, src, s), Arms(a), val, s),
                  Front(n.arms), Arms(Last(n.arms)))
z3_expr(n, s, decides) ==
    CASE n.k = "sym"   -> Symbolic(n, s)
      [] IsConst(n)    -> Const(Denote(n, <<>>), s)
      [] n.k = "expr"  -> Operation(n.op, Each(LAMBDA m : z3_expr(m, s, decides), n.e), s)
      [] n.k = "match" -> ExprMatch(n, s, decides, z3_expr(n.src, s, decides))
      [] n.k = "rely"  -> ExprRely(n, s, decides, Where(z3_expr(n.prop, s, decides), s))
      [] n.k = "if"    -> ExprIf(n, s, decides, Where(z3_expr(n.cond, s, decides), s))
      [] OTHER         -> Quantified(n, s)

(***************************************************************************)
(* z3_eval.  An arm that cannot match is left out; the body of a rely is   *)
(* read where the rely holds.                                              *)
(***************************************************************************)
EvalRely(n, s, decides, c) ==
    CASE z3_check(s, c, decides) = "True"  -> z3_eval(n.body, s, decides)
      [] z3_check(s, c, decides) = "False" -> Const(NoneV, s)
      [] OTHER -> Ite(c, z3_eval(n.body, Branch(s, c), decides), Const(NoneV, s), s)
EvalIf(n, s, decides, c) ==
    CASE z3_check(s, c, decides) = "True"  -> z3_eval(n.then, Push(s, c), decides)
      [] z3_check(s, c, decides) = "False" -> z3_eval(n.else, Push(s, AllOver(s) \ c), decides)
      [] OTHER -> Ite(c, z3_eval(n.then, Branch(s, c), decides),
                         z3_eval(n.else, Branch(s, AllOver(s) \ c), decides), s)
EvalMatch(n, s, decides, src) ==
    LET Body(a) == z3_eval(a.body, [s EXCEPT !.vars = PatternTerms(a.pattern, src, s) @@ @,
                                             !.inductions = AllOver(s)], decides)
        live == SelectSeq(n.arms, LAMBDA a :
                    z3_check(s, Matching(a.pattern, src, s), decides) # "False")
    IN  IF live = <<>> THEN Const(NoneV, s)
        ELSE FoldRight(LAMBDA a, val : Ite(Matching(a.pattern, src, s), Body(a), val, s),
                       Front(live), Body(Last(live)))
z3_eval(n, s, decides) ==
    CASE n.k = "sym"   -> Symbolic(n, s)
      [] IsConst(n)    -> Const(Denote(n, <<>>), s)
      [] n.k = "expr"  -> Operation(n.op, Each(LAMBDA m : z3_eval(m, s, decides), n.e), s)
      [] n.k = "match" -> EvalMatch(n, s, decides, z3_eval(n.src, s, decides))
      [] n.k = "rely"  -> EvalRely(n, s, decides, Where(z3_eval(n.prop, s, decides), s))
      [] n.k = "if"    -> EvalIf(n, s, decides, Where(z3_eval(n.cond, s, decides), s))
      [] OTHER         -> Quantified(n, s)

(* A symbol that is neither declared nor known makes both evaluators throw. *)
Known(n, s) == FreeNames(n) \subseteq DOMAIN s.vars
===============================================================================
