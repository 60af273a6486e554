------------------------------ MODULE PathProver -------------------------------
(***************************************************************************)
(* prove_by_traverse (optimizations/symbolic.cpp): the goal is carried     *)
(* along every path of a body, over its calls by what the callees promise, *)
(* and asked of the state each path returns.                               *)
(*                                                                         *)
(* A visit of a node gives its verdict, the visits below it, and the       *)
(* callee it relied on.  The traversal is the conjunction of its visits:   *)
(* one that fails does not stop those beside it.                           *)
(***************************************************************************)
EXTENDS Contracts

RECURSIVE Asked(_, _, _)
RECURSIVE AfterTail(_, _, _, _)
RECURSIVE Preserving(_, _, _)
RECURSIVE prove_by_traverse(_, _, _)
RECURSIVE AllOf(_, _)
RECURSIVE Fresh(_)
RECURSIVE check_inv_by_path(_)
RECURSIVE check_loop_inv_v2(_)
RECURSIVE check_pre_post(_)
RECURSIVE ProveSome(_, _, _, _)
RECURSIVE ProveTail(_, _, _, _)
RECURSIVE ProveArm(_, _, _, _, _)
RECURSIVE ProveMatch(_, _, _, _)

Visit_(res, next, used) == [res |-> res, next |-> next, used |-> used]
Below(items)  == Visit_("ok", items, {})
Verdict(b)    == Visit_(IF b THEN "ok" ELSE "no", <<>>, {})
Throws        == Visit_("throws", <<>>, {})
(* A plausible slip: a callee with a contract is not recorded. *)
UsingUnspecified(fs, v) == [v EXCEPT !.used = @ \cup {f \in fs : f \notin DOMAIN PostCond}]
Using(fs, v)  == [v EXCEPT !.used = @ \cup fs]

ProveItem(n, s) == [kind |-> "prove", n |-> n, s |-> s]
PreFails(f, args, s, decides) ==
    PreChecked(f) /\ ~check_states_implies_pre_condition(f, args, s, decides)

(* The goal, asked of the solver in state s. *)
Asked(n, s, decides) ==
    IF ~Known(n, s) THEN Throws
    ELSE Verdict(z3_check_unsat(s, Where(z3_eval(n, s, decides), s), decides) = "True")

(***************************************************************************)
(* None: only --check-none asks that it is out of reach.                   *)
(***************************************************************************)
ProveNone(t, s, decides) == Verdict(t.check_none => z3_check_state(s, decides) = "False")

(***************************************************************************)
(* Some: the goal with the returned values for its names.                  *)
(***************************************************************************)
Elements(payload) == IF payload.k = "expr" THEN payload.e ELSE <<payload>>
ReturnedInvariant(t, payload) == subst_v2(t.goal, st :> ReturnedState(payload))
ReturnedPost(t, payload) ==
    LET e == Elements(payload)
    IN  subst_v2(t.goal, (st :> ReturnedState(payload)) @@ (N("st_old") :> Sym(st))
                           @@ [x \in {<<"_ret", i - 1>> : i \in 1..(Len(e) - 1)} |-> e[x[2] + 1]])
ReturnedLoop(t, payload) ==
    LET e    == Elements(payload)
        args == IF payload.k = "expr" THEN Defs[t.name].args ELSE <<st>>
        here == {args[i] : i \in 1..Len(e)}
    IN  subst_v2(t.goal, [x \in here |-> e[CHOOSE i \in DOMAIN e : args[i] = x]]
                           @@ [x \in {Suffixed(y, "_old") : y \in here} |->
                                 Sym(CHOOSE y \in here : Suffixed(y, "_old") = x)])
ReturnedGoal(t, payload) ==
    CASE t.mode = "SYS"     -> ReturnedInvariant(t, payload)
      [] t.mode = "PREPOST" -> ReturnedPost(t, payload)
      [] t.mode = "LOOP"    -> ReturnedLoop(t, payload)
ProveSome(t, payload, s, decides) ==
    IF payload.k \notin {"expr", "sym"} THEN Verdict(FALSE)
    ELSE IF t.mode = "LOOP" /\ payload.k = "expr" /\ Len(payload.e) > Len(Defs[t.name].args) THEN Throws
    ELSE Asked(ReturnedGoal(t, payload), s, decides)

(***************************************************************************)
(* A path that ends in a call.  Only the proof of a loop invariant asks    *)
(* for its goal, of the names of the loop's own result.                    *)
(***************************************************************************)
OwnResult(t) ==
    LET args == Defs[t.name].args
    IN  subst_v2(t.goal,
            [x \in ToSet(args) |-> Sym(NamesOfLoop(t.name)[CHOOSE i \in DOMAIN args : args[i] = x])]
              @@ [x \in {Suffixed(y, "_old") : y \in ToSet(args)} |->
                    Sym(CHOOSE y \in ToSet(args) : Suffixed(y, "_old") = x)])
AfterTail(t, promised, own, decides) ==
    IF ~Known(promised, own) THEN Throws
    ELSE Asked(OwnResult(t), Suppose(promised, own, decides), decides)
ProveTail(t, n, s, decides) ==
    LET looped == n.op \in Loops /\ n.op \in DOMAIN LoopInvs
    IN  IF \E i \in DOMAIN n.e : ~Known(n.e[i], s) THEN Throws
        ELSE IF looped /\ PreFails(n.op, n.e, s, decides) THEN Verdict(FALSE)
        ELSE IF t.mode # "LOOP" THEN Verdict(TRUE)
        ELSE IF ~looped THEN Throws      \* loop_post_cond is null
        ELSE AfterTail(t, formulate_loop_invariant(n.op, n.e),
                       DeclareAll(s, NamesOfLoop(t.name)), decides)

(***************************************************************************)
(* Match.  A call is taken to return; its precondition is asked, its       *)
(* promise is assumed of the names the arm gives its result, and what was  *)
(* assumed of the state before (inductions) is given up for the state      *)
(* after: the invariant itself in SYS mode, and the lemmas.                *)
(***************************************************************************)
Returning(n, s, decides) ==
    Push(s, {e \in AllOver(s) : z3_eval(n.src, s, decides)[e].t = "Some"})
Preserving(t, n, s) ==
    IF n.src.op \notin Loops /\ n.src.op \in PreserveInv
    THEN Push(s, formulate_preserved_function(n.src.op, {t.goal} \cup ToSet(t.verified), s)) ELSE s

About(t, after) ==
    {instantiate_prop(n, after) : n \in ToSet(t.lemmas) \cup (IF t.mode = "SYS" THEN {t.goal} ELSE {})}
Inductions(about, s, decides) ==
    [s EXCEPT !.inductions = {e \in AllOver(s) : \A n \in about : z3_expr(n, s, decides)[e] = BV(TRUE)}]
OverCall(t, n, a, s, decides) ==
    LET before == extract_st_from_expr(n.src)
        after  == extract_st_from_expr(a.pattern)
    IN  IF before = {} \/ after = {} THEN Below(<<ProveItem(a.body, s)>>)
        ELSE IF \E m \in after : ~Known(m, s) THEN Throws
        ELSE Below(<<ProveItem(a.body, Inductions(UNION {About(t, m) : m \in after}, s, decides))>>)
ProveArm(t, n, a, s, decides) ==
    IF ~IsCall(n.src)
    THEN Below(<<ProveItem(a.body, resolve_pattern(a.pattern, z3_eval(n.src, s, decides), s))>>)
    ELSE OverCall(t, n, a, Promised(Promise(n.src.op, n.src.e), n.src.op, a.pattern, s, decides), decides)

(* The arms one after the other: one that throws ends the traversal. *)
Beside(v, w) == Visit_(IF v.res = "ok" THEN w.res ELSE v.res, v.next \o w.next, v.used \cup w.used)
ProveArms(t, n, s, decides) ==
    FoldLeft(Beside, Below(<<>>), Each(LAMBDA a : ProveArm(t, n, a, s, decides), n.arms))
AfterCall(t, n, s, decides) ==
    IF PreFails(n.src.op, n.src.e, s, decides) THEN Verdict(FALSE)
    ELSE IF n.src.op \in PreserveInv \ Loops /\ Returned[n.src.op] > 1 THEN Throws
    ELSE ProveArms(t, n, Preserving(t, n, s), decides)
ProveMatch(t, n, s, decides) ==
    IF ~Known(n.src, s) THEN Throws
    ELSE IF IsCall(n.src) THEN AfterCall(t, n, Returning(n, s, decides), decides)
    ELSE ProveArms(t, n, s, decides)

(***************************************************************************)
(* If and Rely.                                                            *)
(***************************************************************************)
(* A plausible slip: the condition is assumed on both sides. *)
ProveIfAlike(n, s, c) ==
    Below(<<ProveItem(n.then, Push(s, c)), ProveItem(n.else, Push(s, c))>>)
ProveIf(n, s, c) ==
    Below(<<ProveItem(n.then, Push(s, c)), ProveItem(n.else, Push(s, AllOver(s) \ c))>>)
ProveRely(t, n, s, c, decides) ==
    IF ~t.check_none THEN Below(<<ProveItem(n.body, Push(s, c))>>)
    ELSE IF z3_check_unsat(s, c, decides) = "True" THEN Below(<<ProveItem(n.body, s)>>)
    ELSE Verdict(FALSE)
(* The condition of an if or the property of a rely, where it holds. *)
Tested(n) == IF n.k = "if" THEN n.cond ELSE n.prop
ProveTested(t, n, s, c, decides) ==
    IF ~Known(Tested(n), s) THEN Throws
    ELSE IF n.k = "if" THEN ProveIf(n, s, c) ELSE ProveRely(t, n, s, c, decides)

prove_by_traverse(t, item, decides) ==
    LET n == item.n IN
    CASE n = None              -> ProveNone(t, item.s, decides)
      [] IsOp(n, "Some")       -> ProveSome(t, n.e[1], item.s, decides)
      [] IsCall(n)             -> Using({n.op}, ProveTail(t, n, item.s, decides))
      [] n.k = "match"         ->
            Using(IF IsCall(n.src) THEN {n.src.op} ELSE {}, ProveMatch(t, n, item.s, decides))
      [] n.k \in {"if", "rely"} ->
            ProveTested(t, n, item.s, Where(z3_eval(Tested(n), item.s, decides), item.s), decides)
      [] OTHER                 -> Verdict(TRUE)

(***************************************************************************)
(* What a check starts from.                                               *)
(***************************************************************************)
AllOf(ns, s) == {e \in AllOver(s) : \A n \in ns : z3_eval(n, s, TRUE)[e] = BV(TRUE)}
PreOf(t) == IF t.name \in DOMAIN PreCond THEN {PreCond[t.name]} ELSE {}
Fresh(t) == DeclareAll(NewState(t.envs), Defs[t.name].args)

(* The invariant, its precondition, the axioms and the verified invariants *)
(* are conditions of the path, the lemmas facts of the state.              *)
check_inv_by_path(t) ==
    add_induction(Push(Fresh(t), AllOf({t.goal} \cup PreOf(t) \cup ToSet(t.axioms) \cup ToSet(t.verified),
                                       Fresh(t))),
                  AllOf(ToSet(t.lemmas), Fresh(t)))
check_loop_inv_v2(t) ==
    add_induction(Push(Fresh(t), AllOf(PreOf(t), Fresh(t))), AllOf(ToSet(t.lemmas), Fresh(t)))
(* The precondition is evaluated and not assumed. *)
check_pre_post(t) == Fresh(t)
===============================================================================
