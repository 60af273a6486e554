------------------------------- MODULE Contracts -------------------------------
(***************************************************************************)
(* What a function promises and asks for: preconditions, postconditions    *)
(* and loop invariants (optimizations/z3_utils.cpp and symbolic.cpp), put  *)
(* in the words of a call, and assumed of the names its result is given.   *)
(***************************************************************************)
EXTENDS ProofEval

CONSTANTS
    PreCond, PostCond,  \* cmds.PreCond, cmds.PostCond: function -> conjunction
    LoopInvs,           \* loop_invs: loop -> conjunction
    PreserveInv,        \* cmds.PreserveInv: the functions said to keep the invariants
    Returned            \* how many values a function returns, its state with them

RECURSIVE check_states_implies_pre_condition(_, _, _, _)
RECURSIVE formulate_post_condition(_, _)
RECURSIVE formulate_loop_invariant(_, _)
RECURSIVE Promise(_, _)
RECURSIVE PromiseAt(_, _)
RECURSIVE formulate_preserved_function(_, _, _)
RECURSIVE extract_st_from_expr(_)
RECURSIVE instantiate_prop(_, _)

st == N("st")
Suffixed(x, suffix) == <<x[1] \o suffix, x[2]>>
IsCall(n) == n.k = "expr" /\ n.op \in DOMAIN Defs

(* The arguments of a call by the names the callee gives them. *)
Actuals(f, args) ==
    [x \in ToSet(Defs[f].args) |-> args[CHOOSE i \in DOMAIN args : Defs[f].args[i] = x]]

(***************************************************************************)
(* The precondition of a callee, which the path has to imply.              *)
(***************************************************************************)
PreOfCall(f, args) == subst_v2(PreCond[f], Actuals(f, args))
check_states_implies_pre_condition(f, args, s, decides) ==
    z3_check_unsat(s, Where(z3_eval(PreOfCall(f, args), s, decides), s), decides) = "True"

(***************************************************************************)
(* The promise of a callee over the names of its result: f_ret_0, ... and  *)
(* f_st_new_ of a definition, f_x_new of the argument x of a loop.         *)
(***************************************************************************)
ReturnNames(f) ==
    [i \in 1..Returned[f] |-> IF i = Returned[f] THEN N(f \o "_st_new_") ELSE <<f \o "_ret", i - 1>>]
formulate_post_condition(f, args) ==
    LET rets == [x \in {<<"_ret", i - 1>> : i \in 1..(Returned[f] - 1)} |-> Sym(<<f \o "_ret", x[2]>>)]
        last == Last(Defs[f].args)
        old  == [x \in ToSet(Front(Defs[f].args)) |-> Actuals(f, args)[x]]
    IN  subst_v2(PostCond[f], rets @@ st :> Sym(Last(ReturnNames(f)))
                                @@ N("st_old") :> Actuals(f, args)[last] @@ old)

LoopNames(f) == [i \in DOMAIN Defs[f].args |-> Suffixed(Defs[f].args[i], "_new")]
NamesOfLoop(f) == [i \in DOMAIN LoopNames(f) |-> <<f \o "_" \o LoopNames(f)[i][1], LoopNames(f)[i][2]>>]
formulate_loop_invariant(f, args) ==
    LET args_of == Defs[f].args
        new == [x \in ToSet(args_of) |->
                  Sym(NamesOfLoop(f)[CHOOSE i \in DOMAIN args_of : args_of[i] = x])]
        old == [x \in {Suffixed(y, "_old") : y \in ToSet(args_of)} |->
                  args[CHOOSE i \in DOMAIN args_of : Suffixed(args_of[i], "_old") = x]]
    IN  subst_v2(LoopInvs[f], new @@ old)

(***************************************************************************)
(* What a call promises, with the names of the result it is about: for a   *)
(* function with a loop invariant or a postcondition, and for no other.    *)
(***************************************************************************)
Promise(f, args) ==
    CASE f \in Loops /\ f \in DOMAIN LoopInvs ->
            {[prop |-> formulate_loop_invariant(f, args), names |-> NamesOfLoop(f)]}
      [] f \notin Loops /\ f \in DOMAIN PostCond ->
            {[prop |-> formulate_post_condition(f, args), names |-> ReturnNames(f)]}
      [] OTHER -> {}

(* The callees whose precondition is looked at. *)
PreChecked(f) ==
    /\ f \in DOMAIN PreCond
    /\ f \in Loops => f \in DOMAIN LoopInvs

(***************************************************************************)
(* The promise put on the names an arm gives the result.  The names are    *)
(* declared as constants of their own: nothing ties them to the call.      *)
(***************************************************************************)
Takes(p, f) == IsOp(p, "Some") /\ (IsOp(p.e[1], "Tuple") \/ Returned[f] = 1)
ResultSymbols(p) == IF IsOp(p.e[1], "Tuple") THEN p.e[1].e ELSE <<p.e[1]>>
Renaming(names, results) ==
    [x \in {names[i] : i \in {j \in DOMAIN results : results[j].k = "sym"}} |->
        results[CHOOSE i \in DOMAIN results : names[i] = x]]
PromiseAt(promise, p) ==
    subst_v2(promise.prop,
             Renaming(IF IsOp(p.e[1], "Tuple") THEN promise.names ELSE <<Last(promise.names)>>,
                      ResultSymbols(p)))
Suppose(n, s, decides) == Push(s, Where(z3_eval(n, s, decides), s))
ResultDeclared(p, s) ==
    DeclareAll(s, Each(LAMBDA m : m.x, SelectSeq(ResultSymbols(p), LAMBDA m : m.k = "sym")))
Promised(promises, f, p, s, decides) ==
    IF promises # {} /\ Takes(p, f)
    THEN Suppose(PromiseAt(CHOOSE q \in promises : TRUE, p), ResultDeclared(p, s), decides)
    ELSE s

(***************************************************************************)
(* A function said to keep the invariants: that it does is assumed, for    *)
(* every argument and every state.                                         *)
(***************************************************************************)
formulate_preserved_function(f, invs, s) ==
    LET StillHolds(e) ==
            LET at == At(s, e)
                r == Denote(Expr(f, [i \in DOMAIN Defs[f].args |-> Sym(Defs[f].args[i])]), at)
                Holds(env) == \A n \in invs : Denote(n, env) = BV(TRUE)
            IN  Holds(at) /\ r.t = "Some" => Holds((st :> r.v) @@ at)
    IN  {e \in AllOver(s) : \A g \in AllOver(s) : StillHolds(g)}

(***************************************************************************)
(* The state an expression hands on, and the state a call starts in.       *)
(***************************************************************************)
extract_st_from_expr(n) ==
    CASE n.k = "sym" -> IF SortOf(n) = "S" THEN {n} ELSE {}
      [] IsOp(n, "Some") -> extract_st_from_expr(n.e[1])
      [] IsOp(n, "Tuple") ->
            LET found == SelectSeq(n.e, LAMBDA m : extract_st_from_expr(m) # {})
            IN  IF found = <<>> THEN {} ELSE extract_st_from_expr(found[1])
      [] IsCall(n) -> extract_st_from_expr(Last(n.e))
      [] IsOp(n, "RecordSet") -> {n}
      [] OTHER -> {}
abst_transition(n) == IsCall(n)

(* The name of the state replaced wherever it occurs, under binders too. *)
instantiate_prop(n, state) ==
    IF n = Sym(st) THEN state
    ELSE Rebuild(n, Each(LAMBDA kid : instantiate_prop(kid, state), Kids(n)))
===============================================================================
