------------------------------- MODULE Simulation ------------------------------
(***************************************************************************)
(* simulate_by_traverse and forward_simulation (optimizations/             *)
(* simulate.cpp): two runs of one body from related states, the second     *)
(* over names of its own.  The first run is walked path by path; at each   *)
(* state it returns the second is walked, along the same path where the    *)
(* branches are marked, along every path the solver leaves elsewhere.      *)
(*                                                                         *)
(* A path counts the arm of every match, from 0, and 1 or 0 of every if.   *)
(***************************************************************************)
EXTENDS PathProver

RECURSIVE formulate_relation(_, _, _)
RECURSIVE RunArm(_, _, _, _)
RECURSIVE check_hprop_by_path(_)
RECURSIVE Related(_, _)
RECURSIVE build_simulate_spec(_)
RECURSIVE SpecMatch(_, _, _, _)
RECURSIVE SpecVisit(_, _, _)
RECURSIVE ImplSome(_, _, _, _)
RECURSIVE ImplMatch(_, _, _)
RECURSIVE ImplVisit(_, _, _)

(***************************************************************************)
(* The second run: the names of states, and no others, are renamed.        *)
(***************************************************************************)
get_sim_name(x) == Suffixed(x, "_sim")
build_simulate_spec(n) ==
    LET m == IF n.k = "sym" THEN (IF SortOf(n) = "S" THEN [n EXCEPT !.x = get_sim_name(@)] ELSE n)
             ELSE Rebuild(n, Each(build_simulate_spec, Kids(n)))
    IN  IF is_determ_branch(n) THEN m ELSE m @@ [determ |-> FALSE]

formulate_relation(rel, st_spec, st_impl) ==
    subst_v2(rel.body, rel.args[1] :> st_spec @@ rel.args[2] :> st_impl)

(***************************************************************************)
(* The states of the arms of a match, as both traversals make them: what   *)
(* a callee promises takes the place of its result, where it is specified. *)
(***************************************************************************)
RunArm(n, p, s, decides) ==
    IF IsCall(n.src) /\ n.src.op \in DOMAIN (IF n.src.op \in Loops THEN LoopInvs ELSE PostCond)
    THEN Promised(Promise(n.src.op, n.src.e), n.src.op, p, s, decides)
    ELSE resolve_pattern(p, z3_eval(n.src, s, decides), s)
SourceFails(n, s, decides) == IsCall(n.src) /\ PreFails(n.src.op, n.src.e, s, decides)

(***************************************************************************)
(* simulate_by_traverse.                                                   *)
(***************************************************************************)
SpecItem(n, s, p, det) == [kind |-> "spec", n |-> n, s |-> s, p |-> p, det |-> det]
ImplItem(n, s, p, i, det, check) ==
    [kind |-> "impl", n |-> n, s |-> s, p |-> p, i |-> i, det |-> det, check |-> check]

SpecMatch(n, s, item, decides) ==
    IF ~Known(n.src, s) THEN Throws
    ELSE IF SourceFails(n, s, decides) THEN Verdict(FALSE)
    ELSE Below([i \in DOMAIN n.arms |->
            SpecItem(n.arms[i].body, RunArm(n, n.arms[i].pattern, s, decides),
                     Append(item.p, i - 1), item.det)])

SpecTested(n, item, c) ==
    IF n.k = "rely" THEN Below(<<SpecItem(n.body, Push(item.s, c), item.p, item.det)>>)
    ELSE Below(<<SpecItem(n.then, Push(item.s, c), Append(item.p, 1), item.det),
                 SpecItem(n.else, Push(item.s, AllOver(item.s) \ c), Append(item.p, 0), item.det)>>)

(* impl: the body of the second run. *)
SpecVisit(item, impl, decides) ==
    LET n == item.n
        s == item.s
    IN CASE IsOp(n, "Some") /\ n.e[1].k \in {"expr", "sym"} ->
              Below(<<ImplItem(impl, s, item.p, 1, item.det, ReturnedState(n.e[1]))>>)
         [] n.k = "match" -> SpecMatch(n, s, item, decides)
         [] n.k \in {"if", "rely"} ->
              IF ~Known(Tested(n), s) THEN Throws
              ELSE SpecTested(n, item, Where(z3_eval(Tested(n), s, decides), s))
         [] OTHER -> Verdict(TRUE)

(***************************************************************************)
(* forward_simulation: item.check is the state the first run returned,     *)
(* item.p its path.  A read past the end of the path is undefined.         *)
(***************************************************************************)
(* A plausible slip: the first run's path is followed at every branch. *)
FollowsAll(item, n) == item.det
Follows(item, n) == item.det /\ is_determ_branch(n)

ImplSome(item, payload, rel, decides) ==
    Asked(formulate_relation(rel, item.check, ReturnedState(payload)), item.s, decides)

ArmsTaken(item, states, decides) ==
    LET n == item.n
        Taken(i) == IF Follows(item, n.src) THEN item.p[item.i] = i - 1
                    ELSE z3_verify_state_sat(states[i], decides) # "False"
    IN  Below(Each(LAMBDA i : ImplItem(n.arms[i].body, states[i], item.p, item.i + 1,
                                       item.det, item.check),
                   SelectSeq([i \in DOMAIN n.arms |-> i], Taken)))
ImplMatch(item, rel, decides) ==
    LET n == item.n
    IN  IF ~Known(n.src, item.s) THEN Throws
        ELSE IF SourceFails(n, item.s, decides) THEN Verdict(FALSE)
        ELSE IF Follows(item, n.src) /\ item.i > Len(item.p) THEN Throws
        ELSE ArmsTaken(item, [i \in DOMAIN n.arms |-> RunArm(n, n.arms[i].pattern, item.s, decides)],
                       decides)

ImplIf(item, c, decides) ==
    LET n == item.n
        s == item.s
        On(m, state, det) == ImplItem(m, state, item.p, item.i + 1, det, item.check)
        sure == IF Follows(item, n.cond) THEN item.p[item.i] = 1
                ELSE z3_check_unsat(s, c, decides) = "True"
    IN  IF Follows(item, n.cond) /\ item.i > Len(item.p) THEN Throws
        ELSE IF sure THEN Below(<<On(n.then, Push(s, c), item.det)>>)
        ELSE IF Follows(item, n.cond) THEN Below(<<On(n.else, Push(s, AllOver(s) \ c), item.det)>>)
        ELSE Below(<<On(n.then, Push(s, c), FALSE), On(n.else, Push(s, AllOver(s) \ c), FALSE)>>)

ImplTested(item, c, decides) ==
    IF item.n.k = "if" THEN ImplIf(item, c, decides)
    ELSE Below(<<[item EXCEPT !.n = item.n.body, !.s = Push(@, c)]>>)

ImplVisit(item, rel, decides) ==
    LET n == item.n IN
    CASE IsOp(n, "Some") /\ n.e[1].k \in {"expr", "sym"} -> ImplSome(item, n.e[1], rel, decides)
      [] n.k = "match" -> ImplMatch(item, rel, decides)
      [] n.k \in {"if", "rely"} ->
            IF ~Known(Tested(n), item.s) THEN Throws
            ELSE ImplTested(item, Where(z3_eval(Tested(n), item.s, decides), item.s), decides)
      [] OTHER -> Verdict(TRUE)

(***************************************************************************)
(* check_hprop_by_path: the start of two related runs.  The precondition   *)
(* is assumed of the first, the invariants of both.                        *)
(***************************************************************************)
EndRelation(t) == IF t.end_rel = {} THEN t.rel ELSE CHOOSE r \in t.end_rel : TRUE
Related(rel, s) == Where(z3_eval(formulate_relation(rel, Sym(st), Sym(get_sim_name(st))), s, TRUE), s)
check_hprop_by_path(t) ==
    LET s == Declare(Fresh(t), get_sim_name(st))
        both == ToSet(t.verified) \cup {build_simulate_spec(n) : n \in ToSet(t.verified)}
    IN  add_induction(
            Push(s, {e \in AllOf(PreOf(t) \cup both \cup ToSet(t.axioms), s) :
                        \A rel \in {t.rel} \cup ToSet(t.weak) : e \in Related(rel, s)}),
            AllOf(ToSet(t.lemmas), s))

(***************************************************************************)
(* decompose: t.parts are the conjuncts of the relation.  One whose cone   *)
(* lies within the fields of all of them is taken to be kept by any two    *)
(* runs; the check is made for the others, those an earlier definition     *)
(* left (t.unverified) included, or not at all.  The relations of the end  *)
(* replace those of the start: target_relation is a reference to them.     *)
(***************************************************************************)
target_relation(t) == IF t.end_parts = <<>> THEN t.parts ELSE t.end_parts
Whole(parts) ==
    [args |-> parts[1].args,
     body |-> FoldLeft(LAMBDA acc, r : Expr("AND", <<r.body, acc>>), BoolC(TRUE), parts)]
public_ret(t) ==
    {c \in UNION {analyze_invariant_fields(r.body) : r \in ToSet(t.parts)} :
        c # <<>> /\ c[1] \notin t.not_public}
CannotBreak(t, r) ==
    \A c \in Cone(Defs[t.name], collect_init_nodes_in(Defs[t.name].body, <<>>),
                  analyze_invariant_fields(r.body), <<>>, {}) :
        c[1] \in t.ignored \/ \E p \in public_ret(t) : contains_field(c, p)
unverified_relations(t) ==
    t.unverified \cup {r \in ToSet(target_relation(t)) : ~CannotBreak(t, r)}
ToVerify(t) == SelectSeq(target_relation(t), LAMBDA r : r \in unverified_relations(t))
===============================================================================
