---------------------------- MODULE MCQueryCache ----------------------------
(***************************************************************************)
(* QueryCache over four worlds and six formulas.  The goals are chosen so  *)
(* that keys really are shared: a path query whose last condition is the   *)
(* condition of another query (a /\ b against b under a), an EvalState     *)
(* copy of a ProveState query, one formula twice on a path, the same path  *)
(* under other lemmas in another proof and in the same one, and the same   *)
(* query at two timeouts.                                                  *)
(***************************************************************************)
EXTENDS QueryCache

CONSTANTS a, b, notA, call, lemma, post

MCFormulas == {a, b, notA, call, lemma, post}

MCWorlds == 1..4

MCHolds == [f \in MCFormulas |->
    CASE f = a -> {1, 2}
      [] f = notA -> {3, 4}
      [] f = b -> {1, 2, 3}
      [] f = call -> {1, 3}
      [] f = lemma -> {1, 2, 4}
      [] f = post -> {2, 3, 4}]

MCHashOf == [f \in MCFormulas |->
    CASE f = a -> 10 [] f = notA -> 40 [] f = b -> 30
      [] f = call -> 20 [] f = lemma -> 60 [] f = post -> 50]

MCMaxHash == 100

\* Z3_TIMEOUT and Z3_VERIFY_TIMEOUT, where the call sites pass them.
MCTimeouts == [fn \in Calls |->
    CASE fn = "z3_check" -> {1}
      [] fn \in {"z3_check_state", "z3_check_unsat"} -> {1, 5000}
      [] fn \in {"z3_verify", "z3_verify_state_sat"} -> {5000}]

Path(s) == [f \in MCFormulas |-> IF f \in s THEN 1 ELSE 0]

Plain(conds, cond, t) ==
    [conds |-> conds, lemmas |-> {}, cond |-> cond, timeout |-> t, prover |-> FALSE]

Prove(conds, lemmas, cond, t) ==
    [conds |-> conds, lemmas |-> lemmas, cond |-> cond, timeout |-> t, prover |-> TRUE]

Evaluate(conds, lemmas, cond, t) ==
    [Prove(conds, lemmas, cond, t) EXCEPT !.prover = FALSE]

\* The transformer: an If under a, a Match arm closed by notA, and the If again.
Transform1 ==
    { Plain(Path({}), a, 1), Plain(Path({a}), b, 1), Plain(Path({a, b}), NoCond, 1),
      Plain(Path({a}), notA, 1), Plain(Path({a, notA}), NoCond, 1) }

Transform2 ==
    { Plain(Path({b}), a, 1), Plain(Path({a}), b, 1), Plain(Path({notA}), b, 1) }

\* The prover: a condition evaluated and then decided with the same timeout, a
\* dead path and a goal under the rest of it, a formula twice on a path, and the
\* same condition after an abstract call that replaced the lemmas: one that put
\* its tester on the path, and a primitive that left the path as it was.
Proof1 ==
    { Prove(Path({}), {lemma}, a, 1), Evaluate(Path({}), {lemma}, a, 1),
      Prove(Path({a, notA}), {lemma}, NoCond, 5000), Prove(Path({a}), {lemma}, notA, 5000),
      Evaluate(Path({b, call}), {post}, notA, 1),
      Prove([Path({b, call}) EXCEPT ![call] = 2], {lemma}, notA, 1),
      Prove(Path({b}), {lemma}, a, 1), Prove(Path({b}), {post}, a, 1) }

Proof2 ==
    { Prove(Path({}), {post}, a, 1), Evaluate(Path({a}), {post}, call, 1),
      Prove(Path({a}), {post}, call, 1), Prove(Path({b, call}), {lemma}, notA, 1),
      Prove(Path({a}), {post}, b, 5000), Prove(Path({a, b}), {post}, NoCond, 5000) }

MCTransforms == {Transform1, Transform2}

MCProofs == {Proof1, Proof2}
=============================================================================
