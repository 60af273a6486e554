---------------------------- MODULE SpecTransformer ----------------------------
(***************************************************************************)
(* The two drivers that turn a definition's body into its high-level       *)
(* specification (optimizations/projection.cpp): spec_transformer, rule    *)
(* group by rule group, and spec_transformer_v2, around partial_eval.      *)
(* Each repeats its passes until a round reports no change.                *)
(***************************************************************************)
EXTENDS PartialEval

CONSTANTS
    Inputs,         \* the definitions: [name, args, body, pre, driver, unfold]
    Fixpoints,      \* the recursive definitions among Defs
    Blocked,        \* the names of cmds.NoUnfold that cmds.Unfold does not have
    Located,        \* the definitions whose symbol has a file
    SkipList,       \* UNFOLD_POLICY.skip_list
    LoopUnroll,     \* cmds.LoopUnroll: name -> how often
    ForcesSimpl     \* the definitions whose unfolding sets force_simpl

VARIABLES
    def,            \* the definition as it was
    body,           \* def->body
    pc,             \* the pass to run next
    at,             \* the rule of the group to run next
    this_changed,   \* this round of the group reported a change
    changed,        \* this round reported a change
    force_simpl,    \* the global of that name
    unfold_count,   \* the global of that name
    policy          \* UNFOLD_POLICY: [skip, current, unrolled]

vars == <<def, body, pc, at, this_changed, changed, force_simpl, unfold_count, policy>>

RECURSIVE UnfoldWalk(_, _)

Args == ToSet(def.args)

(***************************************************************************)
(* rule_unfold_specs: the calls of a tree in the order of rec_apply; after *)
(* a definition that has a file, no further one.                           *)
(***************************************************************************)
Unfoldable(n, st) ==
    /\ ~st.unfolded
    /\ n.k = "expr" /\ n.op \in DOMAIN Defs
    /\ n.op \notin Blocked
    /\ n.op \in Fixpoints => n.op = st.policy.current

(* The permission to unroll a loop is used up before the skip list is asked. *)
LoopMet(n, st) ==
    IF n.op \in Fixpoints THEN [st EXCEPT !.force = TRUE, !.policy.current = "none"] ELSE st

Skipped(n, st) == st.policy.skip /\ n.op \in SkipList

(* The call's arguments bound around the body.  The body of the definition *)
(* that is being transformed has been moved away; the call itself is used. *)
Unfolded(n) ==
    LET d    == Defs[n.op]
        copy == IF n.op \in Fixpoints THEN n ELSE d.body
    IN CASE n.e = <<>>     -> copy
         [] Len(n.e) = 1   -> Let(d.args[1], n.e[1], copy)
         [] OTHER          -> Match(Expr("Tuple", n.e),
                                    <<Arm(Expr("Tuple", [i \in DOMAIN d.args |-> Sym(d.args[i])]),
                                          copy)>>)

AfterUnfold(n, st) ==
    [st EXCEPT !.unfolded = n.op \in Located,
               !.changed  = TRUE,
               !.count    = @ + 1,
               !.force    = @ \/ n.op \in ForcesSimpl \/ (st.count + 1) % 50 = 0]

UnfoldHere(n, st) ==
    IF ~Unfoldable(n, st) THEN [n |-> n, st |-> st]
    ELSE LET met == LoopMet(n, st)
         IN  IF Skipped(n, st) THEN [n |-> n, st |-> met]
             ELSE [n |-> Unfolded(n), st |-> AfterUnfold(n, met)]

UnfoldEach(nodes, st) ==
    FoldLeft(LAMBDA acc, m : LET r == UnfoldWalk(m, acc.st)
                             IN  [new |-> Append(acc.new, r.n), st |-> r.st],
             [new |-> <<>>, st |-> st], nodes)

(* A forall's hypotheses come before its body; those of an exists are passed over. *)
UnfoldHypos(n, st) ==
    IF n.k # "forall" THEN [n |-> n, st |-> st]
    ELSE FoldLeft(LAMBDA acc, i : LET r == UnfoldEach(n.vars[i].hypo, acc.st)
                                  IN  [n |-> [acc.n EXCEPT !.vars[i].hypo = r.new], st |-> r.st],
                  [n |-> n, st |-> st], [i \in 1..Len(n.vars) |-> i])

UnfoldWalk(n, st) ==
    LET hyp  == UnfoldHypos(n, st)
        kids == UnfoldEach(Kids(n), hyp.st)
    IN  UnfoldHere(Rebuild(hyp.n, kids.new), kids.st)

rule_unfold_specs ==
    UnfoldWalk(body, [unfolded |-> FALSE, changed |-> FALSE, count |-> unfold_count,
                      force |-> force_simpl, policy |-> policy])

(***************************************************************************)
(* The state in which a definition is evaluated: its arguments, under its  *)
(* preconditions.                                                          *)
(***************************************************************************)
ArgState == FoldLeft(Declare, EvalState, def.args)
PreState == [ArgState EXCEPT !.conds = {e \in Envs : \A p \in ToSet(def.pre) : Denote(p, e).b}]

Init ==
    /\ def \in Inputs
    /\ body = def.body
    /\ pc = IF def.driver = "v1" THEN "group1" ELSE "partial_eval"
    /\ at = 1
    /\ this_changed = FALSE
    /\ changed = FALSE
    /\ force_simpl \in BOOLEAN
    /\ unfold_count = 0
    /\ policy = [skip |-> def.driver = "v2", current |-> "none", unrolled |-> 0]

(***************************************************************************)
(* spec_transformer.                                                       *)
(***************************************************************************)
(* One rule of a group; rule_eliminate_let is preceded by eliminate_ambiguity. *)
Reported(r, ch) ==
    /\ body' = r.n
    /\ this_changed' = (this_changed \/ ch \/ r.ch)
    /\ changed' = (changed \/ ch \/ r.ch)
ApplyTo(id, clear) == Reported(ApplyRule(id, clear), clear # body)
RunRule(rules) ==
    /\ at <= Len(rules)
    /\ ApplyTo(rules[at], IF rules[at] = "rule_eliminate_let" THEN eliminate_ambiguity(body, Args)
                                                              ELSE body)
    /\ at' = at + 1
    /\ UNCHANGED <<def, pc, force_simpl, unfold_count, policy>>

(* A plausible slip: the next round starts before the first rule. *)
NextRoundFromZero(rules, next) ==
    /\ at > Len(rules)
    /\ pc' = IF this_changed THEN pc ELSE next
    /\ at' = 0
    /\ this_changed' = FALSE
NextRound(rules, next) ==
    /\ at > Len(rules)
    /\ pc' = IF this_changed THEN pc ELSE next
    /\ at' = 1
    /\ this_changed' = FALSE

Group1Rule == pc = "group1" /\ RunRule(RulesGroup1)
Group1Round ==
    /\ pc = "group1"
    /\ NextRound(RulesGroup1, "unfold")
    /\ UNCHANGED <<def, body, changed, force_simpl, unfold_count, policy>>

UnfoldTo(r, n) ==
    /\ body' = n
    /\ changed' = (changed \/ r.st.changed)
    /\ force_simpl' = r.st.force
    /\ unfold_count' = r.st.count
    /\ policy' = r.st.policy
UnfoldClear(r) == UnfoldTo(r, IF r.st.changed THEN eliminate_ambiguity(r.n, Args) ELSE r.n)
UnfoldSpecs ==
    /\ pc = "unfold"
    /\ IF def.unfold THEN UnfoldClear(rule_unfold_specs)
       ELSE UNCHANGED <<body, changed, force_simpl, unfold_count, policy>>
    /\ pc' = "group2"
    /\ UNCHANGED <<def, at, this_changed>>

Group2Rule == pc = "group2" /\ RunRule(RulesGroup2)
(* The group's loop body ends with rule_simplify_expr. *)
LastRule(r) ==
    /\ body' = r.n
    /\ changed' = (changed \/ r.ch)
    /\ pc' = IF this_changed \/ r.ch THEN pc ELSE "z3"
Group2Round ==
    /\ pc = "group2" /\ at > Len(RulesGroup2)
    /\ LastRule(ApplyRule("rule_simplify_expr", body))
    /\ at' = 1
    /\ this_changed' = FALSE
    /\ UNCHANGED <<def, force_simpl, unfold_count, policy>>

SimpleByZ3(state, decides) ==
    IF force_simpl THEN rule_simple_by_z3(body, state, decides) ELSE Kept(body)

(* The solver, and whether the round is the last. *)
RoundEnds(r) ==
    /\ body' = r.n
    /\ pc' = IF r.n = Null THEN "crashed" ELSE IF changed \/ r.ch THEN "group1" ELSE "done"
Z3Pass ==
    /\ pc = "z3"
    /\ \E decides \in BOOLEAN : RoundEnds(SimpleByZ3(ArgState, decides))
    /\ changed' = FALSE
    /\ UNCHANGED <<def, at, this_changed, force_simpl, unfold_count, policy>>

(***************************************************************************)
(* spec_transformer_v2.                                                    *)
(***************************************************************************)
Evaluated(n) ==
    IF HasDiverged(n) THEN pc' = "diverged" /\ body' = body ELSE pc' = "unfold_v2" /\ body' = n
PartialEvaluate ==
    /\ pc = "partial_eval"
    /\ Evaluated(partial_eval(body))
    /\ changed' = FALSE
    /\ force_simpl' = FALSE
    /\ UNCHANGED <<def, at, this_changed, unfold_count, policy>>

(* this_changed holds what the code calls __unfold. *)
UnfoldV2(r) == UnfoldTo(r, r.n) /\ this_changed' = r.st.changed
UnfoldSpecsV2 ==
    /\ pc = "unfold_v2"
    /\ IF def.unfold THEN UnfoldV2(rule_unfold_specs)
       ELSE /\ this_changed' = FALSE
            /\ UNCHANGED <<body, changed, force_simpl, unfold_count, policy>>
    /\ pc' = "rewrite_v2"
    /\ UNCHANGED <<def, at>>

(* eliminate_ambiguity, rule_eliminate_let, rule_eliminate_when. *)
WhensGone(r, ch) == body' = r.n /\ changed' = (changed \/ ch \/ r.ch)
LetsGone(r, ch) == WhensGone(ApplyRule("rule_eliminate_when", r.n), ch \/ r.ch)
Cleared(n) == LetsGone(ApplyRule("rule_eliminate_let", n), n # body)
RewriteV2 ==
    /\ pc = "rewrite_v2"
    /\ Cleared(eliminate_ambiguity(body, Args))
    /\ pc' = "z3_v2"
    /\ UNCHANGED <<def, at, this_changed, force_simpl, unfold_count, policy>>

Simplified(r) ==
    /\ body' = r.n
    /\ changed' = (changed \/ r.ch)
    /\ pc' = IF r.n = Null THEN "crashed" ELSE "decide_v2"
Z3PassV2 ==
    /\ pc = "z3_v2"
    /\ IF force_simpl \/ ~this_changed
       THEN /\ force_simpl' = TRUE
            /\ \E decides \in BOOLEAN : Simplified(rule_simple_by_z3(body, PreState, decides))
       ELSE pc' = "decide_v2" /\ UNCHANGED <<body, changed, force_simpl>>
    /\ UNCHANGED <<def, at, this_changed, unfold_count, policy>>

(* The policy gives way in two stages before the loop ends. *)
RequireUnroll == def.name \in DOMAIN LoopUnroll /\ policy.unrolled < LoopUnroll[def.name]
(* A plausible slip: the skipped definitions stay skipped and the loop waits for them. *)
DecideV2Skipping ==
    /\ pc = "decide_v2"
    /\ pc' = IF changed \/ policy.skip THEN "partial_eval" ELSE "done"
    /\ UNCHANGED <<def, body, at, this_changed, changed, force_simpl, unfold_count, policy>>
DecideV2 ==
    /\ pc = "decide_v2"
    /\ CASE changed -> pc' = "partial_eval" /\ UNCHANGED policy
         [] ~changed /\ policy.skip ->
               pc' = "partial_eval" /\ policy' = [policy EXCEPT !.skip = FALSE]
         [] ~changed /\ ~policy.skip /\ policy.current # "none" ->
               pc' = "done" /\ policy' = [policy EXCEPT !.current = "none"]
         [] ~changed /\ ~policy.skip /\ policy.current = "none" /\ RequireUnroll ->
               /\ pc' = "partial_eval"
               /\ policy' = [policy EXCEPT !.current = def.name, !.unrolled = @ + 1]
         [] OTHER -> pc' = "done" /\ UNCHANGED policy
    /\ UNCHANGED <<def, body, at, this_changed, changed, force_simpl, unfold_count>>

Running == pc \notin {"done", "crashed", "diverged"}
Stopped == ~Running /\ UNCHANGED vars

Next ==
    \/ Group1Rule \/ Group1Round \/ UnfoldSpecs \/ Group2Rule \/ Group2Round \/ Z3Pass
    \/ PartialEvaluate \/ UnfoldSpecsV2 \/ RewriteV2 \/ Z3PassV2 \/ DecideV2
    \/ Stopped

Spec == Init /\ [][Next]_vars
(* The loop runs in one thread and nothing waits: WF_vars(Next), with Running *)
(* for ENABLED <<Next>>_vars, which would evaluate every rule once more.      *)
FairSpec == Spec /\ ([]<>~Running \/ []<><<Next>>_vars)

-------------------------------------------------------------------------------
TypeOK ==
    /\ pc \in {"group1", "unfold", "group2", "z3", "partial_eval", "unfold_v2", "rewrite_v2",
               "z3_v2", "decide_v2", "done", "crashed", "diverged"}
    /\ at \in 1..(Len(RulesGroup1) + 1)
    /\ {this_changed, changed, force_simpl, policy.skip} \subseteq BOOLEAN
    /\ unfold_count \in Nat

(* The environments the definition may be called in. *)
Callable == IF def.driver = "v1" THEN Envs ELSE PreState.conds

(* Every pass keeps what the definition computes, in every environment its *)
(* preconditions allow: a capture, a wrong equation, an arm the solver was *)
(* wrong about or an unfolding with the wrong argument would change it.    *)
MeaningPreserved ==
    body # Null /\ FreeNames(body) \subseteq Args =>
        \A e \in Callable : Denote(body, e) = Denote(def.body, e)

(* No pass leaves a variable outside its binder, or brings one in. *)
NoFreeNames == body # Null => FreeNames(body) \subseteq Args

(* The solver's simplification never leaves the driver without a tree for *)
(* the next pass to read.                                                 *)
NeverLosesBody == pc # "crashed"

(* partial_eval never calls itself with the node it was called with. *)
EvaluationEnds == pc # "diverged"

(* The driver stops: the rules do not undo each other forever, and every *)
(* delayed unfolding is let through in the end.                          *)
Terminates == <>(pc \in {"done", "crashed"})
===============================================================================
