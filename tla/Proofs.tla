--------------------------------- MODULE Proofs --------------------------------
(***************************************************************************)
(* One check of the proof stage from its goal to its answer: the cone of   *)
(* the goal, the reduction of the body to it, the marks of the branches,   *)
(* and the traversal.  The checks are check_inv_by_path (mode "SYS"),      *)
(* check_loop_inv_v2 ("LOOP"), check_pre_post ("PREPOST") and              *)
(* check_hprop_by_path ("REL"), which decompose may put off or narrow.     *)
(*                                                                         *)
(* The nodes a cone starts from are a set ordered by address; the solver   *)
(* may decide a query or not.  Both are choices of an action.              *)
(***************************************************************************)
EXTENDS Simulation

CONSTANT Tasks      \* the checks, see MCProofs

VARIABLES
    task,       \* the check
    phase,      \* "decompose", "cone", "reduce", "mark", "start", "walk", "done", "thrown"
    def,        \* the copy of the definition that is reduced and marked
    coi,        \* the fields of the cone
    nodes,      \* the nodes the cone starts from that are not visited yet
    queue,      \* the nodes they led to
    work,       \* the visits left, the next one first
    used_abs,   \* the callees relied on
    answer,     \* has every visit succeeded?
    round       \* changes with every turn of the cone and of the reduction

vars == <<task, phase, def, coi, nodes, queue, work, used_abs, answer, round>>

RECURSIVE GoalHolds(_, _, _)
RECURSIVE InRelation(_, _, _, _)
RECURSIVE Supposed(_, _)
RECURSIVE SupposedBoth(_, _)
RECURSIVE FirstVisit(_)
RECURSIVE CallsOf(_)
RECURSIVE Agree(_, _, _)
RECURSIVE BoundIn(_)
RECURSIVE MatchesOf(_)

GoalFields(t) == analyze_invariant_fields(IF t.mode = "REL" THEN EndRelation(t).body ELSE t.goal)
Reduces(t) == t.coi /\ t.mode \in {"PREPOST", "REL"}
AfterCone(t) == IF t.mode = "REL" THEN "mark" ELSE "start"
FirstPhase(t) == IF Reduces(t) THEN "cone" ELSE AfterCone(t)

Init ==
    /\ task \in Tasks
    /\ def = Defs[task.name]
    /\ phase = IF task.parts # <<>> THEN "decompose" ELSE FirstPhase(task)
    /\ coi = IF phase = "cone" THEN GoalFields(task) ELSE {}
    /\ nodes = IF phase = "cone" THEN collect_init_nodes_in(def.body, <<>>) ELSE {}
    /\ queue = <<>> /\ work = <<>> /\ used_abs = {} /\ answer = TRUE /\ round = FALSE

-----------------------------------------------------------------------------
(***************************************************************************)
(* decompose.                                                              *)
(***************************************************************************)
Skip ==
    /\ phase = "decompose" /\ ToVerify(task) = <<>>
    /\ phase' = "done"
    /\ UNCHANGED <<task, def, coi, nodes, queue, work, used_abs, answer, round>>
CheckRest ==
    /\ phase = "decompose" /\ ToVerify(task) # <<>>
    /\ task' = [task EXCEPT !.rel = Whole(target_relation(task)), !.end_rel = {Whole(ToVerify(task))}]
    /\ phase' = FirstPhase(task)
    /\ coi' = IF Reduces(task) THEN GoalFields(task') ELSE {}
    /\ nodes' = IF Reduces(task) THEN collect_init_nodes_in(def.body, <<>>) ELSE {}
    /\ UNCHANGED <<def, queue, work, used_abs, answer, round>>

(***************************************************************************)
(* coi_reduction.                                                          *)
(***************************************************************************)
Spread(node) ==
    \E r \in {Visit(def, node, coi, {})} :
        /\ coi' = r.coi
        /\ queue' = (IF node \in nodes THEN queue ELSE Tail(queue)) \o SetToSeq(r.next)
        /\ nodes' = nodes \ {node}
        /\ round' = ~round
        /\ UNCHANGED <<task, phase, def, work, used_abs, answer>>
VisitInitial ==
    /\ phase = "cone"
    /\ \E node \in nodes : Spread(node)
VisitSource ==
    /\ phase = "cone" /\ nodes = {} /\ queue # <<>>
    /\ Spread(Head(queue))
ConeDone ==
    /\ phase = "cone" /\ nodes = {} /\ queue = <<>>
    /\ coi' = KeptFields(coi)
    /\ phase' = "reduce"
    /\ UNCHANGED <<task, def, nodes, queue, work, used_abs, answer, round>>

(* A plausible slip: the new body is compared with the original one. *)
ReduceFromStart ==
    /\ phase = "reduce"
    /\ \E body \in {merge_branch(hide_write(def.body, coi))} :
          /\ def' = [def EXCEPT !.body = body]
          /\ phase' = IF body = Defs[task.name].body THEN AfterCone(task) ELSE phase
    /\ round' = ~round
    /\ UNCHANGED <<task, coi, nodes, queue, work, used_abs, answer>>
Reduce ==
    /\ phase = "reduce"
    /\ \E body \in {merge_branch(hide_write(def.body, coi))} :
          /\ def' = [def EXCEPT !.body = body]
          /\ phase' = IF body = def.body THEN AfterCone(task) ELSE phase
    /\ round' = ~round
    /\ UNCHANGED <<task, coi, nodes, queue, work, used_abs, answer>>

(***************************************************************************)
(* mark_determ_branch.                                                     *)
(***************************************************************************)
PublicFields(t) == {c \in analyze_invariant_fields(t.rel.body) : c # <<>> /\ c[1] \notin t.not_public}
mark_determ_branch(d, t) ==
    Marked(d, d.body, <<>>, [prune |-> t.prune, public |-> PublicFields(t), ignored |-> t.ignored])
MarkBranches ==
    /\ phase = "mark"
    /\ \E body \in {mark_determ_branch(def, task)} : def' = [def EXCEPT !.body = body]
    /\ phase' = "start"
    /\ UNCHANGED <<task, coi, nodes, queue, work, used_abs, answer, round>>

(***************************************************************************)
(* The traversal.                                                          *)
(***************************************************************************)
FirstVisit(t) ==
    CASE t.mode = "SYS"     -> [kind |-> "prove", n |-> def.body, s |-> check_inv_by_path(t)]
      [] t.mode = "LOOP"    -> [kind |-> "prove", n |-> def.body, s |-> check_loop_inv_v2(t)]
      [] t.mode = "PREPOST" -> [kind |-> "prove", n |-> def.body, s |-> check_pre_post(t)]
      [] t.mode = "REL"     -> SpecItem(def.body, check_hprop_by_path(t), <<>>, TRUE)
Start ==
    /\ phase = "start"
    /\ work' = <<FirstVisit(task)>>
    /\ phase' = "walk"
    /\ UNCHANGED <<task, def, coi, nodes, queue, used_abs, answer, round>>

(* A plausible slip: a visit that throws leaves the others to be made. *)
TakeOn(visit) ==
    /\ work' = visit.next \o Tail(work)
    /\ answer' = (answer /\ visit.res = "ok")
    /\ used_abs' = used_abs \cup visit.used
    /\ phase' = IF visit.res = "throws" THEN "thrown" ELSE phase
    /\ UNCHANGED <<task, def, coi, nodes, queue, round>>
Take(visit) ==
    /\ work' = IF visit.res = "throws" THEN <<>> ELSE visit.next \o Tail(work)
    /\ answer' = (answer /\ visit.res = "ok")
    /\ used_abs' = used_abs \cup visit.used
    /\ phase' = IF visit.res = "throws" THEN "thrown" ELSE phase
    /\ UNCHANGED <<task, def, coi, nodes, queue, round>>

Walking(kind) == phase = "walk" /\ work # <<>> /\ Head(work).kind = kind
ProveNode ==
    /\ Walking("prove")
    /\ \E decides \in BOOLEAN :
         \E v \in {prove_by_traverse(task, Head(work), decides)} : Take(v)
SpecNode ==
    /\ Walking("spec")
    /\ \E decides \in BOOLEAN :
         \E v \in {SpecVisit(Head(work), build_simulate_spec(def.body), decides)} : Take(v)
ImplNode ==
    /\ Walking("impl")
    /\ \E decides \in BOOLEAN :
         \E v \in {ImplVisit(Head(work), EndRelation(task), decides)} : Take(v)
Answer ==
    /\ phase = "walk" /\ work = <<>>
    /\ phase' = "done"
    /\ used_abs' = used_abs \ (IF task.mode = "LOOP" THEN {task.name} ELSE {})
    /\ UNCHANGED <<task, def, coi, nodes, queue, work, answer, round>>

Next ==
    \/ Skip \/ CheckRest
    \/ VisitInitial \/ VisitSource \/ ConeDone \/ Reduce \/ MarkBranches
    \/ Start \/ ProveNode \/ SpecNode \/ ImplNode \/ Answer
Spec == Init /\ [][Next]_vars

(* A check is one sequential call: it goes on while it has a step to take. *)
Ended == phase \in {"done", "thrown"}
FairSpec == Spec /\ ([]<>Ended \/ []<><<Next>>_vars)

-----------------------------------------------------------------------------
(***************************************************************************)
(* What the goals mean.                                                    *)
(***************************************************************************)
Starts(t) == ToSet(Valuations[t.envs])
Runs(body, e) == Denote(body, e)
StateOf(v) == IF v.t = "Tuple" THEN Last(v.s) ELSE v
ValuesOf(v) == IF v.t = "Tuple" THEN v.s ELSE <<v>>
Second(e) == (st :> e[get_sim_name(st)]) @@ e

(* The goal of a run that starts in e and returns v. *)
GoalHolds(t, e, v) ==
    LET args == Defs[t.name].args
        vs   == ValuesOf(v)
        env  == CASE t.mode = "SYS" -> st :> StateOf(v)
                  [] t.mode = "PREPOST" -> (st :> StateOf(v)) @@ (N("st_old") :> e[st])
                        @@ [x \in {<<"_ret", i - 1>> : i \in 1..(Len(vs) - 1)} |-> vs[x[2] + 1]]
                  [] t.mode = "LOOP" ->
                        [x \in ToSet(args) |-> vs[CHOOSE i \in DOMAIN args : args[i] = x]]
                          @@ [x \in {Suffixed(y, "_old") : y \in ToSet(args)} |->
                                e[CHOOSE y \in ToSet(args) : Suffixed(y, "_old") = x]]
    IN  Denote(t.goal, env @@ e) = BV(TRUE)

InRelation(rel, s1, s2, e) ==
    Denote(rel.body, rel.args[1] :> s1 @@ rel.args[2] :> s2 @@ e) = BV(TRUE)

(* What the check may assume of the state it starts in. *)
Supposed(t, e) ==
    LET facts == CASE t.mode = "SYS"  -> {t.goal} \cup PreOf(t) \cup ToSet(t.axioms \o t.verified \o t.lemmas)
                   [] t.mode = "LOOP" -> PreOf(t) \cup ToSet(t.lemmas)
                   [] t.mode = "PREPOST" -> PreOf(t)
                   [] t.mode = "REL"  -> PreOf(t) \cup ToSet(t.axioms \o t.verified \o t.lemmas)
    IN  \A n \in facts : Denote(n, e) = BV(TRUE)
SupposedBoth(t, e) ==
    /\ Supposed(t, e)
    /\ \A n \in PreOf(t) \cup ToSet(t.verified) : Denote(n, Second(e)) = BV(TRUE)
    /\ \A rel \in {t.rel} \cup ToSet(t.weak) : InRelation(rel, e[st], Second(e)[st], e)

(***************************************************************************)
(* Shapes of bodies the properties speak of.                               *)
(***************************************************************************)
(* The calls a body makes on its paths. *)
CallsOf(n) ==
    CASE IsCall(n) -> {[op |-> n.op, tail |-> TRUE]}
      [] n.k = "match" -> (IF IsCall(n.src) THEN {[op |-> n.src.op, tail |-> FALSE]} ELSE {})
                            \cup UNION {CallsOf(n.arms[i].body) : i \in DOMAIN n.arms}
      [] n.k = "if" -> CallsOf(n.then) \cup CallsOf(n.else)
      [] n.k = "rely" -> CallsOf(n.body)
      [] OTHER -> {}
EndsInCall(n) == \E c \in CallsOf(n) : c.tail
MatchesOf(n) ==
    (IF n.k = "match" THEN {n} ELSE {}) \cup UNION {MatchesOf(Kids(n)[i]) : i \in DOMAIN Kids(n)}
(* A pattern gives a name to something that is not a state. *)
BoundIn(n) == UNION {UNION {get_vars_from_pattern(m.arms[i].pattern) : i \in DOMAIN m.arms} : m \in MatchesOf(n)}
BindsValues(n) == \E x \in BoundIn(n) : SortOf(Sym(x)) # "S"
(* A match the two runs need not agree on: the second run leaves the path  *)
(* of the first and is still taken to follow it.                           *)
Wanders(n) == \E m \in MatchesOf(n) : ~is_determ_branch(m.src)

(* Two runs take the same marked branches, up to the first that is not     *)
(* marked or to the end of one of them.                                    *)
Hit(m, e) ==
    LET hits == {i \in DOMAIN m.arms : Bind(m.arms[i].pattern, Denote(m.src, e)) # {}}
    IN  CHOOSE i \in hits : \A j \in hits : i <= j
InArm(m, e) == (CHOOSE b \in Bind(m.arms[Hit(m, e)].pattern, Denote(m.src, e)) : TRUE) @@ e
Agree(n, e1, e2) ==
    LET True(c, e) == Denote(c, e) = BV(TRUE)
    IN CASE n.k = "if" ->
              is_determ_branch(n.cond) =>
                  /\ True(n.cond, e1) <=> True(n.cond, e2)
                  /\ Agree(IF True(n.cond, e1) THEN n.then ELSE n.else, e1, e2)
         [] n.k = "match" ->
              (Len(n.arms) = 1 \/ (is_determ_branch(n.src) /\ (is_when(n) => Hit(n, e1) = 1 /\ Hit(n, e2) = 1))) =>
                  /\ Hit(n, e1) = Hit(n, e2)
                  /\ Agree(n.arms[Hit(n, e1)].body, InArm(n, e1), InArm(n, e2))
         [] n.k = "rely" -> True(n.prop, e1) /\ True(n.prop, e2) => Agree(n.body, e1, e2)
         [] OTHER -> TRUE

(***************************************************************************)
(* Properties.                                                             *)
(***************************************************************************)
(* The pipeline keeps its state well-formed: there are visits only during  *)
(* the traversal and nodes to visit only while the cone grows.             *)
TypeOK ==
    /\ \E t \in Tasks : task = [t EXCEPT !.rel = task.rel, !.end_rel = task.end_rel]
    /\ answer \in BOOLEAN /\ round \in BOOLEAN
    /\ phase \in {"decompose", "cone", "reduce", "mark", "start", "walk", "done", "thrown"}
    /\ used_abs \subseteq DOMAIN Defs
    /\ work # <<>> => phase = "walk"
    /\ nodes # {} \/ queue # <<>> => phase = "cone"
    /\ \A i \in DOMAIN work : work[i].kind = "prove" <=> task.mode # "REL"

(* Whatever the order of the cone's work list, the reduced body returns    *)
(* where the original does, in a state the goal does not tell apart from   *)
(* the original's (coi_reduction).                                         *)
ConeKeepsGoal ==
    Reduces(task) /\ phase # "cone" =>
        \A e \in Starts(task) :
            LET v == Runs(Defs[task.name].body, e)
                w == Runs(def.body, e)
            IN  /\ v.t = w.t
                /\ v.t = "Some" =>
                     IF task.mode = "REL" THEN InRelation(EndRelation(task), StateOf(v.v), StateOf(w.v), e)
                     ELSE GoalHolds(task, e, v.v) = GoalHolds(task, e, w.v)

(* An answer TRUE of check_inv_by_path, check_loop_inv_v2 or check_pre_post *)
(* means that every run of the ORIGINAL body from a state that meets the   *)
(* assumptions returns a state that meets the goal, and with --check-none  *)
(* that it returns.                                                        *)
ProvedHolds ==
    task.mode # "REL" /\ phase = "done" /\ answer
      /\ (task.mode # "LOOP" => ~EndsInCall(Defs[task.name].body)) =>
        \A e \in {x \in Starts(task) : Supposed(task, x)} :
            LET v == Runs(Defs[task.name].body, e)
            IN  IF v.t = "Some" THEN GoalHolds(task, e, v.v) ELSE ~task.check_none

(* The branches left marked are those two related runs agree on            *)
(* (mark_determ_branch): forward_simulation takes them without asking.     *)
DeterminedAgree ==
    task.mode = "REL" /\ phase \in {"start", "walk"} =>
        \A e \in {x \in Starts(task) : SupposedBoth(task, x)} : Agree(def.body, e, Second(e))

(* The relation the check was called for, before decompose narrowed it. *)
AskedOf(t) == IF t.parts = <<>> THEN t.rel ELSE Whole(t.parts)
AskedFor(t) == IF t.parts = <<>> THEN EndRelation(t) ELSE Whole(target_relation(t))

(* "Try to prove: (rel st st') => (rel spec(st) spec(st'))"                *)
(* (simulate.cpp:305): an answer TRUE of check_hprop_by_path, and of       *)
(* decompose, means that two runs from related states that both return do  *)
(* so in related states.                                                   *)
SimulationSound ==
    task.mode = "REL" /\ phase = "done" /\ answer =>
        \A e \in {x \in Starts(task) : SupposedBoth([task EXCEPT !.rel = AskedOf(task)], x)} :
            LET v == Runs(Defs[task.name].body, e)
                w == Runs(Defs[task.name].body, Second(e))
            IN  v.t = "Some" /\ w.t = "Some" =>
                    InRelation(AskedFor(task), StateOf(v.v), StateOf(w.v), e)

(* The same of the bodies whose patterns name states only and whose        *)
(* matches the two runs agree on; decompose, which does not mark them,     *)
(* takes their sources to be those of the relation's fields.               *)
SimulationHolds ==
    ~BindsValues(Defs[task.name].body)
      /\ ~Wanders(IF task.parts = <<>> THEN def.body ELSE mark_determ_branch(Defs[task.name], task)) =>
        SimulationSound

(* Every callee a proof steps over is handed on to be checked itself, but  *)
(* for a loop's call of itself (used_abs).                                 *)
CalleesRecorded ==
    phase = "done" /\ answer /\ task.mode # "REL" =>
        {c.op : c \in CallsOf(def.body)} \ {task.name} \subseteq used_abs

(* Every check comes to an end: the cone stops growing, the reduction      *)
(* stops changing the body, the traversal visits a node once.              *)
ChecksEnd == <>Ended
===============================================================================
