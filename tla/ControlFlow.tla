------------------------------ MODULE ControlFlow ------------------------------
(***************************************************************************)
(* The reconstruction of control flow (IRLoader/control_flow.cpp) with     *)
(* what its graphs mean: FlowGraph's rules with the searches over the      *)
(* graph and the walks over nested instructions they use, the run of a     *)
(* graph, and the shapes of functions the conversion is right for.         *)
(***************************************************************************)
EXTENDS FlowGraph, IR

CONSTANTS
    Oracles,     \* the answers the calls of a function get
    ArgValues    \* the values of its arguments

RECURSIVE Dfs1(_, _, _), Dfs2(_, _, _, _)
RECURSIVE collect_continue_break(_), modify_continue_break(_, _, _, _)
RECURSIVE RunGraph(_, _, _), Within(_, _, _)

(* A sequence with an operator applied to each element, evaluated at once. *)
EachOf(Op(_), s) == <<>> \o [i \in DOMAIN s |-> Op(s[i])]

(***************************************************************************)
(* What the rules use: the nodes in the order the first search leaves them *)
(* with the number of each node's strongly connected component, the jumps  *)
(* of a list of instructions, and the list with those of another loop      *)
(* turned into flags.                                                      *)
(***************************************************************************)
Dfs1(g, n, acc) ==
    IF n = "" \/ n \in acc.vis THEN acc
    ELSE LET below == FoldLeft(LAMBDA a, e : Dfs1(g, e.next, a),
                               [acc EXCEPT !.vis = @ \cup {n}], Edges(g, n))
         IN  [below EXCEPT !.seq = Append(@, n)]

Dfs2(g, n, scc, number) ==
    IF scc[n] # -1 THEN scc
    ELSE FoldLeft(LAMBDA s, b : Dfs2(g, b.from, s, number), [scc EXCEPT ![n] = number], g.backs[n])

Searched(g) ==
    LET seq == FoldLeft(LAMBDA a, n : Dfs1(g, n, a), [seq |-> <<>>, vis |-> {}], g.order).seq
        Number(a, n) == IF a.scc[n] # -1 THEN a
                        ELSE [scc |-> Dfs2(g, n, a.scc, a.cnt + 1), cnt |-> a.cnt + 1]
    IN  [seq |-> seq,
         scc |-> FoldLeft(Number, [scc |-> [n \in ToSet(seq) |-> -1], cnt |-> 0], Reverse(seq)).scc]

collect_continue_break(is) ==
    FlattenSeq(EachOf(LAMBDA i :
        IF IsJump(i) THEN <<i>>
        ELSE IF i.k = "if" THEN collect_continue_break(i.t) \o collect_continue_break(i.e) ELSE <<>>, is))

(* A plausible slip: the two flags swapped. *)
RedirectSwapped(is, scc, number, P) ==
    FlattenSeq(EachOf(LAMBDA i :
        CASE IsJump(i) /\ IsForeign(scc, number, i) ->
                <<IAssign(IF i.k = "break" THEN ContFlag(P) ELSE BrkFlag(P), VBool(TRUE)),
                  IBreak(P, SuccOf(P))>>
          [] IsJump(i) /\ ~IsForeign(scc, number, i) -> <<>>
          [] i.k = "if" -> <<IIf(i.cond, modify_continue_break(i.t, scc, number, P),
                                         modify_continue_break(i.e, scc, number, P))>>
          [] ~IsJump(i) /\ i.k # "if" -> <<i>>, is))

modify_continue_break(is, scc, number, P) ==
    FlattenSeq(EachOf(LAMBDA i :
        CASE IsJump(i) /\ IsForeign(scc, number, i) ->
                <<IAssign(IF i.k = "break" THEN BrkFlag(P) ELSE ContFlag(P), VBool(TRUE)),
                  IBreak(P, SuccOf(P))>>
          [] IsJump(i) /\ ~IsForeign(scc, number, i) -> <<>>
          [] i.k = "if" -> <<IIf(i.cond, modify_continue_break(i.t, scc, number, P),
                                         modify_continue_break(i.e, scc, number, P))>>
          [] ~IsJump(i) /\ i.k # "if" -> <<i>>, is))

(***************************************************************************)
(* Running a graph: a node's instructions, then the edge the branches pick *)
(* and its instructions; a jump goes to the node it names.                 *)
(***************************************************************************)
Picked(es, env) ==
    LET t == DefaultLast(es) IN
    t[CHOOSE i \in DOMAIN t : /\ i = Len(t) \/ Holds(t[i].cond, env)
                             /\ \A j \in 1..(i - 1) : ~Holds(t[j].cond, env)]

RunGraph(g, n, s) ==
    LET r == RunInsts(g.insts[n], 1, s)
        e == Picked(Edges(g, n), r.env)
        q == IF r.st = "go" /\ g.edges[n] # <<>> THEN RunInsts(e.insts, 1, r) ELSE r
        to == CASE q.st = "go" /\ g.edges[n] # <<>> -> e.next
                [] q.st = "continue" -> q.loop
                [] q.st = "break" -> q.after
                [] q.st \in {"return", "stuck"} \/ (g.edges[n] = <<>> /\ q.st = "go") -> ""
    IN  CASE s.st = "stuck" -> s
          [] s.st = "go" /\ to = "" -> q
          [] s.st = "go" /\ to # "" /\ to \notin DOMAIN g.insts -> [q EXCEPT !.st = "lost"]
          [] s.st = "go" /\ to \in DOMAIN g.insts -> RunGraph(g, to, Burn(q))

Meaning(g, env, oracle) == Observed(RunGraph(g, g.order[1], Start(env, oracle)))

(***************************************************************************)
(* The shapes of functions the properties speak of.                        *)
(***************************************************************************)
(* The sets of blocks that run round, and the blocks each is entered at. *)
StepsTo(f, x) == {e.next : e \in ToSet(OutEdges(f.blocks[x].term))}
Within(f, S, R) ==
    LET more == R \cup (S \cap UNION {StepsTo(f, x) : x \in R})
    IN  IF more = R THEN R ELSE Within(f, S, more)
Rounds(f) == {S \in SUBSET ToSet(f.order) : S # {} /\ \A x \in S : Within(f, S, StepsTo(f, x) \cap S) = S}
Heads(f, S) == {x \in S : \E y \in ToSet(f.order) \ S : x \in StepsTo(f, y)}

(* Every loop has one head; and one block outside it leads there. *)
Reducible(f) == \A S \in Rounds(f) : Cardinality(Heads(f, S)) = 1
WellShaped(f) ==
    /\ Reducible(f)
    /\ \A h \in UNION {Heads(f, S) : S \in Rounds(f)} :
          LET loop == UNION {S \in Rounds(f) : Heads(f, S) = {h}} IN
          Cardinality({y \in ToSet(f.order) \ loop : h \in StepsTo(f, y)}) = 1

(* A break that has lost its node, after one that has not. *)
LostBreak(n) ==
    LET js == Jumps(graph.insts[n]) IN
    \E i, j \in DOMAIN js : i < j /\ js[i].k = "break" /\ js[i].after # ""
                                /\ js[j].k = "break" /\ js[j].after = ""

(* One loop can be reached from another, or two heads share a way in. *)
LoopAfterLoop(f) ==
    \E R, S \in Rounds(f) : R \cap S = {} /\ Within(f, ToSet(f.order), R) \cap S # {}

(* The default of a switch is also the target of one of its cases. *)
DefaultIsCase(f) ==
    \E b \in ToSet(f.order) :
        LET t == f.blocks[b].term IN t.k = "switch" /\ t.def \in {c.succ : c \in ToSet(t.cases)}

(***************************************************************************)
(* Properties.                                                             *)
(***************************************************************************)
Envs(f) == [ToSet(f.args) -> {VInt(i) : i \in ArgValues}]

(* After every rule, the graph makes the calls the function's blocks make, *)
(* in their order and with their arguments, whatever the calls answer, for *)
(* every function whose loops each have one head and whose switches do not *)
(* name their default's block in a case as well (merge_branches_local      *)
(* merges the two edges and forgets that one of them is the default).      *)
MeaningPreserved ==
    Reducible(func) /\ ~DefaultIsCase(func) =>
        \A o \in Oracles, env \in Envs(func) : Meaning(graph, env, o) = RunFunction(func, env, o)

(* The conversion gives up only on functions with a loop of several heads  *)
(* or of several ways in, and where a break of the outer loop has lost its *)
(* node; it stops on an assertion only where one loop follows another.     *)
Converts ==
    /\ pc \in {"failed", "looping"} => ~WellShaped(func) \/ \E n \in ToSet(graph.order) : LostBreak(n)
    /\ pc = "crashed" => LoopAfterLoop(func)
==============================================================================
