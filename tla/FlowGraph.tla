------------------------------- MODULE FlowGraph -------------------------------
(***************************************************************************)
(* The graph of a function's basic blocks and the rules that rewrite it    *)
(* (IRLoader/control_flow.cpp), one at a time, until one node without      *)
(* edges is left, whose instructions are the structured body of the        *)
(* function.                                                               *)
(*                                                                         *)
(* The graph is kept twice, as edges and as backward references; an edge   *)
(* is an object several places point to, so it has an identity here and    *)
(* a backward reference names it: <<k, i>> is the i-th edge of the k-th    *)
(* block, <<0, i>> the i-th edge the rules made.                           *)
(***************************************************************************)
EXTENDS IRSyntax, Containers, SequencesExt

CONSTANTS
    Functions,              \* the functions given to the conversion
    Jumps(_),               \* the jumps of a list of instructions, those in a built loop left out
    Redirect(_, _, _, _),   \* a list with the jumps of another loop made into flags
    update_scc(_)           \* the order of a graph's nodes and the component of each

VARIABLES
    func,        \* the function being converted
    graph,       \* its graph
    sc,          \* what update_scc found: the order of the nodes and their scc
    pc,          \* "running", "done", "failed", "crashed" or "looping"
    round        \* flips with every round of the main loop, whether or not it changes anything

vars == <<func, graph, sc, pc, round>>

(***************************************************************************)
(* The graph.                                                              *)
(***************************************************************************)
NodesOf(g) == ToSet(g.order)
Edges(g, n) == [i \in DOMAIN g.edges[n] |-> g.edge[g.edges[n][i]]]
EdgesOf(g, ns) == UNION {ToSet(g.edges[n]) : n \in ns}

(* The references that the edges from ns into n ask for. *)
Into(g, ns, n) ==
    UNION {{[from |-> m, edge |-> id] : id \in {e \in ToSet(g.edges[m]) : g.edge[e].next = n}} : m \in ns}

(* The references of one node replaced; those to "" are nowhere. *)
WithBacks(g, n, refs) ==
    [g EXCEPT !.backs = [m \in DOMAIN g.backs |-> IF m = n THEN refs ELSE g.backs[m]]]

DropBacks(g, n, ids) ==
    WithBacks(g, n, Subsequence(g.backs[n], {i \in DOMAIN g.backs[n] : g.backs[n][i].edge \notin ids}))
(* A plausible slip: of several references from one node, the last is dropped. *)
DropLastBack(g, n, from) ==
    LET refs == g.backs[n] IN
    WithBacks(g, n, RemoveAt(refs, CHOOSE i \in DOMAIN refs :
                        refs[i].from = from /\ \A j \in (i + 1)..Len(refs) : refs[j].from # from))
DropBacksFrom(g, n, from) ==
    WithBacks(g, n, Subsequence(g.backs[n], {i \in DOMAIN g.backs[n] : g.backs[n][i].from # from}))

(* Edges go on with more instructions and lead to next. *)
Lead(g, ids, more, next) ==
    [g EXCEPT !.edge = [id \in DOMAIN g.edge |->
        IF id \in ids THEN [next |-> next, cond |-> g.edge[id].cond, insts |-> g.edge[id].insts \o more]
        ELSE g.edge[id]]]

AddEdge(g, n, next) ==
    LET id == <<0, g.fresh>> IN
    WithBacks([g EXCEPT !.fresh = @ + 1,
                        !.edge = Updated(@, id, [next |-> next, cond |-> NoCond, insts |-> <<>>]),
                        !.edges = Updated(@, n, Append(@[n], id))],
              next, Append(g.backs[next], [from |-> n, edge |-> id]))

(* A plausible slip: the node is not put on the list. *)
AddNodeUnlisted(g, n, insts, uses) ==
    [g EXCEPT !.insts = Updated(@, n, insts), !.uses = Updated(@, n, uses), !.last = Updated(@, n, 0),
              !.edges = Updated(@, n, <<>>), !.backs = Updated(@, n, <<>>)]
AddNode(g, n, insts, uses) ==
    [g EXCEPT !.order = Append(@, n),
              !.insts = Updated(@, n, insts), !.uses = Updated(@, n, uses), !.last = Updated(@, n, 0),
              !.edges = Updated(@, n, <<>>), !.backs = Updated(@, n, <<>>)]

ClearEdges(g, n) ==
    [g EXCEPT !.edges = Updated(@, n, <<>>), !.edge = Without(@, ToSet(g.edges[n]))]
EraseNode(g, n) ==
    [g EXCEPT !.order = Subsequence(@, {i \in DOMAIN @ : @[i] # n}),
              !.insts = Without(@, {n}), !.uses = Without(@, {n}), !.last = Without(@, {n}),
              !.edge = Without(@, ToSet(g.edges[n])),
              !.edges = Without(@, {n}), !.backs = Without(@, {n})]

(***************************************************************************)
(* The graph of a function, its PHI nodes turned into assignments on the   *)
(* edges, one after the other.  The backward references of a node are in   *)
(* the order of the blocks, and of the edges of one block.                 *)
(***************************************************************************)
OutEdges(t) ==
    CASE t.k = "br"     -> <<[next |-> t.succ, cond |-> NoCond]>>
      [] t.k = "cbr"    -> <<[next |-> t.t, cond |-> t.cond], [next |-> t.f, cond |-> t.cond]>>
      [] t.k = "switch" -> <<[next |-> t.def, cond |-> NoCond]>>
                           \o [i \in DOMAIN t.cases |-> [next |-> t.cases[i].succ, cond |-> Ceq(t.x, t.cases[i].val)]]
      [] t.k = "return" -> <<>>

BlockEdges(f, b) == OutEdges(f.blocks[b].term)
Position(f, b) == CHOOSE k \in DOMAIN f.order : f.order[k] = b
Slots(f) == UNION {{<<k, i>> : i \in DOMAIN BlockEdges(f, f.order[k])} : k \in DOMAIN f.order}
SlotEdge(f, s) == BlockEdges(f, f.order[s[1]])[s[2]]
SlotsInto(f, b) == {s \in Slots(f) : SlotEdge(f, s).next = b}
Earlier(S) == {p \in S \X S : \/ p[1][1] < p[2][1]
                              \/ p[1][1] = p[2][1] /\ p[1][2] < p[2][2]}

(* The assignments on an edge from src to b: the values b's PHI nodes have for src. *)
PhiAssigns(f, src, b) ==
    LET phis == IF b \in ToSet(f.order) THEN Phis(f.blocks[b].insts) ELSE <<>>
        From(phi) == SelectSeq(phi.values, LAMBDA v : v.src = src)
    IN  FlattenSeq([p \in DOMAIN phis |->
            [i \in DOMAIN From(phis[p]) |-> IAssign(phis[p].x, From(phis[p])[i].val)]])

Build(f) ==
    LET Insts(b) == NoPhis(f.blocks[b].insts)
                    \o (IF f.blocks[b].term.k = "return" THEN <<f.blocks[b].term>> ELSE <<>>)
        Edge(s) == [next |-> SlotEdge(f, s).next, cond |-> SlotEdge(f, s).cond,
                    insts |-> PhiAssigns(f, f.order[s[1]], SlotEdge(f, s).next)]
        Refs(slots) == [i \in DOMAIN slots |-> [from |-> f.order[slots[i][1]], edge |-> slots[i]]]
    IN  [order |-> f.order, fresh |-> 1,
         edge  |-> [s \in Slots(f) |-> Edge(s)],
         insts |-> [b \in ToSet(f.order) |-> Insts(b)],
         uses  |-> [b \in ToSet(f.order) |-> {}],
         last  |-> [b \in ToSet(f.order) |-> f.blocks[b].lineno],
         edges |-> [b \in ToSet(f.order) |-> [i \in DOMAIN BlockEdges(f, b) |-> <<Position(f, b), i>>]],
         backs |-> [b \in ToSet(f.order) |-> Refs(InOrder(Earlier(SlotsInto(f, b)), SlotsInto(f, b)))]]

(* No block is named twice, or by the name that stands for no block. *)
ASSUME FunctionsAssumption ==
    \A f \in Functions :
        /\ Distinct(f.order) /\ "" \notin ToSet(f.order)
        /\ \A b \in ToSet(f.order) : BlockEdges(f, b) \in Seq(ToSet(BlockEdges(f, b)))

(***************************************************************************)
(* The rules.  A rule that applies yields the new graph and whether it got *)
(* there: ok is FALSE when an assertion of the rule stops the program or   *)
(* it follows a null pointer.                                              *)
(***************************************************************************)
Got(g)   == [g |-> g, ok |-> TRUE]
Crash(g) == [g |-> g, ok |-> FALSE]

AtMostOne(S) == \A a, b \in S : a = b

leaf_applies(g, n) == g.edges[n] = <<>> /\ Len(g.backs[n]) = 1 /\ g.uses[n] = {}
eliminate_leaf(g, n) == Got(EraseNode(Lead(g, {g.backs[n][1].edge}, g.insts[n], ""), n))

bridge_applies(g, n) == Len(g.edges[n]) = 1 /\ Len(g.backs[n]) = 1 /\ g.uses[n] = {}
(* A plausible slip: the node is found and left where it is. *)
EliminateBridgeInPlace(g, n) == Got(g)
eliminate_bridge(g, n) ==
    LET in == g.backs[n][1]
        out == g.edges[n][1]
        S == g.edge[out].next
        over == Lead(g, {in.edge}, g.insts[n] \o g.edge[out].insts, S)
        refs == [i \in DOMAIN g.backs[S] |-> IF g.backs[S][i].edge = out THEN in ELSE g.backs[S][i]]
    IN  Got(EraseNode(WithBacks(over, S, refs), n))

Targets(g, n) == {g.edge[id].next : id \in ToSet(g.edges[n])} \ {""}

(* The first edge is made the last when it has no condition. *)
DefaultLast(es) ==
    IF es[1].cond # NoCond THEN es
    ELSE [i \in DOMAIN es |-> CASE i = 1 -> Last(es) [] i = Len(es) -> es[1] [] i \notin {1, Len(es)} -> es[i]]
Branches(es) == FoldRight(LAMBDA e, else : <<IIf(e.cond, e.insts, else)>>, Front(es), Last(es).insts)

merge_applies(g, n) ==
    /\ g.edges[n] # <<>>
    /\ AtMostOne(Targets(g, n))
    /\ Targets(g, n) = {} \/ Len(g.edges[n]) > 1
merge_branches(g, n) ==
    LET es == DefaultLast(Edges(g, n))
        kept == [ClearEdges(g, n) EXCEPT !.insts = Updated(@, n, @[n] \o Branches(es))]
        S == CHOOSE t \in Targets(g, n) : TRUE
    IN  IF \E i \in 1..(Len(es) - 1) : es[i].cond = NoCond THEN Crash(g)
        ELSE IF Targets(g, n) = {} THEN Got(kept)
        ELSE Got(AddEdge(DropBacksFrom(kept, S, n), n, S))

(* The positions of the edges of n that lead where its i-th edge leads. *)
Same(g, n, i) ==
    LET ids == g.edges[n] IN
    {j \in DOMAIN ids : i # j /\ g.edge[ids[i]].next # "" /\ g.edge[ids[i]].next = g.edge[ids[j]].next}
Shared(g, n) == {i \in DOMAIN g.edges[n] : Same(g, n, i) # {}}
local_applies(g, n) == Shared(g, n) # {}
merge_branches_local(g, n) ==
    LET ids == g.edges[n]
        i == Least(Shared(g, n))
        j == Least(Same(g, n, i))
        e == g.edge[ids[i]]
        ee == g.edge[ids[j]]
        cond == IF ee.cond = NoCond THEN e.cond
                ELSE IF e.cond = NoCond THEN ee.cond ELSE OOr(e.cond, ee.cond)
        merged == [next |-> e.next, cond |-> cond, insts |-> <<IIf(cond, e.insts, ee.insts)>>]
        left == [g EXCEPT !.edges = Updated(@, n, Subsequence(ids, DOMAIN ids \ {j})),
                          !.edge = Updated(Without(@, {ids[j]}), ids[i], merged)]
    IN  Got(DropBacks(left, e.next, {ids[j]}))

duplicate_applies(g, n) ==
    /\ Len(g.edges[n]) <= 1 /\ Len(g.backs[n]) > 1 /\ g.uses[n] = {}
    /\ n \notin Targets(g, n)
duplicate_node(g, n) ==
    LET out == Edges(g, n)
        S == IF out = <<>> THEN "" ELSE out[1].next
        tail == g.insts[n] \o (IF out = <<>> THEN <<>> ELSE out[1].insts)
        cut == DropBacksFrom(Lead(g, {b.edge : b \in ToSet(g.backs[n])}, tail, S), S, n)
    IN  Got(EraseNode(WithBacks(cut, S, cut.backs[S] \o g.backs[n]), n))

(***************************************************************************)
(* Loops.                                                                  *)
(***************************************************************************)
SccNodes(g, scc, number) == {n \in NodesOf(g) : scc[n] = number}
IsForeign(scc, number, j) == j.loop # "" /\ scc[j.loop] # number

(* The lists of instructions of a node: its own and those of its edges. *)
Lists(g, n) == {g.insts[n]} \cup {g.edge[id].insts : id \in ToSet(g.edges[n])}

(* The references into the component from outside, and its way out. *)
Entries(g, scc, ns) ==
    UNION {{<<n, i>> : i \in {j \in DOMAIN g.backs[n] : scc[g.backs[n][j].from] # scc[n]}} : n \in ns}
Exits(g, scc, ns) ==
    UNION {{t \in Targets(g, n) : scc[t] # scc[n]} : n \in ns}
TheEntry(g, scc, ns) == (CHOOSE p \in Entries(g, scc, ns) : TRUE)[1]
TheExit(g, scc, ns) ==
    IF Exits(g, scc, ns) = {} THEN "" ELSE CHOOSE t \in Exits(g, scc, ns) : TRUE

(* A component with at most one way in and one way out that goes round. *)
IsLoop(g, scc, ns) ==
    /\ AtMostOne(Entries(g, scc, ns))
    /\ AtMostOne(Exits(g, scc, ns))
    /\ AtMostOne(ns) => \E n \in ns : n \in Targets(g, n)

(* A jump of another loop hides behind a later jump of its own list. *)
NoForeignLast(g, scc, number, ns) ==
    \A n \in ns : \A l \in Lists(g, n) :
        Jumps(l) = <<>> \/ ~IsForeign(scc, number, Last(Jumps(l)))

scc_applies(g, scc, number) ==
    LET ns == SccNodes(g, scc, number) IN
    IsLoop(g, scc, ns) /\ NoForeignLast(g, scc, number, ns)

(* Every edge to the head becomes a continue, every edge to S a break. *)
Leading(g, ns, t) == {id \in EdgesOf(g, ns) : g.edge[id].next = t}
Cut(g, ns, t, jump) ==
    IF t = "" THEN g
    ELSE LET ids == Leading(g, ns, t) IN DropBacks(Lead(g, ids, <<jump>>, ""), t, ids)
CutLoop(g, ns, P, S, after) == Cut(Cut(g, ns, P, IContinue(P)), ns, S, IBreak(P, after))

Used(g, n, P) == [g EXCEPT !.uses = Updated(@, n, @[n] \cup {P})]
destruct_scc(g, scc, number) ==
    LET ns == SccNodes(g, scc, number)
        P == TheEntry(g, scc, ns)
        S == TheExit(g, scc, ns)
        cut == CutLoop(Used(g, P, P), ns, P, S, S)
    IN  IF Entries(g, scc, ns) = {} THEN Crash(g)
        ELSE Got(IF S = "" THEN cut ELSE Used(cut, S, P))

(***************************************************************************)
(* A loop inside one whose edges are cut already: its jumps to the outer   *)
(* loop set a flag and leave the inner loop; a node after it acts on the   *)
(* flags, and a node before it clears them.                                *)
(***************************************************************************)
(* A plausible slip: only the node's own instructions are searched. *)
ForeignJumpsOfNodes(g, scc, number, ns) ==
    {j \in UNION {ToSet(Jumps(g.insts[n])) : n \in ns} : IsForeign(scc, number, j)}

ForeignJumps(g, scc, number, ns) ==
    {j \in UNION {ToSet(Jumps(l)) : l \in UNION {Lists(g, n) : n \in ns}} : IsForeign(scc, number, j)}

(* The search goes through the nodes of a component, looking at the ways   *)
(* into a node, at its own list (place 0) and at the list and the target   *)
(* of each edge.  It is over at a second way in or out.                    *)
Places(g, scc, number) ==
    LET PlacesOf(n) == <<<<n, 0>>>> \o [i \in DOMAIN g.edges[n] |-> <<n, i>>]
    IN  FlattenSeq([k \in DOMAIN g.order |->
            IF scc[g.order[k]] = number THEN PlacesOf(g.order[k]) ELSE <<>>])
ExitsAt(g, scc, place) ==
    LET e == g.edge[g.edges[place[1]][place[2]]].next IN
    IF place[2] = 0 \/ e = "" \/ scc[e] = scc[place[1]] THEN {} ELSE {e}
PlacesSearched(g, scc, number) ==
    LET places == Places(g, scc, number)
        OneWay(k) == /\ AtMostOne(Entries(g, scc, {places[i][1] : i \in 1..k}))
                     /\ AtMostOne(UNION {ExitsAt(g, scc, places[i]) : i \in 1..(k - 1)})
    IN  Subsequence(places, {k \in DOMAIN places : OneWay(k)})

(* What the search finds, whether or not the component is a loop.  Two     *)
(* outer loops, or two names of the node after it, fail an assertion; a    *)
(* break without such a node may be followed by one that has it.           *)
FoundJumps(g, scc, number) ==
    LET List(p) == IF p[2] = 0 THEN g.insts[p[1]] ELSE g.edge[g.edges[p[1]][p[2]]].insts
        places == PlacesSearched(g, scc, number)
    IN  FlattenSeq([k \in DOMAIN places |->
            SelectSeq(Jumps(List(places[k])), LAMBDA j : IsForeign(scc, number, j))])
inner_asserts(g, scc, number) ==
    LET jumps == FoundJumps(g, scc, number)
        breaks == SelectSeq(jumps, LAMBDA j : j.k = "break")
    IN  \/ ~AtMostOne({j.loop : j \in ToSet(jumps)})
        \/ \E i \in 1..(Len(breaks) - 1) :
              breaks[i].after # "" /\ breaks[i + 1].after # breaks[i].after

inner_applies(g, scc, number) ==
    LET ns == SccNodes(g, scc, number) IN
    \/ inner_asserts(g, scc, number)
    \/ IsLoop(g, scc, ns) /\ ForeignJumps(g, scc, number, ns) # {}

ContFlag(P) == P \o "_cont"
BrkFlag(P)  == P \o "_brk"
PrepOf(P) == P \o "..prep"
SuccOf(P) == P \o "..succ"

(* The node before the loop, which takes over the references from outside. *)
WithPrep(g, scc, number, P) ==
    LET refs == g.backs[P]
        outside == Subsequence(refs, {i \in DOMAIN refs : scc[refs[i].from] # number})
        clear == <<IAssign(ContFlag(P), VBool(FALSE)), IAssign(BrkFlag(P), VBool(FALSE))>>
        moved == Lead(AddNode(g, PrepOf(P), clear, {}), {b.edge : b \in ToSet(outside)}, <<>>, PrepOf(P))
    IN  AddEdge(WithBacks(WithBacks(moved, PrepOf(P), outside), P, <<>>), PrepOf(P), P)

(* The node after it. *)
WithSucc(g, P, S, outer, outerAfter) ==
    LET act == IIf(IsTrue(ContFlag(P)), <<IContinue(outer)>>,
                   <<IIf(IsTrue(BrkFlag(P)), <<IBreak(outer, outerAfter)>>, <<>>)>>)
        g1 == AddNode(g, SuccOf(P), <<act>>, {P})
    IN  IF S = "" THEN g1 ELSE AddEdge(g1, SuccOf(P), S)

RedirectNodes(g, scc, number, ns, P) ==
    LET Edge(e) == [next |-> e.next, cond |-> e.cond, insts |-> Redirect(e.insts, scc, number, P)] IN
    [g EXCEPT !.insts = [n \in DOMAIN g.insts |->
                  IF n \in ns THEN Redirect(g.insts[n], scc, number, P) ELSE g.insts[n]],
              !.edge = [id \in DOMAIN g.edge |->
                  IF id \in EdgesOf(g, ns) THEN Edge(g.edge[id]) ELSE g.edge[id]]]

destruct_inner_scc(g, scc, number) ==
    LET ns == SccNodes(g, scc, number)
        jumps == ForeignJumps(g, scc, number, ns)
        P == TheEntry(g, scc, ns)
        S == TheExit(g, scc, ns)
        outer == {j.loop : j \in jumps}
        afters == {j.after : j \in {i \in jumps : i.k = "break"}} \ {""}
        after == IF afters = {} THEN "" ELSE CHOOSE a \in afters : TRUE
        redirected == RedirectNodes(WithPrep(Used(g, P, P), scc, number, P), scc, number, ns, P)
        cut == CutLoop(redirected, ns, P, S, SuccOf(P))
    IN  IF inner_asserts(g, scc, number) \/ Entries(g, scc, ns) = {} THEN Crash(g)
        ELSE Got(WithSucc(cut, P, S, CHOOSE l \in outer : TRUE, after))

(***************************************************************************)
(* A node without edges all of whose jumps are its own becomes a loop.  It *)
(* is named after the instruction that ends the last node before it, which *)
(* the nodes made above do not have.                                       *)
(***************************************************************************)
Breaks(is) == SelectSeq(Jumps(is), LAMBDA j : j.k = "break")
BreakPoints(is) == {j.after : j \in ToSet(Breaks(is))} \ {""}

construct_applies(g, n) ==
    LET jumps == Jumps(g.insts[n])
        breaks == Breaks(g.insts[n])
    IN  /\ g.edges[n] = <<>>
        /\ jumps # <<>> /\ \A j \in ToSet(jumps) : j.loop = n
        \* the first break point found is the one; an empty one after it is another
        /\ AtMostOne(BreakPoints(g.insts[n]))
        /\ \A i, j \in DOMAIN breaks : i < j /\ breaks[i].after # "" => breaks[j].after # ""
        /\ g.backs[n] # <<>>

Blank(is) == [i \in DOMAIN is |-> IF IsJump(is[i]) THEN [is[i] EXCEPT !.loop = "", !.after = ""] ELSE is[i]]

construct_loop(g, n) ==
    LET lineno == g.last[Last(g.backs[n]).from]
        looped == [g EXCEPT !.insts = Updated(@, n, <<ILoop(Blank(@[n]), lineno)>>),
                            !.uses = Updated(@, n, @[n] \ {n})]
        points == BreakPoints(g.insts[n])
        S == CHOOSE a \in points : TRUE
    IN  IF lineno = 0 THEN Crash(g)
        ELSE IF points = {} THEN Got(looped)
        ELSE Got(AddEdge([looped EXCEPT !.uses = Updated(@, S, @[S] \ {n})], n, S))

(***************************************************************************)
(* The last rule has no return statement at its end: when it gets there,   *)
(* what the caller sees is not defined.                                    *)
(***************************************************************************)
off_the_end(g, scc, number) ==
    LET ns == SccNodes(g, scc, number) IN
    /\ \A n \in NodesOf(g) : g.uses[n] = {}
    /\ AtMostOne(Exits(g, scc, ns))
    /\ Entries(g, scc, ns) # {}

(***************************************************************************)
(* The main loop: the first rule that applies to some node, and the first  *)
(* node it applies to.                                                     *)
(***************************************************************************)
Finished(g) == Len(g.order) = 1 /\ g.edges[g.order[1]] = <<>>

Applies(r, n) ==
    \/ r = 1 /\ leaf_applies(graph, n)
    \/ r = 2 /\ bridge_applies(graph, n)
    \/ r = 3 /\ merge_applies(graph, n)
    \/ r = 4 /\ scc_applies(graph, sc.scc, sc.scc[n])
    \/ r = 5 /\ inner_applies(graph, sc.scc, sc.scc[n])
    \/ r = 6 /\ construct_applies(graph, n)
    \/ r = 7 /\ local_applies(graph, n)
    \/ r = 8 /\ duplicate_applies(graph, n)

Applicable(r) == {i \in DOMAIN sc.seq : Applies(r, sc.seq[i])}
FirstRule == IF \E r \in 1..8 : Applicable(r) # {}
             THEN CHOOSE r \in 1..8 : Applicable(r) # {} /\ \A q \in 1..(r - 1) : Applicable(q) = {}
             ELSE 9
FirstNode(r) == sc.seq[Least(Applicable(r))]

Take(r, outcome) ==
    /\ pc = "running" /\ FirstRule = r
    /\ \E result \in {outcome} :
         /\ graph' = result.g
         /\ sc' = update_scc(result.g)
         /\ pc' = IF ~result.ok THEN "crashed" ELSE IF Finished(result.g) THEN "done" ELSE "running"
    /\ round' = ~round
    /\ UNCHANGED func

EliminateLeaf      == Take(1, eliminate_leaf(graph, FirstNode(1)))
EliminateBridge    == Take(2, eliminate_bridge(graph, FirstNode(2)))
MergeBranches      == Take(3, merge_branches(graph, FirstNode(3)))
DestructScc        == Take(4, destruct_scc(graph, sc.scc, sc.scc[FirstNode(4)]))
DestructInnerScc   == Take(5, destruct_inner_scc(graph, sc.scc, sc.scc[FirstNode(5)]))
ConstructLoop      == Take(6, construct_loop(graph, FirstNode(6)))
MergeBranchesLocal == Take(7, merge_branches_local(graph, FirstNode(7)))
DuplicateNode      == Take(8, duplicate_node(graph, FirstNode(8)))

OffTheEnd == \E n \in ToSet(sc.seq) : off_the_end(graph, sc.scc, sc.scc[n])
GiveUp ==
    /\ pc = "running" /\ FirstRule = 9
    /\ pc' \in IF OffTheEnd THEN {"failed", "looping", "crashed"} ELSE {"failed"}
    /\ UNCHANGED <<func, graph, sc, round>>

Init ==
    /\ func \in Functions
    /\ round = FALSE
    /\ graph = Build(func)
    /\ sc = update_scc(Build(func))
    /\ pc = IF Finished(Build(func)) THEN "done" ELSE "running"

Next ==
    \/ EliminateLeaf \/ EliminateBridge \/ MergeBranches
    \/ DestructScc \/ DestructInnerScc \/ ConstructLoop
    \/ MergeBranchesLocal \/ DuplicateNode
    \/ GiveUp

Spec == Init /\ [][Next]_vars

(***************************************************************************)
(* Properties.                                                             *)
(***************************************************************************)
(* The search lists nodes of the graph; and the nodes put before and after *)
(* an inner loop get names of their own: a node of the name would be       *)
(* overwritten (control_flow.cpp:653).                                     *)
Unused(g, name) ==
    name \notin NodesOf(g) \cup {""} \cup UNION {Targets(g, n) : n \in NodesOf(g)}
HelpersNew ==
    LET scc == sc.scc
        ns == SccNodes(graph, scc, scc[FirstNode(5)])
        P == TheEntry(graph, scc, ns)
    IN  pc = "running" /\ FirstRule = 5 /\ Entries(graph, scc, ns) # {} =>
            Unused(graph, PrepOf(P)) /\ Unused(graph, SuccOf(P)) /\ PrepOf(P) # SuccOf(P)
NamesOK == sc.seq \in Seq(NodesOf(graph)) /\ HelpersNew

(* The backward references are the edges seen from their targets: a rule   *)
(* that looks for the way into a node finds every one, and only those      *)
(* (control_flow.cpp keeps the two by hand in each rule).                  *)
BackwardsConsistent ==
    \A n \in NodesOf(graph) :
        /\ Cardinality({b.edge : b \in ToSet(graph.backs[n])}) = Len(graph.backs[n])
        /\ ToSet(graph.backs[n]) = Into(graph, NodesOf(graph), n)
===============================================================================
