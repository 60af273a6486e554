---------------------------------- MODULE Coi ----------------------------------
(***************************************************************************)
(* The cone of influence (optimizations/coi.cpp): the fields of the state  *)
(* a goal depends on, the reduction of a body to what writes them, and the *)
(* branches two related runs are taken to agree on.                        *)
(*                                                                         *)
(* A field is a chain of names, the innermost access last-to-first:        *)
(* (x).(y).(z) is <<"z", "y">>.  A path is the sequence of branches taken, *)
(* 1 for then and 0 for else.  A condition that two runs need not agree on *)
(* carries a mark of its own.                                              *)
(***************************************************************************)
EXTENDS Subst

CONSTANTS
    FieldAncestor,      \* pairs <<field, field of a struct around it>>
    Whitelist,          \* coi_whitelist
    Blacklist,          \* coi_blacklist
    Loops               \* the recursive definitions among Defs

RECURSIVE get_access_field(_, _)
RECURSIVE rec_analyze_used_fields(_)
RECURSIVE Sources(_, _, _)
RECURSIVE Propagated(_, _, _, _)
RECURSIVE PropagatedAll(_, _, _, _)
RECURSIVE LoopFixpoint(_, _, _)
RECURSIVE Cone(_, _, _, _, _)
RECURSIVE collect_init_nodes_in(_, _)
RECURSIVE hide_write(_, _)
RECURSIVE merge_branch(_)
RECURSIVE Marked(_, _, _, _)

IsField(x) == x[2] = -1 /\ x[1] \in Fields

contains_field(f_check, f_interested) ==
    \E i \in 0..(Len(f_check) - Len(f_interested)) :
        SubSeq(f_check, i + 1, i + Len(f_interested)) = f_interested
has_subfield(fields, f) == \E c \in fields : contains_field(c, f)
is_subfield_of_anyone(f, fields) ==
    \E c \in fields : c[1] = f[1] \/ <<f[1], c[1]>> \in FieldAncestor

(***************************************************************************)
(* The fields an expression reads.                                         *)
(***************************************************************************)
(* [trace, fields]: the chain of accesses n ends, appended to trace, and   *)
(* the fields that the rest of it reads.                                   *)
get_access_field(n, trace) ==
    CASE n.k = "sym" -> [trace |-> IF IsField(n.x) THEN Append(trace, n.x[1]) ELSE trace,
                         fields |-> {}]
      [] IsConst(n)  -> [trace |-> trace, fields |-> {}]
      [] IsOp(n, "GET") ->
            LET r == get_access_field(n.e[1], trace)
            IN  [r EXCEPT !.fields = @ \cup rec_analyze_used_fields(n.e[2])]
      [] IsOp(n, "RecordGet") ->
            LET field == get_access_field(n.e[2], trace)
                rec   == get_access_field(n.e[1], field.trace)
            IN  [rec EXCEPT !.fields = @ \cup field.fields]
      [] OTHER -> [trace |-> trace, fields |-> rec_analyze_used_fields(n)]

Accessed(n) ==
    LET r == get_access_field(n, <<>>)
    IN  IF r.trace = <<>> THEN r.fields ELSE r.fields \cup {r.trace}

(* What a write reads is looked for and dropped, but for the index of a map. *)
rec_analyze_used_fields(n) ==
    CASE IsQuant(n) -> UNION {rec_analyze_used_fields(m) : m \in ToSet(<<n.body>> \o Hypos(n.vars))}
      [] n.k = "sym" \/ IsOp(n, "GET") \/ IsOp(n, "RecordGet") -> Accessed(n)
      [] IsOp(n, "SET")       -> rec_analyze_used_fields(n.e[2])
      [] IsOp(n, "RecordSet") -> {}
      [] OTHER -> UNION {rec_analyze_used_fields(Kids(n)[i]) : i \in DOMAIN Kids(n)}

analyze_invariant_fields(inv) == rec_analyze_used_fields(inv)

(***************************************************************************)
(* Where the names a path sees come from: name -> <<source, path>>.        *)
(***************************************************************************)
Sources(n, path, idx) ==
    CASE n.k = "match" ->
            LET here == <<n.src, SubSeq(path, 1, IF idx > Len(path) THEN Len(path) ELSE idx)>>
            IN  FoldLeft(LAMBDA acc, a : Sources(a.body, path, idx)
                                           @@ [x \in collect_symbols(a.pattern) |-> here] @@ acc,
                         <<>>, n.arms)
      [] n.k \in {"rely", "anno"} -> Sources(n.body, path, idx)
      [] n.k = "if" /\ idx <= Len(path) ->
            Sources(IF path[idx] = 1 THEN n.then ELSE n.else, path, idx + 1)
      [] OTHER -> <<>>

(***************************************************************************)
(* backward_propagation_on_expr: an expression adds what it reads to the   *)
(* cone and names the symbols it is made of; the value of a write matters  *)
(* when the field does.  c is [coi, symbols]; a chain in trace is being    *)
(* written and is not read for its own sake; loops under analysis are in   *)
(* visited.                                                                *)
(***************************************************************************)
SetField(n) == Reverse([i \in 1..(Len(n.e) - 2) |-> n.e[i + 1].x[1]])

PropagatedAll(ns, c, trace, visited) ==
    FoldLeft(LAMBDA acc, m : Propagated(m, acc, trace, visited), c, ns)

Callee(n, c, visited) ==
    CASE n.op \in Loops -> [c EXCEPT !.coi = LoopFixpoint(n.op, @, visited \cup {n.op})]
      [] n.op \in DOMAIN Defs \ Loops ->
            [c EXCEPT !.coi = Cone(Defs[n.op], collect_init_nodes_in(Defs[n.op].body, <<>>),
                                   @, <<>>, visited)]
      [] OTHER -> c

(* The read of a field is the read of the state before the write of it. *)
(* A plausible slip: a read is skipped while any field is being written. *)
ReadUnwritten(n, c, trace) ==
    IF trace # {} THEN c ELSE [c EXCEPT !.coi = @ \cup rec_analyze_used_fields(n)]
ReadField(n, c, trace) ==
    LET chain == get_access_field(n, <<>>).trace
    IN  IF has_subfield(trace, chain) \/ chain[1] \in Blacklist THEN c
        ELSE [c EXCEPT !.coi = @ \cup rec_analyze_used_fields(n)]

Propagated(n, c, trace, visited) ==
    CASE n.k = "sym" -> [c EXCEPT !.symbols = @ \cup {n.x}]
      [] IsConst(n)  -> c
      [] n.k = "match" -> Propagated(n.src, c, trace, visited)
      [] IsOp(n, "RecordGet") -> ReadField(n, c, trace)
      [] IsOp(n, "GET") -> PropagatedAll(n.e, c, trace, visited)
      [] IsOp(n, "RecordSet") ->
            LET field == SetField(n)
                value == IF has_subfield(c.coi, field)
                         THEN Propagated(Last(n.e), c, trace \cup {field}, visited) ELSE c
            IN  Propagated(n.e[1], value, IF has_subfield(c.coi, field) THEN trace \cup {field}
                                                                       ELSE trace, visited)
      [] IsOp(n, "SET") ->
            LET chain == get_access_field(n.e[1], <<>>).trace
            IN  Propagated(n.e[2], IF has_subfield(trace, chain) THEN c
                                   ELSE [c EXCEPT !.coi = @ \cup {chain}], trace, visited)
      [] n.k = "expr" /\ n.op \in Ops \ {"RecordGet", "GET", "RecordSet", "SET"} -> c
      [] n.k = "expr" /\ n.op \in Loops \cap visited -> c
      [] OTHER -> PropagatedAll(n.e, Callee(n, c, visited), trace, visited)

(* The fields a recursive definition depends on, applied until they last. *)
LoopFixpoint(name, coi, visited) ==
    LET next == Cone(Defs[name], collect_init_nodes_in(Defs[name].body, <<>>), coi, <<>>, visited)
    IN  IF next = coi THEN coi ELSE LoopFixpoint(name, next, visited)

(***************************************************************************)
(* The returned states and the branch conditions of a body, each with the  *)
(* path to it: what the propagation starts from.                           *)
(***************************************************************************)
ReturnedState(n) == IF IsOp(n, "Tuple") THEN Last(n.e) ELSE n
collect_init_nodes_in(n, p) ==
    CASE IsOp(n, "Some") /\ n.e[1].k = "expr" -> {<<ReturnedState(n.e[1]), p>>}
      [] n.k = "match" -> UNION {collect_init_nodes_in(n.arms[i].body, p) : i \in DOMAIN n.arms}
      [] n.k = "if" -> {<<n.cond, p>>} \cup collect_init_nodes_in(n.then, Append(p, 1))
                                       \cup collect_init_nodes_in(n.else, Append(p, 0))
      [] n.k \in {"rely", "anno"} \/ IsQuant(n) -> collect_init_nodes_in(n.body, p)
      [] OTHER -> {}

(***************************************************************************)
(* The work list of analyze_cone_of_influence and mark_determ_branch: the  *)
(* nodes still to visit, in the order a set of pointers happens to have.   *)
(***************************************************************************)
Solved(d, x) == x \in ToSet(d.args) \/ is_known_symbol(x) \/ x[1] \in DOMAIN Defs

(* The fields after one node, and the sources of the symbols it is made of. *)
Visit(d, node, coi, visited) ==
    LET r    == Propagated(node[1], [coi |-> coi, symbols |-> {}], {}, visited)
        from == Sources(d.body, node[2], 1)
    IN  [coi |-> r.coi, next |-> {from[x] : x \in {y \in r.symbols : ~Solved(d, y)}}]

(* nodes is a set at first and `queue` what it led to; the empty chain and *)
(* the names of no interest are dropped at the end.                        *)
Cone(d, nodes, coi, queue, visited) ==
    IF nodes = {} /\ queue = <<>> THEN {c \in coi : c # <<>>}
    ELSE LET node == IF nodes # {} THEN CHOOSE n \in nodes : TRUE ELSE Head(queue)
             r    == Visit(d, node, coi, visited)
         IN  Cone(d, nodes \ {node}, r.coi,
                  (IF nodes # {} THEN queue ELSE Tail(queue)) \o SetToSeq(r.next), visited)

(* What the analysis gives back for a goal. *)
KeptFields(coi) == {<<f>> : f \in Whitelist} \cup {c \in coi : c # <<>> /\ c[1] \notin Blacklist}

(***************************************************************************)
(* hide_write: a write of a field outside the cone is gone.  Only the last *)
(* name of the written chain is looked at.                                 *)
(***************************************************************************)
Hidden(n, coi) ==
    IF IsOp(n, "RecordSet") /\ ~is_subfield_of_anyone(<<n.e[Len(n.e) - 1].x[1]>>, coi)
    THEN n.e[1] ELSE n
hide_write(n, coi) == Hidden(Rebuild(n, Each(LAMBDA kid : hide_write(kid, coi), Kids(n))), coi)

(***************************************************************************)
(* merge_branch: branches that return the same state, and nested branches  *)
(* two of whose three ends do.  A marked condition marks the new one.      *)
(***************************************************************************)
try_get_return_state(n) ==
    CASE IsOp(n, "Some") /\ n.e[1].k \in {"expr", "sym"} -> {ReturnedState(n.e[1])}
      [] IsOp(n, "None") -> {n}
      [] OTHER -> {}
SameReturn(n, m) == try_get_return_state(n) # {} /\ try_get_return_state(n) = try_get_return_state(m)

is_determ_branch(c) == "determ" \notin DOMAIN c
MarkAs(c, determ) == IF determ THEN c ELSE c @@ [determ |-> FALSE]
Both(c, d, m) == MarkAs(Expr("BAND", <<c, d>>), is_determ_branch(m.out) /\ is_determ_branch(m.in))

MergeOver(n) ==
    LET Conds(in) == [out |-> n.cond, in |-> in.cond]
    IN  CASE SameReturn(n.then, n.else) -> n.then
          [] /\ try_get_return_state(n.then) # {} /\ n.else.k = "if"
             /\ SameReturn(n.then, n.else.then) ->
                If(Both(n.cond, n.else.cond, Conds(n.else)), n.else.then, n.else.else)
          [] /\ try_get_return_state(n.then) # {} /\ n.else.k = "if"
             /\ ~SameReturn(n.then, n.else.then) /\ SameReturn(n.then, n.else.else) ->
                If(Both(n.cond, Expr("BNOT", <<n.else.cond>>), Conds(n.else)),
                   n.else.then, n.else.else)
          [] /\ try_get_return_state(n.then) = {} /\ n.then.k = "if"
             /\ SameReturn(n.else, n.then.then) ->
                If(Both(n.cond, Expr("BNOT", <<n.then.cond>>), Conds(n.then)),
                   n.then.else, n.then.then)
          [] /\ try_get_return_state(n.then) = {} /\ n.then.k = "if"
             /\ ~SameReturn(n.else, n.then.then) /\ SameReturn(n.else, n.then.else) ->
                If(Both(n.cond, n.then.cond, Conds(n.then)), n.then.then, n.then.else)
          [] OTHER -> n
MergeHere(n) == IF n.k = "if" THEN MergeOver(n) ELSE n
merge_branch(n) == MergeHere(Rebuild(n, Each(merge_branch, Kids(n))))

(***************************************************************************)
(* mark_determ_branch: a branch two related runs agree on is one whose     *)
(* condition depends on no field outside the relation's.                   *)
(***************************************************************************)
(* A plausible slip: only the fields the condition itself reads. *)
DeterminedByItself(d, cond, p, public, ignored) ==
    \A c \in rec_analyze_used_fields(cond) : c[1] \in ignored \/ is_subfield_of_anyone(c, public)
Determined(d, cond, p, public, ignored) ==
    \A c \in Cone(d, {<<cond, p>>}, rec_analyze_used_fields(cond), <<>>, {}) :
        c[1] \in ignored \/ is_subfield_of_anyone(c, public)

(* A body with its conditions marked; p leads to n.  The source of a when  *)
(* is not a branch.                                                        *)
Marked(d, n, p, rel) ==
    LET Mark(c) == MarkAs(c, rel.prune /\ Determined(d, c, p, rel.public, rel.ignored))
    IN CASE n.k = "match" ->
              Match(IF is_when(n) THEN n.src ELSE Mark(n.src),
                    Each(LAMBDA a : Arm(a.pattern, Marked(d, a.body, p, rel)), n.arms))
         [] n.k = "if" -> If(Mark(n.cond), Marked(d, n.then, Append(p, 1), rel),
                                           Marked(d, n.else, Append(p, 0), rel))
         [] n.k \in {"rely", "anno"} -> [n EXCEPT !.body = Marked(d, @, p, rel)]
         [] OTHER -> n
===============================================================================
