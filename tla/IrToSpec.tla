-------------------------------- MODULE IrToSpec --------------------------------
(***************************************************************************)
(* From structured instructions to a specification (frontend/ir2spec.cpp): *)
(* which names an instruction reads and assigns, which of them an if and a *)
(* loop have to hand on, and the Gallina term built of them, the jumps     *)
(* turned into the flags __break__, __continue__ and __return__ and every  *)
(* loop into a fixpoint with a rank.                                       *)
(*                                                                         *)
(* The C++ annotates the instructions first and builds the term after;     *)
(* here the two are one recursion, which knows at each instruction what    *)
(* the annotation used: the names assigned before it, the instructions     *)
(* that run after it and whether it is in a loop.                          *)
(***************************************************************************)
EXTENDS IR, SpecLang

CONSTANTS
    Rank,          \* what the rank functions the user writes answer
    Voids,         \* the callees without a result
    PostEnsure,    \* what the user states of the callees: callee -> properties
    StackVars      \* the stack variables the user named

RECURSIVE VarsOf(_), Flow(_, _), FlowOf(_, _), TypesOf(_), HasAlloc(_)
RECURSIVE ir_value_to_spec(_), Rename(_, _, _), TranslateFrom(_, _, _, _), ir_to_spec(_, _)
RECURSIVE FromInst(_, _), FromIf(_, _, _, _, _), FromLoop(_, _, _, _, _), SpecOf(_, _, _)
RECURSIVE Eval(_, _, _), Chosen(_, _, _, _), Applied(_, _, _)

(***************************************************************************)
(* What instructions read before they assign it, and what they assign.     *)
(* Both branches of an if are passed, one after the other.                 *)
(***************************************************************************)
VarsOf(v) ==
    CASE v.k \in {"local", "eq", "true"} -> {v.x}
      [] v.k = "or" -> VarsOf(v.a) \cup VarsOf(v.b)
      [] OTHER -> {}
VarsOfAll(vs) == UNION {VarsOf(v) : v \in ToSet(vs)}

ReadBy(i) ==
    CASE i.k \in {"assign", "return"} -> VarsOf(i.v)
      [] i.k \in {"call", "callptr"} -> VarsOfAll(i.args)    \* not the function pointer
      [] i.k = "select" -> VarsOf(i.cond) \cup VarsOf(i.a) \cup VarsOf(i.b)
      [] i.k = "binop"  -> VarsOf(i.a) \cup VarsOf(i.b)
      [] i.k = "load"   -> VarsOf(i.p)
      [] i.k = "store"  -> VarsOf(i.p) \cup VarsOf(i.v)
      [] i.k = "gep"    -> VarsOf(i.p) \cup VarsOfAll(i.idx)
      [] i.k = "use"    -> i.xs
      [] OTHER          -> {}
AssignedBy(i) ==
    CASE i.k \in {"store", "use"} -> {}
      [] i.k = "return" -> (IF i.v = NoVal THEN {} ELSE {"__retval__"}) \cup {"__return__"}
      [] IsJump(i) -> {"__" \o i.k \o "__"}
      [] ~IsJump(i) /\ i.k \notin {"store", "use", "return"} -> {i.x} \ {""}

Flow(is, io) == FoldLeft(LAMBDA a, i : FlowOf(i, a), io, is)
FlowOf(i, io) ==
    CASE i.k = "if"   -> Flow(i.e, Flow(i.t, [io EXCEPT !.in = @ \cup (VarsOf(i.cond) \ io.out)]))
      [] i.k = "loop" -> Flow(i.body, io)
      [] i.k \notin {"if", "loop"} -> [in |-> io.in \cup (ReadBy(i) \ io.out), out |-> io.out \cup AssignedBy(i)]
FlowIn(is)  == Flow(is, [in |-> {}, out |-> {}])

(***************************************************************************)
(* What the annotation says of the instruction that follows before and is  *)
(* followed by after: before is a set of names, after a list.              *)
(***************************************************************************)
Use(names) == [k |-> "use", xs |-> names]
Flags == {"__return__", "__break__", "__continue__"}
Jumpy(own) == own.out \cap {"__break__", "__continue__"} # {}

(* What runs after an instruction matters only for one that does not jump. *)
AfterIn(own, after, inLoop) == IF inLoop /\ Jumpy(own) THEN {} ELSE FlowIn(after).in

InputOf(own, before) == own.in \cap before
(* A plausible slip: the flags of a return are handed on only when something reads them. *)
OutputOfRead(own, after, inLoop) ==
    IF inLoop /\ Jumpy(own) THEN own.out ELSE own.out \cap AfterIn(own, after, inLoop)
OutputOf(own, after, inLoop) ==
    (IF inLoop /\ Jumpy(own) THEN own.out ELSE own.out \cap AfterIn(own, after, inLoop))
        \cup (own.out \cap {"__retval__", "__return__"})

(* A plausible slip: a loop gets only what it assigns. *)
LoopArgsAssigned(own, after, inLoop) ==
    (own.out \cap AfterIn(own, after, inLoop))
        \cup (own.out \cap {"__break__", "__retval__", "__return__"})

(* The arguments of a loop's fixpoint. *)
LoopArgs(own, after, inLoop) ==
    own.in \cup (own.out \cap AfterIn(own, after, inLoop))
           \cup (own.out \cap {"__break__", "__retval__", "__return__"})

(***************************************************************************)
(* The types of the names, for their default values.                       *)
(***************************************************************************)
TypesOf(is) ==
    LET KindOf(v, types) == IF v.k = "local" THEN IF v.x \in DOMAIN types THEN types[v.x] ELSE "int"
                            ELSE IF v.k \in {"eq", "true", "or"} THEN "bool" ELSE v.k
        Typed(types, i) ==
            CASE i.k = "assign" -> (i.x :> KindOf(i.v, types)) @@ types
              [] i.k = "select" -> (i.x :> KindOf(i.a, types)) @@ types
              [] i.k \in {"call", "callptr"} -> (i.x :> "int") @@ types
              [] i.k = "load"   -> (i.x :> i.typ.k) @@ types
              [] i.k = "binop"  -> (i.x :> IF i.op \in {"eq", "ne", "ult"} THEN "bool" ELSE KindOf(i.a, types)) @@ types
              [] i.k \in {"alloc", "gep"} -> (i.x :> "ptr") @@ types
              [] i.k = "return" -> ("__retval__" :> KindOf(i.v, types)) @@ types
              [] i.k = "if"     -> TypesOf(i.e) @@ TypesOf(i.t) @@ types
              [] i.k = "loop"   -> TypesOf(i.body) @@ types
              [] i.k \in {"store", "continue", "break"} -> types
    IN  FoldLeft(Typed, [x \in Flags |-> "bool"], is)

NullPtr == Expr("mkPtr", <<IntC(0)>>)
default_val(types, x) ==
    CASE x \notin DOMAIN types \/ types[x] = "int" -> IntC(0)
      [] x \in DOMAIN types /\ types[x] = "bool" -> BoolC(FALSE)
      [] x \in DOMAIN types /\ types[x] = "ptr" -> NullPtr

(***************************************************************************)
(* Values and conditions.                                                  *)
(***************************************************************************)
St == Sym(N("st"))
V(x) == Sym(N(x))

(* A small negative integer keeps its sign. *)
IntToSpec(i) == IF i \in -99..-1 THEN Expr("MINUS", <<IntC(-i)>>) ELSE IntC(i)
ir_value_to_spec(v) ==
    CASE v.k = "local" -> V(v.x)
      [] v.k = "int"   -> IntToSpec(v.i)
      [] v.k = "bool"  -> BoolC(v.b)
      [] v.k = "ptr"   -> Expr("mkPtr", <<IntC(v.i)>>)
      [] v.k = "eq"    -> Expr("BEQ", <<V(v.x), IntToSpec(v.i)>>)
      [] v.k = "true"  -> V(v.x)
      [] v.k = "or"    -> Expr("BOR", <<ir_value_to_spec(v.a), ir_value_to_spec(v.b)>>)

ir_expr_to_spec(op, a, b) ==
    Expr(CASE op = "add" -> "ADD" [] op = "sub" -> "MINUS" [] op = "mul" -> "MULT"
           [] op = "ult" -> "BLT" [] op = "eq" -> "BEQ" [] op = "ne" -> "BNE"
           [] op = "and" -> IF a.k = "bool" THEN "BAND" ELSE "BITAND",
         <<ir_value_to_spec(a), ir_value_to_spec(b)>>)

(* The offset of an element, and what has to hold of the indices: only those of arrays are bounded. *)
get_elem_ptr(i) ==
    LET Next(a, v) ==
            LET idx == ir_value_to_spec(v)
                scaled == Expr("MULT", <<IntC(a.typ.sub.size), idx>>)
            IN  CASE a.typ.k = "ptr" -> [a EXCEPT !.typ = @.sub, !.offs = Append(@, scaled)]
                  [] a.typ.k = "array" ->
                        [typ |-> a.typ.sub, offs |-> Append(a.offs, scaled),
                         relies |-> Append(a.relies, Expr("AND", <<Expr("LTE", <<IntC(0), idx>>),
                                                                   Expr("LT", <<idx, IntC(a.typ.length)>>)>>))]
                  [] a.typ.k = "struct" ->
                        [a EXCEPT !.typ = @.elems[v.i + 1].typ,
                                  !.offs = Append(@, IntC(a.typ.elems[v.i + 1].offset))]
        found == FoldLeft(Next, [typ |-> i.typ, offs |-> <<>>, relies |-> <<>>], i.idx)
        sum == FoldRight(LAMBDA o, acc : Expr("ADD", <<o, acc>>), found.offs, IntC(0))
    IN  [n |-> Expr("ptr_offset", <<ir_value_to_spec(i.p), sum>>), relies |-> found.relies]

(***************************************************************************)
(* One instruction before the term of the rest.                            *)
(***************************************************************************)
Tuple(names) == IF names = <<>> THEN St ELSE Expr("Tuple", Each(V, names) \o <<St>>)
Relied(props, n) == FoldLeft(LAMBDA m, p : Rely(p, m), n, props)

(* The user's properties of a callee, said of the names at the call. *)
Rename(p, old, new) ==
    CASE p.k = "sym" /\ p.x = old -> Sym(new)
      [] p.k = "expr" -> [p EXCEPT !.e = Each(LAMBDA e : Rename(e, old, new), @)]
      [] (p.k = "sym" /\ p.x # old) \/ IsConst(p) -> p
RenameIn(p, old, new) == Rename(p, N(old), N(new))
Ensured(i) ==
    IF i.f \notin DOMAIN PostEnsure THEN [props |-> <<>>, old |-> FALSE]
    ELSE LET OfResult(p) == IF i.f \in Voids THEN p ELSE RenameIn(p, "ret_0", i.x)
             OfState(p) == IF RenameIn(p, "st", "old_st") = p THEN p
                           ELSE RenameIn(RenameIn(p, "st", "old_st"), "ret_1", "st")
         IN  [props |-> Each(LAMBDA p : OfState(OfResult(p)), PostEnsure[i.f]),
              old |-> \E p \in ToSet(PostEnsure[i.f]) : RenameIn(OfResult(p), "st", "old_st") # OfResult(p)]

Called(f, x, args, rest) ==
    When(IF f \in Voids THEN St ELSE Tuple(<<x>>), Expr(f, Each(ir_value_to_spec, args) \o <<St>>), rest)

FromCall(i, rest) ==
    LET e == Ensured(i)
        call == Called(i.f, i.x, i.args, Relied(e.props, rest))
    IN  IF e.old THEN Let(N("old_st"), St, call) ELSE call

(* A load gives an integer; a pointer or a bool is made of it. *)
FromLoad(i, rest) ==
    LET tmp == i.x \o "_tmp"
        into == IF i.typ.k = "int" THEN i.x ELSE tmp
        then == CASE i.typ.k = "int"  -> rest
                  [] i.typ.k = "ptr"  -> Let(N(i.x), Expr("int2ptr", <<V(tmp)>>), rest)
                  [] i.typ.k = "bool" -> Let(N(i.x), Expr("BNE", <<V(tmp), IntC(0)>>), rest)
    IN  When(Tuple(<<into>>), Expr("load", <<IntC(i.typ.size), ir_value_to_spec(i.p), St>>), then)

FromStore(i, rest) ==
    LET v == ir_value_to_spec(i.v)
        value == IF i.typ.k = "ptr" THEN Expr("ptr2int", <<v>>) ELSE v
    IN  When(St, Expr("store", <<IntC(i.typ.size), ir_value_to_spec(i.p), value, St>>), rest)

FromAlloc(i, rest) ==
    IF i.x \in DOMAIN StackVars THEN Let(N(i.x), Expr("mkPtr", <<IntC(StackVars[i.x])>>), rest)
    ELSE When(Tuple(<<i.x>>), Expr("alloc", <<IntC(i.typ.size), St>>), rest)

FromInst(i, rest) ==
    CASE i.k = "assign"  -> Let(N(i.x), ir_value_to_spec(i.v), rest)
      [] i.k = "return"  -> Let(N("__return__"), BoolC(TRUE),
                                IF i.v = NoVal THEN rest ELSE Let(N("__retval__"), ir_value_to_spec(i.v), rest))
      [] IsJump(i)       -> Let(N("__" \o i.k \o "__"), BoolC(TRUE), rest)
      [] i.k = "select"  -> Let(N(i.x), If(ir_value_to_spec(i.cond), ir_value_to_spec(i.a), ir_value_to_spec(i.b)), rest)
      [] i.k = "binop"   -> Let(N(i.x), ir_expr_to_spec(i.op, i.a, i.b), rest)
      [] i.k = "call"    -> FromCall(i, rest)
      [] i.k = "callptr" -> Called("*", i.x, <<i.p>> \o i.args, rest)
      [] i.k = "gep"     -> LET e == get_elem_ptr(i) IN Relied(e.relies, Let(N(i.x), e.n, rest))
      [] i.k = "load"    -> FromLoad(i, rest)
      [] i.k = "store"   -> FromStore(i, rest)
      [] i.k = "alloc"   -> FromAlloc(i, rest)

(***************************************************************************)
(* The instructions from the at-th on, in context c: the names assigned    *)
(* before them and the instructions after, the names to hand on at the     *)
(* end, whether they are in a loop and whether the function ends there.    *)
(* The term of the rest comes first, with the fixpoints found in it.       *)
(***************************************************************************)
Names(S) == SetToSeq(S)
Result(names) == SomeOf(Tuple(names))
Handed(c) ==
    IF c.fn.allocas /\ c.final THEN When(St, Expr("free", <<V("init_st"), St>>), Result(c.args))
                               ELSE Result(c.args)
OnFlag(flag, out, then, else) == IF flag \in out THEN If(V(flag), then, else) ELSE else

FromIf(c, i, before, after, rest) ==
    LET own   == FlowIn(<<i>>)
        out   == OutputOf(own, after, c.inLoop)
        names == Names(out)
        inner == [c EXCEPT !.before = before, !.after = after, !.args = names, !.final = FALSE]
        t     == TranslateFrom(inner, i.t, 1, rest.defs)
        e     == TranslateFrom(inner, i.e, 1, t.defs)
        value == FoldLeft(LAMBDA n, o : Let(N(o), default_val(c.fn.types, o), n),
                          If(ir_value_to_spec(i.cond), t.n, e.n), Names(out \ before))
        jumps == IF ~c.inLoop THEN rest.n
                 ELSE OnFlag("__break__", out, Handed(c), OnFlag("__continue__", out, Handed(c), rest.n))
    IN  [n |-> When(Tuple(names), value,
                    OnFlag("__return__", out, Handed(c), jumps)),
         defs |-> e.defs]

(* The function pointers called in a loop's body, but not below it. *)
check_fun_ptr(body) ==
    FlattenSeq(Each(LAMBDA i : IF i.k = "callptr" THEN Names(VarsOf(i.p)) ELSE <<>>, body))

(* A name for the fixpoint; the search for another stops at the first one tried. *)
LoopName(lineno, defs) ==
    LET name == "loop" \o ToString(lineno)
    IN  IF name \in {d.name : d \in ToSet(defs)} THEN name \o "_0" ELSE name

(* The user's relies on a loop.  They are looked up under the loop's first *)
(* name: a loop that had to be renamed finds none.                         *)
LoopRely(c, i, name) ==
    IF i.lineno \in DOMAIN c.fn.loopRely /\ name = "loop" \o ToString(i.lineno) THEN c.fn.loopRely[i.lineno] ELSE <<>>

(* A body that does nothing but go round. *)
OnlyContinues(body, args) ==
    Len(body) = 1 /\ OutputOf(FlowIn(body), <<Use(args)>>, TRUE) = {"__continue__"}

FromLoop(c, i, before, after, rest) ==
    LET own   == FlowIn(<<i>>)
        out   == OutputOf(own, after, c.inLoop)
        names == LoopArgs(own, after, c.inLoop)
        fptrs == check_fun_ptr(i.body)
        args  == Names(names) \o fptrs
        input == InputOf(own, before) \cup ToSet(fptrs)
        name  == LoopName(i.lineno, rest.defs)
        relies == LoopRely(c, i, name)
        rank  == Expr("rank", Each(V, Names(input)))
        First(a) == IF a \in {"__return__", "__break__"} THEN BoolC(FALSE)
                    ELSE IF a \in input THEN V(a) ELSE default_val(c.fn.types, a)
        inner == [c EXCEPT !.before = names, !.after = <<Use(names)>>, !.args = args,
                           !.inLoop = TRUE, !.final = FALSE]
        body  == TranslateFrom(inner, i.body, 1, rest.defs)
        once  == OnFlag("__break__", names, Result(args), OnFlag("__return__", names, Result(args), Relied(relies, body.n)))
        fix   == [name |-> name, args |-> <<"_N_">> \o args \o <<"st">>,
                  zero |-> Result(args),
                  succ |-> When(Tuple(args), Expr(name, <<V("_N_")>> \o Each(V, args) \o <<St>>), once)]
        left  == IF "__break__" \in out THEN If(V("__break__"), rest.n, None) ELSE rest.n
    IN  IF OnlyContinues(i.body, names) THEN [rest EXCEPT !.n = None]
        ELSE [n |-> Rely(Expr("GTE", <<rank, IntC(0)>>),
                         When(Tuple(args),
                              Expr(name, <<Expr("z_to_nat", <<rank>>)>> \o Each(First, args) \o <<St>>),
                              Relied(relies, OnFlag("__return__", out, Handed(c), left)))),
              defs |-> Append(body.defs, fix)]

TranslateFrom(c, is, at, defs) ==
    LET i == is[at]
        rest == TranslateFrom(c, is, at + 1, defs)
        before == c.before \cup FlowIn(SubSeq(is, 1, at - 1)).out
        after == SubSeq(is, at + 1, Len(is)) \o c.after
    IN  CASE at > Len(is) -> [n |-> Handed(c), defs |-> defs]
          [] at <= Len(is) /\ i.k = "if"   -> FromIf(c, i, before, after, rest)
          [] at <= Len(is) /\ i.k = "loop" -> FromLoop(c, i, before, after, rest)
          [] at <= Len(is) /\ i.k \notin {"if", "loop"} -> [rest EXCEPT !.n = FromInst(i, @)]

HasAlloc(is) ==
    \E i \in ToSet(is) : \/ i.k = "alloc"
                         \/ i.k = "if" /\ (HasAlloc(i.t) \/ HasAlloc(i.e))
                         \/ i.k = "loop" /\ HasAlloc(i.body)

ir_to_spec(f, body) ==
    LET allocas == HasAlloc(body)
        c == [before |-> ToSet(f.args), after |-> <<>>, args |-> IF f.void THEN <<>> ELSE <<"__retval__">>,
              inLoop |-> FALSE, final |-> TRUE, fn |-> [types |-> TypesOf(body), allocas |-> allocas, loopRely |-> f.loopRely]]
        t == TranslateFrom(c, body, 1, <<>>)
        relied == Relied(f.rely, t.n)
    IN  [args |-> Append(f.args, "st"), defs |-> t.defs,
         n |-> IF allocas THEN When(St, Expr("new_frame", <<St>>), Let(N("init_st"), St, relied)) ELSE relied]

(***************************************************************************)
(* What a specification denotes: as Denote, with the state of the memory   *)
(* layer, which is the trace of the calls made on it, the answers of the   *)
(* oracle, and the fixpoints.  w holds the oracle and the definitions.     *)
(***************************************************************************)
PtrV(i)  == [t |-> "ptr", i |-> i]
StV(tr, frame) == [t |-> "st", tr |-> tr, frame |-> frame]
Unbound  == [t |-> "unbound"]
AsIr(v)  == CASE v.t = "Z" -> VInt(v.i) [] v.t = "ptr" -> VPtr(v.i) [] v.t = "bool" -> VBool(v.b)
AsSpec(v) == CASE v.k = "int" -> ZV(v.i) [] v.k = "ptr" -> PtrV(v.i) [] v.k = "bool" -> BV(v.b)

Primitive(op, v, oracle) ==
    LET st == Last(v)
        answer == oracle[Len(st.tr) + 1]
        next == [st EXCEPT !.tr = Append(@, <<op, Each(AsIr, Front(v))>>)]
    IN  CASE op = "new_frame" -> SomeV([st EXCEPT !.frame = "open"])
          [] op = "free" -> IF v[1].frame = "open" /\ st.frame = "open" THEN SomeV([st EXCEPT !.frame = "freed"])
                            ELSE NoneV
          [] op \notin {"new_frame", "free"} /\ Len(st.tr) = Len(oracle) -> NoneV
          [] op \notin {"new_frame", "free"} /\ Len(st.tr) # Len(oracle) ->
                IF op \in Voids \cup {"store"} THEN SomeV(next)
                ELSE SomeV(TupV(<<IF op = "alloc" THEN PtrV(answer) ELSE ZV(answer), next>>))

OfMemory(op, v) ==
    CASE op = "mkPtr"      -> PtrV(v[1].i)
      [] op = "ptr_offset" -> PtrV(v[1].i + v[2].i)
      [] op = "int2ptr"    -> PtrV(v[1].i)
      [] op = "ptr2int"    -> ZV(v[1].i)
      [] op = "z_to_nat"   -> v[1]
      [] op = "rank"       -> ZV(Rank)
      [] op = "grows"      -> BV(IsPrefix(v[1].tr, v[2].tr))
MemoryOps == {"mkPtr", "ptr_offset", "int2ptr", "ptr2int", "z_to_nat", "rank", "grows"}

Eval(n, env, w) ==
    CASE n.k = "sym"  -> IF n.x \in DOMAIN env THEN env[n.x] ELSE IF n = None THEN NoneV ELSE Unbound
      [] n.k = "int"  -> ZV(n.u)
      [] n.k = "bool" -> BV(n.b)
      [] n.k = "if"   -> IF Eval(n.cond, env, w) = BV(TRUE) THEN Eval(n.then, env, w) ELSE Eval(n.else, env, w)
      [] n.k = "rely" -> IF Eval(n.prop, env, w) = BV(TRUE) THEN Eval(n.body, env, w) ELSE NoneV
      [] n.k = "match" -> Chosen(n, Eval(n.src, env, w), env, w)
      [] n.k = "expr" -> Applied(n.op, Each(LAMBDA e : Eval(e, env, w), n.e), w)

Chosen(n, v, env, w) ==
    LET hits == SelectSeq(n.arms, LAMBDA a : Bind(a.pattern, v) # {})
    IN  IF hits = <<>> THEN NoneV
        ELSE Eval(hits[1].body, (CHOOSE b \in Bind(hits[1].pattern, v) : TRUE) @@ env, w)

Applied(op, v, w) ==
    LET fix == SelectSeq(w.defs, LAMBDA d : d.name = op) IN
    CASE fix # <<>> ->
            LET env == FoldLeft(LAMBDA e, i : (N(fix[1].args[i]) :> v[i]) @@ e, <<>>, [j \in DOMAIN v |-> j])
            IN  IF v[1] = ZV(0) THEN Eval(fix[1].zero, env, w)
                ELSE Eval(fix[1].succ, (N("_N_") :> ZV(v[1].i - 1)) @@ env, w)
      [] fix = <<>> /\ op \in MemoryOps -> OfMemory(op, v)
      [] fix = <<>> /\ op \in Ops \cup Binops -> Apply(op, v)
      [] fix = <<>> /\ op \notin MemoryOps \cup Ops \cup Binops -> Primitive(op, v, w.oracle)

SpecOf(spec, env, oracle) ==
    Eval(spec.n, (N("st") :> StV(<<>>, "none")) @@ env, [oracle |-> oracle, defs |-> spec.defs])

(* What the specification has to denote for a run of the code. *)
Expected(f, body, run) ==
    LET st == StV(run.tr, IF HasAlloc(body) THEN "freed" ELSE "none") IN
    IF run.st # "return" THEN NoneV
    ELSE SomeV(IF f.void THEN st ELSE TupV(<<AsSpec(run.ret), st>>))
==============================================================================
