----------------------------------- MODULE IR -----------------------------------
(***************************************************************************)
(* What running the intermediate representation does: the basic blocks of  *)
(* a function, and the structured instructions the control-flow conversion *)
(* makes of them.                                                          *)
(*                                                                         *)
(* A run is driven by an oracle, a finite sequence of answers: the i-th    *)
(* call of the run returns the i-th answer and the run is stuck when none  *)
(* is left.  The calls made, with the values of their arguments, are the   *)
(* run's trace: the abstract state of the program.                         *)
(***************************************************************************)
EXTENDS IRSyntax, SequencesExt, Bitwise, TLC

RECURSIVE RunInsts(_, _, _), RunLoop(_, _), RunBlocks(_, _, _, _)
RECURSIVE Holds(_, _), RunInst(_, _), RunFunction(_, _, _)

(***************************************************************************)
(* Running.  st says how the run left the instructions: "go" (past the     *)
(* last one), "return", "continue" or "break" (to loop and after), or      *)
(* "stuck".  fuel bounds the jumps of a run that makes no call.            *)
(***************************************************************************)
Start(env, oracle) == [env |-> env, tr |-> <<>>, st |-> "go", ret |-> VInt(0), loop |-> "",
                       after |-> "", oracle |-> oracle, fuel |-> 30]

ValueOf(v, env) ==
    CASE v.k = "local" -> IF v.x \in DOMAIN env THEN env[v.x] ELSE [k |-> "undef"]
      [] OTHER         -> v

Holds(c, env) ==
    CASE c.k = "eq"   -> ValueOf(VLocal(c.x), env) = VInt(c.i)
      [] c.k = "true" -> ValueOf(VLocal(c.x), env) = VBool(TRUE)
      [] c.k = "or"   -> Holds(c.a, env) \/ Holds(c.b, env)

(* A call of f with the values of args; its answer, turned into a value by As, goes to x. *)
Ask(s, f, args, x, As(_)) ==
    IF Len(s.tr) = Len(s.oracle) THEN [s EXCEPT !.st = "stuck"]
    ELSE [s EXCEPT !.env = (IF x = "" THEN <<>> ELSE x :> As(s.oracle[Len(s.tr) + 1])) @@ @,
                   !.tr = Append(@, <<f, [a \in DOMAIN args |-> ValueOf(args[a], s.env)]>>)]

OfType(typ, i) == CASE typ.k = "int" -> VInt(i) [] typ.k = "bool" -> VBool(i # 0) [] typ.k = "ptr" -> VPtr(i)
AsInt(v) == IF v.k = "ptr" THEN VInt(v.i) ELSE v

(* The offset of an element, none when an index is outside its array. *)
OffsetOf(typ, idx) ==
    FoldLeft(LAMBDA a, i :
        CASE a.ok /\ a.typ.k = "ptr" -> [ok |-> TRUE, typ |-> a.typ.sub, off |-> a.off + i * a.typ.sub.size]
          [] a.ok /\ a.typ.k = "array" -> [ok |-> i \in 0..(a.typ.length - 1), typ |-> a.typ.sub,
                                           off |-> a.off + i * a.typ.sub.size]
          [] a.ok /\ a.typ.k = "struct" -> [ok |-> TRUE, typ |-> a.typ.elems[i + 1].typ,
                                            off |-> a.off + a.typ.elems[i + 1].offset]
          [] ~a.ok -> a, [ok |-> TRUE, typ |-> typ, off |-> 0], idx)

Element(s, i) ==
    LET o == OffsetOf(i.typ, [j \in DOMAIN i.idx |-> ValueOf(i.idx[j], s.env).i]) IN
    IF o.ok THEN [s EXCEPT !.env = (i.x :> VPtr(ValueOf(i.p, s.env).i + o.off)) @@ @]
            ELSE [s EXCEPT !.st = "stuck"]

Binary(op, a, b) ==
    CASE op = "add" -> VInt(a.i + b.i) [] op = "sub" -> VInt(a.i - b.i) [] op = "mul" -> VInt(a.i * b.i)
      [] op = "ult" -> VBool(a.i < b.i) [] op = "eq" -> VBool(a = b) [] op = "ne" -> VBool(a # b)
      [] op = "and" -> IF a.k = "bool" THEN VBool(a.b /\ b.b) ELSE VInt(a.i & b.i)

Burn(s) == IF s.fuel = 0 THEN [s EXCEPT !.st = "stuck"] ELSE [s EXCEPT !.fuel = @ - 1, !.st = "go"]

RunInst(i, s) ==
    CASE i.k = "assign" -> [s EXCEPT !.env = (i.x :> ValueOf(i.v, s.env)) @@ @]
      [] i.k = "call"   -> Ask(s, i.f, i.args, i.x, VInt)
      [] i.k = "callptr" -> Ask(s, "*", <<i.p>> \o i.args, i.x, VInt)
      [] i.k = "load"   -> Ask(s, "load", <<VInt(i.typ.size), i.p>>, i.x, LAMBDA a : OfType(i.typ, a))
      [] i.k = "store"  -> Ask(s, "store", <<VInt(i.typ.size), i.p, AsInt(ValueOf(i.v, s.env))>>, "", VInt)
      [] i.k = "alloc"  -> Ask(s, "alloc", <<VInt(i.typ.size)>>, i.x, VPtr)
      [] i.k = "gep"    -> Element(s, i)
      [] i.k = "select" -> [s EXCEPT !.env = (i.x :> ValueOf(IF Holds(i.cond, @) THEN i.a ELSE i.b, @)) @@ @]
      [] i.k = "binop"  -> [s EXCEPT !.env = (i.x :> Binary(i.op, ValueOf(i.a, @), ValueOf(i.b, @))) @@ @]
      [] i.k = "return" -> [s EXCEPT !.st = "return", !.ret = ValueOf(i.v, s.env)]
      [] IsJump(i)      -> [s EXCEPT !.st = i.k, !.loop = i.loop, !.after = i.after]
      [] i.k = "if"     -> RunInsts(IF Holds(i.cond, s.env) THEN i.t ELSE i.e, 1, s)
      [] i.k = "loop"   -> RunLoop(i.body, Burn(s))

RunInsts(is, at, s) ==
    IF at > Len(is) \/ s.st # "go" THEN s ELSE RunInsts(is, at + 1, RunInst(is[at], s))

(* A body that ends without a jump goes round again. *)
RunLoop(body, s) ==
    LET r == RunInsts(body, 1, s) IN
    CASE s.st = "stuck"              -> s
      [] s.st # "stuck" /\ r.st \in {"go", "continue"}  -> RunLoop(body, Burn(r))
      [] s.st # "stuck" /\ r.st = "break"               -> [r EXCEPT !.st = "go"]
      [] s.st # "stuck" /\ r.st \in {"return", "stuck"} -> r

(* What the caller of a function sees of a run. *)
Observed(s) == [st |-> s.st, tr |-> s.tr, ret |-> IF s.st = "return" THEN s.ret ELSE VInt(0)]

(***************************************************************************)
(* A function: its blocks in their order, each with the instructions       *)
(* before the terminator.  RunFunction is the meaning of the basic blocks: *)
(* all the PHI nodes of a block take their values at once.                 *)
(***************************************************************************)

Succ(t, env) ==
    CASE t.k = "br"  -> t.succ
      [] t.k = "cbr" -> IF Holds(t.cond, env) THEN t.t ELSE t.f
      [] t.k = "switch" ->
            LET hits == SelectSeq(t.cases, LAMBDA c : env[t.x] = VInt(c.val))
            IN  IF hits = <<>> THEN t.def ELSE hits[1].succ

TakePhis(is, prev, env) ==
    LET Taken(p) == ValueOf(SelectSeq(p.values, LAMBDA v : v.src = prev)[1].val, env)
    IN  FoldLeft(LAMBDA e, p : (p.x :> Taken(p)) @@ e, env, Phis(is))

RunBlocks(f, b, prev, s) ==
    LET blk == f.blocks[b]
        r == RunInsts(NoPhis(blk.insts), 1, [s EXCEPT !.env = TakePhis(blk.insts, prev, @)])
    IN  CASE s.st = "stuck" -> s
          [] s.st = "go" /\ (r.st # "go" \/ blk.term.k = "return") -> RunInsts(<<blk.term>>, 1, r)
          [] s.st = "go" /\ r.st = "go" /\ blk.term.k # "return" ->
                RunBlocks(f, Succ(blk.term, r.env), b, Burn(r))

RunFunction(f, env, oracle) == Observed(RunBlocks(f, f.order[1], "", Start(env, oracle)))
RunBody(body, env, oracle)  == Observed(RunInsts(body, 1, Start(env, oracle)))
===============================================================================
