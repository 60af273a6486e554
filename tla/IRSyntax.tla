-------------------------------- MODULE IRSyntax --------------------------------
(***************************************************************************)
(* The intermediate representation between the loader and the              *)
(* specifications (include/instructions.h, irvalues.h, irtypes.h): values, *)
(* conditions, instructions, terminators and types, as terms.              *)
(***************************************************************************)
EXTENDS Integers, Sequences

(***************************************************************************)
(* Values: a local, a constant; conditions: a comparison with a constant   *)
(* and the disjunction the merging of branches makes.  NoCond is the null  *)
(* condition of an unconditional edge.                                     *)
(***************************************************************************)
VLocal(x)   == [k |-> "local", x |-> x]
VInt(i)     == [k |-> "int", i |-> i]
VBool(b)    == [k |-> "bool", b |-> b]
VPtr(i)     == [k |-> "ptr", i |-> i]
Ceq(x, i)   == [k |-> "eq", x |-> x, i |-> i]
IsTrue(x)   == [k |-> "true", x |-> x]
OOr(a, b)   == [k |-> "or", a |-> a, b |-> b]
NoCond      == [k |-> "none"]
NoVal       == [k |-> "none"]

(***************************************************************************)
(* Instructions.  Loop and After of a continue or a break are the node     *)
(* names it carries until its loop is built.                               *)
(***************************************************************************)
IAssign(x, v)        == [k |-> "assign", x |-> x, v |-> v]
ICall(x, f, args)    == [k |-> "call", x |-> x, f |-> f, args |-> args]
ICallPtr(x, p, args) == [k |-> "callptr", x |-> x, p |-> p, args |-> args]
ISelect(x, c, a, b)  == [k |-> "select", x |-> x, cond |-> c, a |-> a, b |-> b]
IBinOp(x, op, a, b)  == [k |-> "binop", x |-> x, op |-> op, a |-> a, b |-> b]
ILoad(x, typ, p)     == [k |-> "load", x |-> x, typ |-> typ, p |-> p]
IStore(typ, v, p)    == [k |-> "store", typ |-> typ, v |-> v, p |-> p]
IAlloc(x, typ)       == [k |-> "alloc", x |-> x, typ |-> typ]
IGetElemPtr(x, typ, p, idx) == [k |-> "gep", x |-> x, typ |-> typ, p |-> p, idx |-> idx]
IReturn(v)           == [k |-> "return", v |-> v]
IPHI(x, values)      == [k |-> "phi", x |-> x, values |-> values]
IContinue(l)         == [k |-> "continue", loop |-> l, after |-> ""]
IBreak(l, a)         == [k |-> "break", loop |-> l, after |-> a]
IIf(c, t, e)         == [k |-> "if", cond |-> c, t |-> t, e |-> e]
ILoop(body, lineno)  == [k |-> "loop", body |-> body, lineno |-> lineno]

(* Terminators of a block. *)
IBranch(n)           == [k |-> "br", succ |-> n]
ICondBranch(c, t, f) == [k |-> "cbr", cond |-> c, t |-> t, f |-> f]
ISwitch(x, def, cs)  == [k |-> "switch", x |-> x, def |-> def, cases |-> cs]

(* Types: an integer of some bytes, a bool, a pointer, an array, a struct with its offsets. *)
TInt(n)              == [k |-> "int", size |-> n]
TBool                == [k |-> "bool", size |-> 1]
TPtr(t)              == [k |-> "ptr", size |-> 8, sub |-> t]
TArray(n, t)         == [k |-> "array", size |-> n * t.size, length |-> n, sub |-> t]
TStruct(n, elems)    == [k |-> "struct", size |-> n, elems |-> elems]

IsJump(i) == i.k \in {"continue", "break"}

(* The PHI nodes of a block, and its other instructions. *)
Phis(is)   == SelectSeq(is, LAMBDA i : i.k = "phi")
NoPhis(is) == SelectSeq(is, LAMBDA i : i.k # "phi")
=============================================================================
