--------------------------- MODULE MCSpecTransformer ---------------------------
(***************************************************************************)
(* Small definitions for the two drivers of the transformer, over two      *)
(* integers a and b, an option o, a record st and a map m.                 *)
(***************************************************************************)
EXTENDS SpecTransformer

a == Sym(N("a"))
b == Sym(N("b"))
o == Sym(N("o"))
st == Sym(N("st"))
m == Sym(N("m"))
x == Sym(N("x"))
y == Sym(N("y"))
z == Sym(N("z"))
k == Sym(N("k"))
q == Sym(N("q"))
Int0 == IntC(0)
Int1 == IntC(1)
Bin(op, l, r) == Expr(op, <<l, r>>)
NoneP == Expr("None", <<>>)

MCVarSort == [a |-> "Z", b |-> "Z", o |-> "option", st |-> "S", m |-> "ZMap",
              x |-> "Z", y |-> "Z", z |-> "Z", k |-> "Z", q |-> "Z"]
MCFieldsOf == "mkS" :> <<"f", "g">>
MCFieldSort == [f |-> "Z", g |-> "Z"]
MCFieldOrder == <<"f", "g">>
MCCodecs == "to_abs" :> "of_abs" @@ "of_abs" :> "to_abs"

MCDefs ==
    "Incr" :> [args |-> <<N("n")>>, body |-> SomeOf(Bin("ADD", Sym(N("n")), Int1))] @@
    "Pick" :> [args |-> <<N("n"), N("k")>>,
               body |-> If(Bin("BLT", Sym(N("n")), Sym(N("k"))), Sym(N("n")), Sym(N("k")))] @@
    "Loop" :> [args |-> <<N("a")>>,
               body |-> If(Bin("BGT", a, Int0),
                           Bin("ADD", Int1, Expr("Loop", <<Bin("MINUS", a, Int1)>>)), Int0)]

Vals == [a : 0..2, b : 0..1, o : {NoneV, SomeV(ZV(0)), SomeV(ZV(1))}, st : 0..1, q : 0..1]
EnvOf(v) ==
    N("a") :> ZV(v.a) @@ N("b") :> ZV(v.b) @@ N("o") :> v.o
      @@ N("st") :> RecV("mkS", [f |-> ZV(v.st), g |-> ZV(2)])
      @@ N("m") :> MapV([i \in 0..3 |-> ZV(1)]) @@ N("q") :> ZV(v.q) @@ N("?") :> ZV(3)
MCEnvs == {EnvOf(v) : v \in Vals}

ArgsOf == <<N("a"), N("b"), N("o"), N("st"), N("m")>>
Input(name, body_, pre, driver, unf) ==
    [name |-> name, args |-> ArgsOf, body |-> body_, pre |-> pre, driver |-> driver, unfold |-> unf]

ForallQ == Forall(<<[name |-> N("q"), hypo |-> <<>>]>>, Bin("LTE", q, y))
(* Hand-written bodies: one for every construct the rules look at. *)
Bodies ==
    { \* a let, a when under it, and a rely the precondition may decide
      Let(N("x"), Bin("ADD", a, Int0),
          When(y, o, Rely(Bin("LT", x, IntC(3)), SomeOf(Bin("ADD", x, y))))),
      \* a when whose source is a when; the names of the two binders are the same
      When(y, When(y, o, SomeOf(Bin("ADD", y, b))), SomeOf(Bin("MULT", y, a))),
      \* branches inside operands, a comparison of constants, bits
      SomeOf(Bin("ADD", If(Bin("BEQ", a, Int0), b, Int1),
                        If(Bin("BLT", Int0, Int1), Bin("BITOR", Bin("BITOR", a, Int1), IntC(2)), a))),
      \* writes and reads of a record and of a map
      Let(N("x"), RecordGet(RecordSet(RecordSet(st, <<"g">>, b), <<"f">>, a), "g"),
          SomeOf(Bin("ADD", x, Bin("GET", Expr("SET", <<m, a, b>>), Bin("MINUS", a, Int0))))),
      Let(N("x"), RecordSet(st, <<"f">>, RecordGet(st, "f")),
          SomeOf(Bin("ADD", RecordGet(x, "f"), Expr("of_abs", <<Expr("to_abs", <<b>>)>>)))),
      \* two calls, one under the other's binder
      When(x, Expr("Incr", <<a>>), When(y, Expr("Incr", <<x>>), SomeOf(Expr("Pick", <<y, b>>)))),
      \* nested branches on one condition, and a source read again under its pattern
      If(Bin("EQUAL", a, Int0), If(Bin("EQUAL", a, Int0), SomeOf(a), None),
         Match(o, <<Arm(SomeOf(z), If(Bin("EQUAL", o, None), None, SomeOf(Bin("MINUS", z, Int0)))),
                    Arm(NoneP, SomeOf(Int1))>>)),
      \* a tuple, a quantifier and the negation of a comparison
      Match(Expr("Tuple", <<a, b>>),
            <<Arm(Expr("Tuple", <<x, y>>),
                  If(Expr("NOT", <<ForallQ>>),
                     SomeOf(x), If(Expr("BNOT", <<Bin("BLT", x, y)>>), SomeOf(y), None)))>>) }

(* Every source of options in a when, and in a match that recovers from None, *)
(* before every continuation.                                                 *)
Sources ==
    {o, None, SomeOf(a), If(Bin("BLT", a, b), SomeOf(a), o),
     When(k, o, SomeOf(Bin("ADD", k, a))),
     Match(o, <<Arm(SomeOf(k), SomeOf(k)), Arm(NoneP, SomeOf(b))>>),
     Match(o, <<Arm(SomeOf(k), None), Arm(NoneP, SomeOf(b))>>),
     Expr("Incr", <<a>>)}
RelySources == {Rely(Bin("LT", b, Int1), o), Rely(Bin("BLE", Int0, a), SomeOf(b))}
Conts ==
    {SomeOf(Bin("ADD", x, b)),
     If(Bin("BEQ", x, Int0), SomeOf(b), None),
     Rely(Bin("LT", x, IntC(2)), SomeOf(x)),
     When(y, o, SomeOf(Bin("MULT", y, x))),
     When(y, Expr("Incr", <<x>>), If(Bin("BLT", y, x), SomeOf(y), None))}
Products ==
    {When(x, s, c) : s \in Sources \cup RelySources, c \in Conts} \cup
    {Match(s, <<Arm(SomeOf(x), c), Arm(NoneP, SomeOf(a))>>) : s \in Sources, c \in Conts}

Below2 == <<Bin("LT", a, IntC(2))>>
MCInputs ==
    {Input("D", bd, pre, dr, unf) : bd \in Bodies, pre \in {<<>>, Below2},
                                    dr \in {"v1", "v2"}, unf \in BOOLEAN} \cup
    {Input("D", bd, Below2, dr, TRUE) : bd \in Products, dr \in {"v1", "v2"}}

(* One definition each, on which a driver goes wrong. *)
Both(body_) == {Input("D", body_, <<>>, dr, FALSE) : dr \in {"v1", "v2"}}
RelyInputs == Both(Match(Rely(Bin("LT", b, Int1), o),
                         <<Arm(SomeOf(x), SomeOf(x)), Arm(NoneP, SomeOf(a))>>))
AnnoInputs == Both(Anno(Bin("BEQ", Int0, Int0), SomeOf(a)))
CaptureInputs == Both(Let(N("y"), Bin("ADD", a, Int1),
                          When(x, When(y, o, SomeOf(y)), SomeOf(Bin("ADD", x, y)))))
QuantInputs == Both(Let(N("x"), Bin("ADD", a, b),
                        Rely(Forall(<<[name |-> N("x"), hypo |-> <<>>]>>, Bin("LT", x, IntC(2))),
                             SomeOf(x))))
HypoInputs == Both(Match(Expr("Tuple", <<a, b>>),
    <<Arm(Expr("Tuple", <<x, y>>),
          If(Forall(<<[name |-> N("q"), hypo |-> <<>>], [name |-> N("h"), hypo |-> <<Bin("LT", q, x)>>]>>,
                    Bin("LTE", q, y)), SomeOf(x), None))>>))
MatchInputs == Both(If(Match(o, <<Arm(SomeOf(x), BoolC(FALSE)), Arm(NoneP, BoolC(TRUE))>>),
                       SomeOf(a), SomeOf(b)))
NegationInputs == Both(If(Expr("BNOT", <<Bin("BNE", a, Int1)>>), SomeOf(a), None))
FoldInputs == Both(SomeOf(Bin("ADD", IntC(2^6 - 4), IntC(10))))
NullInputs == Both(Rely(Bin("LT", a, a), SomeOf(a)))
LoopInputs == {Input("Loop", Defs["Loop"].body, <<>>, "v2", TRUE)}

MCBlocked == {}
MCFixpoints == {"Loop"}
MCLocated == {"Incr"}
MCSkip == {"Pick"}
MCLoopUnroll == [Loop |-> 1, D |-> 1]
===============================================================================
