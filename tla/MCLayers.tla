-------------------------------- MODULE MCLayers -------------------------------
(***************************************************************************)
(* Projects of four layers over a state of a field f, a record t of fields *)
(* g and h, and a map m of such records: rd at the bottom, get and put (a  *)
(* loop) above it, top calls both, over calls top and, through two layers, *)
(* rd.  What is provided, filtered, abstracted and transformed varies; and *)
(* a few texts are wrong.                                                  *)
(***************************************************************************)
EXTENDS LayerTrees

S    == Sym(N("st"))
S1   == Sym(N("s1"))
S2   == Sym(N("s2"))
A    == Sym(N("a"))
R    == Sym(N("r"))
Q    == Sym(N("q"))
Field(x) == Sym(N(x))
Bin(op, l, r) == Expr(op, <<l, r>>)
F(s) == Expr("RecordGet", <<s, Field("f")>>)
T(s) == Expr("RecordGet", <<s, Field("t")>>)
M(s) == Expr("RecordGet", <<s, Field("m")>>)
G(r) == Expr("RecordGet", <<r, Field("g")>>)
H(r) == Expr("RecordGet", <<r, Field("h")>>)
SetF(s, v) == Expr("RecordSet", <<s, Field("f"), v>>)
SetTG(s, v) == Expr("RecordSet", <<s, Field("t"), Field("g"), v>>)
SetM(s, v) == Expr("RecordSet", <<s, Field("m"), v>>)
At(m, k) == Expr("GET", <<m, k>>)
Put(m, k, v) == Expr("SET", <<m, k, v>>)
Pair(l, r) == Expr("Tuple", <<l, r>>)
Call(f, a, s) == Expr(f, <<a, s>>)

StateT  == StructT("mkS")
RecordT == StructT("mkT")
MCFieldsOf == "mkS" :> <<"f", "t", "m">> @@ "mkT" :> <<"g", "h">> @@ "mkPtr" :> <<"pbase", "poffset">>
MCFieldType == [f |-> ZT, t |-> RecordT, m |-> ZMapT(RecordT), g |-> ZT, h |-> BoolT,
                pbase |-> StringT, poffset |-> ZT]
MCFieldSort == [f |-> "Z", t |-> "other", m |-> "other", g |-> "Z", h |-> "bool",
                pbase |-> "other", poffset |-> "Z"]
MCVarSort == [a |-> "Z"]
NoCodecs == <<>>

Args == <<<<N("a"), ZT>>, <<N("st"), StateT>>>>
Def(ret, body_) == [args |-> Args, ret |-> ret, body |-> body_, fix |-> FALSE, delayed |-> FALSE]
StepT == OptionT(StateT)
ReadT == OptionT(TupleT(<<ZT, StateT>>))
OnStates(body_) == [args |-> <<<<N("st"), StateT>>, <<N("st2"), StateT>>>>, ret |-> PropT,
                    body |-> body_, fix |-> FALSE, delayed |-> FALSE]

(***************************************************************************)
(* The specifications, with the name of put's loop.                        *)
(***************************************************************************)
Rd == Def(ReadT, SomeOf(Pair(Bin("ADD", A, F(S)), S)))
Get == Def(ReadT, When(Pair(R, S1), Call("rd_spec", A, S), SomeOf(Pair(R, SetF(S1, A)))))
GetHigh == Def(ReadT, SomeOf(Pair(Bin("ADD", A, F(S)), SetF(S, A))))
Loop(f) ==
    [Def(StepT, If(Bin("BLE", A, IntC(0)), SomeOf(S),
                  Call(f, Bin("MINUS", A, IntC(1)),
                       SetM(S, Put(M(S), IntC(0), Expr("mkT", <<A, H(At(M(S), A))>>))))))
        EXCEPT !.fix = TRUE]
PutLow(f) ==
    Def(StepT, Rely(Bin("LTE", A, IntC(3)),
                   If(Expr("BNOT", <<H(T(S))>>), SomeOf(SetTG(S, A)), Call(f, A, S))))
Top == Def(ReadT, When(Pair(R, S1), Call("get_spec", A, S),
                      When(S2, Call("put_spec", R, S1), SomeOf(Pair(R, S2)))))
Over == Def(ReadT, When(Pair(R, S1), Call("top_spec", A, S),
                       When(Pair(Q, S2), Call("rd_spec", R, S1),
                            If(Bin("BLT", Q, R), None,
                               SomeOf(Pair(Q, SetM(S2, Expr("ZMap.init", <<T(S2)>>))))))))
Bad == Def(StepT, SomeOf(S))

Helper == Def(ReadT, When(Pair(R, S1), Call("rd_spec", A, S), SomeOf(Pair(Bin("ADD", R, A), S1))))
Raw == Def(ZT, Bin("ADD", A, F(S)))
Abs == Def(ZT, A)

Related == OnStates(Bin("AND", Bin("EQUAL", F(S), F(Sym(N("st2")))),
                               Bin("IMPLIES", Bin("EQUAL", G(T(S)), IntC(0)),
                                              Expr("NOT", <<Expr("below", <<S, Sym(N("st2"))>>)>>))))
BelowF == OnStates(Bin("LT", F(S), F(Sym(N("st2")))))
Lemma == OnStates(Forall(<<[name |-> N("i"), hypo |-> <<>>, ty |-> ZT]>>,
                         Bin("LTE", G(At(M(S), Sym(N("i")))), IntC(3))))
Bounded == Bin("BLE", F(S), G(T(S)))
Limited == Bin("BAND", Expr("limit", <<F(S)>>), Expr("allowed", <<Sym(N("user"))>>))

(***************************************************************************)
(* Statements.                                                             *)
(***************************************************************************)
RECURSIVE Written(_)
Written(t) ==
    CASE t = StateT        -> <<"name", "State">>
      [] t = RecordT       -> <<"name", "T">>
      [] t[1] = "Option"   -> <<"Option", Written(t[2])>>
      [] t[1] = "Function" -> <<"Arrow", t[3][1], t[2]>>
      [] t[1] = "Tuple"    -> <<"Tuple", [i \in DOMAIN t[2] |-> Written(t[2][i])]>>
      [] OTHER             -> t

Open(name) == Statement("begin", name, <<>>, <<>>, <<>>)
Close(name) == Statement("end", name, <<>>, <<>>, <<>>)
Data(t) == Statement("data", "", <<>>, <<t>>, <<>>)
PrimsOf(fs) == Statement("prims", "", fs, <<>>, <<>>)
Op(name, f) == Statement("op", name, <<>>, <<>>, <<"Def", f>>)
Code(path) == Statement("code", path, <<>>, <<>>, <<>>)
Said(command) == Statement("command", "", <<>>, <<>>, command)
Defined(f, d) ==
    Statement(IF d.fix THEN "fixpoint" ELSE "def", f, [i \in DOMAIN d.args |-> d.args[i][1]],
              <<Written(d.ret)>> \o [i \in DOMAIN d.args |-> Written(d.args[i][2])], d.body)
Section(name, statements) == <<Open(name)>> \o statements \o <<Close(name)>>

DataStatements ==
    <<Statement("record", "T", <<"g", "h">>, <<ZT, BoolT>>, <<>>),
      Statement("record", "S", <<"f", "t", "m">>,
                <<ZT, <<"name", "T">>, <<"ZMap", <<"name", "T">>>>>>, <<>>),
      Statement("inductive", "mode", <<"user", "kernel">>, <<>>, <<>>),
      Statement("typedef", "State", <<>>, <<<<"name", "S">>>>, <<>>),
      Statement("decl", "limit", <<>>, <<<<"Arrow", ZT, BoolT>>>>, <<>>),
      Statement("decl", "allowed", <<>>, <<<<"Arrow", <<"name", "mode">>, BoolT>>>>, <<>>),
      Statement("inv", "bounded", <<>>, <<>>, Bounded),
      Statement("inv", "limited", <<>>, <<>>, Limited)>>

(***************************************************************************)
(* Projects.                                                               *)
(***************************************************************************)
LoopLow(v2) == IF v2 THEN "put_loop_0_low" ELSE "put_loop0_low"
LoopHigh(v2) == IF v2 THEN "put_loop_0" ELSE "put_loop0"
LoopMid == "put_loop_0_mid"

Perhaps(condition, statements) == IF condition THEN statements ELSE <<>>

Bottom(v2) ==
    Section("Bottom", <<Data(<<"name", "State">>), Op("load", "ld"), Op("load", "ld2"),
                        Defined("rd_spec", Rd)>>
                      \o Perhaps(v2, <<PrimsOf(<<"rd">>)>>))
Relating ==
    Section("Relations", <<Defined("rel", Related)>>)
    \o Section("EndRelations", <<Defined("same", OnStates(BoolC(TRUE)))>>)
    \o Section("Lemmas", <<Defined("lem", Lemma)>>)
    \o <<Defined("below", BelowF)>>
Above(v2, highs, lows) ==
    Section("Access",
        <<PrimsOf(<<"put", "get">>), PrimsOf(<<"bad">>), Code("kernel.ll")>>
        \o Perhaps("get" \in highs, <<Defined("get_spec", GetHigh)>>)
        \o Perhaps("get" \in lows, <<Defined("get_spec_low", Get)>>)
        \o Perhaps("put" \in lows, <<Defined("put_spec_low", PutLow(LoopLow(v2))),
                                  Defined(LoopLow(v2), Loop(LoopLow(v2))),
                                  Defined(LoopMid, Loop(LoopMid))>>))
    \o Section("Table", <<PrimsOf(<<"top">>)>> \o Perhaps("top" \in highs, <<Defined("top_spec", Top)>>))
    \o Section("Top", <<PrimsOf(<<"over">>)>>)
Helping == <<Defined("dsb_spec", Bad), Defined("help", Helper), Defined("raw", Raw), Defined("abs", Abs)>>

LowOf(f, d) == [name |-> f, d |-> d]
Func(calls, low) == [calls |-> calls, converted |-> TRUE, low |-> low, asm |-> {}, abs_rely |-> <<>>]
Generated(v2) ==
    "get"  :> [Func({"rd"}, <<LowOf("get_spec_low", Get)>>)
                  EXCEPT !.abs_rely = <<Bin("LTE", A, IntC(3))>>] @@
    "put"  :> [Func({}, <<LowOf(LoopLow(v2), Loop(LoopLow(v2))),
                          LowOf("put_spec_low", PutLow(LoopLow(v2)))>>) EXCEPT !.asm = {"dsb"}] @@
    "top"  :> Func({"get", "put"}, <<LowOf("top_spec_low", Top)>>) @@
    "over" :> Func({"rd"}, <<LowOf("over_spec_low", Over)>>) @@
    "bad"  :> [Func({}, <<LowOf("bad_spec_low", Bad)>>) EXCEPT !.converted = ~v2]

SaidAll(commands) == [i \in DOMAIN commands |-> Said(commands[i])]
Named(op, names) == Command(op, names, <<>>, <<>>)
Assumed(op, f, prop) == Command(op, <<f>>, <<>>, prop)
Memory(start, size) == Command("AbstractPattern", <<"wrapper">>, <<start, size>>, <<>>)

ProjectOf(v2, text, target) ==
    [v2 |-> v2, text |-> text, code |-> Generated(v2),
     part |-> "get_spec_low" :> "get" @@ "put_spec_low" :> "put" @@ LoopLow(v2) :> "put" @@
              "top_spec_low" :> "top" @@ "over_spec_low" :> "over" @@ "bad_spec_low" :> "bad",
     mid  |-> LoopMid :> "put",
     high |-> "get_spec_low" :> "get_spec" @@ "put_spec_low" :> "put_spec" @@
              LoopLow(v2) :> LoopHigh(v2) @@ "top_spec_low" :> "top_spec" @@
              "over_spec_low" :> "over_spec" @@ "bad_spec_low" :> "bad_spec",
     funcs |-> "get" :> [lacks |-> {"ret_0"}],
     helpers |-> <<"help", "nobody">>, dry |-> FALSE, target |-> target]

Project(v2, highs, lows, commands, target) ==
    ProjectOf(v2, SaidAll(<<Named("AddDep", <<"over", "top">>)>> \o commands)
                  \o DataStatements \o Bottom(v2) \o Relating \o Helping \o Above(v2, highs, lows), target)

GetRely == <<Assumed("InitRely", "get", Bin("LTE", A, F(S))), Assumed("InitRely", "get", Bin("LTE", IntC(0), F(S)))>>
Conds == <<Assumed("Precondition", "get", Bin("LTE", F(S), IntC(3))),
           Assumed("Postcondition", "top", Bin("LTE", IntC(0), G(T(S)))),
           Assumed("Postcondition", "get", Expr("below", <<S, S>>))>>
Others ==
    <<Command("LoopUnroll", <<"put_spec">>, <<2>>, <<>>), Named("StackVar", <<"get", "v", "stack_v">>),
      Named("Abstract", <<"get", "arg_0", "Z">>), Named("Abstract", <<"get", "ret_0", "Z">>),
      Command("AbstractLayout", <<"T", "g", "h">>, <<2, 0, 8, 8, 16>>, <<>>), Named("Comment", <<>>)>>
Patterned == <<Named("AbstractPattern", <<"raw", "raw">>)>>
Unfolds(v2) ==
    {<<Named("NoUnfold", <<"get_spec">>)>>,
     <<Named("NoUnfold", <<"get_spec">>), Named("Unfold", <<"get_spec">>)>>,
     <<Named("NoUnfoldAll", <<>>)>>,
     <<Named("NoHighSpec", <<"true">>)>>,
     <<Named("NoHighSpec", <<"false">>), Named("DelayUnfold", <<"get_spec">>)>>,
     <<Named("NoTrans", <<"top_spec">>), Named("LoopTrans", <<LoopHigh(v2)>>)>>,
     Conds, Others, Patterned}

(* Texts that are wrong, and projects that end early. *)
Small(v2, statements) == ProjectOf(v2, statements, "")
Whole == Project(TRUE, {}, {}, <<>>, "")
Odd ==
    {Small(TRUE, <<Open("Bottom"), Open("Access")>>), Small(TRUE, <<PrimsOf(<<"rd">>)>>),
     Small(TRUE, <<Statement("decl", "limit", <<>>, <<<<"name", "Nobody">>>>, <<>>)>>),
     Small(TRUE, <<>>), Small(TRUE, Section("Bottom", <<>>)), Small(FALSE, Section("Bottom", <<>>)),
     Small(FALSE, Section("Access", <<PrimsOf(<<"bad">>), Code("kernel.ll")>>)),
     Project(TRUE, {}, {}, <<Named("AbstractPattern", <<"raw", "Z">>)>>, ""),
     Project(TRUE, {}, {}, <<Command("AbstractLayout", <<"Nobody">>, <<0>>, <<>>)>>, ""),
     [Whole EXCEPT !.dry = TRUE], [Whole EXCEPT !.code["put"].asm = {"dsb", "isb"}]}

MCProjects ==
    LET table ==
        {Project(v2, highs, lows, only \o rely, "") :
            v2 \in BOOLEAN, highs \in SUBSET {"get", "top"}, lows \in {{}, {"get"}, {"put"}},
            only \in {<<>>, <<Named("OnlyTrans", <<"top">>)>>, <<Named("OnlyTrans", <<"put">>)>>},
            rely \in {<<>>, GetRely}}
        \cup UNION {{Project(v2, {"top"}, {}, commands, target) :
                        commands \in Unfolds(v2), target \in {"", "put"}} : v2 \in BOOLEAN}
        \cup {Project(TRUE, {}, {}, <<Memory(1, 2), Memory(s, n), Memory(q, 1)>>, "put") :
            s \in 0..5, n \in 0..2, q \in {1, 3, 4, 5}}
        \cup Odd
    IN table

(* What each name means. *)
Meaning(d) == [args |-> [i \in DOMAIN d.args |-> d.args[i][1]], body |-> d.body]
StatementMeaning(st) == [args |-> st.names, body |-> st.body]
MCDefs ==
    LET table ==
        "ptr_offset" :> StatementMeaning(ptr_offset) @@ "bool_to_int" :> StatementMeaning(bool_to_int) @@
        "rd_spec" :> Meaning(Rd) @@ "help" :> Meaning(Helper) @@ "dsb_spec" :> Meaning(Bad) @@
        "raw" :> Meaning(Raw) @@ "abs" :> Meaning(Abs) @@
        "get_spec_low" :> Meaning(Get) @@ "get_spec" :> Meaning(Get) @@
        "put_spec_low" :> Meaning(PutLow("put_loop_0_low")) @@
        "put_spec" :> Meaning(PutLow("put_loop_0_low")) @@
        [f \in {"put_loop_0_low", "put_loop0_low", "put_loop_0", "put_loop0", LoopMid} |->
            Meaning(Loop("put_loop_0_low"))] @@
        "top_spec_low" :> Meaning(Top) @@ "top_spec" :> Meaning(Top) @@
        "over_spec_low" :> Meaning(Over) @@ "over_spec" :> Meaning(Over) @@
        "bad_spec_low" :> Meaning(Bad) @@ "bad_spec" :> Meaning(Bad) @@
        "below" :> Meaning(BelowF) @@ "rel" :> Meaning(Related) @@ "lem" :> Meaning(Lemma)
    IN table

Recs == {RecV("mkT", [g |-> ZV(i), h |-> BV(b)]) : i \in 0..1, b \in BOOLEAN}
MCValues ==
    LET table ==
        ZT :> {ZV(0), ZV(2)} @@
        BoolT :> {BV(FALSE), BV(TRUE)} @@
        PtrT :> {RecV("mkPtr", [pbase |-> [t |-> "string", s |-> "base"], poffset |-> ZV(1)])} @@
        StateT :> {RecV("mkS", [f |-> ZV(i), t |-> r,
                                m |-> MapV([k \in 0..4 |-> RecV("mkT", [g |-> ZV(1), h |-> BV(FALSE)])])]) :
                       i \in 0..1, r \in Recs}
    IN table
===============================================================================
