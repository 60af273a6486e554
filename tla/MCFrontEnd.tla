------------------------------- MODULE MCFrontEnd -------------------------------
EXTENDS FrontEnd

(* A loop nest of three blocks a, b and c, entered from e and left to d. *)
Blocks == <<"e", "a", "b", "c", "d">>
Inner == {"a", "b", "c", "d"}
Terms(self) ==
    {IBranch(x) : x \in Inner}
      \cup {ICondBranch(Ceq("r" \o self, 1), p[1], p[2]) : p \in {q \in Inner \X Inner : q[1] # q[2]}}
EntryTerms == {IBranch("a"), ICondBranch(Ceq("re", 1), "a", "b")}
Block(b, n, t) == [insts |-> <<ICall("r" \o b, b, <<>>)>>, term |-> t, lineno |-> n]
Fun(te, ta, tb, tc) ==
    [order |-> Blocks, args |-> <<>>, void |-> FALSE, rely |-> <<>>, loopRely |-> <<>>,
     blocks |-> [b \in ToSet(Blocks) |->
        CASE b = "e" -> Block(b, 1, te) [] b = "a" -> Block(b, 2, ta)
          [] b = "b" -> Block(b, 3, tb) [] b = "c" -> Block(b, 4, tc)
          [] b = "d" -> Block(b, 5, IReturn(VInt(0)))]]
SuccsOf(t) == {e.next : e \in ToSet(OutEdges(t))}
Reach(f, S) == S \cup UNION {SuccsOf(f.blocks[b].term) : b \in S}
AllReached(f) == Reach(f, Reach(f, Reach(f, Reach(f, {"e"})))) = ToSet(f.order)
Family == {f \in {Fun(te, ta, tb, tc) : te \in EntryTerms, ta \in Terms("a"), tb \in Terms("b"), tc \in Terms("c")} :
              AllReached(f) /\ (f.blocks["e"].term.k = "cbr" => f.blocks["c"].term.k = "br")}


(* Functions with data: what the blocks of some shapes do. *)
X == VLocal("x")
Shape(args, void, rely, names, Ins(_), Term(_)) ==
    [order |-> names, args |-> args, void |-> void, rely |-> rely, loopRely |-> <<>>,
     blocks |-> [b \in ToSet(names) |->
        [insts |-> Ins(b), term |-> Term(b), lineno |-> CHOOSE i \in DOMAIN names : names[i] = b]]]

(* One block. *)
Straight(args, void, is, ret) ==
    Shape(args, void, <<>>, <<"e">>, LAMBDA b : is, LAMBDA b : IReturn(ret))
(* A diamond: e branches on x to a and b, which meet in d. *)
Diamond(ie, ia, ib, id, ret) ==
    Shape(<<>>, FALSE, <<>>, <<"e", "a", "b", "d">>,
          LAMBDA q : CASE q = "e" -> ie [] q = "a" -> ia [] q = "b" -> ib [] q = "d" -> id,
          LAMBDA q : CASE q = "e" -> ICondBranch(Ceq("x", 1), "a", "b")
                       [] q \in {"a", "b"} -> IBranch("d") [] q = "d" -> IReturn(ret))
(* A loop: head a branches on x to its body b and to d. *)
Loop(ie, ia, ib, id, ret) ==
    Shape(<<"n">>, FALSE, <<>>, <<"e", "a", "b", "d">>,
          LAMBDA q : CASE q = "e" -> ie [] q = "a" -> ia [] q = "b" -> ib [] q = "d" -> id,
          LAMBDA q : CASE q = "e" -> IBranch("a") [] q = "a" -> ICondBranch(Ceq("x", 1), "b", "d")
                       [] q = "b" -> IBranch("a") [] q = "d" -> IReturn(ret))
Ask0(x, f) == ICall(x, f, <<>>)
NotNegative == Expr("GTE", <<V("n"), IntC(0)>>)
Arr == TPtr(TArray(2, TStruct(8, <<[typ |-> TInt(4), offset |-> 0], [typ |-> TInt(4), offset |-> 4]>>)))
Data ==
    {Straight(<<"n">>, FALSE, <<IAlloc("p", TInt(4)), IStore(TInt(4), VLocal("n"), VLocal("p")),
                       ILoad("x", TInt(4), VLocal("p"))>>, X),
     Straight(<<>>, FALSE, <<ILoad("q", TPtr(TInt(4)), VPtr(4)), IStore(TPtr(TInt(4)), VLocal("q"), VLocal("q")),
                      ILoad("b", TBool, VLocal("q")), ISelect("x", IsTrue("b"), VInt(3), VInt(-5))>>, X),
     Straight(<<"n">>, FALSE, <<IGetElemPtr("q", Arr, VPtr(8), <<VInt(0), VLocal("n"), VInt(1)>>),
                                ILoad("x", TInt(4), VLocal("q"))>>, X),
     Straight(<<"n">>, FALSE, <<IGetElemPtr("q", Arr, VPtr(8), <<VLocal("n"), VInt(2), VInt(1)>>),
                                ILoad("x", TInt(4), VLocal("q"))>>, X),
     Straight(<<>>, TRUE, <<Ask0("x", "ens"), ICall("", "v", <<X>>)>>, NoVal),
     Straight(<<"n">>, FALSE, <<Ask0("x", "f"), IBinOp("y", "sub", X, VLocal("n")), IBinOp("c", "ult", VLocal("y"), X),
                          ISelect("z", IsTrue("c"), X, VLocal("y")), ICall("", "v", <<VLocal("z")>>)>>, VLocal("y")),
     Diamond(<<Ask0("x", "f")>>, <<Ask0("y", "g")>>, <<Ask0("z", "h")>>,
             <<IPHI("w", <<[src |-> "a", val |-> VLocal("y")], [src |-> "b", val |-> VInt(2)]>>)>>, VLocal("w")),
     Diamond(<<Ask0("x", "f"), IAlloc("s", TInt(4))>>, <<IStore(TInt(4), X, VLocal("s"))>>, <<ICall("", "v", <<X>>)>>,
             <<ILoad("w", TInt(4), VLocal("s"))>>, VLocal("w")),
     [Loop(<<>>, <<IPHI("i", <<[src |-> "e", val |-> VInt(0)], [src |-> "b", val |-> VLocal("j")]>>),
                  ICall("x", "f", <<VLocal("i")>>)>>,
          <<IBinOp("j", "add", VLocal("i"), VInt(1)), ICall("y", "g", <<VLocal("j"), VLocal("n")>>)>>, <<>>, VLocal("i"))
        EXCEPT !.rely = <<NotNegative>>, !.loopRely = 1 :> <<NotNegative, Expr("grows", <<St, St>>)>>],
     Loop(<<Ask0("z", "h")>>, <<Ask0("x", "ens")>>, <<ILoad("p", TPtr(TInt(4)), VPtr(4)), ICallPtr("y", VLocal("p"), <<VLocal("z")>>)>>,
          <<Ask0("w", "k")>>, VLocal("w")),
     Loop(<<ILoad("p", TPtr(TInt(4)), VPtr(4))>>, <<ICallPtr("x", VLocal("p"), <<VLocal("n")>>)>>, <<Ask0("y", "f")>>,
          <<>>, X)}

(* A switch of e over a, b and d, whose branches meet again. *)
SwitchOf(def, c1, c2, ta, tb) ==
    Shape(<<>>, FALSE, <<>>, <<"e", "a", "b", "d">>,
          LAMBDA q : <<Ask0("r" \o q, q)>>,
          LAMBDA q : CASE q = "e" -> ISwitch("re", def, <<[val |-> 1, succ |-> c1], [val |-> 2, succ |-> c2]>>)
                       [] q = "a" -> ta [] q = "b" -> tb [] q = "d" -> IReturn(VInt(0)))
Switches ==
    {f \in {SwitchOf(p[1], p[2], p[3], ta, tb) :
                p \in {"a", "b", "d"} \X {"a", "b", "d"} \X {"a", "b", "d"},
                ta \in {IBranch("d"), ICondBranch(Ceq("ra", 1), "b", "d")},
                tb \in {IBranch("d"), ICondBranch(Ceq("rb", 1), "a", "d")}} : AllReached(f)}

MCFunctions == Family \cup Data \cup Switches
MCOracles == [1..5 -> {0, 1}] \cup {<<2>> \o t : t \in [1..3 -> {0, 1}]}
MCArgValues == {0, 1}
MCFields == <<>>
MCRank == 8
MCVoids == {"v"}
MCPost == "ens" :> <<Expr("GTE", <<Sym(N("ret_0")), IntC(0)>>), Expr("grows", <<Sym(N("st")), Sym(N("ret_1"))>>)>>
MCStack == <<>>
=============================================================================
