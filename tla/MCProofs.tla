-------------------------------- MODULE MCProofs -------------------------------
(***************************************************************************)
(* Small definitions with their contracts, over a state of a field f and a *)
(* record t of fields g and h, and an argument a.                          *)
(***************************************************************************)
EXTENDS Proofs

S  == Sym(st)
S1 == Sym(N("s1"))
S2 == Sym(N("s2"))
A  == Sym(N("a"))
R  == Sym(N("r"))
Field(x) == Sym(N(x))
Bin(op, l, r) == Expr(op, <<l, r>>)
F(s) == Expr("RecordGet", <<s, Field("f")>>)
G(s) == Expr("RecordGet", <<Expr("RecordGet", <<s, Field("t")>>), Field("g")>>)
H(s) == Expr("RecordGet", <<Expr("RecordGet", <<s, Field("t")>>), Field("h")>>)
SetF(s, v) == Expr("RecordSet", <<s, Field("f"), v>>)
SetG(s, v) == Expr("RecordSet", <<s, Field("t"), Field("g"), v>>)
SetH(s, v) == Expr("RecordSet", <<s, Field("t"), Field("h"), v>>)
Pair(l, r) == Expr("Tuple", <<l, r>>)
Old == Sym(N("st_old"))
Ret0 == Sym(<<"_ret", 0>>)
Eq(l, r) == Bin("EQUAL", l, r)
Conj(l, r) == Bin("AND", l, r)

MCVarSort == [st |-> "S", s1 |-> "S", s2 |-> "S", a |-> "Z", r |-> "Z"]
MCFieldsOf == "mkS" :> <<"f", "t">> @@ "mkT" :> <<"g", "h">>
MCFieldSort == [f |-> "Z", t |-> "T", g |-> "Z", h |-> "Z"]
MCFieldAncestor == {<<"g", "t">>, <<"h", "t">>}
NoCodecs == <<>>

Def(body) == [args |-> <<N("a"), st>>, body |-> body]
Bodies ==
    \* primitives without calls
    "copy" :> Def(If(Bin("BLE", A, G(S)), Rely(Bin("LTE", A, IntC(1)), SomeOf(SetF(S, A))), SomeOf(S))) @@
    "blind" :> Def(SomeOf(SetF(S, A))) @@
    "gate" :> Def(If(Bin("BEQ", G(S), IntC(0)), SomeOf(SetF(S, IntC(0))),
                     Rely(Bin("LTE", F(S), G(S)), SomeOf(SetH(SetF(S, G(S)), A))))) @@
    "noise" :> Def(If(Bin("BEQ", H(S), IntC(0)), SomeOf(SetH(S, IntC(1))), SomeOf(SetH(S, A)))) @@
    "leak" :> Def(If(Bin("BEQ", H(S), IntC(0)), SomeOf(SetF(S, IntC(1))), SomeOf(SetF(S, IntC(0))))) @@
    "nest" :> Def(If(Bin("BEQ", A, IntC(0)),
                     If(Bin("BEQ", G(S), IntC(0)), SomeOf(SetF(S, IntC(1))), SomeOf(SetH(S, A))),
                     SomeOf(SetH(S, IntC(0))))) @@
    "arms" :> Def(Match(G(S), <<Arm(IntC(0), If(Bin("BEQ", F(S), A), SomeOf(S), SomeOf(SetF(S, A)))),
                               Arm(IntC(1), If(Bin("BLT", F(S), A), SomeOf(SetG(S, IntC(0))), None))>>)) @@
    "peek" :> Def(Match(H(S), <<Arm(IntC(0), If(Bin("BEQ", F(S), A), SomeOf(S), SomeOf(SetF(S, A)))),
                               Arm(IntC(1), If(Bin("BEQ", G(S), A), SomeOf(SetF(S, IntC(0))), SomeOf(S)))>>)) @@
    "look" :> Def(Match(H(S), <<Arm(R, If(Bin("BEQ", R, IntC(0)), SomeOf(S), SomeOf(SetF(S, IntC(1)))))>>)) @@
    "spy" :> Def(SomeOf(Pair(H(S), S))) @@
    "echo" :> Def(When(Pair(R, S1), Expr("spy", <<A, S>>), SomeOf(SetF(S1, R)))) @@
    "relay" :> Def(Match(SetG(S, A), <<Arm(S1, Match(SetH(S1, IntC(1)), <<Arm(S2,
                     If(Bin("BEQ", G(S2), IntC(0)), SomeOf(SetF(S2, IntC(0))), SomeOf(SetF(S2, G(S2)))))>>))>>)) @@
    "chain" :> Def(Match(SetG(S, A), <<Arm(S1, SomeOf(SetF(S1, G(S1))))>>)) @@
    \* callees and callers
    "put" :> Def(SomeOf(SetF(S, A))) @@
    "take" :> Def(SomeOf(Pair(F(S), SetF(S, IntC(0))))) @@
    "free" :> Def(SomeOf(SetH(S, A))) @@
    "tick" :> Def(SomeOf(SetH(S, IntC(0)))) @@
    "swap" :> Def(When(Pair(R, S1), Expr("take", <<A, S>>), SomeOf(SetF(S1, R)))) @@
    "call" :> Def(If(Bin("BLE", A, G(S)), When(S1, Expr("put", <<A, S>>), SomeOf(SetH(S1, F(S1)))), SomeOf(S))) @@
    "rash" :> Def(When(S1, Expr("put", <<A, S>>), SomeOf(S1))) @@
    "lost" :> Def(When(S1, Expr("free", <<A, S>>), SomeOf(S1))) @@
    "kept" :> Def(When(S1, Expr("tick", <<A, S>>), SomeOf(S))) @@
    "hand" :> Def(If(Bin("BEQ", A, IntC(0)), Expr("put", <<A, S>>), SomeOf(S))) @@
    \* loops
    "drain" :> Def(If(Bin("BGT", A, IntC(0)),
                      Expr("drain", <<Bin("MINUS", A, IntC(1)), SetF(S, A)>>), SomeOf(Pair(A, S)))) @@
    "spill" :> Def(If(Bin("BGT", A, IntC(0)),
                      Expr("spill", <<Bin("MINUS", A, IntC(1)), SetG(S, A)>>), SomeOf(Pair(A, S)))) @@
    "run" :> Def(When(Pair(R, S1), Expr("drain", <<A, S>>), SomeOf(SetF(S1, R))))
MCLoops == {"drain", "spill"}
MCReturned == [f \in DOMAIN Bodies |-> IF f \in {"take", "spy", "drain", "spill"} THEN 2 ELSE 1]

Preconditions == "put" :> Bin("LTE", A, G(S)) @@ "drain" :> Bin("LTE", IntC(0), A) @@ "gate" :> Bin("LTE", F(S), G(S))
Postconditions ==
    "put" :> Conj(Eq(F(S), A), Eq(G(S), G(Old))) @@
    "take" :> Conj(Eq(Ret0, F(Old)), Conj(Eq(F(S), IntC(0)), Eq(G(S), G(Old)))) @@
    "swap" :> Conj(Eq(F(S), F(Old)), Eq(G(S), G(Old))) @@
    "blind" :> Eq(F(S), F(Old)) @@
    "gate" :> Bin("LTE", F(S), G(S)) @@
    "noise" :> Eq(F(S), F(Old)) @@
    "chain" :> Eq(F(S), A) @@
    "relay" :> Eq(F(S), G(S)) @@
    "call" :> Bin("LTE", F(S), G(S)) @@
    "nest" :> Bin("OR", Eq(F(S), F(Old)), Conj(Eq(A, IntC(0)), Eq(G(S), IntC(0)))) @@
    "lost" :> Eq(F(S), F(Old)) @@
    "hand" :> Eq(F(S), F(Old)) @@
    "run" :> Eq(F(S), IntC(0))
Invariants ==
    "drain" :> Conj(Eq(A, IntC(0)), Eq(G(S), G(Old))) @@
    "spill" :> Conj(Eq(A, IntC(0)), Eq(G(S), G(Old)))
MCPreserveInv == {"tick"}

(***************************************************************************)
(* The valuations: every choice of `wide` bits of a state for each state   *)
(* name (fields f, g and, where wide is 3, h) and of a bit for each        *)
(* integer name.                                                           *)
(***************************************************************************)
StateV(f, g, h) == RecV("mkS", [f |-> ZV(f), t |-> RecV("mkT", [g |-> ZV(g), h |-> ZV(h)])])
Position(x, names) == CHOOSE i \in DOMAIN names : names[i] = x
Valued(states, ints, wide) ==
    LET bits == wide * Len(states) + Len(ints)
        Bit(i, j) == ((i - 1) \div 2^j) % 2
        StateAt(i, j) == StateV(Bit(i, j), Bit(i, j + 1), IF wide = 3 THEN Bit(i, j + 2) ELSE 0)
        Valuation(i) ==
            [x \in ToSet(states) |-> StateAt(i, wide * (Position(x, states) - 1))]
              @@ [x \in ToSet(ints) |-> ZV(Bit(i, bits - Position(x, ints)))]
              @@ N("?") :> ZV(9)
    IN  <<>> \o [i \in 1..2^bits |-> Valuation(i)]
Looped(f) == Valued(<<st, N(f \o "_st_new")>>, <<N("a"), N(f \o "_a_new")>>, 2)
Families ==
    "one" :> Valued(<<st>>, <<N("a")>>, 3) @@
    "called" :> Valued(<<st, N("s1")>>, <<N("a"), N("r")>>, 2) @@
    "drain" :> Looped("drain") @@
    "spill" :> Looped("spill") @@
    "two" :> Valued(<<st, N("st_sim")>>, <<N("a")>>, 3) @@
    "twocalled" :> Valued(<<st, N("st_sim"), N("s1"), N("s1_sim")>>, <<N("a")>>, 2)

(***************************************************************************)
(* The values of the constants.  TLC evaluates such a definition at every  *)
(* use of its constant, but what it names once; a LET keeps its coverage   *)
(* from taking the tables apart at each use.                               *)
(***************************************************************************)
MCDefs == LET table == Bodies IN table
MCValuations == LET table == Families IN table
MCPreCond == LET table == Preconditions IN table
MCPostCond == LET table == Postconditions IN table
MCLoopInvs == LET table == Invariants IN table

(***************************************************************************)
(* The checks.                                                             *)
(***************************************************************************)
Inv == Bin("LTE", F(S), G(S))
Lemma == Bin("LTE", G(S), IntC(1))
Rel(body) == [args |-> <<N("x1"), N("x2")>>, body |-> body]
X1 == Sym(N("x1"))
X2 == Sym(N("x2"))
SameF == Rel(Eq(F(X1), F(X2)))
SameH == Rel(Eq(H(X1), H(X2)))
SameG == Rel(Eq(G(X1), G(X2)))
SameFG == Rel(Conj(Eq(F(X1), F(X2)), Eq(G(X1), G(X2))))

Check == [name |-> "copy", mode |-> "SYS", goal |-> Inv, rel |-> SameFG, end_rel |-> {}, weak |-> <<>>,
          lemmas |-> <<>>, axioms |-> <<>>, verified |-> <<>>, coi |-> FALSE, check_none |-> FALSE,
          prune |-> TRUE, not_public |-> {}, ignored |-> {}, envs |-> "one",
          parts |-> <<>>, end_parts |-> <<>>, unverified |-> {}]
Sys(f, envs, none) == [Check EXCEPT !.name = f, !.envs = envs, !.check_none = none, !.lemmas = <<Lemma>>]
PrePost(f, envs, c) == [Check EXCEPT !.name = f, !.mode = "PREPOST", !.goal = Postconditions[f], !.coi = c, !.envs = envs]
Loop(f) == [Check EXCEPT !.name = f, !.mode = "LOOP", !.goal = Invariants[f], !.envs = f]
Hprop(f, envs, rel, end, c, p) ==
    [Check EXCEPT !.name = f, !.mode = "REL", !.rel = rel, !.end_rel = end, !.coi = c, !.prune = p, !.envs = envs]

Decomposed(f, parts, end, left) ==
    [Hprop(f, "two", Whole(parts), {}, TRUE, TRUE) EXCEPT
        !.parts = parts, !.end_parts = end, !.unverified = left]

MCTasks ==
    {Sys(f, "one", none) : f \in {"copy", "blind", "gate", "arms"}, none \in BOOLEAN}
      \cup {Sys(f, "called", none) : f \in {"call", "rash", "kept", "swap", "lost"}, none \in BOOLEAN}
      \cup {PrePost(f, "one", c) : f \in {"gate", "noise", "chain", "nest", "blind", "hand", "relay"}, c \in BOOLEAN}
      \cup {PrePost(f, "called", c) : f \in {"call", "swap", "lost", "run"}, c \in BOOLEAN}
      \cup {Loop(f) : f \in MCLoops}
      \cup {Hprop(f, "two", SameFG, end, c, p) :
              f \in {"copy", "gate", "noise", "leak", "nest", "arms", "peek", "chain", "relay", "look"},
              end \in {{}, {SameF}}, c \in BOOLEAN, p \in BOOLEAN}
      \cup {Hprop("call", "twocalled", SameFG, {}, TRUE, TRUE)}
      \cup {Decomposed(f, parts, end, left) :
              f \in {"copy", "gate", "noise", "leak", "nest", "peek", "chain"},
              parts \in {<<SameF, SameG>>, <<SameF, SameH>>}, end \in {<<>>, <<SameF>>}, left \in {{}, {SameF}}}
      \* what is proved or assumed elsewhere
      \cup {[Sys("blind", "one", FALSE) EXCEPT !.axioms = <<Bin("LTE", A, G(S))>>],
            [Sys("blind", "one", FALSE) EXCEPT !.verified = <<Bin("LTE", IntC(1), G(S))>>],
            [Hprop("leak", "two", SameFG, {}, TRUE, TRUE) EXCEPT !.weak = <<SameH>>],
            [Hprop("nest", "two", SameFG, {}, TRUE, TRUE) EXCEPT !.verified = <<Inv>>]}
(* The first run names a value it reads, and stores it. *)
MCNameTasks == {Hprop("echo", "two", SameFG, end, c, p) : end \in {{}, {SameF}}, c \in BOOLEAN, p \in BOOLEAN}
===============================================================================
