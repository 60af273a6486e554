---------------------------- MODULE MCSpecProver ----------------------------
(***************************************************************************)
(* SpecProver over four states and a family of programs: a primitive that  *)
(* calls a helper, which may call a loop that iterates by calling itself.  *)
(* What the functions do, require and promise varies, and with it which    *)
(* checks can succeed.                                                     *)
(***************************************************************************)
EXTENDS SpecProver

CONSTANTS prim, helper, loop, ghost

MCStates == 0..3

MCNames == {prim, helper, loop, ghost}

MCFuncs == {prim, helper, loop}

Map(f) == {<<s, f[s]>> : s \in MCStates}

Same == Map([s \in MCStates |-> s])
ToZero == Map([s \in MCStates |-> 0])
Down == Map([s \in MCStates |-> IF s = 0 THEN 0 ELSE s - 1])
Up == Map([s \in MCStates |-> IF s = 3 THEN 3 ELSE s + 1])
Mod2 == Map([s \in MCStates |-> s % 2])
Swap == {<<0, 1>>, <<1, 0>>, <<2, 3>>, <<3, 3>>}
NotUp == {e \in MCStates \X MCStates : e[2] <= e[1]}
Any == MCStates \X MCStates

Returns(r) == [end |-> "return", before |-> r, callee |-> NoFunc, after |-> {}]
CallsThen(r, g, q) == [end |-> "call", before |-> r, callee |-> g, after |-> q]
Ends(r, g) == [end |-> "tail", before |-> r, callee |-> g, after |-> {}]

MakeProgram(paths, pre, promise, specified, prims, invs, opts) ==
    [funcs |-> MCFuncs, paths |-> paths, pre |-> pre, promise |-> promise,
     loops |-> {loop}, specified |-> specified, prims |-> prims, invs |-> invs, opts |-> opts,
     rank |-> [f \in MCFuncs |-> CASE f = prim -> 2 [] f = helper -> 1 [] f = loop -> 0]]

Functions(p, h, l) ==
    [f \in MCFuncs |-> CASE f = prim -> p [] f = helper -> h [] f = loop -> l]

AllOpts == {"inv", "loop", "prepost"}

MCPrimPaths ==
    {{CallsThen(b, helper, a)} : b \in {Same, Swap}, a \in {Same, Up}}
        \cup {{Returns(Swap), CallsThen(Same, helper, Same)}}

MCHelperPaths ==
    {{CallsThen(b, loop, Same)} : b \in {Same, Mod2}} \cup {{Returns(Up)}, {Returns(ToZero)}}

MCLoopPaths == {{Returns(r), Ends(q, loop)} : r \in {Same, ToZero}, q \in {Down, Swap}}

AllStates == Functions(MCStates, MCStates, MCStates)

MCPre ==
    {Functions(MCStates, q, {0, 1}) : q \in {MCStates, {0, 1}}}
        \cup {AllStates}

MCPromises ==
    {Functions(Any, Any, NotUp), Functions(Any, NotUp, NotUp), Functions(Any, ToZero, ToZero),
     Functions(ToZero, ToZero, ToZero)}

\* Swap preserves the first invariant, and the second one given the first.
MCInvs == {<<{0, 1, 3}, {0, 1, 2}>>, <<{0, 1, 2}, {0, 1, 3}>>}

\* The checks all on: what the functions do and promise varies.
Thorough ==
    {MakeProgram(Functions(p, h, l), q, r, {loop}, {prim}, invs, AllOpts) :
        p \in MCPrimPaths, h \in MCHelperPaths, l \in MCLoopPaths, q \in MCPre,
        r \in MCPromises, invs \in MCInvs}

Plain == Functions({CallsThen(Same, helper, Same)}, {CallsThen(Same, loop, Same)},
                   {Returns(ToZero), Ends(Down, loop)})

\* Some checks off, more primitives (one that is not defined), no loop invariant.
Partial ==
    {MakeProgram(Plain, AllStates, Functions(Any, Any, ToZero), spec, prims,
                 <<{0, 1}, {0, 2}>>, opts) :
        spec \in {{}, {loop}}, prims \in {{prim, ghost}, {prim, helper}, {}},
        opts \in SUBSET AllOpts}

MCPrograms == Thorough \cup Partial

\* A Definition that ends in a call.
MCTailPrograms ==
    {MakeProgram(Functions({Ends(Same, helper)}, {Returns(Up)}, {Returns(Same)}),
                 AllStates, Functions(ToZero, Up, Same), {loop}, {prim}, <<MCStates>>, AllOpts)}

=============================================================================
