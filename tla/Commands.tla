------------------------------- MODULE Commands -------------------------------
(***************************************************************************)
(* The commands of a project file (Project::cmds, Project::add_command,    *)
(* Project::add_options): what to unfold and to transform, which           *)
(* primitives to keep, what to assume of them, and where the memory the    *)
(* code may take for granted lies.                                         *)
(*                                                                         *)
(* A command is its operator, the names and the numbers among its          *)
(* operands, and the proposition when it has one.  A wrong number of       *)
(* operands fails an assertion and is not modelled.                        *)
(***************************************************************************)
EXTENDS Integers, Sequences, Containers

Command(op, names, nums, prop) == [op |-> op, names |-> names, nums |-> nums, prop |-> prop]

(* The operands the assertions of add_command demand, where it matters here. *)
WellFormed(c) ==
    /\ c.op \in STRING
    /\ c.names \in Seq(STRING)
    /\ c.nums \in Seq(Nat)
    /\ c.op = "AddDep" => Len(c.names) = 2
    /\ c.op = "AbstractPattern" => <<Len(c.names), Len(c.nums)>> \in {<<2, 0>>, <<1, 2>>}

(* Commands that collect names, ... *)
NameSets == {"Unfold", "NoUnfold", "NoTrans", "OnlyTrans", "LoopTrans", "TrySplit", "DelayUnfold",
             "DisableFunc", "CheckInv", "Preserve"}
(* ... propositions or names per name, ... *)
PropLists == {"InitRely", "PostEnsure", "Precondition", "Postcondition"}
NameLists == {"AddDep"}
(* ... one entry per name, ... *)
Entries == {"LoopUnroll", "StackVar", "Abstract"}
(* ... a switch, ... *)
Switches == {"NoUnfoldAll", "NoHighSpec"}
(* ... and descriptions of memory. *)
Patterns == {"AbstractConstant", "AbstractSpec", "AbstractLayout"}

Operators == NameSets \cup PropLists \cup NameLists \cup Entries \cup Switches \cup Patterns

NoCommands ==
    [op \in Operators |-> IF op \in NameSets THEN {} ELSE IF op \in Switches THEN FALSE ELSE <<>>]

ListOf(lists, f) == IF f \in DOMAIN lists THEN lists[f] ELSE <<>>

InsertName(cs, c) == [cs EXCEPT ![c.op] = @ \cup {c.names[1]}]
AppendTo(lists, f, x) == Updated(lists, f, Append(ListOf(lists, f), x))
AppendProp(cs, c) == [cs EXCEPT ![c.op] = AppendTo(@, c.names[1], c.prop)]
AppendName(cs, c) == [cs EXCEPT ![c.op] = AppendTo(@, c.names[1], c.names[2])]

(* LoopUnroll f n; StackVar f v s and Abstract f v t are kept by f and v. *)
SetEntry(cs, c) ==
    IF c.op = "LoopUnroll" THEN [cs EXCEPT ![c.op] = Updated(@, c.names[1], c.nums[1])]
    ELSE [cs EXCEPT ![c.op] = Updated(@, <<c.names[1], c.names[2]>>, c.names[3])]

(* NoHighSpec false says nothing. *)
Switch(cs, c) == [cs EXCEPT ![c.op] = @ \/ c.op = "NoUnfoldAll" \/ c.names = <<"true">>]

(* AbstractPattern with two operands is a specification for another one, *)
(* with three an interval of memory. *)
AddPattern(cs, c) ==
    IF Len(c.nums) = 0
    THEN [cs EXCEPT !.AbstractSpec = Append(@, [raw |-> c.names[1], abs |-> c.names[2]])]
    ELSE [cs EXCEPT !.AbstractConstant =
             Append(@, [start |-> c.nums[1], size |-> c.nums[2], wrapper |-> c.names[1]])]
AddLayout(cs, c) ==
    [cs EXCEPT !.AbstractLayout =
        Append(@, [struct |-> c.names[1],
                   fields |-> [i \in 1..c.nums[1] |->
                                  [name |-> c.names[i + 1], start |-> c.nums[2 * i],
                                   end |-> c.nums[2 * i + 1]]]])]

(* Anything else is warned about and skipped. *)
add_command(cs, c) ==
    CASE c.op \in NameSets         -> InsertName(cs, c)
      [] c.op \in PropLists        -> AppendProp(cs, c)
      [] c.op \in NameLists        -> AppendName(cs, c)
      [] c.op \in Entries          -> SetEntry(cs, c)
      [] c.op \in Switches         -> Switch(cs, c)
      [] c.op = "AbstractPattern"  -> AddPattern(cs, c)
      [] c.op = "AbstractLayout"   -> AddLayout(cs, c)
      [] OTHER                     -> cs

(* --target-spec: only f is transformed, and its invariants are checked. *)
add_options(cs, f) ==
    IF f = "" THEN cs
    ELSE [cs EXCEPT !.OnlyTrans = @ \cup {f}, !.CheckInv = @ \cup {f \o "_spec"}]
===============================================================================
