------------------------------ MODULE ProjectText ------------------------------
(***************************************************************************)
(* The text of a project is read statement by statement into the tables of *)
(* Project (frontend/parser/parse.cpp, the add_ functions of               *)
(* libs/project.cpp).  A definition is inferred as soon as it is read; one *)
(* whose types cannot be inferred then - it calls something that comes     *)
(* later, or is only generated - is flagged, and inferred by whoever       *)
(* remembers to.                                                           *)
(*                                                                         *)
(* External: the grammar, and the trees it makes of bodies, propositions   *)
(* and written types.  An included file stands where it is included; a     *)
(* section does not go on over the end of a file.  Left out: PROJ_NAME,    *)
(* PROJ_BASE and PROJ_BC_PATH, the loop invariants and the annotations of  *)
(* globals, which nothing here reads.                                      *)
(***************************************************************************)
EXTENDS Commands, SequencesExt

CONSTANTS
    Projects,                 \* the projects
    Builtins,                 \* the statements every project starts with
    ResolvedType(_, _, _),    \* a written type, with the symbols and typedefs: at most one
    TypeOf(_),                \* the type of a definition
    TypedDefinition(_, _)     \* a definition inferred with the types of the symbols

(* k is its kind, types are the types it writes, body the tree or command. *)
Statement(k, name, names, types, body) ==
    [k |-> k, name |-> name, names |-> names, types |-> types, body |-> body]

VARIABLES
    project,    \* the project that is read
    cmds,       \* Project::cmds, and what add_command keeps elsewhere
    pc,
    at,         \* the layer and the statement or primitive it is at, and the specifications left
    section,    \* ProgramVisitor::current_layer
    symbols,    \* Project::symbols: [kind, loc, info]
    typedefs,   \* Project::typedefs
    structs,    \* Project::structs: the fields, with their types
    decls,      \* Project::decls
    invs,       \* Project::sys_invs
    layers,     \* Project::layers
    defs,       \* Project::defs
    order       \* Project::def_order

tables == <<typedefs, structs, decls, invs>>
text_vars == <<project, cmds, pc, at, section, symbols, tables, layers, defs, order>>

LowName(f)  == f \o "_spec_low"
HighName(f) == f \o "_spec"

Text == Builtins \o project.text
TextLen == Len(Builtins) + Len(project.text)
This == IF at.p <= Len(Builtins) THEN Builtins[at.p] ELSE project.text[at.p - Len(Builtins)]

(* Names are strings, a section has one, and the operands of a command are *)
(* as many as add_command asserts.                                         *)
WellFormedStatement(s) ==
    /\ s.k = "begin" => s.name # ""
    /\ s.k = "prims" => s.names \in Seq(STRING)
    /\ s.k = "command" => WellFormed(s.body)
WellFormedText(t) == t \in Seq(ToSet(t)) /\ \A i \in DOMAIN t : WellFormedStatement(t[i])

ASSUME BuiltinsAssumption == WellFormedText(Builtins)
ASSUME TextAssumption == \A p \in Projects : WellFormedText(p.text)

(***************************************************************************)
(* Definitions, symbols and their types.  r is what a step makes of them.  *)
(***************************************************************************)
Now == [ds |-> defs, sy |-> symbols, s |-> "ok"]

(* The definitions and symbols after r, or the end of the program. *)
Continue(r, next) ==
    /\ defs' = r.ds
    /\ symbols' = r.sy
    /\ pc' = IF r.s = "ok" THEN next ELSE "crashed"

Callable(sy) == {f \in DOMAIN sy : sy[f].kind \in {"Def", "Decl"}}

(* What the inference reads of the symbols. *)
TypeOfSymbol(r, f) ==
    CASE r.sy[f].kind = "Def"  -> TypeOf(r.ds[f])
      [] r.sy[f].kind = "Decl" -> decls[f]
      [] OTHER                 -> <<"symbol", r.sy[f].kind, r.sy[f].info>>
Types(r) == [f \in DOMAIN r.sy |-> TypeOfSymbol(r, f)]

(* info is the type that a field or a constructor belongs to. *)
Symbol(kind, loc) == [kind |-> kind, loc |-> loc, info |-> ""]
PartOf(kind, info) == [kind |-> kind, loc |-> <<"DataTypes", "", "">>, info |-> info]
add_symbols(sy, names, kind, info) ==
    [f \in DOMAIN sy \cup names |-> IF f \in names THEN PartOf(kind, info) ELSE sy[f]]

(* Inferred when added; an exception is kept as the flag. *)
Placed(r, f, d, loc) ==
    [ds |-> Updated(r.ds, f, d), sy |-> Updated(r.sy, f, Symbol("Def", loc)), s |-> r.s]
Kept(r, f, d, s) == [ds |-> Updated(r.ds, f, d), sy |-> r.sy, s |-> s]
(* A plausible slip: nobody catches the exception. *)
Uncaught(r, f, v) == Kept(r, f, v.d, v.s)
Flagged(r, f, v) ==
    Kept(r, f, [v.d EXCEPT !.delayed = v.s = "thrown"], IF v.s = "thrown" THEN "ok" ELSE v.s)
add_definition(r, f, d, loc) ==
    LET p == Placed(r, f, d, loc) IN Flagged(p, f, TypedDefinition(d, Types(p)))

(* def_order, when r may have made f. *)
Ordered(r, f) == IF f \in DOMAIN r.ds \ DOMAIN defs THEN Append(order, f) ELSE order

(***************************************************************************)
(* Nothing is read yet.                                                    *)
(***************************************************************************)
NoSection == [name |-> "", data |-> <<>>, ops |-> <<>>, prims |-> <<>>, code |-> "",
              passthrough |-> {}, deps |-> <<>>]

TextInit ==
    /\ project \in Projects
    /\ cmds = NoCommands
    /\ pc = "parse"
    /\ at = [l |-> 1, p |-> 1, todo |-> <<>>]
    /\ section = NoSection
    /\ symbols = <<>>
    /\ typedefs = <<>> /\ structs = <<>> /\ decls = <<>> /\ invs = <<>>
    /\ layers = <<>>
    /\ defs = <<>> /\ order = <<>>

(***************************************************************************)
(* What ends the program: a type nobody knows and a section in a section   *)
(* throw; an entry of a layer outside of a section is written through a    *)
(* null current_layer.                                                     *)
(***************************************************************************)
Meant(t) == ResolvedType(t, symbols, typedefs)
TypeAt(i) == CHOOSE t \in Meant(This.types[i]) : TRUE
IsEntry(st) == st.k \in {"data", "op", "code"} \/ (st.k = "prims" /\ st.names # <<>>)

NoSuchType == \E i \in DOMAIN This.types : Meant(This.types[i]) = {}
Misplaced  == (This.k = "begin" /\ section # NoSection) \/ (This.k = "end" /\ section = NoSection)
Homeless   == IsEntry(This) /\ section = NoSection
Wrong == NoSuchType \/ Misplaced \/ Homeless

Reading == pc = "parse" /\ at.p <= TextLen /\ UNCHANGED project

ReadWrong ==
    /\ Reading
    /\ Wrong
    /\ pc' = IF NoSuchType \/ Misplaced THEN "rejected" ELSE "crashed"
    /\ UNCHANGED <<cmds, at, section, symbols, tables, layers, defs, order>>

(* A statement is read, and the next one is due. *)
Read(kinds) == Reading /\ ~Wrong /\ This.k \in kinds /\ at' = [at EXCEPT !.p = @ + 1]

(***************************************************************************)
(* Sections and what they hold.                                            *)
(***************************************************************************)
SectionBegin ==
    /\ Read({"begin"})
    /\ section' = [NoSection EXCEPT !.name = This.name]
    /\ UNCHANGED <<cmds, pc, symbols, tables, layers, defs, order>>

(* The name it gives is not compared. *)
SectionEnd ==
    /\ Read({"end"})
    /\ layers' = Append(layers, section)
    /\ section' = NoSection
    /\ UNCHANGED <<cmds, pc, symbols, tables, defs, order>>

(* Primitives add up, the last state and the last path count, and so does  *)
(* the first of two operations of one name (emplace).                      *)
WithEntry(L, st) ==
    CASE st.k = "data"  -> [L EXCEPT !.data = TypeAt(1)]
      [] st.k = "prims" -> [L EXCEPT !.prims = @ \o st.names]
      [] st.k = "code"  -> [L EXCEPT !.code = st.name]
      [] OTHER          -> [L EXCEPT !.ops = LaidOver(@, Updated(<<>>, st.name, st.body))]

LayerEntry ==
    /\ Read({"data", "prims", "op", "code"})
    /\ section' = WithEntry(section, This)
    /\ UNCHANGED <<cmds, pc, symbols, tables, layers, defs, order>>

(***************************************************************************)
(* Types.                                                                  *)
(***************************************************************************)
Typedef ==
    /\ Read({"typedef"})
    /\ typedefs' = Updated(typedefs, This.name, TypeAt(1))
    /\ symbols' = add_symbols(symbols, {This.name}, "TypeDef", "")
    /\ UNCHANGED <<cmds, pc, section, structs, decls, invs, layers, defs, order>>

(* A field, a constructor and the record, in this order. *)
Record ==
    /\ Read({"record"})
    /\ structs' = Updated(structs, This.name, [i \in DOMAIN This.names |-> <<This.names[i], TypeAt(i)>>])
    /\ symbols' = add_symbols(add_symbols(add_symbols(symbols, ToSet(This.names), "StructElem", This.name),
                                          {"mk" \o This.name}, "StructConstr", This.name),
                              {This.name}, "Struct", "")
    /\ UNCHANGED <<cmds, pc, section, typedefs, decls, invs, layers, defs, order>>

Inductive ==
    /\ Read({"inductive"})
    /\ symbols' = add_symbols(add_symbols(symbols, ToSet(This.names), "IndConstructor", This.name),
                              {This.name}, "IndType", "")
    /\ UNCHANGED <<cmds, pc, section, tables, layers, defs, order>>

(***************************************************************************)
(* Declarations, definitions and the rest.                                 *)
(***************************************************************************)
InSection == <<section.name, "Spec", "">>
GlobalDefs == <<"GlobalDefs", "", "">>

(* A low specification belongs to its function; the place of one that is   *)
(* named like a middle one is overwritten, for want of an else.            *)
LocOf(st) ==
    LET f == st.name
    IN  IF section = NoSection THEN GlobalDefs
        ELSE IF st.k = "fixpoint"
             THEN IF f \in DOMAIN project.mid THEN <<section.name, project.mid[f], "RefProof">> ELSE InSection
        ELSE IF f \in DOMAIN project.part /\ f = LowName(project.part[f])
             THEN <<section.name, project.part[f], "LowSpec">>
        ELSE InSection

Declare ==
    /\ Read({"decl"})
    /\ decls' = Updated(decls, This.name, TypeAt(1))
    /\ symbols' = Updated(symbols, This.name,
                          Symbol("Decl", IF section = NoSection THEN GlobalDefs ELSE InSection))
    /\ UNCHANGED <<cmds, pc, section, typedefs, structs, invs, layers, defs, order>>

(* Its types are that of the result and those of the arguments. *)
DefinitionOf(st) ==
    [args |-> [i \in DOMAIN st.names |-> <<st.names[i], TypeAt(i + 1)>>], ret |-> TypeAt(1),
     body |-> st.body, fix |-> st.k = "fixpoint", delayed |-> FALSE]

Define ==
    /\ Read({"def", "fixpoint"})
    /\ \E r \in {add_definition(Now, This.name, DefinitionOf(This), LocOf(This))} :
           /\ Continue(r, "parse")
           /\ order' = Ordered(r, This.name)
    /\ UNCHANGED <<cmds, section, tables, layers>>

Invariant ==
    /\ Read({"inv"})
    /\ invs' = Updated(invs, This.name, This.body)
    /\ UNCHANGED <<cmds, pc, section, symbols, typedefs, structs, decls, layers, defs, order>>

ReadCommand ==
    /\ Read({"command"})
    /\ cmds' = add_command(cmds, This.body)
    /\ UNCHANGED <<pc, section, symbols, tables, layers, defs, order>>

(* Every entry of a layer stands in a section that has begun and not ended. *)
EntriesInSections(t) ==
    \A i \in DOMAIN t : IsEntry(t[i]) =>
        \E j \in 1..(i - 1) : t[j].k = "begin" /\ \A k \in j..(i - 1) : t[k].k # "end"

ReadText ==
    \/ ReadWrong \/ SectionBegin \/ SectionEnd \/ LayerEntry \/ Typedef \/ Record \/ Inductive
    \/ Declare \/ Define \/ Invariant \/ ReadCommand
===============================================================================
