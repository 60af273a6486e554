----------------------------- MODULE Layers_proofs -----------------------------
(***************************************************************************)
(* The layers of every project, whatever is done to the bodies: what a     *)
(* primitive calls lies in a lower layer and passes through those between, *)
(* and the memory regions a project may assume are disjoint.               *)
(*                                                                         *)
(* Going down the layers, a dependency of one that is done with is either  *)
(* satisfied there, or still needed and passed through so far.  The filter *)
(* of OnlyTrans keeps this since it keeps, with a primitive, everything it *)
(* calls, and moves no layer past another.                                 *)
(*                                                                         *)
(* And the tables are what the rest of the program takes them for: a step  *)
(* makes at most one definition, at the end of their order, and whatever   *)
(* is done to the bodies, no name and no symbol of a definition is lost.   *)
(***************************************************************************)
EXTENDS Layers, Containers_proofs, MemoryRegions_proofs

\* A function on 1..n is a sequence of its elements.
LEMMA IsSequence ==
    ASSUME NEW n \in Nat, NEW s, s = [i \in 1..n |-> s[i]]
    PROVE  s \in Seq(ToSet(s)) /\ Len(s) = n /\ DOMAIN s = 1..n
  <1>1. DOMAIN s = 1..n
    OBVIOUS
  <1>2. \A i \in 1..n : s[i] \in ToSet(s)
    BY <1>1 DEF ToSet
  <1>3. s \in [1..n -> ToSet(s)]
    BY <1>2
  <1>4. s \in Seq(ToSet(s))
    BY <1>3
  <1> QED
    BY <1>1, <1>4

-----------------------------------------------------------------------------

(***************************************************************************)
(* The commands.                                                           *)
(***************************************************************************)
Region == [start : Nat, size : Nat, wrapper : STRING]

CommandsTyped(cs) ==
    /\ cs = [op \in Operators |-> cs[op]]
    /\ \A f \in DOMAIN cs.AddDep : cs.AddDep[f] \in Seq(STRING)
    /\ cs.AbstractConstant \in Seq(Region)

\* There are none at the start.
LEMMA NoCommandsTyped == CommandsTyped(NoCommands)
  <1>1. "AddDep" \in Operators /\ "AbstractConstant" \in Operators
    BY DEF Operators, NameLists, Patterns
  <1>2. NoCommands["AddDep"] = <<>> /\ NoCommands["AbstractConstant"] = <<>>
    BY <1>1 DEF NoCommands, NameSets, Switches
  <1>3. NoCommands = [o \in Operators |-> NoCommands[o]]
    BY DEF NoCommands
  <1>4. <<>> \in Seq(Region) /\ DOMAIN <<>> = {}
    OBVIOUS
  <1> QED
    BY <1>2, <1>3, <1>4 DEF CommandsTyped

\* Which of its parts a command is handled by.
LEMMA AddCommandIs ==
    ASSUME NEW cs, NEW c
    PROVE  /\ c.op \in NameSets  => add_command(cs, c) = InsertName(cs, c)
           /\ c.op \in PropLists => add_command(cs, c) = AppendProp(cs, c)
           /\ c.op \in NameLists => add_command(cs, c) = AppendName(cs, c)
           /\ c.op \in Entries   => add_command(cs, c) = SetEntry(cs, c)
           /\ c.op \in Switches  => add_command(cs, c) = Switch(cs, c)
           /\ c.op = "AbstractPattern" => add_command(cs, c) = AddPattern(cs, c)
           /\ c.op = "AbstractLayout"  => add_command(cs, c) = AddLayout(cs, c)
           /\ c.op \notin NameSets \cup PropLists \cup NameLists \cup Entries \cup Switches
              /\ c.op # "AbstractPattern" /\ c.op # "AbstractLayout" => add_command(cs, c) = cs
  BY DEF add_command, NameSets, PropLists, NameLists, Entries, Switches

\* Setting an entry the invariant does not speak of.
LEMMA OtherEntry ==
    ASSUME NEW cs, CommandsTyped(cs), NEW op, op # "AddDep", op # "AbstractConstant", NEW v,
           NEW new, new = [cs EXCEPT ![op] = v]
    PROVE  CommandsTyped(new) /\ new["AbstractConstant"] = cs["AbstractConstant"]
  <1>1. "AddDep" \in Operators /\ "AbstractConstant" \in Operators
    BY DEF Operators, NameLists, Patterns
  <1>2. cs = [o \in Operators |-> cs[o]]
    BY DEF CommandsTyped
  <1>3. new = [o \in Operators |-> new[o]]
    BY <1>2
  <1>4. new["AddDep"] = cs["AddDep"] /\ new["AbstractConstant"] = cs["AbstractConstant"]
    BY <1>1, <1>2
  <1> QED
    BY <1>3, <1>4 DEF CommandsTyped

\* A command of the parser keeps the lists well-formed.
LEMMA AddCommandTyped ==
    ASSUME NEW cs, CommandsTyped(cs), NEW c, WellFormed(c)
    PROVE  CommandsTyped(add_command(cs, c))
  <1>1. /\ "AddDep" \in Operators /\ "AbstractConstant" \in Operators
        /\ cs = [o \in Operators |-> cs[o]]
        /\ \A f \in DOMAIN cs["AddDep"] : cs["AddDep"][f] \in Seq(STRING)
        /\ cs["AbstractConstant"] \in Seq(Region)
    BY DEF Operators, NameLists, Patterns, CommandsTyped
  <1>2. c.op \in STRING /\ c.names \in Seq(STRING) /\ c.nums \in Seq(Nat)
    BY DEF WellFormed
  <1>3. CASE c.op \in NameSets
    <2>1. c.op # "AddDep" /\ c.op # "AbstractConstant"
      BY <1>3 DEF NameSets
    <2>2. \E v : add_command(cs, c) = [cs EXCEPT ![c.op] = v]
      BY <1>3, AddCommandIs DEF InsertName
    <2> QED
      BY <2>1, <2>2, OtherEntry
  <1>4. CASE c.op \in PropLists
    <2>1. c.op # "AddDep" /\ c.op # "AbstractConstant"
      BY <1>4 DEF PropLists
    <2>2. \E v : add_command(cs, c) = [cs EXCEPT ![c.op] = v]
      BY <1>4, AddCommandIs DEF AppendProp
    <2> QED
      BY <2>1, <2>2, OtherEntry
  <1>5. CASE c.op \in NameLists
    <2>1. c.op = "AddDep"
      BY <1>5 DEF NameLists
    <2> DEFINE f == c.names[1]
               l == ListOf(cs["AddDep"], f)
               a == Append(l, c.names[2])
               u == Updated(cs["AddDep"], f, a)
               new == [cs EXCEPT !["AddDep"] = u]
    <2>2. c.names[2] \in STRING
      <3>1. Len(c.names) = 2
        BY <2>1 DEF WellFormed
      <3> QED
        BY <1>2, <3>1
    <2>3. l \in Seq(STRING)
      <3>1. CASE f \in DOMAIN cs["AddDep"]
        BY <1>1, <3>1 DEF ListOf
      <3>2. CASE f \notin DOMAIN cs["AddDep"]
        BY <3>2 DEF ListOf
      <3> QED
        BY <3>1, <3>2
    <2>4. a \in Seq(STRING)
      BY <2>2, <2>3
    <2>5. add_command(cs, c) = new
      BY <1>5, <2>1, AddCommandIs DEF AppendName, AppendTo
    <2> HIDE DEF a
    <2>6. ASSUME NEW g \in DOMAIN u PROVE u[g] \in Seq(STRING)
      <3>1. /\ DOMAIN u = DOMAIN cs["AddDep"] \cup {f} /\ u[f] = a
            /\ \A x \in DOMAIN cs["AddDep"] : x # f => u[x] = cs["AddDep"][x]
        BY DEF Updated
      <3> HIDE DEF u
      <3> QED
        BY <1>1, <2>4, <3>1
    <2> HIDE DEF u
    <2>7. /\ new = [o \in Operators |-> new[o]]
          /\ new["AddDep"] = u /\ new["AbstractConstant"] = cs["AbstractConstant"]
      BY <1>1
    <2> HIDE DEF new
    <2> QED
      BY <1>1, <2>5, <2>6, <2>7 DEF CommandsTyped
  <1>6. CASE c.op \in Entries
    <2>1. c.op # "AddDep" /\ c.op # "AbstractConstant"
      BY <1>6 DEF Entries
    <2>2. \E v : add_command(cs, c) = [cs EXCEPT ![c.op] = v]
      <3>1. add_command(cs, c) = SetEntry(cs, c)
        BY <1>6, AddCommandIs
      <3>2. CASE c.op = "LoopUnroll"
        BY <3>1, <3>2 DEF SetEntry
      <3>3. CASE c.op # "LoopUnroll"
        BY <3>1, <3>3 DEF SetEntry
      <3> QED
        BY <3>2, <3>3
    <2> QED
      BY <2>1, <2>2, OtherEntry
  <1>7. CASE c.op \in Switches
    <2>1. c.op # "AddDep" /\ c.op # "AbstractConstant"
      BY <1>7 DEF Switches
    <2>2. \E v : add_command(cs, c) = [cs EXCEPT ![c.op] = v]
      BY <1>7, AddCommandIs DEF Switch
    <2> QED
      BY <2>1, <2>2, OtherEntry
  <1>8. CASE c.op = "AbstractPattern"
    <2>1. add_command(cs, c) = AddPattern(cs, c)
      BY <1>8, AddCommandIs
    <2>2. CASE Len(c.nums) = 0
      <3>1. \E v : add_command(cs, c) = [cs EXCEPT !["AbstractSpec"] = v]
        BY <2>1, <2>2 DEF AddPattern
      <3> QED
        BY <3>1, OtherEntry
    <2>3. CASE Len(c.nums) # 0
      <3> DEFINE r == [start |-> c.nums[1], size |-> c.nums[2], wrapper |-> c.names[1]]
                 u == Append(cs["AbstractConstant"], r)
                 new == [cs EXCEPT !["AbstractConstant"] = u]
      <3>1. Len(c.names) = 1 /\ Len(c.nums) = 2
        BY <1>8, <2>3 DEF WellFormed
      <3>2. c.nums[1] \in Nat /\ c.nums[2] \in Nat /\ c.names[1] \in STRING
        BY <1>2, <3>1
      <3>3. r \in Region
        BY <3>2 DEF Region
      <3>4. add_command(cs, c) = new
        BY <2>1, <2>3 DEF AddPattern
      <3> HIDE DEF r
      <3>5. u \in Seq(Region)
        BY <1>1, <3>3
      <3> HIDE DEF u
      <3>6. /\ new = [o \in Operators |-> new[o]]
            /\ new["AbstractConstant"] = u /\ new["AddDep"] = cs["AddDep"]
        BY <1>1
      <3> HIDE DEF new
      <3> QED
        BY <1>1, <3>4, <3>5, <3>6 DEF CommandsTyped
    <2> QED
      BY <2>2, <2>3
  <1>9. CASE c.op = "AbstractLayout"
    <2> DEFINE fields == [i \in 1..c.nums[1] |->
                             [name |-> c.names[i + 1], start |-> c.nums[2 * i],
                              end |-> c.nums[2 * i + 1]]]
               v == Append(cs["AbstractLayout"], [struct |-> c.names[1], fields |-> fields])
    <2>1. add_command(cs, c) = [cs EXCEPT !["AbstractLayout"] = v]
      BY <1>9, AddCommandIs, Zenon DEF AddLayout
    <2> HIDE DEF v
    <2> QED
      BY <2>1, OtherEntry
  <1>10. CASE /\ c.op \notin NameSets \cup PropLists \cup NameLists \cup Entries \cup Switches
              /\ c.op # "AbstractPattern" /\ c.op # "AbstractLayout"
    BY <1>10, AddCommandIs
  <1> QED
    BY <1>3, <1>4, <1>5, <1>6, <1>7, <1>8, <1>9, <1>10

\* And so does the option of the command line.
LEMMA AddOptionsTyped ==
    ASSUME NEW cs, CommandsTyped(cs), NEW f
    PROVE  /\ CommandsTyped(add_options(cs, f))
           /\ add_options(cs, f)["AbstractConstant"] = cs["AbstractConstant"]
  <1>1. CASE f = ""
    BY <1>1 DEF add_options
  <1>2. CASE f # ""
    <2> DEFINE new == add_options(cs, f)
    <2>1. "AddDep" \in Operators /\ "AbstractConstant" \in Operators
      BY DEF Operators, NameLists, Patterns
    <2>2. /\ cs = [o \in Operators |-> cs[o]]
          /\ \A g \in DOMAIN cs["AddDep"] : cs["AddDep"][g] \in Seq(STRING)
          /\ cs["AbstractConstant"] \in Seq(Region)
      BY DEF CommandsTyped
    <2>3. new = [o \in Operators |-> new[o]]
      BY <1>2, <2>2 DEF add_options
    <2>4. new["AddDep"] = cs["AddDep"] /\ new["AbstractConstant"] = cs["AbstractConstant"]
      BY <1>2, <2>1, <2>2 DEF add_options
    <2> HIDE DEF new
    <2>5. CommandsTyped(new)
      BY <2>2, <2>3, <2>4 DEF CommandsTyped
    <2> QED
      BY <2>4, <2>5 DEF new
  <1> QED
    BY <1>1, <1>2

-----------------------------------------------------------------------------

(***************************************************************************)
(* What OnlyTrans keeps.                                                   *)
(***************************************************************************)
\* With a primitive, what it calls is kept.
LEMMA KeepClosed ==
    ASSUME NEW fs, NEW f \in merge_keep(fs), f \in DOMAIN prim_deps, NEW d \in prim_deps[f]
    PROVE  d \in merge_keep(fs)
  <1> DEFINE all == fs \cup UNION {prim_deps[g] : g \in DOMAIN prim_deps}
             Closed(K) == fs \subseteq K /\ (\A g \in K : PrimDeps(g) \subseteq K)
  <1>1. merge_keep(fs) = {g \in all : \A K \in SUBSET all : Closed(K) => g \in K}
    BY DEF merge_keep
  <1>2. d \in all
    OBVIOUS
  <1>3. ASSUME NEW K \in SUBSET all, Closed(K) PROVE d \in K
    <2>1. f \in K
      BY <1>1, <1>3
    <2>2. d \in PrimDeps(f)
      BY DEF PrimDeps
    <2> QED
      BY <1>3, <2>1, <2>2
  <1> HIDE DEF all, Closed
  <1> QED
    BY <1>1, <1>2, <1>3

\* A filtered layer has the primitives that are kept, and passes through what it did.
LEMMA FilteredIs ==
    ASSUME NEW L, L.prims \in Seq(ToSet(L.prims)), {"prims", "passthrough"} \subseteq DOMAIN L,
           NEW keep
    PROVE  /\ Prims(Filtered(L, keep)) = Prims(L) \cap keep
           /\ Filtered(L, keep).passthrough = L.passthrough
  <1> DEFINE s == L.prims
             n == Len(s)
             P == KeptPrims(L, keep)
             t == Subsequence(s, P)
  <1>1. n \in Nat /\ DOMAIN s = 1..n
    OBVIOUS
  <1>2. P = {i \in DOMAIN s : s[i] \in keep}
    BY DEF KeptPrims
  <1>0. P \subseteq 1..n
    BY <1>1, <1>2
  <1>3. Filtered(L, keep).prims = t /\ Filtered(L, keep).passthrough = L.passthrough
    BY DEF Filtered
  <1> HIDE DEF s, n, P
  <1>4. /\ \A k \in 1..Cardinality(P) : Nth(P, k) \in P
        /\ \A i \in P : \E k \in 1..Cardinality(P) : Nth(P, k) = i
    BY <1>0, <1>1, NthIs
  <1>5. DOMAIN t = 1..Cardinality(P) /\ \A k \in 1..Cardinality(P) : t[k] = s[Nth(P, k)]
    BY DEF Subsequence
  <1> HIDE DEF t
  <1>6. ToSet(t) = ToSet(s) \cap keep
    <2>1. ASSUME NEW x \in ToSet(t) PROVE x \in ToSet(s) \cap keep
      <3>1. PICK k \in 1..Cardinality(P) : t[k] = x
        BY <1>5 DEF ToSet
      <3> QED
        BY <1>2, <1>4, <1>5, <3>1 DEF ToSet
    <2>2. ASSUME NEW x \in ToSet(s) \cap keep PROVE x \in ToSet(t)
      <3>1. PICK i \in DOMAIN s : s[i] = x
        BY DEF ToSet
      <3>2. i \in P
        BY <1>2, <3>1
      <3>3. PICK k \in 1..Cardinality(P) : Nth(P, k) = i
        BY <1>4, <3>2
      <3> QED
        BY <1>5, <3>1, <3>3 DEF ToSet
    <2> QED
      BY <2>1, <2>2
  <1> QED
    BY <1>3, <1>6 DEF Prims, s

\* The layers are a list, and so are the primitives of each.
LayersTyped ==
    /\ layers \in Seq(ToSet(layers))
    /\ \A i \in DOMAIN layers : /\ {"prims", "passthrough"} \subseteq DOMAIN layers[i]
                                /\ layers[i].prims \in Seq(ToSet(layers[i].prims))

\* ls are the layers filtered: the first is the first, the others are in their order, and
\* none that keeps a primitive is missing.
IsFiltering(ls, keep) ==
    \E m \in Nat \ {0} : \E p \in [1..m -> DOMAIN layers] :
       /\ DOMAIN ls = 1..m
       /\ ls = [k \in 1..m |-> ls[k]]
       /\ p[1] = 1 /\ ls[1] = layers[1]
       /\ \A k, l \in 1..m : k < l => p[k] < p[l]
       /\ \A k \in 2..m : ls[k] = Filtered(layers[p[k]], keep)
       /\ \A i \in DOMAIN layers : KeptPrims(layers[i], keep) # {} => \E k \in 1..m : p[k] = i

\* What OnlyTrans leaves of the layers is a filtering of them.
LEMMA FilteredLayersAre ==
    ASSUME LayersTyped, Len(layers) >= 1, NEW keep
    PROVE  IsFiltering(FilteredLayers(keep), keep)
  <1> DEFINE n == Len(layers)
             K == KeptLayers(keep)
             m == Cardinality(K)
             s == [i \in DOMAIN layers |-> IF i = 1 THEN layers[1] ELSE Filtered(layers[i], keep)]
             t == Subsequence(s, K)
             p == [k \in 1..m |-> Nth(K, k)]
  <1>1. n \in Nat /\ n >= 1 /\ DOMAIN layers = 1..n
    BY DEF LayersTyped
  <1>2. /\ K \subseteq 1..n /\ 1 \in K
        /\ \A i \in 1..n : KeptPrims(layers[i], keep) # {} => i \in K
    BY <1>1 DEF KeptLayers
  <1>3. FilteredLayers(keep) = t
    BY DEF FilteredLayers
  <1>4. \A i \in 1..n : s[i] = IF i = 1 THEN layers[1] ELSE Filtered(layers[i], keep)
    BY <1>1
  <1> HIDE DEF n, K, s
  <1>5. /\ m \in Nat
        /\ \A k \in 1..m : Nth(K, k) \in K
        /\ \A k, l \in 1..m : k < l => Nth(K, k) < Nth(K, l)
        /\ \A i \in K : \E k \in 1..m : Nth(K, k) = i
    BY <1>1, <1>2, NthIs
  <1> HIDE DEF m
  <1>6. p \in [1..m -> 1..n] /\ \A k \in 1..m : p[k] = Nth(K, k)
    BY <1>2, <1>5
  <1>7. DOMAIN t = 1..m /\ t = [k \in 1..m |-> t[k]] /\ \A k \in 1..m : t[k] = s[p[k]]
    BY DEF Subsequence, m
  <1> HIDE DEF p, t
  <1>8. m # 0 /\ p[1] = 1
    <2>1. PICK k \in 1..m : p[k] = 1
      BY <1>2, <1>5, <1>6
    <2>2. k \in Nat /\ k >= 1 /\ 1 \in 1..m /\ p[1] \in 1..n
      BY <1>5, <1>6, <2>1
    <2>3. CASE k = 1
      BY <1>5, <2>1, <2>2, <2>3
    <2>4. CASE 1 < k
      <3>1. p[1] < p[k]
        BY <1>5, <1>6, <2>2, <2>4
      <3> QED
        BY <1>1, <2>1, <2>2, <3>1
    <2> QED
      BY <2>2, <2>3, <2>4
  <1>9. \A k, l \in 1..m : k < l => p[k] < p[l]
    BY <1>5, <1>6
  <1>10. t[1] = layers[1]
    BY <1>1, <1>4, <1>5, <1>7, <1>8
  <1>11. ASSUME NEW k \in 2..m PROVE t[k] = Filtered(layers[p[k]], keep)
    <2>1. k \in 1..m /\ 1 \in 1..m /\ 1 < k
      BY <1>5
    <2>2. p[k] \in 1..n /\ 1 < p[k]
      BY <1>6, <1>8, <1>9, <2>1
    <2> QED
      BY <1>4, <1>7, <2>1, <2>2
  <1>12. \A i \in DOMAIN layers : KeptPrims(layers[i], keep) # {} => \E k \in 1..m : p[k] = i
    BY <1>1, <1>2, <1>5, <1>6
  <1> m \in Nat \ {0} /\ p \in [1..m -> DOMAIN layers]
    BY <1>1, <1>5, <1>6, <1>8
  <1>13. IsFiltering(t, keep)
    <2> SUFFICES \E a \in Nat \ {0} : \E q \in [1..a -> DOMAIN layers] :
           /\ DOMAIN t = 1..a
           /\ t = [k \in 1..a |-> t[k]]
           /\ q[1] = 1 /\ t[1] = layers[1]
           /\ \A k, l \in 1..a : k < l => q[k] < q[l]
           /\ \A k \in 2..a : t[k] = Filtered(layers[q[k]], keep)
           /\ \A i \in DOMAIN layers : KeptPrims(layers[i], keep) # {} => \E k \in 1..a : q[k] = i
      BY DEF IsFiltering
    <2> WITNESS m \in Nat \ {0}
    <2> WITNESS p \in [1..m -> DOMAIN layers]
    <2> QED
      BY <1>7, <1>8, <1>9, <1>10, <1>11, <1>12
  <1> QED
    BY <1>3, <1>13

-----------------------------------------------------------------------------

(***************************************************************************)
(* The invariant.                                                          *)
(***************************************************************************)
(* Layer i is done with, and the layers from low on: what it calls is in   *)
(* one of them, or is needed and has been passed through so far.           *)
Satisfied(i, d, low) ==
    \E j \in low..(i - 1) : /\ d \in Prims(layers[j])
                            /\ \A k \in (j + 1)..(i - 1) : d \in layers[k].passthrough
StillNeeded(i, d, low) == d \in need /\ \A k \in low..(i - 1) : d \in layers[k].passthrough

Recorded(i) ==
    \A f \in Prims(layers[i]) : HasBody(f) => f \in DOMAIN prim_deps /\ prim_deps[f] = Calls(f)
DoneWith(low) ==
    \A i \in low..Len(layers) :
        /\ Recorded(i)
        /\ \A f \in Prims(layers[i]) : HasBody(f) =>
              \A d \in Calls(f) : Satisfied(i, d, low) \/ StillNeeded(i, d, low)

Going == {"collect", "help", "enter", "low", "generate", "high", "done", "crashed", "rejected"}

(* A section under way has the primitives it names so far. *)
SectionTyped ==
    /\ {"prims", "passthrough"} \subseteq DOMAIN section
    /\ section.prims \in Seq(STRING)

LayersInv ==
    /\ project \in Projects
    /\ CommandsTyped(cmds)
    /\ at = [l |-> at.l, p |-> at.p, todo |-> at.todo]
    /\ pc \in {"parse", "abstract", "structure", "filter"} \cup Going
    /\ pc \notin Going => LayersTyped
    /\ pc = "parse" => need = {} /\ at.p \in Nat \ {0} /\ SectionTyped
    /\ pc \notin Going \cup {"parse"} => Len(layers) >= 1
    /\ pc = "abstract" => need = {} /\ at.l = Len(layers)
    /\ pc = "structure" => at.l \in 1..Len(layers) /\ IsFiniteSet(need) /\ DoneWith(at.l + 1)
    /\ pc = "filter" => \A i \in 2..Len(layers) : Recorded(i)
    /\ DependenciesBelow
    /\ project.v2 /\ pc \notin {"parse", "abstract", "rejected", "crashed"} => Accepted(Regions)

\* The code of a project.
LEMMA ProjectsTyped ==
    ASSUME project \in Projects
    PROVE  \A f \in DOMAIN project.code : IsFiniteSet(project.code[f].calls)
  BY ProjectsAssumption

\* The statement that is read is well-formed.
LEMMA ThisWellFormed ==
    ASSUME project \in Projects, at.p \in Nat \ {0}, at.p <= TextLen
    PROVE  WellFormedStatement(This)
  <1> DEFINE t == project.text
             b == Builtins
  <1>1. /\ b \in Seq(ToSet(b)) /\ \A i \in DOMAIN b : WellFormedStatement(b[i])
        /\ t \in Seq(ToSet(t)) /\ \A i \in DOMAIN t : WellFormedStatement(t[i])
    BY BuiltinsAssumption, TextAssumption DEF WellFormedText
  <1>2. at.p <= Len(b) + Len(t) /\ This = IF at.p <= Len(b) THEN b[at.p] ELSE t[at.p - Len(b)]
    BY DEF TextLen, This
  <1> HIDE DEF b, t
  <1>3. Len(b) \in Nat /\ DOMAIN b = 1..Len(b) /\ Len(t) \in Nat /\ DOMAIN t = 1..Len(t)
    BY <1>1
  <1>4. CASE at.p <= Len(b)
    <2>1. at.p \in DOMAIN b
      BY <1>3, <1>4
    <2> QED
      BY <1>1, <1>2, <1>4, <2>1
  <1>5. CASE ~(at.p <= Len(b))
    <2>1. at.p - Len(b) \in DOMAIN t
      BY <1>2, <1>3, <1>5
    <2> QED
      BY <1>1, <1>2, <1>5, <2>1
  <1> QED
    BY <1>4, <1>5

\* No section has no primitives.
LEMMA NoSectionTyped ==
    /\ {"prims", "passthrough"} \subseteq DOMAIN NoSection /\ "name" \in DOMAIN NoSection
    /\ NoSection.prims \in Seq(STRING)
  <1>1. NoSection.prims = <<>> /\ DOMAIN NoSection = {"name", "data", "ops", "prims", "code", "passthrough", "deps"}
    BY DEF NoSection
  <1>2. <<>> \in Seq(STRING)
    OBVIOUS
  <1> QED
    BY <1>1, <1>2

\* It holds at the start.
LEMMA InitInv == Init => LayersInv
  <1>1. SUFFICES ASSUME Init PROVE LayersInv
    OBVIOUS
  <1>2. /\ project \in Projects /\ pc = "parse" /\ cmds = NoCommands /\ layers = <<>> /\ need = {}
        /\ section = NoSection /\ at = [l |-> 1, p |-> 1, todo |-> <<>>]
    BY <1>1 DEF Init, TextInit
  <1>3. LayersTyped
    BY <1>2 DEF LayersTyped
  <1>4. SectionTyped
    BY <1>2, NoSectionTyped DEF SectionTyped
  <1>5. CommandsTyped(cmds)
    BY <1>2, NoCommandsTyped
  <1>6. at = [l |-> at.l, p |-> at.p, todo |-> at.todo] /\ at.p \in Nat \ {0}
    BY <1>2
  <1> QED
    BY <1>2, <1>3, <1>4, <1>5, <1>6 DEF LayersInv, DependenciesBelow, Structured, Going

-----------------------------------------------------------------------------

(***************************************************************************)
(* The steps.                                                              *)
(***************************************************************************)
SameLayers == UNCHANGED <<project, layers, need>>
CommandsKept ==
    CommandsTyped(cmds') /\ cmds'.AddDep = cmds.AddDep /\ cmds'.AbstractConstant = cmds.AbstractConstant

\* Once the layers are filtered they stay, and so does what the invariant says of them.
LEMMA GoingOn ==
    ASSUME LayersInv, pc \in Going \/ pc' \in {"crashed", "rejected"}, pc' \in Going,
           project' = project, pc' \notin {"crashed", "rejected"} => layers' = layers, CommandsKept,
           pc \in {"rejected", "crashed"} => pc' = pc,
           at' = [l |-> at'.l, p |-> at'.p, todo |-> at'.todo]
    PROVE  LayersInv'
  <1>1. /\ project \in Projects /\ DependenciesBelow /\ project' = project
        /\ pc' \notin {"crashed", "rejected"} => layers' = layers
        /\ CommandsTyped(cmds') /\ cmds'.AddDep = cmds.AddDep
        /\ cmds'.AbstractConstant = cmds.AbstractConstant
    BY DEF LayersInv, CommandsKept
  <1>2. DependenciesBelow'
    <2>1. CASE pc' \in {"crashed", "rejected"}
      BY <2>1 DEF DependenciesBelow, Structured
    <2>2. CASE pc' \notin {"crashed", "rejected"}
      BY <1>1, <2>2 DEF LayersInv, DependenciesBelow, Structured, Going, Prims, HasBody, Calls
    <2> QED
      BY <2>1, <2>2
  <1>3. (project.v2 /\ pc \notin {"parse", "abstract", "rejected", "crashed"} => Accepted(Regions))'
    BY <1>1 DEF LayersInv, Going, Regions
  <1> QED
    BY <1>1, <1>2, <1>3 DEF LayersInv, Going

\* While the text is read there are only its commands and the layers so far.
LEMMA ReadingOn ==
    ASSUME LayersInv, pc = "parse", pc' = "parse", project' = project, need' = need,
           CommandsTyped(cmds'), LayersTyped', SectionTyped', at' = [at EXCEPT !.p = @ + 1]
    PROVE  LayersInv'
  <1>1. /\ project' \in Projects /\ need' = {}
        /\ at = [l |-> at.l, p |-> at.p, todo |-> at.todo] /\ at.p \in Nat \ {0}
    BY DEF LayersInv
  <1>2. at' = [l |-> at'.l, p |-> at'.p, todo |-> at'.todo] /\ at'.p \in Nat \ {0}
    BY <1>1
  <1> QED
    BY <1>1, <1>2 DEF LayersInv, DependenciesBelow, Structured, Going

\* A section that ends is the next layer.
LEMMA SectionEndKeeps ==
    ASSUME LayersTyped, SectionTyped, layers' = Append(layers, section)
    PROVE  LayersTyped'
  <1> DEFINE n == Len(layers)
  <1>1. /\ n \in Nat /\ DOMAIN layers = 1..n
        /\ \A i \in 1..n : /\ {"prims", "passthrough"} \subseteq DOMAIN layers[i]
                           /\ layers[i].prims \in Seq(ToSet(layers[i].prims))
    BY DEF LayersTyped
  <1>2. /\ layers' = [i \in 1..(n + 1) |-> layers'[i]] /\ layers'[n + 1] = section
        /\ \A i \in 1..n : layers'[i] = layers[i]
    <2>1. ASSUME NEW T, NEW s \in Seq(T), NEW e \in T
          PROVE  /\ Append(s, e) \in [1..(Len(s) + 1) -> T] /\ Append(s, e)[Len(s) + 1] = e
                 /\ \A i \in 1..Len(s) : Append(s, e)[i] = s[i]
      <3>1. /\ Append(s, e) \in Seq(T) /\ Len(Append(s, e)) = Len(s) + 1
            /\ Append(s, e)[Len(s) + 1] = e /\ \A i \in 1..Len(s) : Append(s, e)[i] = s[i]
        OBVIOUS
      <3>2. \A u \in Seq(T) : u \in [1..Len(u) -> T]
        OBVIOUS
      <3> QED
        BY <3>1, <3>2
    <2> DEFINE T == ToSet(layers) \cup {section}
    <2>2. layers \in Seq(T) /\ section \in T
      BY DEF LayersTyped
    <2> HIDE DEF T
    <2>3. /\ layers' \in [1..(n + 1) -> T] /\ layers'[n + 1] = section
          /\ \A i \in 1..n : layers'[i] = layers[i]
      BY <2>1, <2>2
    <2> QED
      BY <2>3
  <1>3. layers' \in Seq(ToSet(layers')) /\ DOMAIN layers' = 1..(n + 1)
    <2>1. n + 1 \in Nat
      BY <1>1
    <2> QED
      BY <1>2, <2>1, IsSequence
  <1>4. section.prims \in Seq(ToSet(section.prims))
    <2> DEFINE s == section.prims
    <2>1. s \in Seq(STRING)
      BY DEF SectionTyped
    <2> HIDE DEF s
    <2>2. Len(s) \in Nat /\ s = [i \in 1..Len(s) |-> s[i]]
      BY <2>1
    <2> QED
      BY <2>2, IsSequence DEF s
  <1>5. ASSUME NEW i \in 1..(n + 1)
        PROVE  /\ {"prims", "passthrough"} \subseteq DOMAIN layers'[i]
               /\ layers'[i].prims \in Seq(ToSet(layers'[i].prims))
    <2>1. CASE i = n + 1
      BY <1>2, <1>4, <2>1 DEF SectionTyped
    <2>2. CASE i # n + 1
      <3>1. i \in 1..n
        BY <1>1, <2>2
      <3> QED
        BY <1>1, <1>2, <3>1
    <2> QED
      BY <2>1, <2>2
  <1> QED
    BY <1>3, <1>5 DEF LayersTyped

\* An entry of a section adds primitives or leaves them.
LEMMA LayerEntryKeeps ==
    ASSUME SectionTyped, WellFormedStatement(This), section' = WithEntry(section, This)
    PROVE  SectionTyped'
  <1> DEFINE st == This
             new == WithEntry(section, st)
  <1>1. /\ {"prims", "passthrough"} \subseteq DOMAIN section /\ section.prims \in Seq(STRING)
        /\ st.k = "prims" => st.names \in Seq(STRING)
    BY DEF SectionTyped, WellFormedStatement
  <1>2. section' = new
    OBVIOUS
  <1>3. \/ \E v : new = [section EXCEPT !.data = v]
        \/ st.k = "prims" /\ new = [section EXCEPT !.prims = section.prims \o st.names]
        \/ \E v : new = [section EXCEPT !.code = v]
        \/ \E v : new = [section EXCEPT !.ops = v]
    <2>1. CASE st.k = "data"
      BY <2>1 DEF WithEntry
    <2>2. CASE st.k = "prims"
      BY <2>2 DEF WithEntry
    <2>3. CASE st.k = "code"
      BY <2>3 DEF WithEntry
    <2>4. CASE st.k \notin {"data", "prims", "code"}
      <3>1. new = [section EXCEPT !.ops = LaidOver(@, Updated(<<>>, st.name, st.body))]
        BY <2>4 DEF WithEntry
      <3> QED
        BY <3>1
    <2> QED
      BY <2>1, <2>2, <2>3, <2>4
  <1> HIDE DEF new, st
  <1>4. CASE st.k = "prims" /\ new = [section EXCEPT !.prims = section.prims \o st.names]
    <2>1. section.prims \o st.names \in Seq(STRING)
      BY <1>1, <1>4
    <2>2. DOMAIN new = DOMAIN section /\ new.prims = section.prims \o st.names
      BY <1>1, <1>4
    <2> QED
      BY <1>1, <1>2, <2>1, <2>2 DEF SectionTyped
  <1>5. CASE \/ \E v : new = [section EXCEPT !.data = v]
             \/ \E v : new = [section EXCEPT !.code = v]
             \/ \E v : new = [section EXCEPT !.ops = v]
    <2>1. DOMAIN new = DOMAIN section /\ new.prims = section.prims
      BY <1>1, <1>5
    <2> QED
      BY <1>1, <1>2, <2>1 DEF SectionTyped
  <1> QED
    BY <1>3, <1>4, <1>5

\* A statement is read, which may end the run.
LEMMA ReadsKeeps ==
    ASSUME LayersInv, Reads
    PROVE  LayersInv'
  <1>1. /\ pc = "parse" /\ project' = project /\ need' = need /\ at.p <= TextLen
    BY DEF Reads, ReadText, ReadWrong, SectionBegin, SectionEnd, LayerEntry, Typedef, Record, Inductive,
           Declare, Define, Invariant, ReadCommand, Read, Reading, layer_vars
  <1>2. /\ project \in Projects /\ CommandsTyped(cmds) /\ LayersTyped /\ SectionTyped
        /\ at.p \in Nat \ {0} /\ at = [l |-> at.l, p |-> at.p, todo |-> at.todo]
    BY <1>1 DEF LayersInv, Going
  <1>3. WellFormedStatement(This)
    BY <1>1, <1>2, ThisWellFormed
  <1>4. UNCHANGED layers => LayersTyped'
    BY <1>2 DEF LayersTyped
  <1>5. UNCHANGED section => SectionTyped'
    BY <1>2 DEF SectionTyped
  <1>6. UNCHANGED cmds => CommandsKept
    BY <1>2 DEF CommandsKept
  <1>7. CASE ReadWrong
    <2>1. pc' \in {"rejected", "crashed"} /\ UNCHANGED <<cmds, at>>
      BY <1>7 DEF ReadWrong
    <2> QED
      BY <1>1, <1>2, <1>6, <2>1, GoingOn DEF Going
  <1>8. CASE SectionBegin
    <2>1. /\ pc' = pc /\ UNCHANGED <<cmds, layers>> /\ at' = [at EXCEPT !.p = @ + 1]
          /\ section' = [NoSection EXCEPT !.name = This.name]
      BY <1>8 DEF SectionBegin, Read
    <2>2. SectionTyped'
      BY <2>1, NoSectionTyped DEF SectionTyped
    <2> QED
      BY <1>1, <1>2, <1>4, <2>1, <2>2, ReadingOn
  <1>9. CASE SectionEnd
    <2>1. /\ pc' = pc /\ UNCHANGED cmds /\ at' = [at EXCEPT !.p = @ + 1]
          /\ section' = NoSection /\ layers' = Append(layers, section)
      BY <1>9 DEF SectionEnd, Read
    <2>2. SectionTyped'
      BY <2>1, NoSectionTyped DEF SectionTyped
    <2>3. LayersTyped'
      BY <1>2, <2>1, SectionEndKeeps
    <2> QED
      BY <1>1, <1>2, <2>1, <2>2, <2>3, ReadingOn
  <1>10. CASE LayerEntry
    <2>1. /\ pc' = pc /\ UNCHANGED <<cmds, layers>> /\ at' = [at EXCEPT !.p = @ + 1]
          /\ section' = WithEntry(section, This)
      BY <1>10 DEF LayerEntry, Read
    <2>2. SectionTyped'
      BY <1>2, <1>3, <2>1, LayerEntryKeeps
    <2> QED
      BY <1>1, <1>2, <1>4, <2>1, <2>2, ReadingOn
  <1>11. CASE Typedef \/ Record \/ Inductive \/ Declare \/ Invariant
    <2>1. pc' = pc /\ UNCHANGED <<cmds, layers, section>> /\ at' = [at EXCEPT !.p = @ + 1]
      BY <1>11 DEF Typedef, Record, Inductive, Declare, Invariant, Read
    <2> QED
      BY <1>1, <1>2, <1>4, <1>5, <2>1, ReadingOn
  <1>12. CASE Define
    <2>1. UNCHANGED <<cmds, layers, section>> /\ at' = [at EXCEPT !.p = @ + 1]
      BY <1>12 DEF Define, Read
    <2>2. pc' \in {"parse", "crashed"}
      BY <1>12 DEF Define, Continue
    <2>3. CASE pc' = "parse"
      BY <1>1, <1>2, <1>4, <1>5, <2>1, <2>3, ReadingOn
    <2>4. CASE pc' = "crashed"
      <3>1. at' = [l |-> at'.l, p |-> at'.p, todo |-> at'.todo]
        BY <1>2, <2>1
      <3> QED
        BY <1>1, <1>6, <2>1, <2>4, <3>1, GoingOn DEF Going
    <2> QED
      BY <2>2, <2>3, <2>4
  <1>13. CASE ReadCommand
    <2>1. /\ pc' = pc /\ UNCHANGED <<layers, section>> /\ at' = [at EXCEPT !.p = @ + 1]
          /\ cmds' = add_command(cmds, This.body) /\ This.k = "command"
      BY <1>13 DEF ReadCommand, Read
    <2>2. CommandsTyped(cmds')
      <3>1. WellFormed(This.body)
        BY <1>3, <2>1 DEF WellFormedStatement
      <3> QED
        BY <1>2, <2>1, <3>1, AddCommandTyped
    <2> QED
      BY <1>1, <1>2, <1>4, <1>5, <2>1, <2>2, ReadingOn
  <1> QED
    BY <1>7, <1>8, <1>9, <1>10, <1>11, <1>12, <1>13 DEF Reads, ReadText

\* The state of a layer without one is another's; the rest of the layers stays.
LEMMA WithDataTyped ==
    ASSUME LayersTyped, layers' = WithData
    PROVE  LayersTyped' /\ Len(layers') = Len(layers)
  <1> DEFINE n == Len(layers)
             Data(i) == layers[InheritsFrom(i)].data
  <1>1. /\ n \in Nat /\ DOMAIN layers = 1..n
        /\ \A i \in 1..n : /\ {"prims", "passthrough"} \subseteq DOMAIN layers[i]
                           /\ layers[i].prims \in Seq(ToSet(layers[i].prims))
    BY DEF LayersTyped
  <1>2. layers' = [i \in 1..n |-> [layers[i] EXCEPT !.data = Data(i)]]
    BY <1>1 DEF WithData
  <1> HIDE DEF Data
  <1>3. /\ layers' = [i \in 1..n |-> layers'[i]]
        /\ \A i \in 1..n : DOMAIN layers'[i] = DOMAIN layers[i] /\ layers'[i].prims = layers[i].prims
    BY <1>1, <1>2
  <1>4. layers' \in Seq(ToSet(layers')) /\ Len(layers') = n /\ DOMAIN layers' = 1..n
    BY <1>1, <1>3, IsSequence
  <1> QED
    BY <1>1, <1>3, <1>4 DEF LayersTyped

\* The text is read: the walk over the layers will start above the top one.
LEMMA EndOfTextKeeps ==
    ASSUME LayersInv, EndOfText
    PROVE  LayersInv'
  <1>1. /\ pc = "parse" /\ project' = project /\ need' = need
        /\ cmds' = add_options(cmds, project.target) /\ layers # <<>>
        /\ layers' = IF project.v2 THEN WithData ELSE layers
        /\ pc' = IF project.v2 THEN "abstract" ELSE "structure"
        /\ at' = [at EXCEPT !.l = Len(layers)]
    BY DEF EndOfText, TextRead, Unfit, text_read, layer_vars
  <1>2. /\ project \in Projects /\ CommandsTyped(cmds) /\ LayersTyped /\ need = {}
        /\ at = [l |-> at.l, p |-> at.p, todo |-> at.todo]
    BY <1>1 DEF LayersInv, Going
  <1>3. CommandsTyped(cmds')
    BY <1>1, <1>2, AddOptionsTyped
  <1>4. LayersTyped' /\ Len(layers') = Len(layers)
    <2>1. CASE project.v2
      BY <1>1, <1>2, <2>1, WithDataTyped
    <2>2. CASE ~project.v2
      BY <1>1, <1>2, <2>2 DEF LayersTyped
    <2> QED
      BY <2>1, <2>2
  <1>5. Len(layers) \in Nat /\ Len(layers) >= 1
    <2> DEFINE T == ToSet(layers)
    <2>1. layers \in Seq(T)
      BY <1>2 DEF LayersTyped
    <2> HIDE DEF T
    <2> QED
      BY <1>1, <2>1
  <1>6. at' = [l |-> at'.l, p |-> at'.p, todo |-> at'.todo] /\ at'.l = Len(layers)
    BY <1>1, <1>2
  <1>7. IsFiniteSet(need')
    BY <1>1, <1>2, FS_EmptySet
  <1>8. DoneWith(at.l + 1)'
    BY <1>4, <1>5, <1>6 DEF DoneWith
  <1>9. pc' \in {"abstract", "structure"} /\ DependenciesBelow'
        /\ ~(project'.v2 /\ pc' \notin {"parse", "abstract", "rejected", "crashed"})
    BY <1>1 DEF DependenciesBelow, Structured
  <1> QED
    BY <1>1, <1>2, <1>3, <1>4, <1>5, <1>6, <1>7, <1>8, <1>9 DEF LayersInv, Going

\* The regions are accepted here.
LEMMA PrepareAbstractionKeeps ==
    ASSUME LayersInv, PrepareAbstraction
    PROVE  LayersInv'
  <1>1. /\ pc = "abstract" /\ UNCHANGED <<project, layers, need, cmds, at>>
        /\ pc' = IF Abstractable THEN "structure" ELSE "rejected"
    BY DEF PrepareAbstraction, text_read, layer_vars
  <1>2. /\ project \in Projects /\ CommandsTyped(cmds) /\ LayersTyped /\ need = {}
        /\ at = [l |-> at.l, p |-> at.p, todo |-> at.todo]
        /\ Len(layers) >= 1 /\ at.l = Len(layers)
    BY <1>1 DEF LayersInv, Going
  <1>3. CASE ~Abstractable
    <2>1. CommandsKept
      BY <1>1, <1>2 DEF CommandsKept
    <2> QED
      BY <1>1, <1>2, <1>3, <2>1, GoingOn DEF Going
  <1>4. CASE Abstractable
    <2>1. LayersTyped' /\ CommandsTyped(cmds)'
      BY <1>1, <1>2 DEF LayersTyped
    <2>2. IsFiniteSet(need')
      BY <1>1, <1>2, FS_EmptySet
    <2>3. Len(layers) \in Nat
      BY <1>2 DEF LayersTyped
    <2>4. DoneWith(at.l + 1)'
      BY <1>1, <1>2, <2>3 DEF DoneWith
    <2>5. Accepted(Regions')
      BY <1>1, <1>4 DEF Abstractable, Regions
    <2>6. pc' = "structure" /\ DependenciesBelow'
      BY <1>1, <1>4 DEF DependenciesBelow, Structured
    <2> QED
      BY <1>1, <1>2, <2>1, <2>2, <2>3, <2>4, <2>5, <2>6 DEF LayersInv, Going
  <1> QED
    BY <1>3, <1>4

\* What a primitive calls is finite: the code's calls and those AddDep lists.
LEMMA CallsFinite ==
    ASSUME LayersInv, NEW f, HasBody(f)
    PROVE  IsFiniteSet(Calls(f))
  <1>1. IsFiniteSet(project.code[f].calls)
    BY ProjectsTyped DEF LayersInv, HasBody
  <1>2. ListOf(cmds.AddDep, f) \in Seq(STRING)
    <2> DEFINE lists == cmds.AddDep
    <2>1. \A g \in DOMAIN lists : lists[g] \in Seq(STRING)
      BY DEF LayersInv, CommandsTyped
    <2>2. ListOf(lists, f) \in Seq(STRING)
      <3> HIDE DEF lists
      <3>1. CASE f \in DOMAIN lists
        BY <2>1, <3>1 DEF ListOf
      <3>2. CASE f \notin DOMAIN lists
        BY <3>2 DEF ListOf
      <3> QED
        BY <3>1, <3>2
    <2> QED
      BY <2>2
  <1>3. IsFiniteSet(ToSet(ListOf(cmds.AddDep, f)))
    BY <1>2, FinitelyMany
  <1> QED
    BY <1>1, <1>3, FS_Union DEF Calls

\* A layer is done: what it needs and what it could not satisfy is needed below.
LEMMA StructureLayerKeeps ==
    ASSUME LayersInv, StructureLayer, NEW l, l = at.l
    PROVE  LayersInv'
  <1> DEFINE L    == layers[l]
             n    == Len(layers)
             D    == {g \in Prims(L) : HasBody(g)}
             mine == [f \in D |-> Calls(f)]
             open == need \ Prims(L)
  <1>1. /\ pc = "structure" /\ pc' = pc /\ l > 1 /\ project' = project /\ cmds' = cmds
        /\ layers' = [layers EXCEPT ![l].passthrough = open, ![l].deps = mine]
        /\ prim_deps' = LaidOver(mine, prim_deps)
        /\ need' = open \cup UNION {mine[f] : f \in D}
        /\ at' = [at EXCEPT !.l = l - 1]
    <2>1. DOMAIN mine = D
      OBVIOUS
    <2> QED
      BY <2>1 DEF StructureLayer, text_read
  <1>2. /\ project \in Projects /\ CommandsTyped(cmds) /\ LayersTyped /\ n >= 1
        /\ at = [l |-> at.l, p |-> at.p, todo |-> at.todo]
        /\ l \in 1..n /\ IsFiniteSet(need) /\ DoneWith(l + 1)
        /\ project.v2 => Accepted(Regions)
    BY <1>1 DEF LayersInv, Going
  <1>3. /\ n \in Nat /\ n >= 1 /\ DOMAIN layers = 1..n
        /\ layers = [i \in 1..n |-> layers[i]]
        /\ \A i \in 1..n : /\ {"prims", "passthrough"} \subseteq DOMAIN layers[i]
                           /\ layers[i].prims \in Seq(ToSet(layers[i].prims))
    BY <1>2 DEF LayersTyped
  <1>4. IsFiniteSet(need')
    <2>1. IsFiniteSet(open)
      BY <1>2, FS_Difference
    <2>2. IsFiniteSet(Prims(L))
      BY <1>2, <1>3, FinitelyMany DEF Prims
    <2>3. IsFiniteSet(D)
      BY <2>2, FS_Subset
    <2>4. \A f \in D : IsFiniteSet(mine[f])
      BY CallsFinite
    <2>5. IsFiniteSet(UNION {mine[f] : f \in D})
      <3> DOMAIN mine = D
        OBVIOUS
      <3> HIDE DEF mine, D
      <3> QED
        BY <2>3, <2>4, FiniteUnion
    <2> QED
      BY <1>1, <2>1, <2>5, FS_Union
  <1>5. /\ \A f \in D : f \in DOMAIN prim_deps' /\ prim_deps'[f] = Calls(f)
        /\ \A f \in DOMAIN prim_deps \ D : f \in DOMAIN prim_deps' /\ prim_deps'[f] = prim_deps[f]
    <2>1. DOMAIN mine = D /\ \A f \in D : mine[f] = Calls(f)
      OBVIOUS
    <2> DEFINE new == LaidOver(mine, prim_deps)
    <2>2. /\ DOMAIN new = DOMAIN mine \cup DOMAIN prim_deps
          /\ \A f \in DOMAIN mine : new[f] = mine[f]
          /\ \A f \in DOMAIN prim_deps \ DOMAIN mine : new[f] = prim_deps[f]
      BY DEF LaidOver
    <2>3. prim_deps' = new
      BY <1>1
    <2> HIDE DEF new, mine, D
    <2> QED
      BY <2>1, <2>2, <2>3
  <1>6. \A f \in D : Calls(f) \subseteq need'
    BY <1>1
  <1>7. \A d \in need : d \in Prims(L) \/ d \in need'
    BY <1>1
  <1>8. open \subseteq need' /\ \A d \in need : d \in Prims(L) \/ d \in open
    BY <1>1
  <1> HIDE DEF mine, open
  <1>9. /\ layers' = [i \in 1..n |-> layers'[i]]
        /\ \A i \in 1..n : i # l => layers'[i] = layers[i]
        /\ layers'[l].prims = L.prims /\ layers'[l].passthrough = open
        /\ {"prims", "passthrough"} \subseteq DOMAIN layers'[l]
    BY <1>1, <1>2, <1>3
  <1>10. LayersTyped' /\ Len(layers') = n /\ DOMAIN layers' = 1..n
    <2>1. layers' \in Seq(ToSet(layers')) /\ Len(layers') = n /\ DOMAIN layers' = 1..n
      BY <1>3, <1>9, IsSequence
    <2>2. ASSUME NEW i \in 1..n
          PROVE  /\ {"prims", "passthrough"} \subseteq DOMAIN layers'[i]
                 /\ layers'[i].prims \in Seq(ToSet(layers'[i].prims))
      BY <1>3, <1>9
    <2> QED
      BY <1>3, <2>1, <2>2 DEF LayersTyped
  <1>11. \A i \in 1..n : Prims(layers'[i]) = Prims(layers[i])
    BY <1>9 DEF Prims
  <1>12. \A f : HasBody(f)' = HasBody(f) /\ Calls(f)' = Calls(f)
    BY <1>1 DEF HasBody, Calls
  <1>13. ASSUME NEW i \in l..n PROVE Recorded(i)'
    <2>0. i \in 1..n
      BY <1>2, <1>3
    <2>1. CASE i = l
      BY <1>5, <1>11, <1>12, <2>0, <2>1 DEF Recorded
    <2>2. CASE i # l
      <3>1. i \in (l + 1)..n
        BY <1>2, <1>3, <2>2
      <3>2. Recorded(i)
        BY <1>2, <3>1 DEF DoneWith
      <3> QED
        BY <1>5, <1>11, <1>12, <2>0, <3>2 DEF Recorded
    <2> QED
      BY <2>1, <2>2
  <1>14. ASSUME NEW i \in l..n, NEW f \in Prims(layers[i]), HasBody(f), NEW d \in Calls(f)
         PROVE  Satisfied(i, d, l)' \/ StillNeeded(i, d, l)'
    <2>1. CASE i = l
      <3>1. l..(i - 1) = {}
        BY <1>2, <2>1
      <3>2. d \in need'
        BY <1>6, <1>14, <2>1
      <3> QED
        BY <3>1, <3>2 DEF StillNeeded
    <2>2. CASE i # l
      <3>1. i \in (l + 1)..n
        BY <1>2, <1>3, <2>2
      <3>2. \A k \in (l + 1)..(i - 1) : k \in 1..n /\ k # l
        BY <1>2, <1>3, <3>1
      <3>3. CASE Satisfied(i, d, l + 1)
        <4>1. PICK j \in (l + 1)..(i - 1) : /\ d \in Prims(layers[j])
                                            /\ \A k \in (j + 1)..(i - 1) : d \in layers[k].passthrough
          BY <3>3 DEF Satisfied
        <4>2. j \in l..(i - 1) /\ \A k \in (j + 1)..(i - 1) : k \in (l + 1)..(i - 1)
          BY <1>2, <4>1
        <4>3. d \in Prims(layers'[j])
          BY <1>11, <3>2, <4>1
        <4>4. \A k \in (j + 1)..(i - 1) : d \in layers'[k].passthrough
          BY <1>9, <3>2, <4>1, <4>2
        <4> QED
          BY <4>2, <4>3, <4>4 DEF Satisfied
      <3>4. CASE StillNeeded(i, d, l + 1)
        <4>1. d \in need /\ \A k \in (l + 1)..(i - 1) : d \in layers'[k].passthrough
          BY <1>9, <3>2, <3>4 DEF StillNeeded
        <4>2. CASE d \in Prims(L)
          <5>1. l \in l..(i - 1)
            BY <1>2, <3>1
          <5>2. d \in Prims(layers'[l])
            BY <1>2, <1>11, <4>2
          <5> QED
            BY <4>1, <5>1, <5>2 DEF Satisfied
        <4>3. CASE d \notin Prims(L)
          <5>1. d \in open /\ d \in need'
            BY <1>8, <4>1, <4>3
          <5>2. \A k \in l..(i - 1) : k = l \/ k \in (l + 1)..(i - 1)
            BY <1>2
          <5>3. \A k \in l..(i - 1) : d \in layers'[k].passthrough
            BY <1>9, <4>1, <5>1, <5>2
          <5> QED
            BY <5>1, <5>3 DEF StillNeeded
        <4> QED
          BY <4>2, <4>3
      <3>5. Satisfied(i, d, l + 1) \/ StillNeeded(i, d, l + 1)
        BY <1>2, <1>14, <3>1 DEF DoneWith
      <3> QED
        BY <3>3, <3>4, <3>5
    <2> QED
      BY <2>1, <2>2
  <1>15. /\ at'.l = l - 1 /\ at'.l + 1 = l /\ at'.l \in 1..n
         /\ at' = [l |-> at'.l, p |-> at'.p, todo |-> at'.todo]
    BY <1>1, <1>2, <1>3
  <1>16. DoneWith(at.l + 1)'
    <2>1. ASSUME NEW i \in l..n, NEW f \in Prims(layers'[i]), HasBody(f)', NEW d \in Calls(f)'
          PROVE  Satisfied(i, d, l)' \/ StillNeeded(i, d, l)'
      <3>1. i \in 1..n
        BY <1>2, <1>3
      <3>2. f \in Prims(layers[i]) /\ HasBody(f) /\ d \in Calls(f)
        BY <1>11, <1>12, <2>1, <3>1
      <3> QED
        BY <1>14, <3>2
    <2> QED
      BY <1>10, <1>13, <1>15, <2>1 DEF DoneWith
  <1>17. project'.v2 /\ pc' \notin {"parse", "abstract", "rejected", "crashed"} => Accepted(Regions')
    BY <1>1, <1>2 DEF Regions
  <1> QED
    BY <1>1, <1>2, <1>4, <1>10, <1>15, <1>16, <1>17
    DEF LayersInv, Going, DependenciesBelow, Structured

\* The bottom takes what is left: nothing is needed any more.
LEMMA BottomLayerKeeps ==
    ASSUME LayersInv, BottomLayer
    PROVE  LayersInv'
  <1> DEFINE n == Len(layers)
             S == need \cup Prims(layers[1])
             s == SetToSeq(S)
  <1>1. /\ pc = "structure" /\ pc' = "filter" /\ at.l = 1 /\ at' = at
        /\ project' = project /\ cmds' = cmds /\ prim_deps' = prim_deps
        /\ layers' = [layers EXCEPT ![1].prims = s]
    BY DEF BottomLayer, BottomPrims, text_read
  <1>2. /\ project \in Projects /\ CommandsTyped(cmds) /\ LayersTyped /\ n >= 1
        /\ at = [l |-> at.l, p |-> at.p, todo |-> at.todo]
        /\ IsFiniteSet(need) /\ DoneWith(2)
        /\ project.v2 => Accepted(Regions)
    BY <1>1 DEF LayersInv, Going
  <1>3. /\ n \in Nat /\ n >= 1 /\ DOMAIN layers = 1..n
        /\ layers = [i \in 1..n |-> layers[i]]
        /\ \A i \in 1..n : /\ {"prims", "passthrough"} \subseteq DOMAIN layers[i]
                           /\ layers[i].prims \in Seq(ToSet(layers[i].prims))
    BY <1>2 DEF LayersTyped
  <1>4. IsFiniteSet(S)
    <2>1. 1 \in 1..n
      BY <1>3
    <2>2. IsFiniteSet(Prims(layers[1]))
      BY <1>3, <2>1, FinitelyMany DEF Prims
    <2> QED
      BY <1>2, <2>2, FS_Union
  <1>5. need \subseteq S
    OBVIOUS
  <1> HIDE DEF S
  <1>6. s \in Seq(ToSet(s)) /\ ToSet(s) = S
    <2>1. ToSet(s) = S
      BY <1>4, SetToSeqIs
    <2>2. s \in [1..Cardinality(S) -> S] /\ Cardinality(S) \in Nat
      BY <1>4, SetToSeqIs, FS_CardinalityType
    <2> HIDE DEF s
    <2> QED
      BY <2>1, <2>2
  <1> HIDE DEF s
  <1>7. /\ layers' = [i \in 1..n |-> layers'[i]]
        /\ \A i \in 1..n : i # 1 => layers'[i] = layers[i]
        /\ layers'[1].prims = s
        /\ {"prims", "passthrough"} \subseteq DOMAIN layers'[1]
    <2>1. 1 \in 1..n
      BY <1>3
    <2> QED
      BY <1>1, <1>3, <2>1
  <1>8. LayersTyped' /\ Len(layers') = n
    <2>1. layers' \in Seq(ToSet(layers')) /\ Len(layers') = n /\ DOMAIN layers' = 1..n
      BY <1>3, <1>7, IsSequence
    <2>2. ASSUME NEW i \in 1..n
          PROVE  /\ {"prims", "passthrough"} \subseteq DOMAIN layers'[i]
                 /\ layers'[i].prims \in Seq(ToSet(layers'[i].prims))
      BY <1>3, <1>6, <1>7
    <2> QED
      BY <1>3, <2>1, <2>2 DEF LayersTyped
  <1>9. \A i \in 2..n : i \in 1..n /\ Prims(layers'[i]) = Prims(layers[i])
    BY <1>7 DEF Prims
  <1>10. \A f : HasBody(f)' = HasBody(f) /\ Calls(f)' = Calls(f)
    BY <1>1 DEF HasBody, Calls
  <1>11. \A i \in 2..n : Recorded(i)'
    BY <1>1, <1>2, <1>9, <1>10 DEF DoneWith, Recorded
  <1>12. ASSUME NEW i \in 2..n, NEW f \in Prims(layers[i]), HasBody(f), NEW d \in Calls(f)
         PROVE  \E j \in 1..(i - 1) : /\ d \in Prims(layers'[j])
                                      /\ \A k \in (j + 1)..(i - 1) : d \in layers'[k].passthrough
    <2>0. \A k \in 2..(i - 1) : k \in 2..n /\ k # 1
      BY <1>3
    <2>1. CASE Satisfied(i, d, 2)
      <3>1. PICK j \in 2..(i - 1) : /\ d \in Prims(layers[j])
                                    /\ \A k \in (j + 1)..(i - 1) : d \in layers[k].passthrough
        BY <2>1 DEF Satisfied
      <3>2. j \in 1..(i - 1) /\ \A k \in (j + 1)..(i - 1) : k \in 2..(i - 1)
        BY <3>1
      <3>3. d \in Prims(layers'[j])
        BY <1>9, <2>0, <3>1
      <3>4. \A k \in (j + 1)..(i - 1) : d \in layers'[k].passthrough
        BY <1>7, <1>9, <2>0, <3>1, <3>2
      <3> QED
        BY <3>2, <3>3, <3>4
    <2>2. CASE StillNeeded(i, d, 2)
      <3>1. d \in need /\ \A k \in 2..(i - 1) : d \in layers[k].passthrough
        BY <2>2 DEF StillNeeded
      <3>2. 1 \in 1..(i - 1) /\ 1 + 1 = 2
        OBVIOUS
      <3>3. d \in Prims(layers'[1])
        BY <1>5, <1>6, <1>7, <3>1 DEF Prims
      <3>4. \A k \in 2..(i - 1) : d \in layers'[k].passthrough
        BY <1>7, <1>9, <2>0, <3>1
      <3> QED
        BY <3>2, <3>3, <3>4
    <2> QED
      BY <1>2, <1>12, <2>1, <2>2 DEF DoneWith
  <1>13. DependenciesBelow'
    <2>1. ASSUME NEW i \in 2..n, NEW f \in Prims(layers'[i]), HasBody(f)', NEW d \in Calls(f)'
          PROVE  \E j \in 1..(i - 1) : /\ d \in Prims(layers'[j])
                                       /\ \A k \in (j + 1)..(i - 1) : d \in layers'[k].passthrough
      <3>1. f \in Prims(layers[i]) /\ HasBody(f) /\ d \in Calls(f)
        BY <1>9, <1>10, <2>1
      <3> QED
        BY <1>12, <3>1
    <2> QED
      BY <1>8, <2>1 DEF DependenciesBelow, Prims
  <1>14. project'.v2 => Accepted(Regions')
    BY <1>1, <1>2 DEF Regions
  <1> QED
    BY <1>1, <1>2, <1>8, <1>11, <1>13, <1>14 DEF LayersInv, Going

\* OnlyTrans: a layer that is kept finds what it calls in the kept ones below it.
LEMMA FilterOnlyTransKeeps ==
    ASSUME LayersInv, FilterOnlyTrans
    PROVE  LayersInv'
  <1>1. /\ pc = "filter" /\ pc' \in {"crashed", "collect"} /\ project' = project /\ cmds' = cmds
        /\ at' = at
        /\ layers' = IF cmds.OnlyTrans = {} THEN layers
                     ELSE FilteredLayers(merge_keep(cmds.OnlyTrans))
    BY DEF FilterOnlyTrans, text_read
  <1>2. /\ project \in Projects /\ CommandsTyped(cmds) /\ LayersTyped /\ Len(layers) >= 1
        /\ at = [l |-> at.l, p |-> at.p, todo |-> at.todo]
        /\ \A i \in 2..Len(layers) : Recorded(i)
        /\ project.v2 => Accepted(Regions)
    BY <1>1 DEF LayersInv, Going
  <1>3. \A i \in 2..Len(layers) : \A f \in {g \in Prims(layers[i]) : HasBody(g)} : \A d \in Calls(f) :
            \E j \in 1..(i - 1) : /\ d \in Prims(layers[j])
                                  /\ \A k \in (j + 1)..(i - 1) : d \in layers[k].passthrough
    BY <1>1 DEF LayersInv, DependenciesBelow, Structured
  <1>4. \A f : HasBody(f)' = HasBody(f) /\ Calls(f)' = Calls(f)
    BY <1>1 DEF HasBody, Calls
  <1>5. DependenciesBelow'
    <2>1. CASE cmds.OnlyTrans = {}
      BY <1>1, <1>3, <2>1 DEF DependenciesBelow, Prims, HasBody, Calls
    <2>2. CASE cmds.OnlyTrans # {}
      <3> DEFINE keep == merge_keep(cmds.OnlyTrans)
                 n == Len(layers)
      <3>1. \A f \in keep : f \in DOMAIN prim_deps => prim_deps[f] \subseteq keep
        BY KeepClosed
      <3>2. layers' = FilteredLayers(keep)
        BY <1>1, <2>2
      <3>3. /\ n \in Nat /\ n >= 1 /\ DOMAIN layers = 1..n
            /\ \A i \in 1..n : /\ {"prims", "passthrough"} \subseteq DOMAIN layers[i]
                               /\ layers[i].prims \in Seq(ToSet(layers[i].prims))
        BY <1>2 DEF LayersTyped
      <3> HIDE DEF keep
      <3>4. \A i \in 1..n : /\ Prims(Filtered(layers[i], keep)) = Prims(layers[i]) \cap keep
                            /\ Filtered(layers[i], keep).passthrough = layers[i].passthrough
        BY <3>3, FilteredIs
      <3>5. PICK m \in Nat \ {0} : \E p \in [1..m -> DOMAIN layers] :
               /\ DOMAIN layers' = 1..m
               /\ layers' = [k \in 1..m |-> layers'[k]]
               /\ p[1] = 1 /\ layers'[1] = layers[1]
               /\ \A k, l \in 1..m : k < l => p[k] < p[l]
               /\ \A k \in 2..m : layers'[k] = Filtered(layers[p[k]], keep)
               /\ \A i \in DOMAIN layers : KeptPrims(layers[i], keep) # {} => \E k \in 1..m : p[k] = i
        <4>1. IsFiltering(FilteredLayers(keep), keep)
          BY <1>2, FilteredLayersAre
        <4>2. IsFiltering(layers', keep)
          BY <3>2, <4>1
        <4> QED
          BY <4>2 DEF IsFiltering
      <3>6. PICK p \in [1..m -> DOMAIN layers] :
               /\ DOMAIN layers' = 1..m
               /\ layers' = [k \in 1..m |-> layers'[k]]
               /\ p[1] = 1 /\ layers'[1] = layers[1]
               /\ \A k, l \in 1..m : k < l => p[k] < p[l]
               /\ \A k \in 2..m : layers'[k] = Filtered(layers[p[k]], keep)
               /\ \A i \in DOMAIN layers : KeptPrims(layers[i], keep) # {} => \E k \in 1..m : p[k] = i
        BY <3>5
      <3>7. Len(layers') = m
        BY <3>6, IsSequence
      <3>8. \A k \in 2..m : /\ p[k] \in 2..n
                            /\ Prims(layers'[k]) = Prims(layers[p[k]]) \cap keep
                            /\ layers'[k].passthrough = layers[p[k]].passthrough
        <4>1. ASSUME NEW k \in 2..m PROVE p[k] \in 2..n
          <5>1. 1 \in 1..m /\ k \in 1..m /\ 1 < k
            OBVIOUS
          <5>2. p[1] < p[k] /\ p[k] \in 1..n
            BY <3>3, <3>6, <5>1
          <5> QED
            BY <3>3, <3>6, <5>2
        <4>2. \A k \in 2..m : p[k] \in 1..n
          BY <3>3, <4>1
        <4> QED
          BY <3>4, <3>6, <4>1, <4>2
      <3>9. ASSUME NEW i \in 2..m, NEW f \in Prims(layers'[i]), HasBody(f), NEW d \in Calls(f)
            PROVE  \E j \in 1..(i - 1) : /\ d \in Prims(layers'[j])
                                         /\ \A k \in (j + 1)..(i - 1) : d \in layers'[k].passthrough
        <4>1. p[i] \in 2..n /\ f \in Prims(layers[p[i]]) /\ f \in keep
          BY <3>8
        <4>2. d \in keep
          <5>1. f \in DOMAIN prim_deps /\ prim_deps[f] = Calls(f)
            BY <1>2, <3>9, <4>1 DEF Recorded
          <5> QED
            BY <3>1, <4>1, <5>1
        <4>3. PICK j \in 1..(p[i] - 1) : /\ d \in Prims(layers[j])
                                         /\ \A k \in (j + 1)..(p[i] - 1) : d \in layers[k].passthrough
          BY <1>3, <3>9, <4>1
        <4>4. j \in 1..n /\ j < p[i]
          BY <3>3, <4>1
        <4>5. \A k \in 1..m, l \in 1..m : p[k] < p[l] => k < l
          <5>1. ASSUME NEW k \in 1..m, NEW l \in 1..m, p[k] < p[l] PROVE k < l
            <6>1. p[k] \in 1..n /\ p[l] \in 1..n
              BY <3>3
            <6>2. k = l \/ k < l \/ l < k
              OBVIOUS
            <6>3. CASE l < k
              <7>1. p[l] < p[k]
                BY <3>6, <6>3
              <7> QED
                BY <3>3, <5>1, <6>1, <7>1
            <6>4. CASE k = l
              BY <3>3, <5>1, <6>1, <6>4
            <6> QED
              BY <6>2, <6>3, <6>4
          <5> QED
            BY <5>1
        <4>6. PICK q \in 1..m : p[q] = j
          <5>1. CASE j = 1
            <6>1. 1 \in 1..m
              OBVIOUS
            <6> QED
              BY <3>6, <5>1, <6>1
          <5>2. CASE j # 1
            <6>1. KeptPrims(layers[j], keep) # {}
              BY <4>2, <4>3 DEF KeptPrims, Prims, ToSet
            <6> QED
              BY <3>3, <3>6, <4>4, <6>1
          <5> QED
            BY <5>1, <5>2
        <4>7. q \in 1..(i - 1)
          <5>1. i \in 1..m /\ q < i
            BY <4>4, <4>5, <4>6
          <5> QED
            BY <5>1
        <4>8. d \in Prims(layers'[q])
          <5>1. CASE q = 1
            BY <3>6, <4>3, <4>6, <5>1
          <5>2. CASE q # 1
            <6>1. q \in 2..m
              BY <5>2
            <6> QED
              BY <3>8, <4>2, <4>3, <4>6, <6>1
          <5> QED
            BY <5>1, <5>2
        <4>9. ASSUME NEW k \in (q + 1)..(i - 1) PROVE d \in layers'[k].passthrough
          <5>1. k \in 2..m /\ q \in 1..m /\ k \in 1..m /\ i \in 1..m /\ q < k /\ k < i
            OBVIOUS
          <5>2. p[q] < p[k] /\ p[k] < p[i]
            BY <3>6, <5>1
          <5>3. p[k] \in (j + 1)..(p[i] - 1)
            <6>1. j < p[k] /\ p[k] < p[i]
              BY <4>6, <5>2
            <6>2. j \in Int /\ p[k] \in Int /\ p[i] \in Int
              BY <3>3, <3>6, <4>6, <5>1
            <6> QED
              BY <6>1, <6>2
          <5> QED
            BY <3>8, <4>3, <5>1, <5>3
        <4> QED
          BY <4>7, <4>8, <4>9
      <3>10. ASSUME NEW i \in 2..m, NEW f \in Prims(layers'[i]), HasBody(f)', NEW d \in Calls(f)'
             PROVE  \E j \in 1..(i - 1) : /\ d \in Prims(layers'[j])
                                          /\ \A k \in (j + 1)..(i - 1) : d \in layers'[k].passthrough
        BY <1>4, <3>9, <3>10
      <3> QED
        BY <3>7, <3>10 DEF DependenciesBelow, Prims
    <2> QED
      BY <2>1, <2>2
  <1>6. project'.v2 => Accepted(Regions')
    BY <1>1, <1>2 DEF Regions
  <1> QED
    BY <1>1, <1>2, <1>5, <1>6 DEF LayersInv, Going

\* The steps after the filter leave the layers and the calls alone.
LEMMA LaterStepKeeps ==
    ASSUME LayersInv,
           \/ Unfinished \/ Collect \/ TransInv \/ TransDone \/ Help \/ HelpDone \/ PassBottom \/ NothingBelow
           \/ EnterName \/ SkipPrim \/ ValidateLow \/ GenerateLow \/ CollectLow \/ KeepHigh \/ InferHigh
           \/ PrimDone \/ LayerDone \/ Finish
    PROVE  LayersInv'
  <1> DEFINE Framed ==
        /\ pc \in Going \ {"rejected", "crashed"} /\ pc' \in Going
        /\ SameLayers
        /\ at' = at \/ (\E l : at' = [at EXCEPT !.l = l]) \/ (\E p : at' = [at EXCEPT !.p = p])
           \/ (\E t : at' = [at EXCEPT !.todo = t]) \/ (\E l, p : at' = [at EXCEPT !.l = l, !.p = p])
  <1>1. at = [l |-> at.l, p |-> at.p, todo |-> at.todo] /\ CommandsTyped(cmds)
    BY DEF LayersInv
  <1>2. UNCHANGED cmds => CommandsKept
    BY <1>1 DEF CommandsKept
  <1>3. ASSUME Framed, CommandsKept PROVE LayersInv'
    <2>1. at' = [l |-> at'.l, p |-> at'.p, todo |-> at'.todo]
      BY <1>1, <1>3
    <2> QED
      BY <1>3, <2>1, GoingOn DEF SameLayers
  <1>4. \A r, next : Continue(r, next) => pc' \in {next, "crashed"}
    BY DEF Continue
  <1>5. CASE Unfinished
    <2>1. pc' = "rejected" /\ project' = project /\ UNCHANGED <<cmds, at>> /\ pc = "parse"
      BY <1>5 DEF Unfinished, TextRead, text_read
    <2> QED
      BY <1>1, <1>2, <2>1, GoingOn DEF Going
  <1>6. CASE Collect
    <2>1. pc = "collect" /\ SameLayers /\ cmds' = cmds /\ at' = at
      BY <1>6 DEF Collect, SameLayers, text_read, layer_vars
    <2>2. pc' \in {"collect", "crashed", "rejected"}
      <3>1. PICK f : IF defs[f].fix THEN pc' = "rejected" /\ UNCHANGED <<defs, symbols>>
                     ELSE \E r \in {InferDelayed(Now, f, TRUE)} :
                          Continue(IF SectionOf(f) \in RelationKinds THEN CollectRelation(r, f)
                                                                     ELSE CollectLemma(r, f), "collect")
        BY <1>6 DEF Collect
      <3> QED
        BY <1>4, <3>1
    <2> QED
      BY <1>2, <1>3, <2>1, <2>2 DEF Going
  <1>7. CASE TransInv
    <2>1. pc = "collect" /\ SameLayers /\ at' = at
      BY <1>7 DEF TransInv, SameLayers, text_read, layer_vars
    <2>2. PICK c, t : /\ Continue(t, "collect")
                      /\ cmds' = IF c[1] = 1 THEN cmds ELSE WithCondition(c, t.n)
      BY <1>7 DEF TransInv
    <2>3. CommandsKept
      <3>1. CASE c[1] = 1
        BY <1>2, <2>2, <3>1
      <3>2. CASE c[1] # 1
        <4>1. PICK op \in {"Postcondition", "Precondition"} : \E v : cmds' = [cmds EXCEPT ![op] = v]
          BY <2>2, <3>2 DEF WithCondition
        <4>2. op # "AddDep" /\ op # "AbstractConstant"
          BY <4>1
        <4>3. PICK v : cmds' = [cmds EXCEPT ![op] = v]
          BY <4>1
        <4> DEFINE new == [cmds EXCEPT ![op] = v]
        <4>4. CommandsTyped(new) /\ new["AbstractConstant"] = cmds["AbstractConstant"]
          BY <1>1, <4>2, OtherEntry
        <4>5. new["AddDep"] = cmds["AddDep"]
          <5>1. cmds = [o \in Operators |-> cmds[o]] /\ "AddDep" \in Operators
            BY <1>1 DEF CommandsTyped, Operators, NameLists
          <5> QED
            BY <4>2, <5>1
        <4> QED
          BY <4>3, <4>4, <4>5 DEF CommandsKept
      <3> QED
        BY <3>1, <3>2
    <2> QED
      BY <1>3, <1>4, <2>1, <2>2, <2>3 DEF Going
  <1>8. CASE TransDone
    BY <1>2, <1>3, <1>8 DEF TransDone, SameLayers, text_read, layer_vars, Going
  <1>9. CASE Help
    <2>1. /\ pc = "help" /\ SameLayers /\ cmds' = cmds /\ \E p : at' = [at EXCEPT !.p = p]
          /\ \E r : Continue(r, "help")
      BY <1>9 DEF Help, SameLayers, text_read, layer_vars
    <2> QED
      BY <1>2, <1>3, <1>4, <2>1 DEF Going
  <1>10. CASE HelpDone
    BY <1>2, <1>3, <1>10 DEF HelpDone, SameLayers, text_read, layer_vars, Going
  <1>11. CASE PassBottom
    BY <1>2, <1>3, <1>11 DEF PassBottom, SameLayers, text_read, layer_vars, Going
  <1>12. CASE NothingBelow
    BY <1>2, <1>3, <1>12 DEF NothingBelow, SameLayers, text_read, layer_vars, Going
  <1>13. CASE EnterName
    <2>1. /\ pc = "enter" /\ SameLayers /\ cmds' = cmds /\ \E p : at' = [at EXCEPT !.p = p]
          /\ \E r : Continue(r, "enter") \/ Continue(r, "low")
      BY <1>13 DEF EnterName, SameLayers, text_read, layer_vars
    <2> QED
      BY <1>2, <1>3, <1>4, <2>1 DEF Going
  <1>14. CASE SkipPrim
    BY <1>2, <1>3, <1>14 DEF SkipPrim, InLayer, SameLayers, text_read, layer_vars, Going
  <1>15. CASE ValidateLow
    <2>1. /\ pc = "low" /\ SameLayers /\ cmds' = cmds
          /\ at' = at \/ \E p : at' = [at EXCEPT !.p = p]
          /\ pc' \in {"low", "generate", "rejected"}
      BY <1>15 DEF ValidateLow, InLayer, SameLayers, text_read, layer_vars
    <2> QED
      BY <1>2, <1>3, <2>1 DEF Going
  <1>16. CASE GenerateLow
    <2>1. /\ pc = "generate" /\ SameLayers /\ cmds' = cmds /\ \E t : at' = [at EXCEPT !.todo = t]
      BY <1>16 DEF GenerateLow, SameLayers, text_read, layer_vars
    <2>2. \E r : Continue(r, "high") \/ Continue(r, "generate")
      <3>1. \E r, b : Continue(r, IF b THEN "high" ELSE "generate")
        BY <1>16 DEF GenerateLow
      <3> QED
        BY <3>1
    <2> QED
      BY <1>2, <1>3, <1>4, <2>1, <2>2 DEF Going
  <1>17. CASE CollectLow
    <2>1. /\ pc = "low" /\ SameLayers /\ cmds' = cmds /\ \E t : at' = [at EXCEPT !.todo = t]
          /\ \E r : Continue(r, "high")
      BY <1>17 DEF CollectLow, InLayer, SameLayers, text_read, layer_vars
    <2> QED
      BY <1>2, <1>3, <1>4, <2>1 DEF Going
  <1>18. CASE KeepHigh
    <2>1. /\ pc = "high" /\ SameLayers /\ cmds' = cmds /\ \E t : at' = [at EXCEPT !.todo = t]
          /\ \E r : Continue(r, "high")
      BY <1>18 DEF KeepHigh, InHigh, SameLayers, text_read, layer_vars
    <2> QED
      BY <1>2, <1>3, <1>4, <2>1 DEF Going
  <1>19. CASE InferHigh
    <2>1. /\ pc = "high" /\ SameLayers /\ cmds' = cmds /\ \E t : at' = [at EXCEPT !.todo = t]
          /\ \E r : Continue(r, "high")
      BY <1>19 DEF InferHigh, InHigh, SameLayers, text_read, layer_vars
    <2> QED
      BY <1>2, <1>3, <1>4, <2>1 DEF Going
  <1>20. CASE PrimDone
    BY <1>2, <1>3, <1>20 DEF PrimDone, SameLayers, text_read, layer_vars, Going
  <1>21. CASE LayerDone
    BY <1>2, <1>3, <1>21 DEF LayerDone, SameLayers, text_read, layer_vars, Going
  <1>22. CASE Finish
    BY <1>2, <1>3, <1>22 DEF Finish, SameLayers, text_read, layer_vars, Going
  <1> HIDE DEF Framed
  <1> QED
    BY <1>5, <1>6, <1>7, <1>8, <1>9, <1>10, <1>11, <1>12, <1>13, <1>14, <1>15, <1>16, <1>17, <1>18,
       <1>19, <1>20, <1>21, <1>22

Later ==
    \/ Unfinished \/ Collect \/ TransInv \/ TransDone \/ Help \/ HelpDone \/ PassBottom \/ NothingBelow
    \/ EnterName \/ SkipPrim \/ ValidateLow \/ GenerateLow \/ CollectLow \/ KeepHigh \/ InferHigh
    \/ PrimDone \/ LayerDone \/ Finish

\* Every step keeps the invariant.
LEMMA StepKeepsLayers ==
    ASSUME LayersInv, [Next]_vars
    PROVE  LayersInv'
  <1>1. CASE Reads
    BY <1>1, ReadsKeeps
  <1>2. CASE EndOfText
    BY <1>2, EndOfTextKeeps
  <1>3. CASE PrepareAbstraction
    BY <1>3, PrepareAbstractionKeeps
  <1>4. CASE StructureLayer
    BY <1>4, StructureLayerKeeps
  <1>5. CASE BottomLayer
    BY <1>5, BottomLayerKeeps
  <1>6. CASE FilterOnlyTrans
    BY <1>6, FilterOnlyTransKeeps
  <1>7. CASE Later
    BY <1>7, LaterStepKeeps DEF Later
  <1>8. CASE UNCHANGED vars
    <2>1. UNCHANGED <<project, cmds, pc, at, section, layers, prim_deps, need>>
      BY <1>8 DEF vars, text_vars, layer_vars
    <2> QED
      BY <2>1 DEF LayersInv, LayersTyped, SectionTyped, DoneWith, Recorded, Satisfied, StillNeeded,
         DependenciesBelow, Structured, Prims, HasBody, Calls, Regions
  <1> QED
    BY <1>1, <1>2, <1>3, <1>4, <1>5, <1>6, <1>7, <1>8 DEF Next, End, Later

\* The invariant holds of every run.
THEOREM LayersInvariant == Spec => []LayersInv
  BY InitInv, StepKeepsLayers, PTL DEF Spec

(* What a primitive calls is a primitive of a lower layer and passes       *)
(* through every layer in between, whatever the project lists, drops or    *)
(* keeps (finalize_project's pass over the layers, filter_only_trans).     *)
THEOREM CalledBelow == Spec => []DependenciesBelow
  <1>1. LayersInv => DependenciesBelow
    BY DEF LayersInv
  <1> QED
    BY <1>1, LayersInvariant, PTL

(* The memory regions that prepare_abstraction accepts have no address in  *)
(* common, whatever the commands of the project are, provided their bounds *)
(* fit the int it compares.                                                *)
THEOREM RegionsApart == Spec => []RegionsDisjoint
  <1>1. LayersInv => RegionsDisjoint
    <2>1. SUFFICES ASSUME LayersInv, project.v2, pc \notin {"parse", "abstract", "rejected", "crashed"},
                          Fits(Regions)
                   PROVE  Disjoint(Regions)
      BY DEF RegionsDisjoint
    <2>2. Accepted(Regions) /\ Regions \in Seq(Region)
      BY <2>1 DEF LayersInv, CommandsTyped, Regions
    <2>3. ListOfRegions(Regions, Len(Regions))
      <3> DEFINE rs == Regions
      <3>1. rs \in Seq(Region)
        BY <2>2
      <3> HIDE DEF rs
      <3>2. /\ Len(rs) \in Nat /\ DOMAIN rs = 1..Len(rs)
            /\ \A i \in 1..Len(rs) : rs[i] \in Region
        BY <3>1
      <3>3. ListOfRegions(rs, Len(rs))
        BY <3>2 DEF ListOfRegions, Region
      <3> QED
        BY <3>3 DEF rs
    <2> QED
      BY <2>1, <2>2, <2>3, AcceptedDisjoint
  <1> QED
    BY <1>1, LayersInvariant, PTL

-----------------------------------------------------------------------------

(***************************************************************************)
(* Definitions, their order and their symbols.  Whatever a step does to    *)
(* the bodies, it makes at most the definition it names: r has the         *)
(* definitions there were and those of fs.                                 *)
(***************************************************************************)
SymbolsIn(sy, named, declared) ==
    \A f \in DOMAIN sy : /\ "kind" \in DOMAIN sy[f]
                         /\ sy[f].kind = "Def" => f \in named
                         /\ sy[f].kind = "Decl" => f \in declared
Derived(r, fs) ==
    DOMAIN r.ds = DOMAIN defs \cup fs /\ SymbolsIn(r.sy, DOMAIN defs \cup fs, DOMAIN decls)

DefsOK ==
    /\ Distinct(order) /\ ToSet(order) = DOMAIN defs
    /\ SymbolsIn(symbols, DOMAIN defs, DOMAIN decls)

(* No definition is lost, and a new one is the last. *)
Grown ==
    /\ DOMAIN defs \subseteq DOMAIN defs'
    /\ order' = order \/ \E f : f \notin DOMAIN defs /\ order' = Append(order, f)

\* What there is, is derived from itself.
LEMMA NowDerived ==
    ASSUME DefsOK
    PROVE  Derived(Now, {})
  <1>1. Now.ds = defs /\ Now.sy = symbols
    BY DEF Now
  <1> QED
    BY <1>1 DEF Derived, DefsOK

\* Keeping another definition under a name there is.
LEMMA KeptDerived ==
    ASSUME NEW r, NEW fs, Derived(r, fs), NEW f \in DOMAIN defs \cup fs, NEW d, NEW s
    PROVE  Derived(Kept(r, f, d, s), fs)
  <1> DEFINE u == Updated(r.ds, f, d)
  <1>1. Kept(r, f, d, s).ds = u /\ Kept(r, f, d, s).sy = r.sy
    BY DEF Kept
  <1>2. DOMAIN u = DOMAIN r.ds \cup {f}
    BY UpdatedIs
  <1> HIDE DEF u
  <1> QED
    BY <1>1, <1>2 DEF Derived

\* A definition that is added is one more.
LEMMA AddedDerived ==
    ASSUME NEW r, NEW fs, Derived(r, fs), NEW f, NEW d, NEW loc
    PROVE  Derived(add_definition(r, f, d, loc), fs \cup {f})
  <1> DEFINE p == Placed(r, f, d, loc)
             u == Updated(r.ds, f, d)
             y == Updated(r.sy, f, Symbol("Def", loc))
  <1>1. p.ds = u /\ p.sy = y
    BY DEF Placed
  <1>2. DOMAIN u = DOMAIN r.ds \cup {f}
    BY UpdatedIs
  <1>3. /\ DOMAIN y = DOMAIN r.sy \cup {f} /\ "kind" \in DOMAIN y[f] /\ y[f].kind = "Def"
        /\ \A x \in DOMAIN r.sy : x # f => y[x] = r.sy[x]
    BY DEF Updated, Symbol
  <1> HIDE DEF p, u, y
  <1>4. Derived(p, fs \cup {f})
    BY <1>1, <1>2, <1>3 DEF Derived, SymbolsIn
  <1>5. \E e, s : add_definition(r, f, d, loc) = Kept(p, f, e, s)
    BY DEF add_definition, Flagged, p
  <1> QED
    BY <1>4, <1>5, KeptDerived

\* Inferring a definition late.
LEMMA DelayedDerived ==
    ASSUME NEW r, NEW fs, Derived(r, fs), NEW f, NEW clear
    PROVE  Derived(InferDelayed(r, f, clear), fs)
  <1>1. CASE f \notin DOMAIN r.ds \/ ~r.ds[f].delayed
    <2>1. InferDelayed(r, f, clear) = r
      BY <1>1 DEF InferDelayed
    <2> QED
      BY <2>1
  <1>2. CASE ~(f \notin DOMAIN r.ds \/ ~r.ds[f].delayed)
    <2>1. \E e, s : InferDelayed(r, f, clear) = Kept(r, f, e, s)
      BY <1>2 DEF InferDelayed
    <2>2. f \in DOMAIN defs \cup fs
      BY <1>2 DEF Derived
    <2> QED
      BY <2>1, <2>2, KeptDerived
  <1> QED
    BY <1>1, <1>2

\* And all of those that are late.
LEMMA AllDerived ==
    ASSUME NEW r, NEW fs, Derived(r, fs), NEW gs
    PROVE  Derived(InferAll(r, gs), fs)
  <1>1. DOMAIN InferAll(r, gs).ds = DOMAIN r.ds /\ InferAll(r, gs).sy = r.sy
    BY DEF InferAll
  <1> QED
    BY <1>1 DEF Derived

\* The transformer infers what it meets and changes no other definition.
LEMMA TransformedDerived ==
    ASSUME NEW r, NEW fs, Derived(r, fs), NEW n, NEW unfold
    PROVE  Derived(spec_transformer(r, n, unfold), fs)
  <1>1. ASSUME NEW q, Derived(q, fs), NEW m PROVE Derived(WithNode(q, m), fs)
    <2>1. WithNode(q, m).ds = q.ds /\ WithNode(q, m).sy = q.sy
      BY DEF WithNode
    <2> QED
      BY <1>1, <2>1 DEF Derived
  <1>2. CASE r.s # "ok" \/ ~unfold
    <2>1. spec_transformer(r, n, unfold) = WithNode(r, n)
      BY <1>2 DEF spec_transformer
    <2> QED
      BY <1>1, <2>1
  <1>3. CASE ~(r.s # "ok" \/ ~unfold)
    <2> DEFINE gs == Unfoldings(n, r.ds, MayUnfold(r.ds), Callable(r.sy))
               q == InferAll(r, gs)
    <2>1. spec_transformer(r, n, unfold) = Unfolded(q, n)
      BY <1>3 DEF spec_transformer
    <2>2. Derived(q, fs)
      BY AllDerived
    <2> HIDE DEF gs, q
    <2>3. \E m : Unfolded(q, n) = WithNode(q, m)
      BY DEF Unfolded
    <2> QED
      BY <1>1, <2>1, <2>2, <2>3
  <1> QED
    BY <1>2, <1>3

\* The transformed body becomes that of a definition there is.
LEMMA BodyDerived ==
    ASSUME NEW t, NEW fs, Derived(t, fs), NEW f \in DOMAIN defs \cup fs
    PROVE  Derived(WithBody(t, f), fs)
  <1>1. \E d, s : WithBody(t, f) = Kept(t, f, d, s)
    BY DEF WithBody
  <1> QED
    BY <1>1, KeptDerived

\* Symbols that are moved stay what they are.
LEMMA RelocatedDerived ==
    ASSUME NEW r, NEW fs, Derived(r, fs), NEW gs, NEW loc
    PROVE  Derived(Relocated(r, gs, loc), fs)
  <1> DEFINE y == [f \in DOMAIN r.sy |-> IF f \in gs THEN [r.sy[f] EXCEPT !.loc = loc] ELSE r.sy[f]]
  <1>1. Relocated(r, gs, loc).ds = r.ds /\ Relocated(r, gs, loc).sy = y
    BY DEF Relocated
  <1>2. DOMAIN y = DOMAIN r.sy
    OBVIOUS
  <1>3. ASSUME NEW f \in DOMAIN r.sy, "kind" \in DOMAIN r.sy[f]
        PROVE  "kind" \in DOMAIN y[f] /\ y[f].kind = r.sy[f].kind
    BY <1>3
  <1> HIDE DEF y
  <1> QED
    BY <1>1, <1>2, <1>3 DEF Derived, SymbolsIn

\* A step that makes no definition.
LEMMA SameNames ==
    ASSUME DefsOK, NEW r, NEW next, Continue(r, next), Derived(r, {}), order' = order, decls' = decls
    PROVE  DefsOK' /\ Grown
  <1>1. defs' = r.ds /\ symbols' = r.sy
    BY DEF Continue
  <1>2. DOMAIN defs' = DOMAIN defs /\ SymbolsIn(symbols', DOMAIN defs', DOMAIN decls')
    BY <1>1 DEF Derived
  <1> QED
    BY <1>2 DEF DefsOK, Grown

\* A step that may make one.
LEMMA NewName ==
    ASSUME DefsOK, NEW r, NEW next, Continue(r, next), NEW f, NEW fs, fs = {} \/ fs = {f}, Derived(r, fs),
           order' = Ordered(r, f), decls' = decls
    PROVE  DefsOK' /\ Grown
  <1>1. defs' = r.ds /\ symbols' = r.sy
    BY DEF Continue
  <1>2. DOMAIN defs' = DOMAIN defs \cup fs /\ SymbolsIn(symbols', DOMAIN defs', DOMAIN decls')
    BY <1>1 DEF Derived
  <1>3. CASE f \in DOMAIN defs' \ DOMAIN defs
    <2>1. order' = Append(order, f) /\ DOMAIN defs' = DOMAIN defs \cup {f} /\ f \notin DOMAIN defs
      BY <1>1, <1>2, <1>3 DEF Ordered
    <2>2. Distinct(order') /\ ToSet(order') = DOMAIN defs'
      BY <2>1, AppendDistinct DEF DefsOK
    <2> QED
      BY <1>2, <2>1, <2>2 DEF DefsOK, Grown
  <1>4. CASE f \notin DOMAIN defs' \ DOMAIN defs
    <2>1. order' = order /\ DOMAIN defs' = DOMAIN defs
      BY <1>1, <1>2, <1>4 DEF Ordered
    <2> QED
      BY <1>2, <2>1 DEF DefsOK, Grown
  <1> QED
    BY <1>3, <1>4

\* Symbols of types are no definitions.
LEMMA TypeSymbols ==
    ASSUME NEW sy, NEW named, NEW declared, SymbolsIn(sy, named, declared), NEW names, NEW kind, NEW info,
           kind \notin {"Def", "Decl"}
    PROVE  SymbolsIn(add_symbols(sy, names, kind, info), named, declared)
  <1> DEFINE y == add_symbols(sy, names, kind, info)
  <1>1. /\ DOMAIN y = DOMAIN sy \cup names
        /\ \A f \in names : y[f] = PartOf(kind, info)
        /\ \A f \in DOMAIN sy \ names : y[f] = sy[f]
    BY DEF add_symbols
  <1>2. "kind" \in DOMAIN PartOf(kind, info) /\ PartOf(kind, info).kind = kind
    BY DEF PartOf
  <1> HIDE DEF y
  <1> QED
    BY <1>1, <1>2 DEF SymbolsIn, y

\* A statement makes the definition it is, if it is one.
LEMMA ReadsDefs ==
    ASSUME DefsOK, ReadText
    PROVE  DefsOK' /\ Grown
  <1>1. CASE ReadWrong \/ SectionBegin \/ SectionEnd \/ LayerEntry \/ Invariant \/ ReadCommand
    <2>1. UNCHANGED <<symbols, decls, defs, order>>
      BY <1>1 DEF ReadWrong, SectionBegin, SectionEnd, LayerEntry, Invariant, ReadCommand, tables
    <2> QED
      BY <2>1 DEF DefsOK, Grown, SymbolsIn
  <1>2. ASSUME UNCHANGED <<decls, defs, order>>, SymbolsIn(symbols', DOMAIN defs, DOMAIN decls)
        PROVE  DefsOK' /\ Grown
    BY <1>2 DEF DefsOK, Grown
  <1>0. SymbolsIn(symbols, DOMAIN defs, DOMAIN decls)
    BY DEF DefsOK
  <1>3. CASE Typedef
    <2> DEFINE kind == "TypeDef"
    <2>1. kind \notin {"Def", "Decl"}
      OBVIOUS
    <2>2. UNCHANGED <<decls, defs, order>> /\ symbols' = add_symbols(symbols, {This.name}, kind, "")
      BY <1>3 DEF Typedef
    <2> HIDE DEF kind
    <2> QED
      BY <1>0, <1>2, <2>1, <2>2, TypeSymbols
  <1>4. CASE Record
    <2> DEFINE k1 == "StructElem"
               k2 == "StructConstr"
               k3 == "Struct"
               s1 == add_symbols(symbols, ToSet(This.names), k1, This.name)
               c  == {"mk" \o This.name}
               s2 == add_symbols(s1, c, k2, This.name)
               s3 == add_symbols(s2, {This.name}, k3, "")
    <2>1. k1 \notin {"Def", "Decl"} /\ k2 \notin {"Def", "Decl"} /\ k3 \notin {"Def", "Decl"}
      OBVIOUS
    <2>2. UNCHANGED <<decls, defs, order>> /\ symbols' = s3
      BY <1>4 DEF Record
    <2> HIDE DEF k1, k2, k3, c
    <2>3. SymbolsIn(s1, DOMAIN defs, DOMAIN decls)
      BY <1>0, <2>1, TypeSymbols
    <2> HIDE DEF s1
    <2>4. SymbolsIn(s2, DOMAIN defs, DOMAIN decls)
      BY <2>1, <2>3, TypeSymbols
    <2> HIDE DEF s2
    <2>5. SymbolsIn(s3, DOMAIN defs, DOMAIN decls)
      BY <2>1, <2>4, TypeSymbols
    <2> HIDE DEF s3
    <2> QED
      BY <1>2, <2>2, <2>5
  <1>5. CASE Inductive
    <2> DEFINE k1 == "IndConstructor"
               k2 == "IndType"
               s1 == add_symbols(symbols, ToSet(This.names), k1, This.name)
               s2 == add_symbols(s1, {This.name}, k2, "")
    <2>1. k1 \notin {"Def", "Decl"} /\ k2 \notin {"Def", "Decl"}
      OBVIOUS
    <2>2. UNCHANGED <<decls, defs, order>> /\ symbols' = s2
      BY <1>5 DEF Inductive, tables
    <2> HIDE DEF k1, k2
    <2>3. SymbolsIn(s1, DOMAIN defs, DOMAIN decls)
      BY <1>0, <2>1, TypeSymbols
    <2> HIDE DEF s1
    <2>4. SymbolsIn(s2, DOMAIN defs, DOMAIN decls)
      BY <2>1, <2>3, TypeSymbols
    <2> HIDE DEF s2
    <2> QED
      BY <1>2, <2>2, <2>4
  <1>6. CASE Declare
    <2> DEFINE f == This.name
               place == IF section = NoSection THEN GlobalDefs ELSE InSection
               decl == Symbol("Decl", place)
               y == Updated(symbols, f, decl)
               t == Updated(decls, f, TypeAt(1))
    <2>1. UNCHANGED <<defs, order>> /\ symbols' = y /\ decls' = t
      BY <1>6 DEF Declare
    <2>2. "kind" \in DOMAIN decl /\ decl.kind = "Decl"
      BY DEF Symbol
    <2> HIDE DEF decl, f
    <2>3. /\ DOMAIN y = DOMAIN symbols \cup {f} /\ y[f] = decl
          /\ \A x \in DOMAIN symbols : x # f => y[x] = symbols[x]
      BY DEF Updated
    <2>4. DOMAIN t = DOMAIN decls \cup {f}
      BY DEF Updated
    <2> HIDE DEF y, t
    <2>5. SymbolsIn(y, DOMAIN defs, DOMAIN t)
      BY <1>0, <2>2, <2>3, <2>4 DEF SymbolsIn
    <2> QED
      BY <2>1, <2>5 DEF DefsOK, Grown
  <1>7. CASE Define
    <2> DEFINE f == This.name
               d == DefinitionOf(This)
               loc == LocOf(This)
               r == add_definition(Now, f, d, loc)
    <2>1. UNCHANGED decls /\ Continue(r, "parse") /\ order' = Ordered(r, f)
      BY <1>7 DEF Define, tables
    <2> HIDE DEF f, d, loc
    <2>2. Derived(r, {} \cup {f})
      BY NowDerived, AddedDerived
    <2> HIDE DEF r
    <2>3. {} \cup {f} = {f} /\ \E next : Continue(r, next)
      BY <2>1
    <2> QED
      BY <2>1, <2>2, <2>3, NewName
  <1> QED
    BY <1>1, <1>3, <1>4, <1>5, <1>6, <1>7 DEF ReadText

\* A step of the collection of relations, lemmas and propositions, or a helper.
LEMMA CollectDefs ==
    ASSUME DefsOK, Collect \/ TransInv \/ Help \/ EnterName
    PROVE  DefsOK' /\ Grown
  <1>0. decls' = decls /\ order' = order
    BY DEF Collect, TransInv, Help, EnterName, text_read
  <1>1. ASSUME NEW r, NEW next, Continue(r, next), Derived(r, {}) PROVE DefsOK' /\ Grown
    BY <1>0, <1>1, SameNames
  <1>2. Derived(Now, {})
    BY NowDerived
  <1>3. CASE Collect
    <2>1. PICK f \in DOMAIN defs :
             IF defs[f].fix THEN pc' = "rejected" /\ UNCHANGED <<defs, symbols>>
             ELSE \E r \in {InferDelayed(Now, f, TRUE)} :
                  Continue(IF SectionOf(f) \in RelationKinds THEN CollectRelation(r, f)
                                                             ELSE CollectLemma(r, f), "collect")
      BY <1>3 DEF Collect, Uncollected, Collectable
    <2>2. CASE defs[f].fix
      <3>1. UNCHANGED <<defs, symbols>>
        BY <2>1, <2>2
      <3> QED
        BY <1>0, <3>1 DEF DefsOK, Grown, SymbolsIn
    <2>3. CASE ~defs[f].fix
      <3> DEFINE yes == TRUE
                 r == InferDelayed(Now, f, yes)
      <3>1. \E next : Continue(CollectRelation(r, f), next) \/ Continue(CollectLemma(r, f), next)
        BY <2>1, <2>3
      <3> HIDE DEF yes
      <3>2. Derived(r, {})
        BY <1>2, DelayedDerived
      <3> HIDE DEF r
      <3>3. Derived(CollectLemma(r, f), {})
        BY <3>2 DEF CollectLemma
      <3>4. Derived(CollectRelation(r, f), {})
        <4> DEFINE t == spec_transformer(r, r.ds[f].body, TRUE)
        <4>1. Derived(t, {})
          BY <3>2, TransformedDerived
        <4>2. CollectRelation(r, f) = WithBody(t, f)
          BY DEF CollectRelation
        <4> HIDE DEF t
        <4> QED
          BY <4>1, <4>2, BodyDerived
      <3> QED
        BY <1>1, <3>1, <3>3, <3>4
    <2> QED
      BY <2>2, <2>3
  <1>4. CASE TransInv
    <2>1. \E n, next : Continue(TransOne(Now, n), next)
      BY <1>4 DEF TransInv
    <2>2. ASSUME NEW n PROVE Derived(TransOne(Now, n), {})
      <3> DEFINE v == TypedInvariant(n, Types(Now), layers[1].data)
                 r == TransOne(Now, n)
      <3>1. r = TransTyped(Now, v)
        BY DEF TransOne
      <3> HIDE DEF v, r
      <3>2. CASE v.s # "ok"
        <4>1. r.ds = Now.ds /\ r.sy = Now.sy
          BY <3>1, <3>2 DEF TransTyped
        <4> QED
          BY <1>2, <4>1 DEF Derived, r
      <3>3. CASE v.s = "ok"
        <4>1. r = spec_transformer(Now, v.n, TRUE)
          BY <3>1, <3>3 DEF TransTyped
        <4> QED
          BY <1>2, <4>1, TransformedDerived DEF r
      <3> QED
        BY <3>2, <3>3
    <2> QED
      BY <1>1, <2>1, <2>2
  <1>5. CASE Help
    <2>1. \E h, next : Continue(Helped(h), next)
      BY <1>5 DEF Help
    <2>2. ASSUME NEW h PROVE Derived(Helped(h), {})
      <3>1. CASE h \in DOMAIN defs
        <4> DEFINE t == spec_transformer(Now, defs[h].body, TRUE)
        <4>1. Derived(t, {})
          BY <1>2, TransformedDerived
        <4>2. Helped(h) = WithBody(t, h)
          BY <3>1 DEF Helped
        <4> HIDE DEF t
        <4> QED
          BY <3>1, <4>1, <4>2, BodyDerived
      <3>2. CASE h \notin DOMAIN defs
        BY <1>2, <3>2 DEF Helped
      <3> QED
        BY <3>1, <3>2
    <2> QED
      BY <1>1, <2>1, <2>2
  <1>6. CASE EnterName
    <2>1. \E f, no, next : Continue(InferDelayed(Now, f, no), next) \/ Continue(Now, next)
      BY <1>6 DEF EnterName
    <2>2. \A f, no : Derived(InferDelayed(Now, f, no), {})
      BY <1>2, DelayedDerived
    <2> QED
      BY <1>1, <1>2, <2>1, <2>2
  <1> QED
    BY <1>3, <1>4, <1>5, <1>6

\* A low specification that is generated is one more definition.
LEMMA GenerateDefs ==
    ASSUME DefsOK, GenerateLow
    PROVE  DefsOK' /\ Grown /\ \E f \in DOMAIN defs' : at' = [at EXCEPT !.todo = Append(@, f)]
  <1> DEFINE g   == CodeToSpec(Prim)[Len(at.todo) + 1]
             f   == g.name
             loc == <<layers[at.l].name, Prim, "LowSpec">>
             a   == add_definition(Now, f, g.d, loc)
             no  == FALSE
             t   == spec_transformer(a, a.ds[f].body, no)
             r   == WithBody(t, f)
  <1>1. /\ decls' = decls /\ at' = [at EXCEPT !.todo = Append(@, f)]
        /\ order' = Ordered(r, f) /\ \E next : Continue(r, next)
    BY DEF GenerateLow, LowAdded, AddLow, text_read
  <1> HIDE DEF g, loc, no
  <1>2. Derived(a, {} \cup {f})
    BY NowDerived, AddedDerived
  <1>3. {} \cup {f} = {f}
    OBVIOUS
  <1> HIDE DEF a
  <1>4. Derived(t, {f})
    BY <1>2, <1>3, TransformedDerived
  <1> HIDE DEF t
  <1>5. Derived(r, {f})
    BY <1>4, BodyDerived
  <1>6. f \in DOMAIN defs'
    BY <1>1, <1>5 DEF Continue, Derived
  <1> HIDE DEF f, r
  <1>7. DefsOK' /\ Grown
    BY <1>1, <1>5, NewName
  <1> QED
    BY <1>1, <1>6, <1>7

\* Those that are provided are there, and moved.
LEMMA CollectLowDefs ==
    ASSUME DefsOK, CollectLow
    PROVE  DefsOK' /\ Grown /\ \E t \in Seq(DOMAIN defs') : at' = [at EXCEPT !.todo = t]
  <1> DEFINE low == PartsOf(Prim)
             f   == LowName(Prim)
             d   == ProvidedLow(Prim)
             loc == <<layers[at.l].name, Prim, "LowSpec">>
             ok  == "ok"
             k   == Kept(Now, f, d, ok)
             r   == Relocated(k, ToSet(low), loc)
  <1>1. /\ decls' = decls /\ order' = order /\ at' = [at EXCEPT !.todo = low]
        /\ \E next : Continue(r, next)
        /\ f \in DOMAIN defs
    BY DEF CollectLow, Provided, text_read
  <1>2. low \in Seq(DOMAIN defs)
    <2> DEFINE P == {i \in DOMAIN order : order[i] \in DOMAIN project.part /\ project.part[order[i]] = Prim}
               D == DOMAIN defs
    <2>1. low = Subsequence(order, P)
      BY DEF PartsOf
    <2>2. P \subseteq DOMAIN order
      OBVIOUS
    <2>3. order \in Seq(D)
      BY DistinctIs DEF DefsOK
    <2> HIDE DEF P, D, low
    <2>4. low \in Seq(D)
      BY <2>1, <2>2, <2>3, SubsequenceIs
    <2> QED
      BY <2>4 DEF D
  <1> HIDE DEF low, f, d, loc, ok
  <1>3. Derived(k, {})
    BY <1>1, NowDerived, KeptDerived
  <1> HIDE DEF k
  <1>4. Derived(r, {})
    BY <1>3, RelocatedDerived
  <1> HIDE DEF r
  <1>5. DefsOK' /\ Grown
    BY <1>1, <1>4, SameNames
  <1>6. DOMAIN defs' = DOMAIN defs
    BY <1>1, <1>4 DEF Continue, Derived
  <1> QED
    BY <1>1, <1>2, <1>5, <1>6

\* A high specification is kept, or is one more definition.
LEMMA HighDefs ==
    ASSUME DefsOK, KeepHigh \/ InferHigh
    PROVE  DefsOK' /\ Grown
  <1>0. Derived(Now, {})
    BY NowDerived
  <1>1. CASE KeepHigh
    <2> DEFINE no == FALSE
               i  == InferDelayed(Now, High, no)
               q  == IF project.v2 THEN Now ELSE i
               hs == {High}
               r  == Relocated(q, hs, AtSpec)
    <2>1. decls' = decls /\ order' = order /\ \E next : Continue(r, next)
      BY <1>1 DEF KeepHigh, text_read
    <2> HIDE DEF no, hs
    <2>2. Derived(i, {})
      BY <1>0, DelayedDerived
    <2> HIDE DEF i
    <2>3. Derived(q, {})
      BY <1>0, <2>2
    <2> HIDE DEF q
    <2>4. Derived(r, {})
      BY <2>3, RelocatedDerived
    <2> HIDE DEF r
    <2> QED
      BY <2>1, <2>4, SameNames
  <1>2. CASE InferHigh
    <2> DEFINE yes == TRUE
               i == InferDelayed(Now, Low, yes)
               b == Renamed1(i.ds[Low].body)
               d == Declared(i)
               w == ~no_trans
               t == spec_transformer(d, b, w)
               r == AddHigh(t)
    <2>1. decls' = decls /\ order' = Ordered(r, High) /\ \E next : Continue(r, next)
      BY <1>2 DEF InferHigh, HighBody, text_read
    <2> HIDE DEF yes, b, w
    <2>2. Derived(i, {})
      BY <1>0, DelayedDerived
    <2> HIDE DEF i
    <2>3. \E fs : (fs = {} \/ fs = {High}) /\ Derived(d, fs)
      <3> DEFINE e == [i.ds[Low] EXCEPT !.body = <<>>]
                 a == add_definition(i, High, e, AtSpec)
      <3>1. d = i \/ d = a
        BY DEF Declared
      <3> HIDE DEF d, e
      <3>2. Derived(a, {} \cup {High})
        BY <2>2, AddedDerived
      <3>3. {} \cup {High} = {High}
        OBVIOUS
      <3> HIDE DEF a
      <3> QED
        BY <2>2, <3>1, <3>2, <3>3
    <2> HIDE DEF d
    <2>4. \E fs : (fs = {} \/ fs = {High}) /\ Derived(t, fs)
      BY <2>3, TransformedDerived
    <2> HIDE DEF t
    <2>5. \E fs : (fs = {} \/ fs = {High}) /\ Derived(r, fs)
      <3> DEFINE e == [t.ds[Low] EXCEPT !.body = t.n]
                 a == add_definition(t, High, e, AtSpec)
      <3>1. r = t \/ r = a
        BY DEF AddHigh
      <3>2. PICK fs : (fs = {} \/ fs = {High}) /\ Derived(t, fs)
        BY <2>4
      <3> HIDE DEF r, e
      <3>3. Derived(a, fs \cup {High})
        BY <3>2, AddedDerived
      <3>4. fs \cup {High} = {High}
        BY <3>2
      <3> HIDE DEF a
      <3> QED
        BY <3>1, <3>2, <3>3, <3>4
    <2> HIDE DEF r
    <2>6. PICK fs : (fs = {} \/ fs = {High}) /\ Derived(r, fs)
      BY <2>5
    <2>7. PICK next : Continue(r, next)
      BY <2>1
    <2> QED
      BY <2>1, <2>6, <2>7, NewName
  <1> QED
    BY <1>1, <1>2

\* The steps that leave the definitions alone.
Elsewhere ==
    \/ Unfinished \/ EndOfText \/ PrepareAbstraction \/ StructureLayer \/ BottomLayer \/ FilterOnlyTrans
    \/ TransDone \/ HelpDone \/ PassBottom \/ NothingBelow \/ SkipPrim \/ ValidateLow \/ PrimDone
    \/ LayerDone \/ Finish \/ UNCHANGED vars

\* They do.
LEMMA ElsewhereDefs ==
    ASSUME DefsOK, Elsewhere
    PROVE  DefsOK' /\ Grown
  <1>1. UNCHANGED <<decls, defs, order, symbols>>
    BY DEF Elsewhere, Unfinished, EndOfText, PrepareAbstraction, StructureLayer, BottomLayer, FilterOnlyTrans,
           TransDone, HelpDone, PassBottom, NothingBelow, SkipPrim, ValidateLow, PrimDone, LayerDone, Finish,
           text_read, vars, text_vars, tables
  <1> QED
    BY <1>1 DEF DefsOK, Grown, SymbolsIn

\* No step loses a definition or its place.
LEMMA StepKeepsDefs ==
    ASSUME DefsOK, [Next]_vars
    PROVE  DefsOK' /\ Grown
  <1>1. CASE Reads
    BY <1>1, ReadsDefs DEF Reads
  <1>2. CASE Collect \/ TransInv \/ Help \/ EnterName
    BY <1>2, CollectDefs
  <1>3. CASE GenerateLow
    BY <1>3, GenerateDefs
  <1>4. CASE CollectLow
    BY <1>4, CollectLowDefs
  <1>5. CASE KeepHigh \/ InferHigh
    BY <1>5, HighDefs
  <1>6. CASE Elsewhere
    BY <1>6, ElsewhereDefs
  <1> QED
    BY <1>1, <1>2, <1>3, <1>4, <1>5, <1>6 DEF Next, End, Elsewhere

\* Nothing is defined at the start.
LEMMA InitDefs == Init => DefsOK
  <1>1. SUFFICES ASSUME Init PROVE DefsOK
    OBVIOUS
  <1>2. order = <<>> /\ defs = <<>> /\ symbols = <<>>
    BY <1>1 DEF Init, TextInit
  <1>3. DOMAIN defs = {} /\ DOMAIN symbols = {}
    BY <1>2
  <1> QED
    BY <1>2, <1>3, EmptyDistinct DEF DefsOK, SymbolsIn

(* The definitions and their order only grow, by at most one definition in *)
(* a step and at the end: what is inferred, unfolded or renamed replaces a *)
(* body and drops no name (Project::add_definition).                       *)
THEOREM DefinitionsGrow == Spec => [][Grown]_vars
  <1>1. DefsOK /\ [Next]_vars => DefsOK'
    BY StepKeepsDefs
  <1>2. DefsOK /\ [Next]_vars => [Grown]_vars
    BY StepKeepsDefs
  <1> QED
    BY InitDefs, <1>1, <1>2, PTL DEF Spec

-----------------------------------------------------------------------------

(***************************************************************************)
(* Where the program is: in a layer there is, with specifications there    *)
(* are, and above a bottom that has every primitive once.                  *)
(***************************************************************************)
PlaceOK ==
    /\ Len(layers) \in Nat
    /\ at.l \in 1..(Len(layers) + 1) /\ at.p \in Nat \ {0}
    /\ at.todo \in Seq(DOMAIN defs)
    /\ pc \notin {"parse", "crashed", "rejected"} => Len(layers) >= 1
    /\ pc \in {"parse", "filter", "collect"} => at.l = 1
    /\ pc \in {"low", "generate", "high"} => at.l <= Len(layers)
    /\ Structured => Distinct(layers[1].prims)

TypesInv == LayersInv /\ DefsOK /\ PlaceOK

\* A sequence of definitions stays one when there are more.
LEMMA StillDefined ==
    ASSUME NEW D, NEW E, D \subseteq E, NEW s \in Seq(D)
    PROVE  s \in Seq(E)
  OBVIOUS

\* And so does what is left of it after its first.
LEMMA StillDefinedTail ==
    ASSUME NEW D, NEW s \in Seq(D), s # <<>>
    PROVE  Tail(s) \in Seq(D)
  OBVIOUS

\* The layers are a sequence.
LEMMA LayersMany ==
    ASSUME LayersTyped
    PROVE  Len(layers) \in Nat /\ Len(Append(layers, section)) = Len(layers) + 1
  <1> DEFINE T == ToSet(layers) \cup {section}
  <1>1. layers \in Seq(T) /\ section \in T
    BY DEF LayersTyped
  <1> HIDE DEF T
  <1> QED
    BY <1>1

\* A statement that is read leaves the first layer's place.
LEMMA ReadsPlace ==
    ASSUME TypesInv, Reads, Grown
    PROVE  PlaceOK'
  <1>1. /\ pc = "parse" /\ pc' \in {"parse", "crashed", "rejected"}
        /\ at' = at \/ at' = [at EXCEPT !.p = @ + 1]
        /\ layers' = layers \/ layers' = Append(layers, section)
    BY DEF Reads, ReadText, ReadWrong, SectionBegin, SectionEnd, LayerEntry, Typedef, Record, Inductive,
           Declare, Define, Invariant, ReadCommand, Read, Reading, Continue
  <1>2. /\ at = [l |-> at.l, p |-> at.p, todo |-> at.todo] /\ LayersTyped
        /\ at.l = 1 /\ at.p \in Nat \ {0} /\ at.todo \in Seq(DOMAIN defs)
    BY <1>1 DEF TypesInv, PlaceOK, LayersInv, Going
  <1>3. Len(layers) \in Nat /\ Len(layers') \in {Len(layers), Len(layers) + 1}
    BY <1>1, <1>2, LayersMany
  <1>4. at'.l = 1 /\ at'.p \in Nat \ {0} /\ at'.todo = at.todo
    BY <1>1, <1>2
  <1>5. at'.todo \in Seq(DOMAIN defs')
    BY <1>2, <1>4, StillDefined DEF Grown
  <1> HIDE DEF Grown
  <1> QED
    BY <1>1, <1>3, <1>4, <1>5 DEF PlaceOK, Structured

\* Before the bottom is reached.
LEMMA StructurePlace ==
    ASSUME TypesInv, EndOfText \/ PrepareAbstraction \/ StructureLayer, Grown, LayersInv'
    PROVE  PlaceOK'
  <1>1. /\ pc' \in {"abstract", "structure", "rejected"}
        /\ at' = at \/ \E l : at' = [at EXCEPT !.l = l]
        /\ pc' = "rejected" => at' = at /\ layers' = layers
    BY DEF EndOfText, PrepareAbstraction, StructureLayer
  <1>2. /\ at = [l |-> at.l, p |-> at.p, todo |-> at.todo] /\ at.p \in Nat \ {0}
        /\ at.todo \in Seq(DOMAIN defs)
        /\ Len(layers) \in Nat /\ at.l \in 1..(Len(layers) + 1)
    BY DEF TypesInv, PlaceOK, LayersInv
  <1>3. at'.p = at.p /\ at'.todo = at.todo
    BY <1>1, <1>2
  <1>4. at'.todo \in Seq(DOMAIN defs')
    BY <1>2, <1>3, StillDefined DEF Grown
  <1>5. CASE pc' = "rejected"
    BY <1>1, <1>2, <1>4, <1>5 DEF PlaceOK, Structured
  <1>6. CASE pc' # "rejected"
    <2>1. LayersTyped'
      BY <1>1, <1>6 DEF LayersInv, Going
    <2>2. Len(layers') \in Nat
      <3> DEFINE s == layers'
      <3>1. s \in Seq(ToSet(s))
        BY <2>1 DEF LayersTyped
      <3> HIDE DEF s
      <3>2. Len(s) \in Nat
        BY <3>1
      <3> QED
        BY <3>2 DEF s
    <2>3. Len(layers') >= 1 /\ at'.l \in 1..Len(layers')
      BY <1>1, <1>6, <2>2 DEF LayersInv, Going
    <2> QED
      BY <1>1, <1>2, <1>3, <1>4, <1>6, <2>2, <2>3 DEF PlaceOK, Structured
  <1> QED
    BY <1>5, <1>6

\* The bottom gets every primitive once, and the filter leaves it.
LEMMA BottomPlace ==
    ASSUME TypesInv, BottomLayer \/ FilterOnlyTrans, Grown
    PROVE  PlaceOK'
  <1>1. /\ at = [l |-> at.l, p |-> at.p, todo |-> at.todo] /\ at.p \in Nat \ {0}
        /\ at.todo \in Seq(DOMAIN defs) /\ at' = at /\ pc \in {"structure", "filter"}
    BY DEF TypesInv, PlaceOK, LayersInv, BottomLayer, FilterOnlyTrans
  <1>2. at'.todo \in Seq(DOMAIN defs')
    BY <1>1, StillDefined DEF Grown
  <1>3. LayersTyped /\ Len(layers) \in Nat /\ Len(layers) >= 1 /\ DOMAIN layers = 1..Len(layers)
    BY <1>1 DEF TypesInv, LayersInv, LayersTyped, Going
  <1>4. ASSUME Len(layers') \in Nat, Len(layers') >= 1, at.l = 1, Structured' => Distinct(layers'[1].prims),
               pc' \in {"filter", "collect", "crashed"}
        PROVE  PlaceOK'
    BY <1>1, <1>2, <1>4 DEF PlaceOK
  <1>5. CASE BottomLayer
    <2> DEFINE S == need \cup Prims(layers[1])
    <2>1. /\ pc = "structure" /\ pc' = "filter" /\ at.l = 1
          /\ layers' = [layers EXCEPT ![1].prims = SetToSeq(S)]
      BY <1>5 DEF BottomLayer, BottomPrims
    <2>2. 1 \in DOMAIN layers
      BY <1>3
    <2>3. IsFiniteSet(S)
      <3>1. IsFiniteSet(Prims(layers[1]))
        BY <1>3, <2>2, FinitelyMany DEF Prims, LayersTyped
      <3>2. IsFiniteSet(need)
        BY <2>1 DEF TypesInv, LayersInv
      <3> QED
        BY <3>1, <3>2, FS_Union
    <2> HIDE DEF S
    <2>4. Distinct(SetToSeq(S))
      BY <2>3, SetToSeqDistinct
    <2>5. layers'[1].prims = SetToSeq(S) /\ Len(layers') = Len(layers)
      <3>1. "prims" \in DOMAIN layers[1]
        BY <1>3, <2>2 DEF LayersTyped
      <3>2. layers \in Seq(ToSet(layers))
        BY <1>3 DEF LayersTyped
      <3>3. layers'[1].prims = SetToSeq(S)
        BY <2>1, <2>2, <3>1
      <3>4. /\ DOMAIN layers' = 1..Len(layers)
            /\ layers' = [i \in 1..Len(layers) |-> layers'[i]]
        BY <1>3, <2>1, <3>2
      <3>5. Len(layers') = Len(layers)
        BY <1>3, <3>4, IsSequence
      <3> QED
        BY <3>3, <3>5
    <2> QED
      BY <1>3, <1>4, <2>1, <2>4, <2>5
  <1>6. CASE FilterOnlyTrans
    <2>1. /\ pc = "filter" /\ pc' \in {"collect", "crashed"}
          /\ layers' = IF cmds.OnlyTrans = {} THEN layers ELSE FilteredLayers(merge_keep(cmds.OnlyTrans))
      BY <1>6 DEF FilterOnlyTrans
    <2>2. at.l = 1 /\ Distinct(layers[1].prims)
      BY <2>1 DEF TypesInv, PlaceOK, Structured
    <2>3. Len(layers') \in Nat /\ Len(layers') >= 1 /\ layers'[1] = layers[1]
      <3>1. CASE cmds.OnlyTrans = {}
        BY <1>3, <2>1, <3>1
      <3>2. CASE cmds.OnlyTrans # {}
        <4> DEFINE keep == merge_keep(cmds.OnlyTrans)
        <4>1. layers' = FilteredLayers(keep)
          BY <2>1, <3>2
        <4> HIDE DEF keep
        <4>2. PICK m \in Nat \ {0} : /\ DOMAIN layers' = 1..m
                                     /\ layers' = [k \in 1..m |-> layers'[k]]
                                     /\ layers'[1] = layers[1]
          <5>1. IsFiltering(layers', keep)
            <6>1. IsFiltering(FilteredLayers(keep), keep)
              BY <1>3, FilteredLayersAre
            <6> QED
              BY <4>1, <6>1
          <5> QED
            BY <5>1 DEF IsFiltering
        <4>3. Len(layers') = m
          BY <4>2, IsSequence
        <4> QED
          BY <4>2, <4>3
      <3> QED
        BY <3>1, <3>2
    <2> QED
      BY <1>4, <2>1, <2>2, <2>3
  <1> QED
    BY <1>5, <1>6

\* The walk over the layers stays in them.
LEMMA LaterPlace ==
    ASSUME TypesInv, Later, Grown
    PROVE  PlaceOK'
  <1> DEFINE n == Len(layers)
  <1>1. /\ at = [l |-> at.l, p |-> at.p, todo |-> at.todo]
        /\ n \in Nat /\ at.l \in 1..(n + 1) /\ at.p \in Nat \ {0}
        /\ at.todo \in Seq(DOMAIN defs)
        /\ pc \notin {"parse", "crashed", "rejected"} => n >= 1
        /\ pc = "collect" => at.l = 1
        /\ pc \in {"low", "generate", "high"} => at.l <= n
        /\ Structured => Distinct(layers[1].prims)
    BY DEF TypesInv, PlaceOK, LayersInv
  <1>2. layers' = layers
    BY DEF Later, Unfinished, Collect, TransInv, TransDone, Help, HelpDone, PassBottom, NothingBelow, EnterName,
           SkipPrim, ValidateLow, GenerateLow, CollectLow, KeepHigh, InferHigh, PrimDone, LayerDone, Finish,
           layer_vars
  <1>3. at.todo \in Seq(DOMAIN defs')
    BY <1>1, StillDefined DEF Grown
  <1>4. ASSUME NEW l \in 1..(n + 1), NEW p \in Nat \ {0}, NEW t \in Seq(DOMAIN defs'),
               at' = [l |-> l, p |-> p, todo |-> t],
               pc \notin {"abstract", "structure", "crashed", "rejected"},
               pc = "parse" => pc' = "rejected", pc' \notin {"parse", "abstract", "structure", "filter"},
               pc' = "collect" => l = 1, pc' \in {"low", "generate", "high"} => l <= n
        PROVE  PlaceOK'
    BY <1>1, <1>2, <1>4 DEF PlaceOK, Structured
  <1>5. \A r, next : Continue(r, next) => pc' \in {next, "crashed"}
    BY DEF Continue
  <1>6. CASE Unfinished
    <2>1. pc = "parse" /\ pc' = "rejected" /\ at' = [l |-> at.l, p |-> at.p, todo |-> at.todo]
      BY <1>1, <1>6 DEF Unfinished, TextRead
    <2> QED
      BY <1>1, <1>3, <1>4, <2>1
  <1>7. CASE Collect \/ TransInv
    <2>1. pc = "collect" /\ at' = [l |-> at.l, p |-> at.p, todo |-> at.todo]
      BY <1>1, <1>7 DEF Collect, TransInv
    <2>2. pc' \in {"collect", "crashed", "rejected"}
      <3>1. CASE Collect
        <4>1. PICK f : IF defs[f].fix THEN pc' = "rejected" /\ UNCHANGED <<defs, symbols>>
                       ELSE \E r \in {InferDelayed(Now, f, TRUE)} :
                            Continue(IF SectionOf(f) \in RelationKinds THEN CollectRelation(r, f)
                                                                       ELSE CollectLemma(r, f), "collect")
          BY <3>1 DEF Collect
        <4> QED
          BY <1>5, <4>1
      <3>2. CASE TransInv
        <4>1. \E t : Continue(t, "collect")
          BY <3>2 DEF TransInv
        <4> QED
          BY <1>5, <4>1
      <3> QED
        BY <1>7, <3>1, <3>2
    <2> QED
      BY <1>1, <1>3, <1>4, <2>1, <2>2
  <1>8. CASE TransDone
    <2>1. /\ pc = "collect" /\ pc' = "help"
          /\ at' = [l |-> IF project.v2 THEN 2 ELSE 1, p |-> 1, todo |-> at.todo]
      BY <1>1, <1>8 DEF TransDone
    <2>2. (IF project.v2 THEN 2 ELSE 1) \in 1..(n + 1)
      BY <1>1, <2>1
    <2> QED
      BY <1>1, <1>3, <1>4, <2>1, <2>2
  <1>9. CASE Help
    <2>1. /\ pc = "help" /\ at' = [l |-> at.l, p |-> at.p + 1, todo |-> at.todo]
          /\ \E r : Continue(r, "help")
      BY <1>1, <1>9 DEF Help
    <2>2. pc' \in {"help", "crashed"} /\ at.p + 1 \in Nat \ {0}
      BY <1>1, <1>5, <2>1
    <2> QED
      BY <1>1, <1>3, <1>4, <2>1, <2>2
  <1>10. CASE HelpDone
    <2>1. pc = "help" /\ pc' = "enter" /\ at' = [l |-> at.l, p |-> 1, todo |-> at.todo]
      BY <1>1, <1>10 DEF HelpDone
    <2> QED
      BY <1>1, <1>3, <1>4, <2>1
  <1>11. CASE PassBottom
    <2>1. pc = "enter" /\ pc' = "enter" /\ at.l <= n /\ at' = [l |-> at.l + 1, p |-> at.p, todo |-> at.todo]
      BY <1>1, <1>11 DEF PassBottom
    <2>2. at.l + 1 \in 1..(n + 1)
      BY <1>1, <2>1
    <2> QED
      BY <1>1, <1>3, <1>4, <2>1, <2>2
  <1>12. CASE NothingBelow
    <2>1. pc = "enter" /\ pc' = "rejected" /\ at' = [l |-> at.l, p |-> at.p, todo |-> at.todo]
      BY <1>1, <1>12 DEF NothingBelow
    <2> QED
      BY <1>1, <1>3, <1>4, <2>1
  <1>13. CASE EnterName
    <2>1. /\ pc = "enter" /\ at.l \in 2..n
          /\ \E p : at' = [l |-> at.l, p |-> p, todo |-> at.todo] /\ p \in {at.p + 1, 1}
          /\ \E r : Continue(r, "enter") \/ Continue(r, "low")
      BY <1>1, <1>13 DEF EnterName
    <2>2. PICK p : at' = [l |-> at.l, p |-> p, todo |-> at.todo] /\ p \in {at.p + 1, 1}
      BY <2>1
    <2>3. pc' \in {"enter", "low", "crashed"} /\ p \in Nat \ {0} /\ at.l <= n
      BY <1>1, <1>5, <2>1, <2>2
    <2> QED
      BY <1>1, <1>3, <1>4, <2>1, <2>2, <2>3
  <1>14. CASE SkipPrim
    <2>1. pc = "low" /\ pc' = "low" /\ at' = [l |-> at.l, p |-> at.p + 1, todo |-> at.todo]
      BY <1>1, <1>14 DEF SkipPrim, InLayer
    <2>2. at.p + 1 \in Nat \ {0}
      BY <1>1
    <2> QED
      BY <1>1, <1>3, <1>4, <2>1, <2>2
  <1>15. CASE ValidateLow
    <2>1. /\ pc = "low" /\ pc' \in {"low", "generate", "rejected"}
          /\ \E p : at' = [l |-> at.l, p |-> p, todo |-> at.todo] /\ p \in {at.p + 1, at.p}
      BY <1>1, <1>15 DEF ValidateLow, InLayer
    <2>2. PICK p : at' = [l |-> at.l, p |-> p, todo |-> at.todo] /\ p \in {at.p + 1, at.p}
      BY <2>1
    <2>3. p \in Nat \ {0}
      BY <1>1, <2>2
    <2> QED
      BY <1>1, <1>3, <1>4, <2>1, <2>2, <2>3
  <1>16. CASE GenerateLow
    <2>1. PICK f \in DOMAIN defs' : at' = [at EXCEPT !.todo = Append(@, f)]
      BY <1>16, GenerateDefs DEF TypesInv
    <2>2. at' = [l |-> at.l, p |-> at.p, todo |-> Append(at.todo, f)]
      BY <1>1, <2>1
    <2>3. Append(at.todo, f) \in Seq(DOMAIN defs')
      BY <1>3, <2>1
    <2>4. pc = "generate" /\ \E r, b : Continue(r, IF b THEN "high" ELSE "generate")
      BY <1>16 DEF GenerateLow
    <2>5. pc' \in {"generate", "high", "crashed"}
      BY <1>5, <2>4
    <2> QED
      BY <1>1, <1>4, <2>2, <2>3, <2>4, <2>5
  <1>17. CASE CollectLow
    <2>1. PICK t \in Seq(DOMAIN defs') : at' = [at EXCEPT !.todo = t]
      BY <1>17, CollectLowDefs DEF TypesInv
    <2>2. at' = [l |-> at.l, p |-> at.p, todo |-> t]
      BY <1>1, <2>1
    <2>3. pc = "low" /\ \E r : Continue(r, "high")
      BY <1>17 DEF CollectLow, InLayer
    <2>4. pc' \in {"high", "crashed"}
      BY <1>5, <2>3
    <2> QED
      BY <1>1, <1>4, <2>2, <2>3, <2>4
  <1>18. CASE KeepHigh \/ InferHigh
    <2>1. /\ pc = "high" /\ at.todo # <<>> /\ at' = [at EXCEPT !.todo = Tail(@)]
          /\ \E r : Continue(r, "high")
      BY <1>18 DEF KeepHigh, InferHigh, InHigh
    <2>2. at' = [l |-> at.l, p |-> at.p, todo |-> Tail(at.todo)]
      BY <1>1, <2>1
    <2>3. Tail(at.todo) \in Seq(DOMAIN defs')
      BY <1>3, <2>1, StillDefinedTail
    <2>4. pc' \in {"high", "crashed"}
      BY <1>5, <2>1
    <2> QED
      BY <1>1, <1>4, <2>1, <2>2, <2>3, <2>4
  <1>19. CASE PrimDone
    <2>1. pc = "high" /\ pc' = "low" /\ at' = [l |-> at.l, p |-> at.p + 1, todo |-> at.todo]
      BY <1>1, <1>19 DEF PrimDone
    <2>2. at.p + 1 \in Nat \ {0}
      BY <1>1
    <2> QED
      BY <1>1, <1>3, <1>4, <2>1, <2>2
  <1>20. CASE LayerDone
    <2>1. pc = "low" /\ pc' = "enter" /\ at' = [l |-> at.l + 1, p |-> 1, todo |-> at.todo]
      BY <1>1, <1>20 DEF LayerDone
    <2>2. at.l + 1 \in 1..(n + 1)
      BY <1>1, <2>1
    <2> QED
      BY <1>1, <1>3, <1>4, <2>1, <2>2
  <1>21. CASE Finish
    <2>1. pc = "enter" /\ pc' = "done" /\ at' = [l |-> at.l, p |-> at.p, todo |-> at.todo]
      BY <1>1, <1>21 DEF Finish
    <2> QED
      BY <1>1, <1>3, <1>4, <2>1
  <1> QED
    BY <1>6, <1>7, <1>8, <1>9, <1>10, <1>11, <1>12, <1>13, <1>14, <1>15, <1>16, <1>17, <1>18, <1>19,
       <1>20, <1>21 DEF Later

\* Every step keeps all of it.
LEMMA StepKeepsTypes ==
    ASSUME TypesInv, [Next]_vars
    PROVE  TypesInv'
  <1>1. LayersInv' /\ DefsOK' /\ Grown
    BY StepKeepsLayers, StepKeepsDefs DEF TypesInv
  <1>2. CASE Reads
    BY <1>1, <1>2, ReadsPlace DEF TypesInv
  <1>3. CASE EndOfText \/ PrepareAbstraction \/ StructureLayer
    BY <1>1, <1>3, StructurePlace DEF TypesInv
  <1>4. CASE BottomLayer \/ FilterOnlyTrans
    BY <1>1, <1>4, BottomPlace DEF TypesInv
  <1>5. CASE Later
    BY <1>1, <1>5, LaterPlace DEF TypesInv
  <1>6. CASE UNCHANGED vars
    <2>1. UNCHANGED <<pc, at, layers, defs>>
      BY <1>6 DEF vars, text_vars
    <2> QED
      BY <1>1, <2>1 DEF TypesInv, PlaceOK, Structured
  <1> QED
    BY <1>2, <1>3, <1>4, <1>5, <1>6 DEF Next, End, Later

\* It holds at the start.
LEMMA InitTypes == Init => TypesInv
  <1>1. SUFFICES ASSUME Init PROVE TypesInv
    OBVIOUS
  <1>2. LayersInv /\ DefsOK
    BY <1>1, InitInv, InitDefs
  <1>3. layers = <<>> /\ pc = "parse" /\ at = [l |-> 1, p |-> 1, todo |-> <<>>]
    BY <1>1 DEF Init, TextInit
  <1>4. Len(layers) = 0
    BY <1>3
  <1> QED
    BY <1>2, <1>3, <1>4 DEF TypesInv, PlaceOK, Structured

(* Every variable has its type, in every project: the program is in a      *)
(* layer there is, it works on definitions there are, these are listed     *)
(* once each, every symbol of one has it, and no primitive is in the       *)
(* bottom layer twice (finalize_project, finalize_project_v2).             *)
THEOREM TypeCorrect == Spec => []TypeOK
  <1>1. TypesInv => TypeOK
    <2>1. SUFFICES ASSUME TypesInv PROVE TypeOK
      OBVIOUS
    <2>2. pc \in {"parse", "abstract", "structure", "filter", "collect", "help", "enter", "low", "generate",
                  "high", "done", "crashed", "rejected"}
      BY <2>1 DEF TypesInv, LayersInv, Going
    <2> QED
      BY <2>1, <2>2 DEF TypesInv, PlaceOK, DefsOK, SymbolsIn, TypeOK
  <1>2. TypesInv /\ [Next]_vars => TypesInv'
    BY StepKeepsTypes
  <1> QED
    BY InitTypes, <1>1, <1>2, PTL DEF Spec

===============================================================================
