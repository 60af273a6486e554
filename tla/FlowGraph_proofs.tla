---------------------------- MODULE FlowGraph_proofs ----------------------------
(***************************************************************************)
(* Why the backward references of FlowGraph's graph are its edges seen     *)
(* from their targets, whatever the function converted.                    *)
(*                                                                         *)
(* Sound is what makes sense of the two: nothing is listed twice, an edge  *)
(* has one node it leaves, and the next identity is no edge's.  Backed     *)
(* says that every reference is an edge's and every edge's is there, but   *)
(* for the edges of a set.  In the middle of a rule the set is not empty:  *)
(* the node put before an inner loop takes the references of all the edges *)
(* to the head, those from inside the loop included, and only the cutting  *)
(* of these makes the graph consistent again.                              *)
(***************************************************************************)
EXTENDS FlowGraph, Containers_proofs

Own(g, n) == ToSet(g.edges[n])
Refs(g, n) == ToSet(g.backs[n])
Target(g, id) == g.edge[id].next
Ref(m, id) == [from |-> m, edge |-> id]

Nowhere == ""
Fields == {"order", "fresh", "edge", "insts", "uses", "last", "edges", "backs"}

Sound(g) ==
    /\ DOMAIN g = Fields
    /\ Distinct(g.order) /\ Nowhere \notin NodesOf(g)
    /\ DOMAIN g.edges = NodesOf(g) /\ DOMAIN g.backs = NodesOf(g)
    /\ \A n \in NodesOf(g) : Distinct(g.edges[n]) /\ Distinct(g.backs[n])
    /\ \A n \in NodesOf(g) : Own(g, n) \subseteq DOMAIN g.edge
    /\ \A m, n \in NodesOf(g) : m # n => Own(g, m) \cap Own(g, n) = {}
    /\ g.fresh \in Nat /\ \A k \in Nat : k >= g.fresh => <<0, k>> \notin DOMAIN g.edge

IsRef(g, n, b) ==
    /\ b = Ref(b.from, b.edge)
    /\ b.from \in NodesOf(g) /\ b.edge \in Own(g, b.from) /\ Target(g, b.edge) = n

Backed(g, but) ==
    /\ \A n \in NodesOf(g) : \A b \in Refs(g, n) : IsRef(g, n, b)
    /\ \A m \in NodesOf(g) : \A id \in Own(g, m) :
          Target(g, id) \in NodesOf(g) /\ id \notin but => Ref(m, id) \in Refs(g, Target(g, id))

GraphOK(g) == Sound(g) /\ Backed(g, {})

\* A reference names a node and an edge, and different ones make different references.
LEMMA RefIs ==
    ASSUME NEW m, NEW id
    PROVE  /\ Ref(m, id).from = m /\ Ref(m, id).edge = id
           /\ \A n, e : Ref(m, id) = Ref(n, e) => m = n /\ id = e
  BY DEF Ref

-----------------------------------------------------------------------------
(* What the operations on a graph do to its links. *)

\* The instructions of nodes and edges and the uses of nodes do not matter.
SameLinks(g, h) ==
    /\ DOMAIN h = Fields /\ h.order = g.order /\ h.fresh = g.fresh
    /\ h.edges = g.edges /\ h.backs = g.backs
    /\ DOMAIN h.edge = DOMAIN g.edge
    /\ \A id \in DOMAIN g.edge : h.edge[id].next = g.edge[id].next

\* A graph with the same links is as consistent.
LEMMA SameLinksKeep ==
    ASSUME NEW g, Sound(g), NEW h, SameLinks(g, h)
    PROVE  /\ Sound(h) /\ NodesOf(h) = NodesOf(g) /\ DOMAIN h.edge = DOMAIN g.edge
           /\ \A n : Own(h, n) = Own(g, n) /\ Refs(h, n) = Refs(g, n)
           /\ \A id \in DOMAIN g.edge : Target(h, id) = Target(g, id)
           /\ \A but : Backed(g, but) => Backed(h, but)
  <1>1. /\ NodesOf(h) = NodesOf(g) /\ DOMAIN h.edge = DOMAIN g.edge
        /\ \A n : Own(h, n) = Own(g, n) /\ Refs(h, n) = Refs(g, n)
        /\ \A id \in DOMAIN g.edge : Target(h, id) = Target(g, id)
    BY DEF SameLinks, NodesOf, Own, Refs, Target
  <1>2. Sound(h)
    BY <1>1 DEF Sound, SameLinks
  <1>3. ASSUME NEW but, Backed(g, but) PROVE Backed(h, but)
    <2>1. \A m \in NodesOf(g) : Own(g, m) \subseteq DOMAIN g.edge
      BY DEF Sound
    <2> QED
      BY <1>1, <1>3, <2>1 DEF Backed, IsRef
  <1> QED
    BY <1>1, <1>2, <1>3

\* The references of one node replaced.
LEMMA WithBacksIs ==
    ASSUME NEW g, Sound(g), NEW n, NEW refs, n \in NodesOf(g) => Distinct(refs),
           NEW h, h = WithBacks(g, n, refs)
    PROVE  /\ Sound(h) /\ NodesOf(h) = NodesOf(g) /\ DOMAIN h.edge = DOMAIN g.edge
           /\ h.fresh = g.fresh
           /\ \A m : Own(h, m) = Own(g, m)
           /\ \A id : Target(h, id) = Target(g, id)
           /\ \A m \in NodesOf(g) : Refs(h, m) = IF m = n THEN ToSet(refs) ELSE Refs(g, m)
  <1>1. /\ DOMAIN h = Fields /\ h.order = g.order /\ h.fresh = g.fresh
        /\ h.edges = g.edges /\ h.edge = g.edge
        /\ DOMAIN h.backs = DOMAIN g.backs
        /\ \A m \in DOMAIN g.backs : h.backs[m] = IF m = n THEN refs ELSE g.backs[m]
    BY DEF WithBacks, Sound, Fields
  <1>2. /\ NodesOf(h) = NodesOf(g) /\ DOMAIN g.backs = NodesOf(g)
        /\ \A m : Own(h, m) = Own(g, m)
        /\ \A id : Target(h, id) = Target(g, id)
    BY <1>1 DEF NodesOf, Own, Target, Sound
  <1>3. \A m \in NodesOf(g) : Refs(h, m) = IF m = n THEN ToSet(refs) ELSE Refs(g, m)
    BY <1>1, <1>2 DEF Refs
  <1>4. \A m \in NodesOf(g) : Distinct(h.backs[m])
    BY <1>1, <1>2 DEF Sound
  <1>5. Sound(h)
    BY <1>1, <1>2, <1>4 DEF Sound
  <1> QED
    BY <1>1, <1>2, <1>3, <1>5

\* Edges led elsewhere.
LEMMA LeadIs ==
    ASSUME NEW g, Sound(g), NEW ids, NEW more, NEW next, NEW h, h = Lead(g, ids, more, next)
    PROVE  /\ Sound(h) /\ NodesOf(h) = NodesOf(g) /\ DOMAIN h.edge = DOMAIN g.edge
           /\ h.fresh = g.fresh /\ h.backs = g.backs
           /\ \A m : Own(h, m) = Own(g, m) /\ Refs(h, m) = Refs(g, m)
           /\ \A id \in DOMAIN g.edge : Target(h, id) = IF id \in ids THEN next ELSE Target(g, id)
  <1>1. /\ DOMAIN h = Fields /\ h.order = g.order /\ h.fresh = g.fresh
        /\ h.edges = g.edges /\ h.backs = g.backs
        /\ DOMAIN h.edge = DOMAIN g.edge
    BY DEF Lead, Sound, Fields
  <1>2. \A id \in DOMAIN g.edge : Target(h, id) = IF id \in ids THEN next ELSE Target(g, id)
    BY DEF Lead, Sound, Fields, Target
  <1>3. /\ NodesOf(h) = NodesOf(g)
        /\ \A m : Own(h, m) = Own(g, m) /\ Refs(h, m) = Refs(g, m)
    BY <1>1 DEF NodesOf, Own, Refs
  <1>4. Sound(h)
    BY <1>1, <1>3 DEF Sound
  <1> QED
    BY <1>1, <1>2, <1>3, <1>4

\* A node is added: it has no edges and no references.
LEMMA AddNodeIs ==
    ASSUME NEW g, Sound(g), NEW n, n \notin NodesOf(g), n # Nowhere, NEW insts, NEW uses,
           NEW h, h = AddNode(g, n, insts, uses)
    PROVE  /\ Sound(h) /\ NodesOf(h) = NodesOf(g) \cup {n} /\ DOMAIN h.edge = DOMAIN g.edge
           /\ h.fresh = g.fresh
           /\ Own(h, n) = {} /\ Refs(h, n) = {}
           /\ \A m \in NodesOf(g) : Own(h, m) = Own(g, m) /\ Refs(h, m) = Refs(g, m)
                                      /\ h.backs[m] = g.backs[m]
           /\ \A id : Target(h, id) = Target(g, id)
  <1>1. /\ DOMAIN h = Fields /\ h.order = Append(g.order, n) /\ h.fresh = g.fresh
        /\ h.edges = Updated(g.edges, n, <<>>) /\ h.backs = Updated(g.backs, n, <<>>)
        /\ h.edge = g.edge
    BY DEF AddNode, Sound, Fields
  <1>2. NodesOf(h) = NodesOf(g) \cup {n} /\ Distinct(h.order)
    <2>1. Distinct(g.order) /\ n \notin ToSet(g.order)
      BY DEF Sound, NodesOf
    <2>2. Distinct(Append(g.order, n)) /\ ToSet(Append(g.order, n)) = ToSet(g.order) \cup {n}
      BY <2>1, AppendDistinct
    <2> QED
      BY <1>1, <2>2 DEF NodesOf
  <1>3. DOMAIN g.edges = NodesOf(g) /\ DOMAIN g.backs = NodesOf(g)
    BY DEF Sound
  <1>4. /\ DOMAIN h.edges = NodesOf(h) /\ DOMAIN h.backs = NodesOf(h)
        /\ h.edges[n] = <<>> /\ h.backs[n] = <<>>
        /\ \A m \in NodesOf(g) : h.edges[m] = g.edges[m] /\ h.backs[m] = g.backs[m]
    BY <1>1, <1>2, <1>3 DEF Updated
  <1>5. Distinct(<<>>) /\ ToSet(<<>>) = {}
    BY EmptyDistinct
  <1>6. /\ Own(h, n) = {} /\ Refs(h, n) = {}
        /\ \A m \in NodesOf(g) : Own(h, m) = Own(g, m) /\ Refs(h, m) = Refs(g, m)
        /\ \A id : Target(h, id) = Target(g, id)
    BY <1>1, <1>4, <1>5 DEF Own, Refs, Target
  <1>7. /\ Nowhere \notin NodesOf(h)
        /\ \A m \in NodesOf(h) : Distinct(h.edges[m]) /\ Distinct(h.backs[m])
        /\ \A m \in NodesOf(h) : Own(h, m) \subseteq DOMAIN h.edge
        /\ \A l, m \in NodesOf(h) : l # m => Own(h, l) \cap Own(h, m) = {}
    BY <1>1, <1>2, <1>4, <1>5, <1>6 DEF Sound
  <1>8. Sound(h)
    BY <1>1, <1>2, <1>4, <1>7 DEF Sound
  <1> QED
    BY <1>1, <1>2, <1>4, <1>6, <1>8

\* The edges of a node are cleared.
LEMMA ClearEdgesIs ==
    ASSUME NEW g, Sound(g), NEW n \in NodesOf(g), NEW h, h = ClearEdges(g, n)
    PROVE  /\ Sound(h) /\ NodesOf(h) = NodesOf(g)
           /\ DOMAIN h.edge = DOMAIN g.edge \ Own(g, n)
           /\ h.fresh = g.fresh /\ h.backs = g.backs
           /\ Own(h, n) = {}
           /\ \A m \in NodesOf(g) : m # n => Own(h, m) = Own(g, m)
           /\ \A m : Refs(h, m) = Refs(g, m)
           /\ \A id \in DOMAIN h.edge : Target(h, id) = Target(g, id)
  <1>1. /\ DOMAIN h = Fields /\ h.order = g.order /\ h.fresh = g.fresh
        /\ h.edges = Updated(g.edges, n, <<>>) /\ h.backs = g.backs
        /\ h.edge = Without(g.edge, Own(g, n))
    BY DEF ClearEdges, Sound, Fields, Own
  <1>2. NodesOf(h) = NodesOf(g) /\ DOMAIN g.edges = NodesOf(g)
    BY <1>1 DEF Sound, NodesOf
  <1>3. /\ DOMAIN h.edges = NodesOf(h) /\ h.edges[n] = <<>>
        /\ \A m \in NodesOf(g) : m # n => h.edges[m] = g.edges[m]
    BY <1>1, <1>2 DEF Updated
  <1>4. /\ DOMAIN h.edge = DOMAIN g.edge \ Own(g, n)
        /\ \A id \in DOMAIN h.edge : Target(h, id) = Target(g, id)
    BY <1>1 DEF Target, Without
  <1>5. Distinct(<<>>) /\ ToSet(<<>>) = {}
    BY EmptyDistinct
  <1>6. /\ Own(h, n) = {}
        /\ \A m \in NodesOf(g) : m # n => Own(h, m) = Own(g, m)
        /\ \A m : Refs(h, m) = Refs(g, m)
    BY <1>1, <1>3, <1>5 DEF Own, Refs
  <1>7. /\ \A m \in NodesOf(h) : Distinct(h.edges[m]) /\ Distinct(h.backs[m])
        /\ \A m \in NodesOf(h) : Own(h, m) \subseteq DOMAIN h.edge
        /\ \A l, m \in NodesOf(h) : l # m => Own(h, l) \cap Own(h, m) = {}
    BY <1>1, <1>2, <1>3, <1>4, <1>5, <1>6 DEF Sound
  <1>8. Sound(h)
    BY <1>1, <1>2, <1>3, <1>4, <1>7 DEF Sound
  <1> QED
    BY <1>1, <1>2, <1>4, <1>6, <1>8

\* A node is erased, and its edges with it.
LEMMA EraseNodeIs ==
    ASSUME NEW g, Sound(g), NEW n \in NodesOf(g), NEW h, h = EraseNode(g, n)
    PROVE  /\ Sound(h) /\ NodesOf(h) = NodesOf(g) \ {n}
           /\ \A m \in NodesOf(h) : Own(h, m) = Own(g, m) /\ Refs(h, m) = Refs(g, m)
           /\ \A m \in NodesOf(h) : \A id \in Own(g, m) : Target(h, id) = Target(g, id)
  <1> DEFINE at == {i \in DOMAIN g.order : g.order[i] # n}
  <1>1. /\ DOMAIN h = Fields /\ h.order = Subsequence(g.order, at) /\ h.fresh = g.fresh
        /\ h.edges = Without(g.edges, {n}) /\ h.backs = Without(g.backs, {n})
        /\ h.edge = Without(g.edge, Own(g, n))
    BY DEF EraseNode, Sound, Fields, Own
  <1>2. at \subseteq DOMAIN g.order /\ {g.order[i] : i \in at} = NodesOf(g) \ {n}
    BY DEF NodesOf, ToSet
  <1> HIDE DEF at
  <1>3. NodesOf(h) = NodesOf(g) \ {n} /\ Distinct(h.order)
    <2>1. Distinct(g.order)
      BY DEF Sound
    <2>2. /\ Distinct(Subsequence(g.order, at))
          /\ ToSet(Subsequence(g.order, at)) = {g.order[i] : i \in at}
      BY <1>2, <2>1, SubDistinct
    <2> QED
      BY <1>1, <1>2, <2>2 DEF NodesOf
  <1>4. /\ DOMAIN h.edges = NodesOf(h) /\ DOMAIN h.backs = NodesOf(h)
        /\ \A m \in NodesOf(h) : h.edges[m] = g.edges[m] /\ h.backs[m] = g.backs[m]
    BY <1>1, <1>3 DEF Sound, Without
  <1>5. /\ DOMAIN h.edge = DOMAIN g.edge \ Own(g, n)
        /\ \A id \in DOMAIN h.edge : Target(h, id) = Target(g, id)
    BY <1>1 DEF Target, Without
  <1>6. \A m \in NodesOf(h) : Own(h, m) = Own(g, m) /\ Refs(h, m) = Refs(g, m)
    BY <1>4 DEF Own, Refs
  <1>7. /\ Nowhere \notin NodesOf(h)
        /\ \A m \in NodesOf(h) : Distinct(h.edges[m]) /\ Distinct(h.backs[m])
        /\ \A m \in NodesOf(h) : Own(h, m) \subseteq DOMAIN h.edge
        /\ \A l, m \in NodesOf(h) : l # m => Own(h, l) \cap Own(h, m) = {}
    BY <1>3, <1>4, <1>5, <1>6 DEF Sound
  <1>8. Sound(h)
    BY <1>1, <1>3, <1>4, <1>5, <1>7 DEF Sound
  <1>9. \A m \in NodesOf(h) : \A id \in Own(g, m) : Target(h, id) = Target(g, id)
    BY <1>5, <1>6, <1>7
  <1> QED
    BY <1>3, <1>6, <1>8, <1>9

\* An edge is added, with its reference when it leads to a node.
LEMMA AddEdgeKeeps ==
    ASSUME NEW g, Sound(g), NEW but, Backed(g, but), NEW n \in NodesOf(g), NEW next,
           NEW h, h = AddEdge(g, n, next)
    PROVE  /\ Sound(h) /\ Backed(h, but) /\ NodesOf(h) = NodesOf(g)
           /\ \A m \in NodesOf(g) : m # n => Own(h, m) = Own(g, m)
           /\ \A id \in DOMAIN g.edge : Target(h, id) = Target(g, id)
           /\ DOMAIN g.edge \subseteq DOMAIN h.edge
           /\ \A id \in Own(h, n) : id \in Own(g, n) \/ Target(h, id) = next
  <1> DEFINE new == <<0, g.fresh>>
             e == [next |-> next, cond |-> NoCond, insts |-> <<>>]
             g1 == [g EXCEPT !.fresh = @ + 1, !.edge = Updated(@, new, e),
                             !.edges = Updated(@, n, Append(@[n], new))]
             refs == Append(g.backs[next], Ref(n, new))
  <1>1. h = WithBacks(g1, next, refs)
    BY DEF AddEdge, Ref
  <1>2. /\ DOMAIN g1 = Fields /\ g1.order = g.order /\ g1.fresh = g.fresh + 1
        /\ g1.edges = Updated(g.edges, n, Append(g.edges[n], new)) /\ g1.backs = g.backs
        /\ g1.edge = Updated(g.edge, new, e)
    BY DEF Sound, Fields
  <1>3. e.next = next
    OBVIOUS
  <1>4. new \notin DOMAIN g.edge /\ g.fresh + 1 \in Nat
        /\ \A k \in Nat : k >= g.fresh + 1 => <<0, k>> # new /\ <<0, k>> \notin DOMAIN g.edge
    <2>1. g.fresh \in Nat /\ \A k \in Nat : k >= g.fresh => <<0, k>> \notin DOMAIN g.edge
      BY DEF Sound
    <2>2. g.fresh >= g.fresh /\ g.fresh + 1 \in Nat
          /\ \A k \in Nat : k >= g.fresh + 1 => k >= g.fresh /\ k # g.fresh
      BY <2>1
    <2>3. \A k : <<0, k>> = new => k = g.fresh
      OBVIOUS
    <2> HIDE DEF new
    <2> QED
      BY <2>1, <2>2, <2>3 DEF new
  <1> HIDE DEF new, e, g1, refs
  <1>5. /\ NodesOf(g1) = NodesOf(g) /\ DOMAIN g.edges = NodesOf(g) /\ DOMAIN g.backs = NodesOf(g)
        /\ \A m : Refs(g1, m) = Refs(g, m)
    BY <1>2 DEF NodesOf, Refs, Sound
  <1>6. /\ DOMAIN g1.edges = NodesOf(g) /\ g1.edges[n] = Append(g.edges[n], new)
        /\ \A m \in NodesOf(g) : m # n => g1.edges[m] = g.edges[m]
    BY <1>2, <1>5 DEF Updated
  <1>7. /\ DOMAIN g1.edge = DOMAIN g.edge \cup {new}
        /\ Target(g1, new) = next
        /\ \A id \in DOMAIN g.edge : Target(g1, id) = Target(g, id)
    BY <1>2, <1>3, <1>4 DEF Updated, Target
  <1>8. Distinct(g1.edges[n]) /\ Own(g1, n) = Own(g, n) \cup {new}
    <2>1. Distinct(g.edges[n]) /\ new \notin ToSet(g.edges[n])
      BY <1>4 DEF Sound, Own
    <2>2. Distinct(Append(g.edges[n], new)) /\ ToSet(Append(g.edges[n], new)) = ToSet(g.edges[n]) \cup {new}
      BY <2>1, AppendDistinct
    <2> QED
      BY <1>6, <2>2 DEF Own
  <1>9. \A m \in NodesOf(g) : m # n => Own(g1, m) = Own(g, m)
    BY <1>6 DEF Own
  <1>10. /\ \A m \in NodesOf(g) : Distinct(g1.edges[m]) /\ Distinct(g1.backs[m])
         /\ \A m \in NodesOf(g) : Own(g1, m) \subseteq DOMAIN g1.edge
         /\ \A l, m \in NodesOf(g) : l # m => Own(g1, l) \cap Own(g1, m) = {}
    <2>1. /\ \A m \in NodesOf(g) : Distinct(g.edges[m]) /\ Distinct(g.backs[m]) /\ Own(g, m) \subseteq DOMAIN g.edge
          /\ \A l, m \in NodesOf(g) : l # m => Own(g, l) \cap Own(g, m) = {}
      BY DEF Sound
    <2>2. \A m \in NodesOf(g) : Distinct(g1.edges[m]) /\ Distinct(g1.backs[m])
      BY <1>2, <1>6, <1>8, <2>1
    <2>3. \A m \in NodesOf(g) : Own(g1, m) \subseteq DOMAIN g1.edge
      BY <1>7, <1>8, <1>9, <2>1
    <2>4. \A l, m \in NodesOf(g) : l # m => Own(g1, l) \cap Own(g1, m) = {}
      BY <1>4, <1>8, <1>9, <2>1
    <2> QED
      BY <2>2, <2>3, <2>4
  <1>11. Sound(g1)
    BY <1>2, <1>4, <1>5, <1>6, <1>7, <1>10 DEF Sound
  <1>12. ASSUME next \in NodesOf(g)
         PROVE  Distinct(refs) /\ ToSet(refs) = Refs(g, next) \cup {Ref(n, new)}
    <2>1. Distinct(g.backs[next])
      BY <1>12 DEF Sound
    <2>2. Ref(n, new) \notin ToSet(g.backs[next])
      <3>1. \A b \in Refs(g, next) : b.edge \in DOMAIN g.edge
        BY <1>12 DEF Backed, IsRef, Sound
      <3> QED
        BY <1>4, <3>1, RefIs DEF Refs
    <2> QED
      BY <2>1, <2>2, AppendDistinct DEF refs, Refs
  <1>13. /\ Sound(h) /\ NodesOf(h) = NodesOf(g1) /\ DOMAIN h.edge = DOMAIN g1.edge
         /\ \A m : Own(h, m) = Own(g1, m)
         /\ \A id : Target(h, id) = Target(g1, id)
         /\ \A m \in NodesOf(g1) : Refs(h, m) = IF m = next THEN ToSet(refs) ELSE Refs(g1, m)
    BY <1>1, <1>5, <1>11, <1>12, WithBacksIs
  <1>14. \A m \in NodesOf(g) : Own(g, m) \subseteq DOMAIN g.edge
    BY DEF Sound
  <1>15. ASSUME NEW m \in NodesOf(h), NEW b \in Refs(h, m) PROVE IsRef(h, m, b)
    <2>1. CASE b \in Refs(g, m)
      <3>1. IsRef(g, m, b)
        BY <1>5, <1>13, <1>15, <2>1 DEF Backed
      <3> QED
        BY <1>5, <1>7, <1>8, <1>9, <1>13, <1>14, <3>1 DEF IsRef
    <2>2. CASE m = next /\ b = Ref(n, new)
      BY <1>5, <1>7, <1>8, <1>13, <2>2, RefIs DEF IsRef
    <2> QED
      BY <1>5, <1>12, <1>13, <1>15, <2>1, <2>2
  <1>16. ASSUME NEW m \in NodesOf(h), NEW id \in Own(h, m), Target(h, id) \in NodesOf(h), id \notin but
         PROVE  Ref(m, id) \in Refs(h, Target(h, id))
    <2>1. CASE id \in Own(g, m)
      <3>1. id \in DOMAIN g.edge /\ Target(h, id) = Target(g, id)
        BY <1>5, <1>7, <1>13, <1>14, <2>1
      <3>2. Ref(m, id) \in Refs(g, Target(g, id))
        BY <1>5, <1>13, <1>16, <2>1, <3>1 DEF Backed
      <3> QED
        BY <1>5, <1>12, <1>13, <1>16, <3>1, <3>2
    <2>2. CASE m = n /\ id = new
      <3>1. Target(h, id) = next
        BY <1>7, <1>13, <2>2
      <3> QED
        BY <1>5, <1>12, <1>13, <1>16, <2>2, <3>1
    <2> QED
      BY <1>5, <1>8, <1>9, <1>13, <1>16, <2>1, <2>2
  <1>17. Backed(h, but)
    BY <1>15, <1>16 DEF Backed
  <1>18. \A id \in Own(h, n) : id \in Own(g, n) \/ Target(h, id) = next
    BY <1>7, <1>8, <1>13
  <1> QED
    BY <1>5, <1>7, <1>9, <1>13, <1>17, <1>18

\* Erasing a node that no other node's references need leaves a consistent graph.
LEMMA EraseKeeps ==
    ASSUME NEW g, Sound(g), NEW n \in NodesOf(g),
           \A m \in NodesOf(g) \ {n} : \A b \in Refs(g, m) : IsRef(g, m, b) /\ b.from # n,
           \A m \in NodesOf(g) \ {n} : \A id \in Own(g, m) :
              Target(g, id) \in NodesOf(g) \ {n} => Ref(m, id) \in Refs(g, Target(g, id))
    PROVE  GraphOK(EraseNode(g, n))
  <1> DEFINE h == EraseNode(g, n)
  <1>1. /\ Sound(h) /\ NodesOf(h) = NodesOf(g) \ {n}
        /\ \A m \in NodesOf(h) : Own(h, m) = Own(g, m) /\ Refs(h, m) = Refs(g, m)
        /\ \A m \in NodesOf(h) : \A id \in Own(g, m) : Target(h, id) = Target(g, id)
    BY EraseNodeIs
  <1> HIDE DEF h
  <1>2. Backed(h, {})
    BY <1>1 DEF Backed, IsRef
  <1> QED
    BY <1>1, <1>2 DEF GraphOK, h

\* Some references of a node dropped.
LEMMA DropBacksIs ==
    ASSUME NEW g, Sound(g), NEW n, NEW ids, NEW h, h = DropBacks(g, n, ids)
    PROVE  /\ Sound(h) /\ NodesOf(h) = NodesOf(g) /\ DOMAIN h.edge = DOMAIN g.edge
           /\ h.fresh = g.fresh
           /\ \A m : Own(h, m) = Own(g, m)
           /\ \A id : Target(h, id) = Target(g, id)
           /\ \A m \in NodesOf(g) : \A b :
                 b \in Refs(h, m) <=> b \in Refs(g, m) /\ (m = n => b.edge \notin ids)
  <1> DEFINE at == {i \in DOMAIN g.backs[n] : g.backs[n][i].edge \notin ids}
             refs == Subsequence(g.backs[n], at)
  <1>1. h = WithBacks(g, n, refs)
    BY DEF DropBacks
  <1>2. /\ at \subseteq DOMAIN g.backs[n]
        /\ {g.backs[n][i] : i \in at} = {b \in Refs(g, n) : b.edge \notin ids}
    BY DEF Refs, ToSet
  <1> HIDE DEF at
  <1>3. ASSUME n \in NodesOf(g)
        PROVE  Distinct(refs) /\ ToSet(refs) = {b \in Refs(g, n) : b.edge \notin ids}
    <2>1. Distinct(g.backs[n])
      BY <1>3 DEF Sound
    <2> QED
      BY <1>2, <2>1, SubDistinct
  <1> HIDE DEF refs
  <1>4. /\ Sound(h) /\ NodesOf(h) = NodesOf(g) /\ DOMAIN h.edge = DOMAIN g.edge
        /\ h.fresh = g.fresh
        /\ \A m : Own(h, m) = Own(g, m)
        /\ \A id : Target(h, id) = Target(g, id)
        /\ \A m \in NodesOf(g) : Refs(h, m) = IF m = n THEN ToSet(refs) ELSE Refs(g, m)
    BY <1>1, <1>3, WithBacksIs
  <1> QED
    BY <1>3, <1>4

\* erase_if over the references of n: those from one node go, the others keep their order.
LEMMA DropBacksFromIs ==
    ASSUME NEW g, Sound(g), NEW n, NEW from, NEW h, h = DropBacksFrom(g, n, from)
    PROVE  /\ Sound(h) /\ NodesOf(h) = NodesOf(g) /\ DOMAIN h.edge = DOMAIN g.edge
           /\ h.fresh = g.fresh
           /\ \A m : Own(h, m) = Own(g, m)
           /\ \A id : Target(h, id) = Target(g, id)
           /\ \A m \in NodesOf(g) : \A b :
                 b \in Refs(h, m) <=> b \in Refs(g, m) /\ (m = n => b.from # from)
  <1> DEFINE at == {i \in DOMAIN g.backs[n] : g.backs[n][i].from # from}
             refs == Subsequence(g.backs[n], at)
  <1>1. h = WithBacks(g, n, refs)
    BY DEF DropBacksFrom
  <1>2. /\ at \subseteq DOMAIN g.backs[n]
        /\ {g.backs[n][i] : i \in at} = {b \in Refs(g, n) : b.from # from}
    BY DEF Refs, ToSet
  <1> HIDE DEF at
  <1>3. ASSUME n \in NodesOf(g)
        PROVE  Distinct(refs) /\ ToSet(refs) = {b \in Refs(g, n) : b.from # from}
    <2>1. Distinct(g.backs[n])
      BY <1>3 DEF Sound
    <2> QED
      BY <1>2, <2>1, SubDistinct
  <1> HIDE DEF refs
  <1>4. /\ Sound(h) /\ NodesOf(h) = NodesOf(g) /\ DOMAIN h.edge = DOMAIN g.edge
        /\ h.fresh = g.fresh
        /\ \A m : Own(h, m) = Own(g, m)
        /\ \A id : Target(h, id) = Target(g, id)
        /\ \A m \in NodesOf(g) : Refs(h, m) = IF m = n THEN ToSet(refs) ELSE Refs(g, m)
    BY <1>1, <1>3, WithBacksIs
  <1> QED
    BY <1>3, <1>4

\* Some edges lead nowhere any more.
Severed(g, h) ==
    /\ NodesOf(h) = NodesOf(g)
    /\ \A m : Own(h, m) = Own(g, m)
    /\ \A m \in NodesOf(g) : \A id \in Own(g, m) : Target(h, id) \in {Nowhere, Target(g, id)}

\* Cutting the edges from some nodes to t: they lead nowhere and are no references.
LEMMA CutKeeps ==
    ASSUME NEW g, Sound(g), NEW but, Backed(g, but), NEW ns, ns \subseteq NodesOf(g),
           NEW t, t # Nowhere, NEW jump, NEW h, h = Cut(g, ns, t, jump)
    PROVE  Sound(h) /\ Backed(h, but \ Leading(g, ns, t)) /\ Severed(g, h)
  <1> DEFINE ids == Leading(g, ns, t)
             more == <<jump>>
             h1 == Lead(g, ids, more, Nowhere)
  <1>1. h = DropBacks(h1, t, ids)
    BY DEF Cut, Nowhere
  <1>2. \A id \in ids : Target(g, id) = t
    BY DEF Leading, Target
  <1>0. h1 = Lead(g, ids, more, Nowhere)
    OBVIOUS
  <1> HIDE DEF ids, more, h1
  <1>3. /\ Sound(h1) /\ NodesOf(h1) = NodesOf(g) /\ DOMAIN h1.edge = DOMAIN g.edge
        /\ \A m : Own(h1, m) = Own(g, m) /\ Refs(h1, m) = Refs(g, m)
        /\ \A id \in DOMAIN g.edge : Target(h1, id) = IF id \in ids THEN Nowhere ELSE Target(g, id)
    BY <1>0, LeadIs
  <1>4. /\ Sound(h) /\ NodesOf(h) = NodesOf(h1) /\ DOMAIN h.edge = DOMAIN h1.edge
        /\ \A m : Own(h, m) = Own(h1, m)
        /\ \A id : Target(h, id) = Target(h1, id)
        /\ \A m \in NodesOf(h1) : \A b :
              b \in Refs(h, m) <=> b \in Refs(h1, m) /\ (m = t => b.edge \notin ids)
    <2>1. Sound(h)
      BY <1>1, <1>3, DropBacksIs
    <2>2. NodesOf(h) = NodesOf(h1) /\ DOMAIN h.edge = DOMAIN h1.edge
      BY <1>1, <1>3, DropBacksIs
    <2>3. \A m : Own(h, m) = Own(h1, m)
      BY <1>1, <1>3, DropBacksIs
    <2>4. \A id : Target(h, id) = Target(h1, id)
      BY <1>1, <1>3, DropBacksIs
    <2>5. \A m \in NodesOf(h1) : \A b :
              b \in Refs(h, m) <=> b \in Refs(h1, m) /\ (m = t => b.edge \notin ids)
      BY <1>1, <1>3, DropBacksIs
    <2> QED
      BY <2>1, <2>2, <2>3, <2>4, <2>5
  <1>5. \A m \in NodesOf(g) : Own(g, m) \subseteq DOMAIN g.edge
    BY DEF Sound
  <1>6. ASSUME NEW m \in NodesOf(h), NEW b \in Refs(h, m) PROVE IsRef(h, m, b)
    <2>1. b \in Refs(g, m) /\ IsRef(g, m, b)
      BY <1>3, <1>4, <1>6 DEF Backed
    <2>2. b.edge \notin ids
      BY <1>2, <1>3, <1>4, <1>6, <2>1 DEF IsRef
    <2> QED
      BY <1>3, <1>4, <1>5, <2>1, <2>2 DEF IsRef
  <1>7. ASSUME NEW m \in NodesOf(h), NEW id \in Own(h, m), Target(h, id) \in NodesOf(h), id \notin but \ ids
        PROVE  Ref(m, id) \in Refs(h, Target(h, id))
    <2>1. m \in NodesOf(g) /\ id \in Own(g, m) /\ id \in DOMAIN g.edge
      BY <1>3, <1>4, <1>5
    <2>2. Nowhere \notin NodesOf(g)
      BY DEF Sound
    <2>3. id \notin ids /\ Target(h, id) = Target(g, id)
      BY <1>3, <1>4, <1>7, <2>1, <2>2
    <2>4. Ref(m, id) \in Refs(g, Target(g, id))
      BY <1>3, <1>4, <1>7, <2>1, <2>3 DEF Backed
    <2> QED
      BY <1>3, <1>4, <1>7, <2>3, <2>4, RefIs
  <1>8. Backed(h, but \ ids)
    BY <1>6, <1>7 DEF Backed
  <1>9. Severed(g, h)
    BY <1>3, <1>4, <1>5 DEF Severed
  <1> QED
    BY <1>4, <1>8, <1>9 DEF ids

\* A vector of one element.
LEMMA OneOf ==
    ASSUME NEW s, Distinct(s), Len(s) = 1
    PROVE  ToSet(s) = {s[1]}
  <1>1. DOMAIN s = 1..1
    BY DistinctIs
  <1> QED
    BY <1>1 DEF ToSet

\* An outcome carries the graph it was given.
LEMMA Outcomes == \A g : Got(g).g = g /\ Crash(g).g = g
  BY DEF Got, Crash

-----------------------------------------------------------------------------
(* The rules, one by one. *)

\* eliminate_leaf: the edges into the leaf take over its instructions and lead nowhere.
LEMMA EliminateLeafKeeps ==
    ASSUME NEW g, GraphOK(g), NEW n \in NodesOf(g), leaf_applies(g, n)
    PROVE  GraphOK(eliminate_leaf(g, n).g)
  <1> DEFINE e == g.backs[n][1].edge
             ids == {e}
             h == Lead(g, ids, g.insts[n], Nowhere)
  <1>1. eliminate_leaf(g, n).g = EraseNode(h, n)
    BY Outcomes DEF eliminate_leaf, Nowhere
  <1>2. Sound(g) /\ Backed(g, {})
    BY DEF GraphOK
  <1>3. Own(g, n) = {} /\ Refs(g, n) = {g.backs[n][1]}
    <2>1. Own(g, n) = {}
      BY EmptyDistinct DEF leaf_applies, Own
    <2>2. Distinct(g.backs[n]) /\ Len(g.backs[n]) = 1
      BY <1>2 DEF Sound, leaf_applies
    <2> QED
      BY <2>1, <2>2, OneOf DEF Refs
  <1>4. Target(g, e) = n
    BY <1>2, <1>3 DEF Backed, IsRef
  <1>5. /\ Sound(h) /\ NodesOf(h) = NodesOf(g)
        /\ \A m : Own(h, m) = Own(g, m) /\ Refs(h, m) = Refs(g, m)
        /\ \A id \in DOMAIN g.edge : Target(h, id) = IF id = e THEN Nowhere ELSE Target(g, id)
    <2> HIDE DEF ids
    <2>1. /\ Sound(h) /\ NodesOf(h) = NodesOf(g)
          /\ \A m : Own(h, m) = Own(g, m) /\ Refs(h, m) = Refs(g, m)
          /\ \A id \in DOMAIN g.edge : Target(h, id) = IF id \in ids THEN Nowhere ELSE Target(g, id)
      BY <1>2, LeadIs
    <2>2. \A id : id \in ids <=> id = e
      BY DEF ids
    <2> HIDE DEF h
    <2> QED
      BY <2>1, <2>2
  <1> HIDE DEF e, h
  <1>6. /\ Nowhere \notin NodesOf(g)
        /\ \A m \in NodesOf(g) : Own(g, m) \subseteq DOMAIN g.edge
    BY <1>2 DEF Sound
  <1>7. ASSUME NEW m \in NodesOf(h) \ {n}, NEW b \in Refs(h, m)
        PROVE  IsRef(h, m, b) /\ b.from # n
    <2>1. IsRef(g, m, b)
      BY <1>2, <1>5, <1>7 DEF Backed
    <2>2. b.edge # e /\ b.edge \in DOMAIN g.edge /\ b.from # n
      BY <1>3, <1>4, <1>5, <1>6, <1>7, <2>1 DEF IsRef
    <2> QED
      BY <1>5, <2>1, <2>2 DEF IsRef
  <1>8. ASSUME NEW m \in NodesOf(h) \ {n}, NEW id \in Own(h, m), Target(h, id) \in NodesOf(h) \ {n}
        PROVE  Ref(m, id) \in Refs(h, Target(h, id))
    <2>1. id \in DOMAIN g.edge /\ Target(h, id) = Target(g, id)
      BY <1>5, <1>6, <1>8
    <2> QED
      BY <1>2, <1>5, <1>8, <2>1 DEF Backed
  <1>9. GraphOK(EraseNode(h, n))
    BY <1>5, <1>7, <1>8, EraseKeeps
  <1> QED
    BY <1>1, <1>9

\* eliminate_bridge: the edge in leads past the bridge, and its reference replaces the bridge's.
LEMMA EliminateBridgeKeeps ==
    ASSUME NEW g, GraphOK(g), NEW n \in NodesOf(g), bridge_applies(g, n)
    PROVE  GraphOK(eliminate_bridge(g, n).g)
  <1> DEFINE in == g.backs[n][1]
             out == g.edges[n][1]
             S == g.edge[out].next
             over == Lead(g, {in.edge}, g.insts[n] \o g.edge[out].insts, S)
             refs == [i \in DOMAIN g.backs[S] |-> IF g.backs[S][i].edge = out THEN in ELSE g.backs[S][i]]
             h == WithBacks(over, S, refs)
  <1>1. eliminate_bridge(g, n).g = EraseNode(h, n)
    BY Outcomes DEF eliminate_bridge
  <1>2. Sound(g) /\ Backed(g, {})
    BY DEF GraphOK
  <1>3. Own(g, n) = {out} /\ Refs(g, n) = {in} /\ S = Target(g, out)
    <2>1. Distinct(g.backs[n]) /\ Len(g.backs[n]) = 1 /\ Distinct(g.edges[n]) /\ Len(g.edges[n]) = 1
      BY <1>2 DEF Sound, bridge_applies
    <2> QED
      BY <2>1, OneOf DEF Refs, Own, Target
  <1>4. IsRef(g, n, in)
    BY <1>2, <1>3 DEF Backed
  <1>5. /\ Sound(over) /\ NodesOf(over) = NodesOf(g)
        /\ \A m : Own(over, m) = Own(g, m) /\ Refs(over, m) = Refs(g, m)
        /\ \A id \in DOMAIN g.edge : Target(over, id) = IF id \in {in.edge} THEN S ELSE Target(g, id)
    <2> DEFINE ids == {in.edge}
               more == g.insts[n] \o g.edge[out].insts
    <2>1. Sound(g) /\ over = Lead(g, ids, more, S)
      BY <1>2
    <2> HIDE DEF ids, more, over, S
    <2>2. /\ Sound(over) /\ NodesOf(over) = NodesOf(g)
          /\ \A m : Own(over, m) = Own(g, m) /\ Refs(over, m) = Refs(g, m)
          /\ \A id \in DOMAIN g.edge : Target(over, id) = IF id \in ids THEN S ELSE Target(g, id)
      BY <2>1, LeadIs
    <2> QED
      BY <2>2 DEF ids
  <1>6. /\ Nowhere \notin NodesOf(g)
        /\ \A m \in NodesOf(g) : Own(g, m) \subseteq DOMAIN g.edge
        /\ \A l, m \in NodesOf(g) : l # m => Own(g, l) \cap Own(g, m) = {}
    BY <1>2 DEF Sound
  \* The edge over the bridge takes the bridge's place among the references of S.
  <1>7. ASSUME S \in NodesOf(g)
        PROVE  Distinct(refs) /\ \A b : b \in ToSet(refs) <=>
                  b = in \/ (b \in Refs(g, S) /\ b.edge # out)
    <2>1. Distinct(g.backs[S])
      BY <1>2, <1>7 DEF Sound
    <2>2. Ref(n, out) \in Refs(g, S)
      BY <1>2, <1>3, <1>7 DEF Backed
    <2>3. \A b \in Refs(g, S) : b.edge = out => b = Ref(n, out)
      BY <1>2, <1>3, <1>6, <1>7 DEF Backed, IsRef
    <2>4. \A b \in Refs(g, S) : b = in => b.edge = out
      <3>1. \A b \in Refs(g, S) : b = in => n = S
        BY <1>2, <1>4, <1>7 DEF Backed, IsRef
      <3>2. n = S => Ref(n, out) = in
        BY <1>3, <2>2
      <3> QED
        BY <3>1, <3>2, RefIs
    <2> DEFINE old == g.backs[S]
    <2>5. /\ Len(old) \in Nat /\ DOMAIN old = 1..Len(old)
          /\ \A i \in 1..Len(old) : old[i] \in Refs(g, S)
          /\ \A b \in Refs(g, S) : \E i \in 1..Len(old) : old[i] = b
      BY <2>1, DistinctIs DEF Refs, ToSet
    <2>6. /\ DOMAIN refs = 1..Len(old) /\ refs = [i \in 1..Len(old) |-> refs[i]]
          /\ \A i \in 1..Len(old) : refs[i] = IF old[i].edge = out THEN in ELSE old[i]
      BY <2>5
    <2>7. \A i, j \in 1..Len(old) : old[i] = old[j] => i = j
      BY <2>1, <2>5 DEF Distinct
    <2> HIDE DEF old, refs, in, out, S
    <2>8. \A i, j \in 1..Len(old) : refs[i] = refs[j] => i = j
      BY <2>3, <2>4, <2>5, <2>6, <2>7
    <2>9. Distinct(refs)
      BY <2>5, <2>6, <2>8, DistinctOf
    <2>10. \A b : b \in ToSet(refs) <=> \E i \in 1..Len(old) : refs[i] = b
      BY <2>6 DEF ToSet
    <2>11. \E i \in 1..Len(old) : refs[i] = in
      BY <2>2, <2>5, <2>6, RefIs
    <2> QED
      BY <2>4, <2>5, <2>6, <2>9, <2>10, <2>11
  <1> HIDE DEF in, out, S, over, refs
  <1>8. /\ Sound(h) /\ NodesOf(h) = NodesOf(over)
        /\ \A m : Own(h, m) = Own(over, m)
        /\ \A id : Target(h, id) = Target(over, id)
        /\ \A m \in NodesOf(over) : Refs(h, m) = IF m = S THEN ToSet(refs) ELSE Refs(over, m)
    BY <1>5, <1>7, WithBacksIs
  <1> HIDE DEF h
  \* The edge in comes from elsewhere, unless the bridge leads to itself.
  <1>9. S # n => in.from # n /\ in.edge # out
    BY <1>3, <1>4 DEF IsRef
  <1>10. ASSUME NEW m \in NodesOf(h) \ {n}, NEW b \in Refs(h, m)
         PROVE  IsRef(h, m, b) /\ b.from # n
    <2>1. CASE b \in Refs(g, m) /\ b.edge # out
      <3>1. IsRef(g, m, b)
        BY <1>2, <1>5, <1>8, <1>10, <2>1 DEF Backed
      <3>2. b.edge # in.edge /\ b.edge \in DOMAIN g.edge /\ b.from # n
        BY <1>3, <1>4, <1>5, <1>6, <1>8, <1>10, <2>1, <3>1 DEF IsRef
      <3> QED
        BY <1>5, <1>8, <3>1, <3>2 DEF IsRef
    <2>2. CASE m = S /\ b = in
      <3>1. in.edge \in DOMAIN g.edge
        BY <1>4, <1>6 DEF IsRef
      <3> QED
        BY <1>4, <1>5, <1>8, <1>9, <1>10, <2>2, <3>1 DEF IsRef
    <2>3. CASE b \in Refs(g, m) /\ b.edge = out /\ m # S
      BY <1>2, <1>3, <1>5, <1>8, <1>10, <2>3 DEF Backed, IsRef
    <2> QED
      BY <1>5, <1>7, <1>8, <1>10, <2>1, <2>2, <2>3
  <1>11. ASSUME NEW m \in NodesOf(h) \ {n}, NEW id \in Own(h, m), Target(h, id) \in NodesOf(h) \ {n}
         PROVE  Ref(m, id) \in Refs(h, Target(h, id))
    <2>1. id \in Own(g, m) /\ m \in NodesOf(g) /\ id \in DOMAIN g.edge /\ id # out
      BY <1>3, <1>5, <1>6, <1>8, <1>11
    <2>2. CASE id = in.edge
      <3>1. Target(h, id) = S /\ Ref(m, id) = in
        BY <1>4, <1>5, <1>6, <1>8, <2>1, <2>2 DEF IsRef
      <3> QED
        BY <1>5, <1>7, <1>8, <1>11, <3>1
    <2>3. CASE id # in.edge
      <3>1. Target(h, id) = Target(g, id)
        BY <1>5, <1>8, <2>1, <2>3
      <3>2. Ref(m, id) \in Refs(g, Target(g, id))
        BY <1>2, <1>5, <1>8, <1>11, <2>1, <3>1 DEF Backed
      <3> QED
        BY <1>5, <1>7, <1>8, <1>11, <2>1, <3>1, <3>2, RefIs
    <2> QED
      BY <2>2, <2>3
  <1>12. GraphOK(EraseNode(h, n))
    BY <1>5, <1>8, <1>10, <1>11, EraseKeeps
  <1> QED
    BY <1>1, <1>12 DEF h, over, refs, S, in, out

\* A node whose edges are cleared is left with the references these had.
LEMMA ClearKeeps ==
    ASSUME NEW g, GraphOK(g), NEW n \in NodesOf(g), NEW h, SameLinks(ClearEdges(g, n), h)
    PROVE  /\ Sound(h) /\ NodesOf(h) = NodesOf(g)
           /\ \A m \in NodesOf(h) : \A b \in Refs(h, m) :
                 \/ IsRef(h, m, b) /\ b.from # n
                 \/ b.from = n /\ b.edge \in Own(g, n) /\ Target(g, b.edge) = m
           /\ \A m \in NodesOf(h) : \A id \in Own(h, m) :
                 Target(h, id) \in NodesOf(h) => m # n /\ Ref(m, id) \in Refs(h, Target(h, id))
  <1> DEFINE g1 == ClearEdges(g, n)
  <1>1. Sound(g) /\ Backed(g, {})
    BY DEF GraphOK
  <1>2. /\ Sound(g1) /\ NodesOf(g1) = NodesOf(g)
        /\ DOMAIN g1.edge = DOMAIN g.edge \ Own(g, n)
        /\ Own(g1, n) = {}
        /\ \A m \in NodesOf(g) : m # n => Own(g1, m) = Own(g, m)
        /\ \A m : Refs(g1, m) = Refs(g, m)
        /\ \A id \in DOMAIN g1.edge : Target(g1, id) = Target(g, id)
    BY <1>1, ClearEdgesIs
  <1> HIDE DEF g1
  <1>3. SameLinks(g1, h)
    BY DEF g1
  <1>4. /\ Sound(h) /\ NodesOf(h) = NodesOf(g1)
        /\ \A m : Own(h, m) = Own(g1, m) /\ Refs(h, m) = Refs(g1, m)
        /\ \A id \in DOMAIN g1.edge : Target(h, id) = Target(g1, id)
    BY <1>2, <1>3, SameLinksKeep
  <1>5. \A m \in NodesOf(g1) : Own(g1, m) \subseteq DOMAIN g1.edge
    BY <1>2 DEF Sound
  <1>6. ASSUME NEW m \in NodesOf(h), NEW b \in Refs(h, m), b.from # n PROVE IsRef(h, m, b)
    <2>1. IsRef(g, m, b)
      BY <1>1, <1>2, <1>4, <1>6 DEF Backed
    <2> QED
      BY <1>2, <1>4, <1>5, <1>6, <2>1 DEF IsRef
  <1>7. ASSUME NEW m \in NodesOf(h), NEW b \in Refs(h, m), b.from = n
        PROVE  b.edge \in Own(g, n) /\ Target(g, b.edge) = m
    BY <1>1, <1>2, <1>4, <1>7 DEF Backed, IsRef
  <1>8. ASSUME NEW m \in NodesOf(h), NEW id \in Own(h, m), Target(h, id) \in NodesOf(h)
        PROVE  m # n /\ Ref(m, id) \in Refs(h, Target(h, id))
    <2>1. m # n /\ id \in Own(g, m) /\ Target(h, id) = Target(g, id)
      BY <1>2, <1>4, <1>5, <1>8
    <2> QED
      BY <1>1, <1>2, <1>4, <1>8, <2>1 DEF Backed
  <1> QED
    BY <1>2, <1>4, <1>6, <1>7, <1>8

\* Where an edge of a node leads is among the node's targets.
LEMMA TargetsAre ==
    ASSUME NEW g, NEW n
    PROVE  \A id \in Own(g, n) : Target(g, id) # Nowhere => Target(g, id) \in Targets(g, n)
  BY DEF Targets, Own, Target, Nowhere

\* merge_branches: one edge takes the place of edges that all lead to one node.
LEMMA MergeBranchesKeeps ==
    ASSUME NEW g, GraphOK(g), NEW n \in NodesOf(g), merge_applies(g, n)
    PROVE  GraphOK(merge_branches(g, n).g)
  <1> DEFINE es == DefaultLast(Edges(g, n))
             g1 == ClearEdges(g, n)
             body == Branches(es)
             h == [g1 EXCEPT !.insts = Updated(@, n, @[n] \o body)]
             S == CHOOSE t \in Targets(g, n) : TRUE
             h1 == DropBacksFrom(h, S, n)
             h2 == AddEdge(h1, n, S)
             r == merge_branches(g, n).g
  <1>1. r = g \/ (Targets(g, n) = {} /\ r = h) \/ (Targets(g, n) # {} /\ r = h2)
    BY Outcomes DEF merge_branches
  <1>2. Sound(g1)
    BY ClearEdgesIs DEF GraphOK
  <1>3. SameLinks(g1, h)
    <2> HIDE DEF g1, body
    <2> QED
      BY <1>2 DEF SameLinks, Sound, Fields
  <1>4. /\ Sound(h) /\ NodesOf(h) = NodesOf(g)
        /\ \A m \in NodesOf(h) : \A b \in Refs(h, m) :
              \/ IsRef(h, m, b) /\ b.from # n
              \/ b.from = n /\ b.edge \in Own(g, n) /\ Target(g, b.edge) = m
        /\ \A m \in NodesOf(h) : \A id \in Own(h, m) :
              Target(h, id) \in NodesOf(h) => m # n /\ Ref(m, id) \in Refs(h, Target(h, id))
    <2> HIDE DEF h
    <2> QED
      BY <1>3, ClearKeeps DEF g1
  <1>5. Nowhere \notin NodesOf(g)
    BY DEF GraphOK, Sound
  <1>6. ASSUME Targets(g, n) = {} PROVE GraphOK(h)
    <2> HIDE DEF h
    <2> QED
      BY <1>4, <1>5, <1>6, TargetsAre DEF GraphOK, Backed
  <1>7. ASSUME Targets(g, n) # {} PROVE GraphOK(h2)
    <2>1. \A t \in Targets(g, n) : t = S
      BY <1>7 DEF merge_applies, AtMostOne
    <2>2. h1 = DropBacksFrom(h, S, n) /\ h2 = AddEdge(h1, n, S)
      OBVIOUS
    <2> HIDE DEF h, h1, h2, S
    <2>3. /\ Sound(h1) /\ NodesOf(h1) = NodesOf(h)
          /\ \A m : Own(h1, m) = Own(h, m)
          /\ \A id : Target(h1, id) = Target(h, id)
          /\ \A m \in NodesOf(h) : \A b :
                b \in Refs(h1, m) <=> b \in Refs(h, m) /\ (m = S => b.from # n)
      BY <1>4, <2>2, DropBacksFromIs
    <2>4. ASSUME NEW m \in NodesOf(h1), NEW b \in Refs(h1, m) PROVE IsRef(h1, m, b)
      <3>1. b.from # n
        BY <1>4, <1>5, <2>1, <2>3, <2>4, TargetsAre
      <3> QED
        BY <1>4, <2>3, <2>4, <3>1 DEF IsRef
    <2>5. ASSUME NEW m \in NodesOf(h1), NEW id \in Own(h1, m), Target(h1, id) \in NodesOf(h1)
          PROVE  Ref(m, id) \in Refs(h1, Target(h1, id))
      BY <1>4, <2>3, <2>5, RefIs
    <2>6. Backed(h1, {})
      BY <2>4, <2>5 DEF Backed
    <2>7. Sound(h2) /\ Backed(h2, {})
      BY <1>4, <2>2, <2>3, <2>6, AddEdgeKeeps
    <2> QED
      BY <2>7 DEF GraphOK
  <1> HIDE DEF h, h2, r
  <1> QED
    BY <1>1, <1>6, <1>7 DEF r

\* merge_branches_local: of two edges of a node to one node one is left, and one reference.
LEMMA MergeBranchesLocalKeeps ==
    ASSUME NEW g, GraphOK(g), NEW n \in NodesOf(g), local_applies(g, n)
    PROVE  GraphOK(merge_branches_local(g, n).g)
  <1> DEFINE ids == g.edges[n]
             i == Least(Shared(g, n))
             j == Least(Same(g, n, i))
             x == ids[i]
             y == ids[j]
             e == g.edge[x]
             ee == g.edge[y]
             cond == IF ee.cond = NoCond THEN e.cond
                     ELSE IF e.cond = NoCond THEN ee.cond ELSE OOr(e.cond, ee.cond)
             merged == [next |-> e.next, cond |-> cond, insts |-> <<IIf(cond, e.insts, ee.insts)>>]
             at == DOMAIN ids \ {j}
             left == [g EXCEPT !.edges = Updated(@, n, Subsequence(ids, at)),
                               !.edge = Updated(Without(@, {y}), x, merged)]
             gone == {y}
             t == e.next
             h == DropBacks(left, t, gone)
  <1>1. merge_branches_local(g, n).g = h
    BY Outcomes DEF merge_branches_local
  <1>2. Sound(g) /\ Backed(g, {})
    BY DEF GraphOK
  <1>3. Distinct(ids) /\ Len(ids) \in Nat /\ DOMAIN ids = 1..Len(ids)
    BY <1>2, DistinctIs DEF Sound
  <1>4. i \in DOMAIN ids /\ j \in DOMAIN ids /\ i # j /\ t # Nowhere /\ ee.next = t
    <2>1. Shared(g, n) \subseteq 1..Len(ids) /\ Shared(g, n) # {}
      BY <1>3 DEF Shared, local_applies
    <2>2. i \in Shared(g, n)
      BY <1>3, <2>1, LeastIs
    <2> HIDE DEF i
    <2>3. Same(g, n, i) \subseteq 1..Len(ids) /\ Same(g, n, i) # {} /\ i \in DOMAIN ids
      BY <1>3, <2>2 DEF Shared, Same
    <2>4. j \in Same(g, n, i)
      BY <1>3, <2>3, LeastIs
    <2> HIDE DEF j
    <2> QED
      BY <2>3, <2>4 DEF Same, Nowhere
  <1>5. merged.next = t
    OBVIOUS
  <1> HIDE DEF i, j
  <1>6. at \subseteq DOMAIN ids /\ {ids[k] : k \in at} = Own(g, n) \ {y} /\ x \in Own(g, n) /\ y \in Own(g, n) /\ x # y
    <2>1. \A k, m \in DOMAIN ids : ids[k] = ids[m] => k = m
      BY <1>3 DEF Distinct
    <2>2. Own(g, n) = {ids[k] : k \in DOMAIN ids}
      BY DEF Own, ToSet
    <2> HIDE DEF ids
    <2> QED
      BY <1>4, <2>1, <2>2
  <1>7. Distinct(Subsequence(ids, at)) /\ ToSet(Subsequence(ids, at)) = Own(g, n) \ {y}
    <2> HIDE DEF at, ids
    <2> QED
      BY <1>3, <1>6, SubDistinct
  <1> HIDE DEF at, merged
  <1>8. /\ DOMAIN left = Fields /\ left.order = g.order /\ left.fresh = g.fresh
        /\ left.edges = Updated(g.edges, n, Subsequence(ids, at)) /\ left.backs = g.backs
        /\ left.edge = Updated(Without(g.edge, {y}), x, merged)
    BY <1>2 DEF Sound, Fields
  <1>9. h = DropBacks(left, t, gone)
    OBVIOUS
  <1>10. Target(g, x) = t /\ Target(g, y) = t
    BY <1>4 DEF Target
  <1>11. \A b : b \in gone <=> b = y
    OBVIOUS
  <1> HIDE DEF ids, x, y, e, ee, left, t, gone, h
  <1>12. /\ NodesOf(left) = NodesOf(g) /\ DOMAIN g.edges = NodesOf(g) /\ DOMAIN g.backs = NodesOf(g)
         /\ \A m : Refs(left, m) = Refs(g, m)
         /\ \A m \in NodesOf(g) : Own(g, m) \subseteq DOMAIN g.edge
         /\ \A l, m \in NodesOf(g) : l # m => Own(g, l) \cap Own(g, m) = {}
         /\ \A m \in NodesOf(g) : Distinct(g.edges[m]) /\ Distinct(g.backs[m])
    BY <1>2, <1>8 DEF NodesOf, Refs, Sound
  <1>13. /\ DOMAIN left.edges = NodesOf(g) /\ left.edges[n] = Subsequence(ids, at)
         /\ \A m \in NodesOf(g) : m # n => left.edges[m] = g.edges[m]
    BY <1>8, <1>12 DEF Updated
  <1>14. /\ Own(left, n) = Own(g, n) \ {y}
         /\ \A m \in NodesOf(g) : m # n => Own(left, m) = Own(g, m)
    BY <1>7, <1>13 DEF Own
  <1>15. /\ DOMAIN left.edge = DOMAIN g.edge \ {y}
         /\ \A id \in DOMAIN left.edge : Target(left, id) = Target(g, id)
    <2>1. x \in DOMAIN g.edge \ {y}
      BY <1>6, <1>12
    <2>2. /\ DOMAIN left.edge = DOMAIN g.edge \ {y}
          /\ left.edge[x] = merged
          /\ \A id \in DOMAIN left.edge : id # x => left.edge[id] = g.edge[id]
      BY <1>8, <2>1 DEF Updated, Without
    <2> QED
      BY <1>5, <1>10, <2>2 DEF Target
  <1>16. /\ \A m \in NodesOf(g) : Distinct(left.edges[m]) /\ Distinct(left.backs[m])
         /\ \A m \in NodesOf(g) : Own(left, m) \subseteq DOMAIN left.edge
         /\ \A l, m \in NodesOf(g) : l # m => Own(left, l) \cap Own(left, m) = {}
    BY <1>6, <1>7, <1>8, <1>12, <1>13, <1>14, <1>15
  <1>17. Sound(left)
    BY <1>2, <1>8, <1>12, <1>13, <1>15, <1>16 DEF Sound
  <1>18. /\ Sound(h) /\ NodesOf(h) = NodesOf(left)
         /\ \A m : Own(h, m) = Own(left, m)
         /\ \A id : Target(h, id) = Target(left, id)
         /\ \A m \in NodesOf(left) : \A b :
               b \in Refs(h, m) <=> b \in Refs(left, m) /\ (m = t => b.edge # y)
    <2>1. Sound(h) /\ NodesOf(h) = NodesOf(left)
      BY <1>9, <1>17, DropBacksIs
    <2>2. /\ \A m : Own(h, m) = Own(left, m)
          /\ \A id : Target(h, id) = Target(left, id)
      BY <1>9, <1>17, DropBacksIs
    <2>3. \A m \in NodesOf(left) : \A b :
              b \in Refs(h, m) <=> b \in Refs(left, m) /\ (m = t => b.edge \notin gone)
      BY <1>9, <1>17, DropBacksIs
    <2> QED
      BY <1>11, <2>1, <2>2, <2>3
  <1>19. ASSUME NEW m \in NodesOf(h), NEW b \in Refs(h, m) PROVE IsRef(h, m, b)
    <2>1. IsRef(g, m, b)
      BY <1>2, <1>12, <1>18, <1>19 DEF Backed
    <2>2. b.edge # y
      BY <1>10, <1>12, <1>18, <1>19, <2>1 DEF IsRef
    <2>3. b.edge \in Own(left, b.from)
      BY <1>14, <2>1, <2>2 DEF IsRef
    <2> QED
      BY <1>12, <1>15, <1>16, <1>18, <2>1, <2>3 DEF IsRef
  <1>20. ASSUME NEW m \in NodesOf(h), NEW id \in Own(h, m), Target(h, id) \in NodesOf(h)
         PROVE  Ref(m, id) \in Refs(h, Target(h, id))
    <2>1. id \in Own(g, m) /\ id # y /\ Target(h, id) = Target(g, id)
      BY <1>6, <1>12, <1>14, <1>15, <1>16, <1>18, <1>20
    <2> QED
      BY <1>2, <1>12, <1>18, <1>20, <2>1, RefIs DEF Backed
  <1>21. GraphOK(h)
    BY <1>18, <1>19, <1>20 DEF GraphOK, Backed
  <1> QED
    BY <1>1, <1>21

\* A size that is at most one.
LEMMA ZeroOrOne ==
    ASSUME NEW k \in Nat, k <= 1
    PROVE  k = 0 \/ k = 1
  OBVIOUS

\* duplicate_node: the node is copied into every edge that leads to it.
LEMMA DuplicateNodeKeeps ==
    ASSUME NEW g, GraphOK(g), NEW n \in NodesOf(g), duplicate_applies(g, n)
    PROVE  GraphOK(duplicate_node(g, n).g)
  <1> DEFINE out == Edges(g, n)
             S == IF out = <<>> THEN Nowhere ELSE out[1].next
             tail == g.insts[n] \o (IF out = <<>> THEN <<>> ELSE out[1].insts)
             ids == {b.edge : b \in Refs(g, n)}
             l == Lead(g, ids, tail, S)
             cut == DropBacksFrom(l, S, n)
             refs == cut.backs[S] \o g.backs[n]
             h == WithBacks(cut, S, refs)
  <1>1. duplicate_node(g, n).g = EraseNode(h, n)
    BY Outcomes DEF duplicate_node, Refs, Nowhere
  <1>2. Sound(g) /\ Backed(g, {})
    BY DEF GraphOK
  <1>3. /\ Nowhere \notin NodesOf(g) /\ \A m \in NodesOf(g) : Own(g, m) \subseteq DOMAIN g.edge
        /\ \A k, m \in NodesOf(g) : k # m => Own(g, k) \cap Own(g, m) = {}
        /\ \A m \in NodesOf(g) : Distinct(g.edges[m]) /\ Distinct(g.backs[m])
    BY <1>2 DEF Sound
  <1>4. /\ \A id \in Own(g, n) : Target(g, id) = S
        /\ \A id \in Own(g, n) : Target(g, id) # n
        /\ S # n
    <2> DEFINE es == g.edges[n]
    <2>1. Distinct(es) /\ Len(es) \in Nat /\ DOMAIN es = 1..Len(es) /\ Len(es) <= 1
      BY <1>3, DistinctIs DEF duplicate_applies
    <2>2. \A id \in Own(g, n) : Target(g, id) # n
      BY <1>3, TargetsAre DEF duplicate_applies
    <2>3. CASE Len(es) = 0
      <3>1. es = <<>>
        BY <2>1, <2>3 DEF Distinct
      <3>2. out = <<>> /\ Own(g, n) = {}
        BY <3>1, EmptyDistinct DEF Edges, Own
      <3> QED
        BY <1>3, <3>2
    <2>4. CASE Len(es) = 1
      <3>1. DOMAIN out = 1..1 /\ out[1].next = Target(g, es[1])
        BY <2>1, <2>4 DEF Edges, Target
      <3>2. out # <<>> /\ Own(g, n) = {es[1]}
        BY <2>1, <2>4, <3>1, OneOf DEF Own
      <3> QED
        BY <2>2, <3>1, <3>2
    <2>5. Len(es) = 0 \/ Len(es) = 1
      BY <2>1, ZeroOrOne
    <2> QED
      BY <2>3, <2>4, <2>5
  <1>5. /\ \A b \in Refs(g, n) : b.edge \in ids /\ b.from # n
        /\ \A m \in NodesOf(g) : \A id \in Own(g, m) : id \in ids <=> Target(g, id) = n
        /\ \A m \in NodesOf(g) : \A id \in Own(g, m) : id \in ids => Ref(m, id) \in Refs(g, n)
    <2>1. \A b \in Refs(g, n) : IsRef(g, n, b)
      BY <1>2 DEF Backed
    <2>2. \A b \in Refs(g, n) : b.from # n
      BY <1>4, <2>1 DEF IsRef
    <2>3. \A m \in NodesOf(g) : \A id \in Own(g, m) :
              Target(g, id) = n => Ref(m, id) \in Refs(g, n)
      BY <1>2 DEF Backed
    <2>4. \A id : id \in ids <=> \E b \in Refs(g, n) : b.edge = id
      OBVIOUS
    <2> HIDE DEF ids
    <2> QED
      BY <2>1, <2>2, <2>3, <2>4, RefIs DEF IsRef
  <1> HIDE DEF ids, tail, out, S
  <1>6. /\ Sound(l) /\ NodesOf(l) = NodesOf(g)
        /\ \A m : Own(l, m) = Own(g, m) /\ Refs(l, m) = Refs(g, m)
        /\ \A id \in DOMAIN g.edge : Target(l, id) = IF id \in ids THEN S ELSE Target(g, id)
    <2>1. l = Lead(g, ids, tail, S)
      OBVIOUS
    <2> HIDE DEF l
    <2> QED
      BY <1>2, <2>1, LeadIs
  <1>7. /\ Sound(cut) /\ NodesOf(cut) = NodesOf(g)
        /\ \A m : Own(cut, m) = Own(g, m)
        /\ \A id : Target(cut, id) = Target(l, id)
        /\ \A m \in NodesOf(g) : \A b :
              b \in Refs(cut, m) <=> b \in Refs(g, m) /\ (m = S => b.from # n)
    <2>1. cut = DropBacksFrom(l, S, n)
      OBVIOUS
    <2> HIDE DEF l, cut
    <2> QED
      BY <1>6, <2>1, DropBacksFromIs
  <1> HIDE DEF l, cut
  <1>8. ASSUME S \in NodesOf(g)
        PROVE  Distinct(refs) /\ ToSet(refs) = Refs(cut, S) \cup Refs(g, n)
    <2>1. Distinct(cut.backs[S]) /\ Distinct(g.backs[n])
      BY <1>3, <1>7, <1>8 DEF Sound
    <2>2. Refs(cut, S) \cap Refs(g, n) = {}
      BY <1>2, <1>4, <1>7, <1>8 DEF Backed, IsRef
    <2> QED
      BY <2>1, <2>2, ConcatDistinct DEF Refs
  <1>9. h = WithBacks(cut, S, refs)
    OBVIOUS
  <1> HIDE DEF refs, h
  <1>10. /\ Sound(h) /\ NodesOf(h) = NodesOf(g)
         /\ \A m : Own(h, m) = Own(g, m)
         /\ \A id : Target(h, id) = Target(l, id)
         /\ \A m \in NodesOf(g) : Refs(h, m) = IF m = S THEN ToSet(refs) ELSE Refs(cut, m)
    BY <1>7, <1>8, <1>9, WithBacksIs
  <1>11. ASSUME NEW m \in NodesOf(h) \ {n}, NEW b \in Refs(h, m)
         PROVE  IsRef(h, m, b) /\ b.from # n
    <2>1. CASE b \in Refs(g, m) /\ b \in Refs(cut, m)
      <3>1. IsRef(g, m, b)
        BY <1>2, <1>10, <1>11, <2>1 DEF Backed
      <3>2. b.from # n
        BY <1>4, <1>7, <1>10, <1>11, <2>1, <3>1 DEF IsRef
      <3>3. Target(h, b.edge) = m
        BY <1>3, <1>5, <1>6, <1>10, <1>11, <3>1 DEF IsRef
      <3> QED
        BY <1>10, <3>1, <3>2, <3>3 DEF IsRef
    <2>2. CASE m = S /\ b \in Refs(g, n)
      <3>1. IsRef(g, n, b)
        BY <1>2, <2>2 DEF Backed
      <3>2. Target(h, b.edge) = m
        BY <1>3, <1>5, <1>6, <1>10, <2>2, <3>1 DEF IsRef
      <3> QED
        BY <1>5, <1>10, <2>2, <3>1, <3>2 DEF IsRef
    <2> QED
      BY <1>7, <1>8, <1>10, <1>11, <2>1, <2>2
  <1>12. ASSUME NEW m \in NodesOf(h) \ {n}, NEW id \in Own(h, m), Target(h, id) \in NodesOf(h) \ {n}
         PROVE  Ref(m, id) \in Refs(h, Target(h, id))
    <2>1. m \in NodesOf(g) /\ id \in Own(g, m) /\ id \in DOMAIN g.edge
      BY <1>3, <1>10, <1>12
    <2>2. CASE id \in ids
      <3>1. Target(h, id) = S
        BY <1>6, <1>10, <2>1, <2>2
      <3> QED
        BY <1>5, <1>8, <1>10, <1>12, <2>1, <2>2, <3>1
    <2>3. CASE id \notin ids
      <3>1. Target(h, id) = Target(g, id)
        BY <1>6, <1>10, <2>1, <2>3
      <3>2. Ref(m, id) \in Refs(cut, Target(g, id))
        BY <1>2, <1>7, <1>10, <1>12, <2>1, <3>1, RefIs DEF Backed
      <3> QED
        BY <1>8, <1>10, <1>12, <3>1, <3>2
    <2> QED
      BY <2>2, <2>3
  <1>13. GraphOK(EraseNode(h, n))
    BY <1>10, <1>11, <1>12, EraseKeeps
  <1> QED
    BY <1>1, <1>13

-----------------------------------------------------------------------------
(* Loops. *)

\* Counting the uses of a node moves no link.
LEMMA UsedIs ==
    ASSUME NEW g, Sound(g), NEW n, NEW P
    PROVE  SameLinks(g, Used(g, n, P))
  BY DEF Used, SameLinks, Sound, Fields

\* The entry of a loop is one of its nodes.
LEMMA EntryIs ==
    ASSUME NEW g, NEW scc, NEW number, Entries(g, scc, SccNodes(g, scc, number)) # {}
    PROVE  /\ SccNodes(g, scc, number) \subseteq NodesOf(g)
           /\ TheEntry(g, scc, SccNodes(g, scc, number)) \in SccNodes(g, scc, number)
  <1> DEFINE ns == SccNodes(g, scc, number)
             p == CHOOSE p \in Entries(g, scc, ns) : TRUE
  <1>1. ns \subseteq NodesOf(g)
    BY DEF SccNodes
  <1>2. p \in Entries(g, scc, ns)
    OBVIOUS
  <1> HIDE DEF ns, p
  <1>3. p[1] \in ns
    BY <1>2 DEF Entries
  <1> QED
    BY <1>1, <1>3 DEF TheEntry, ns, p

\* The edges left out of the references may be among those to the head: they are cut.
LEMMA CutLoopKeeps ==
    ASSUME NEW g, Sound(g), NEW but, Backed(g, but), NEW ns, ns \subseteq NodesOf(g),
           NEW P, P # Nowhere, but \subseteq Leading(g, ns, P), NEW S, NEW after,
           NEW h, h = CutLoop(g, ns, P, S, after)
    PROVE  GraphOK(h) /\ Severed(g, h)
  <1> DEFINE continue == IContinue(P)
             break == IBreak(P, after)
             h1 == Cut(g, ns, P, continue)
  <1>0. h1 = Cut(g, ns, P, continue)
    OBVIOUS
  <1>1. h = Cut(h1, ns, S, break)
    BY DEF CutLoop
  <1> HIDE DEF continue, break, h1
  <1>2. Sound(h1) /\ Backed(h1, but \ Leading(g, ns, P)) /\ Severed(g, h1)
    BY <1>0, CutKeeps
  <1>3. Backed(h1, {})
    BY <1>2 DEF Backed
  <1>4. CASE S = Nowhere
    <2>1. h = h1
      BY <1>1, <1>4 DEF Cut, Nowhere
    <2> QED
      BY <1>2, <1>3, <2>1 DEF GraphOK
  <1>5. CASE S # Nowhere
    <2>1. Sound(h) /\ Backed(h, {} \ Leading(h1, ns, S)) /\ Severed(h1, h)
      <3>1. ns \subseteq NodesOf(h1)
        BY <1>2 DEF Severed
      <3> QED
        BY <1>1, <1>2, <1>3, <1>5, <3>1, CutKeeps
    <2>2. Backed(h, {})
      BY <2>1 DEF Backed
    <2>3. Severed(g, h)
      BY <1>2, <2>1 DEF Severed
    <2> QED
      BY <2>1, <2>2, <2>3 DEF GraphOK
  <1> QED
    BY <1>4, <1>5

\* destruct_scc: the edges to the entry and to the exit become jumps, and are cut.
LEMMA DestructSccKeeps ==
    ASSUME NEW g, GraphOK(g), NEW scc, NEW number
    PROVE  GraphOK(destruct_scc(g, scc, number).g)
  <1> DEFINE ns == SccNodes(g, scc, number)
             P == TheEntry(g, scc, ns)
             S == TheExit(g, scc, ns)
             g1 == Used(g, P, P)
             cut == CutLoop(g1, ns, P, S, S)
             h == Used(cut, S, P)
             r == destruct_scc(g, scc, number).g
  <1>1. r = g \/ (Entries(g, scc, ns) # {} /\ r \in {cut, h})
    BY Outcomes DEF destruct_scc
  <1>2. ASSUME Entries(g, scc, ns) # {} PROVE GraphOK(cut) /\ GraphOK(h)
    <2>1. ns \subseteq NodesOf(g) /\ P \in ns
      BY <1>2, EntryIs
    <2> HIDE DEF ns, P, S
    <2>2. Sound(g) /\ Backed(g, {}) /\ P # Nowhere
      BY <2>1 DEF GraphOK, Sound
    <2>3. SameLinks(g, g1)
      BY <2>2, UsedIs
    <2> HIDE DEF g1
    <2>4. Sound(g1) /\ NodesOf(g1) = NodesOf(g) /\ Backed(g1, {})
      BY <2>2, <2>3, SameLinksKeep
    <2>5. GraphOK(cut)
      <3>1. cut = CutLoop(g1, ns, P, S, S) /\ {} \subseteq Leading(g1, ns, P)
        OBVIOUS
      <3> HIDE DEF cut
      <3> QED
        BY <2>1, <2>2, <2>4, <3>1, CutLoopKeeps
    <2>6. SameLinks(cut, h)
      BY <2>5, UsedIs DEF GraphOK
    <2> HIDE DEF cut, h
    <2>7. GraphOK(h)
      BY <2>5, <2>6, SameLinksKeep DEF GraphOK
    <2> QED
      BY <2>5, <2>7
  <1> HIDE DEF cut, h, r
  <1> QED
    BY <1>1, <1>2 DEF r

-----------------------------------------------------------------------------
(* A loop inside another: the node before it and the node after it. *)

Reaches(g, t) == \E m \in NodesOf(g) : \E id \in Own(g, m) : Target(g, id) = t

\* A name that is unused names no node, and no edge leads to it.
LEMMA UnusedIs ==
    ASSUME NEW g, NEW name, Unused(g, name)
    PROVE  name \notin NodesOf(g) /\ name # Nowhere /\ ~Reaches(g, name)
  <1>1. name \notin NodesOf(g) /\ name # Nowhere
    BY DEF Unused, Nowhere
  <1>2. \A m \in NodesOf(g) : name \notin Targets(g, m)
    BY DEF Unused
  <1> QED
    BY <1>1, <1>2, TargetsAre DEF Reaches

\* The edges of the nodes ns that lead to t.
LEMMA LeadingIs ==
    ASSUME NEW g, NEW ns, NEW t
    PROVE  \A id : id \in Leading(g, ns, t) <=> \E m \in ns : id \in Own(g, m) /\ Target(g, id) = t
  BY DEF Leading, EdgesOf, Own, Target

\* The references to the head of the loop from inside it are lost on the way.
LEMMA WithPrepKeeps ==
    ASSUME NEW g, GraphOK(g), NEW scc, NEW number,
           NEW P, P \in SccNodes(g, scc, number), Unused(g, PrepOf(P)),
           NEW ns, ns = SccNodes(g, scc, number),
           NEW h, h = WithPrep(g, scc, number, P)
    PROVE  /\ Sound(h) /\ Backed(h, Leading(g, ns, P)) /\ NodesOf(h) = NodesOf(g) \cup {PrepOf(P)}
           /\ Leading(g, ns, P) \subseteq Leading(h, ns, P)
           /\ \A t : Reaches(h, t) => Reaches(g, t) \/ t \in {P, PrepOf(P)}
  <1> DEFINE Q == PrepOf(P)
             at == {i \in DOMAIN g.backs[P] : scc[g.backs[P][i].from] # number}
             outside == Subsequence(g.backs[P], at)
             clear == <<IAssign(ContFlag(P), VBool(FALSE)), IAssign(BrkFlag(P), VBool(FALSE))>>
             none == {}
             nil == <<>>
             ids == {b.edge : b \in ToSet(outside)}
             g0 == AddNode(g, Q, clear, none)
             moved == Lead(g0, ids, nil, Q)
             w1 == WithBacks(moved, Q, outside)
             w2 == WithBacks(w1, P, nil)
             but == Leading(g, ns, P)
  <1>1. /\ h = AddEdge(w2, Q, P) /\ w2 = WithBacks(w1, P, nil) /\ w1 = WithBacks(moved, Q, outside)
        /\ moved = Lead(g0, ids, nil, Q) /\ g0 = AddNode(g, Q, clear, none)
    BY DEF WithPrep
  <1>2. Sound(g) /\ Backed(g, {})
    BY DEF GraphOK
  <1>3. P \in NodesOf(g) /\ ns \subseteq NodesOf(g)
        /\ \A m \in NodesOf(g) : m \in ns <=> scc[m] = number
    BY DEF SccNodes
  <1>4. Q \notin NodesOf(g) /\ Q # Nowhere /\ ~Reaches(g, Q)
    BY UnusedIs
  <1>5. /\ \A m \in NodesOf(g) : Own(g, m) \subseteq DOMAIN g.edge
        /\ \A k, m \in NodesOf(g) : k # m => Own(g, k) \cap Own(g, m) = {}
        /\ \A m \in NodesOf(g) : Distinct(g.backs[m])
    BY <1>2 DEF Sound
  <1>6. /\ Distinct(outside)
        /\ \A b : b \in ToSet(outside) <=> b \in Refs(g, P) /\ b.from \notin ns
    <2>1. at \subseteq DOMAIN g.backs[P]
          /\ \A b : b \in {g.backs[P][i] : i \in at} <=> b \in Refs(g, P) /\ scc[b.from] # number
      BY DEF Refs, ToSet
    <2> HIDE DEF at
    <2>2. Distinct(outside) /\ ToSet(outside) = {g.backs[P][i] : i \in at}
      BY <1>3, <1>5, <2>1, SubDistinct
    <2>3. \A b \in Refs(g, P) : b.from \in NodesOf(g)
      BY <1>2, <1>3 DEF Backed, IsRef
    <2> HIDE DEF outside
    <2> QED
      BY <1>3, <2>1, <2>2, <2>3
  <1>7. \A id : id \in ids <=> \E b \in ToSet(outside) : b.edge = id
    OBVIOUS
  <1>8. Distinct(nil) /\ ToSet(nil) = {}
    BY EmptyDistinct
  <1>9. \A id : id \in but <=> \E m \in ns : id \in Own(g, m) /\ Target(g, id) = P
    BY LeadingIs
  <1> HIDE DEF Q, at, outside, clear, none, nil, ids, g0, moved, w1, w2, but
  <1>10. /\ Sound(g0) /\ NodesOf(g0) = NodesOf(g) \cup {Q} /\ DOMAIN g0.edge = DOMAIN g.edge
         /\ Own(g0, Q) = {} /\ Refs(g0, Q) = {}
         /\ \A m \in NodesOf(g) : Own(g0, m) = Own(g, m) /\ Refs(g0, m) = Refs(g, m)
         /\ \A id : Target(g0, id) = Target(g, id)
    BY <1>1, <1>2, <1>4, AddNodeIs
  <1>11. /\ Sound(moved) /\ NodesOf(moved) = NodesOf(g0) /\ DOMAIN moved.edge = DOMAIN g0.edge
         /\ \A m : Own(moved, m) = Own(g0, m) /\ Refs(moved, m) = Refs(g0, m)
         /\ \A id \in DOMAIN g0.edge : Target(moved, id) = IF id \in ids THEN Q ELSE Target(g0, id)
    BY <1>1, <1>10, LeadIs
  <1>12. /\ Sound(w1) /\ NodesOf(w1) = NodesOf(moved)
         /\ \A m : Own(w1, m) = Own(moved, m)
         /\ \A id : Target(w1, id) = Target(moved, id)
         /\ \A m \in NodesOf(moved) : Refs(w1, m) = IF m = Q THEN ToSet(outside) ELSE Refs(moved, m)
    BY <1>1, <1>6, <1>11, WithBacksIs
  <1>13. /\ Sound(w2) /\ NodesOf(w2) = NodesOf(w1)
         /\ \A m : Own(w2, m) = Own(w1, m)
         /\ \A id : Target(w2, id) = Target(w1, id)
         /\ \A m \in NodesOf(w1) : Refs(w2, m) = IF m = P THEN ToSet(nil) ELSE Refs(w1, m)
    BY <1>1, <1>8, <1>12, WithBacksIs
  <1>14. /\ NodesOf(w2) = NodesOf(g) \cup {Q}
         /\ Own(w2, Q) = {} /\ Refs(w2, Q) = ToSet(outside) /\ Refs(w2, P) = {}
         /\ \A m \in NodesOf(g) : Own(w2, m) = Own(g, m) /\ (m # P => Refs(w2, m) = Refs(g, m))
         /\ \A id \in DOMAIN g.edge : Target(w2, id) = IF id \in ids THEN Q ELSE Target(g, id)
    BY <1>3, <1>4, <1>8, <1>10, <1>11, <1>12, <1>13
  \* The edges that were moved are those to the head from outside.
  <1>15. \A m \in NodesOf(g) : \A id \in Own(g, m) :
            id \in ids <=> Target(g, id) = P /\ m \notin ns
    <2>1. ASSUME NEW m \in NodesOf(g), NEW id \in Own(g, m), id \in ids
          PROVE  Target(g, id) = P /\ m \notin ns
      <3>1. PICK b \in Refs(g, P) : b.edge = id /\ b.from \notin ns
        BY <1>6, <1>7, <2>1
      <3>2. IsRef(g, P, b)
        BY <1>2, <1>3 DEF Backed
      <3> QED
        BY <1>5, <2>1, <3>1, <3>2 DEF IsRef
    <2>2. ASSUME NEW m \in NodesOf(g), NEW id \in Own(g, m), Target(g, id) = P, m \notin ns
          PROVE  id \in ids
      <3>1. Ref(m, id) \in Refs(g, P)
        BY <1>2, <1>3, <2>2 DEF Backed
      <3> QED
        BY <1>6, <1>7, <2>2, <3>1, RefIs
    <2> QED
      BY <2>1, <2>2
  <1>16. ASSUME NEW m \in NodesOf(w2), NEW b \in Refs(w2, m) PROVE IsRef(w2, m, b)
    <2>1. CASE m = Q
      <3>1. IsRef(g, P, b) /\ b.edge \in ids
        BY <1>2, <1>3, <1>6, <1>7, <1>14, <1>16, <2>1 DEF Backed
      <3> QED
        BY <1>5, <1>14, <2>1, <3>1 DEF IsRef
    <2>2. CASE m # Q
      <3>1. m \in NodesOf(g) /\ m # P /\ IsRef(g, m, b)
        BY <1>2, <1>14, <1>16, <2>2 DEF Backed
      <3>2. b.edge \notin ids /\ b.edge \in DOMAIN g.edge
        BY <1>5, <1>15, <3>1 DEF IsRef
      <3> QED
        BY <1>14, <3>1, <3>2 DEF IsRef
    <2> QED
      BY <2>1, <2>2
  <1>17. ASSUME NEW m \in NodesOf(w2), NEW id \in Own(w2, m), Target(w2, id) \in NodesOf(w2), id \notin but
         PROVE  Ref(m, id) \in Refs(w2, Target(w2, id))
    <2>1. m \in NodesOf(g) /\ id \in Own(g, m) /\ id \in DOMAIN g.edge
      BY <1>5, <1>14, <1>17
    <2>2. Target(g, id) # Q
      BY <1>4, <2>1 DEF Reaches
    <2>3. CASE id \in ids
      <3>1. Target(w2, id) = Q
        BY <1>14, <2>1, <2>3
      <3>2. Ref(m, id) \in Refs(g, P) /\ m \notin ns
        BY <1>2, <1>3, <1>15, <2>1, <2>3 DEF Backed
      <3> QED
        BY <1>6, <1>14, <3>1, <3>2, RefIs
    <2>4. CASE id \notin ids
      <3>1. Target(w2, id) = Target(g, id) /\ Target(g, id) \in NodesOf(g)
        BY <1>14, <1>17, <2>1, <2>2, <2>4
      <3>2. Target(g, id) # P
        BY <1>9, <1>15, <1>17, <2>1, <2>4
      <3> QED
        BY <1>2, <1>14, <2>1, <3>1, <3>2 DEF Backed
    <2> QED
      BY <2>3, <2>4
  <1>18. Backed(w2, but)
    BY <1>16, <1>17 DEF Backed
  <1>19. /\ Sound(h) /\ Backed(h, but) /\ NodesOf(h) = NodesOf(w2)
         /\ \A m \in NodesOf(w2) : m # Q => Own(h, m) = Own(w2, m)
         /\ \A id \in DOMAIN w2.edge : Target(h, id) = Target(w2, id)
         /\ \A id \in Own(h, Q) : id \in Own(w2, Q) \/ Target(h, id) = P
    BY <1>1, <1>13, <1>14, <1>18, AddEdgeKeeps
  <1>20. \A m \in NodesOf(w2) : Own(w2, m) \subseteq DOMAIN w2.edge
    BY <1>13 DEF Sound
  <1>21. \A m \in NodesOf(g) : \A id \in Own(g, m) :
            /\ id \in Own(h, m)
            /\ Target(h, id) = IF id \in ids THEN Q ELSE Target(g, id)
    BY <1>4, <1>5, <1>14, <1>19, <1>20
  <1>22. but \subseteq Leading(h, ns, P)
    <2>1. ASSUME NEW id \in but PROVE id \in Leading(h, ns, P)
      <3>1. PICK m \in ns : id \in Own(g, m) /\ Target(g, id) = P
        BY <1>9, <2>1
      <3>2. id \in Own(h, m) /\ Target(h, id) = P
        BY <1>3, <1>15, <1>21, <3>1
      <3> QED
        BY <3>1, <3>2, LeadingIs
    <2> QED
      BY <2>1
  <1>23. ASSUME NEW t, Reaches(h, t) PROVE Reaches(g, t) \/ t \in {P, Q}
    <2>1. PICK m \in NodesOf(h) : \E id \in Own(h, m) : Target(h, id) = t
      BY <1>23 DEF Reaches
    <2>2. PICK id \in Own(h, m) : Target(h, id) = t
      BY <2>1
    <2>3. CASE m = Q
      BY <1>14, <1>19, <2>2, <2>3
    <2>4. CASE m # Q
      <3>1. m \in NodesOf(g) /\ id \in Own(g, m)
        BY <1>14, <1>19, <2>2, <2>4
      <3> QED
        BY <1>21, <2>2, <3>1 DEF Reaches
    <2> QED
      BY <2>3, <2>4
  <1> QED
    BY <1>14, <1>19, <1>22, <1>23 DEF but, Q

\* Instructions redirected inside a loop move no link.
LEMMA RedirectIs ==
    ASSUME NEW g, Sound(g), NEW scc, NEW number, NEW ns, NEW P
    PROVE  SameLinks(g, RedirectNodes(g, scc, number, ns, P))
  BY DEF RedirectNodes, SameLinks, Sound, Fields

\* The node after the loop is added.
LEMMA WithSuccKeeps ==
    ASSUME NEW g, GraphOK(g), NEW P, NEW S, NEW outer, NEW after,
           SuccOf(P) \notin NodesOf(g), SuccOf(P) # Nowhere, ~Reaches(g, SuccOf(P))
    PROVE  GraphOK(WithSucc(g, P, S, outer, after))
  <1> DEFINE R == SuccOf(P)
             act == IIf(IsTrue(ContFlag(P)), <<IContinue(outer)>>,
                        <<IIf(IsTrue(BrkFlag(P)), <<IBreak(outer, after)>>, <<>>)>>)
             insts == <<act>>
             uses == {P}
             g1 == AddNode(g, R, insts, uses)
             g2 == AddEdge(g1, R, S)
  <1>1. /\ WithSucc(g, P, S, outer, after) \in {g1, g2}
        /\ g1 = AddNode(g, R, insts, uses) /\ g2 = AddEdge(g1, R, S)
    BY DEF WithSucc
  <1>2. Sound(g) /\ Backed(g, {})
    BY DEF GraphOK
  <1>3. \A m \in NodesOf(g) : Own(g, m) \subseteq DOMAIN g.edge
    BY <1>2 DEF Sound
  <1>4. R \notin NodesOf(g) /\ R # Nowhere /\ ~Reaches(g, R)
    OBVIOUS
  <1> HIDE DEF R, insts, uses, act, g1, g2
  <1>5. /\ Sound(g1) /\ NodesOf(g1) = NodesOf(g) \cup {R}
        /\ Own(g1, R) = {} /\ Refs(g1, R) = {}
        /\ \A m \in NodesOf(g) : Own(g1, m) = Own(g, m) /\ Refs(g1, m) = Refs(g, m)
        /\ \A id : Target(g1, id) = Target(g, id)
    BY <1>1, <1>2, <1>4, AddNodeIs
  <1>6. ASSUME NEW m \in NodesOf(g1), NEW b \in Refs(g1, m) PROVE IsRef(g1, m, b)
    <2>1. m \in NodesOf(g) /\ IsRef(g, m, b)
      BY <1>2, <1>5, <1>6 DEF Backed
    <2> QED
      BY <1>5, <2>1 DEF IsRef
  <1>7. ASSUME NEW m \in NodesOf(g1), NEW id \in Own(g1, m), Target(g1, id) \in NodesOf(g1)
        PROVE  Ref(m, id) \in Refs(g1, Target(g1, id))
    <2>1. m \in NodesOf(g) /\ id \in Own(g, m)
      BY <1>5, <1>7
    <2>2. Target(g, id) # R
      BY <1>4, <2>1 DEF Reaches
    <2> QED
      BY <1>2, <1>5, <1>7, <2>1, <2>2 DEF Backed
  <1>8. Backed(g1, {})
    BY <1>6, <1>7 DEF Backed
  <1>9. Sound(g2) /\ Backed(g2, {})
    BY <1>1, <1>5, <1>8, AddEdgeKeeps
  <1> QED
    BY <1>1, <1>5, <1>8, <1>9 DEF GraphOK

\* destruct_inner_scc: nodes for the entry and the exit of the loop, if their names are free.
LEMMA DestructInnerSccKeeps ==
    ASSUME NEW g, GraphOK(g), NEW scc, NEW number,
           NEW P, P = TheEntry(g, scc, SccNodes(g, scc, number)),
           Entries(g, scc, SccNodes(g, scc, number)) # {} =>
              Unused(g, PrepOf(P)) /\ Unused(g, SuccOf(P)) /\ PrepOf(P) # SuccOf(P)
    PROVE  GraphOK(destruct_inner_scc(g, scc, number).g)
  <1> DEFINE ns == SccNodes(g, scc, number)
             jumps == ForeignJumps(g, scc, number, ns)
             S == TheExit(g, scc, ns)
             outer == CHOOSE l \in {j.loop : j \in jumps} : TRUE
             afters == {j.after : j \in {i \in jumps : i.k = "break"}} \ {""}
             after == IF afters = {} THEN "" ELSE CHOOSE a \in afters : TRUE
             g1 == Used(g, P, P)
             g2 == WithPrep(g1, scc, number, P)
             g3 == RedirectNodes(g2, scc, number, ns, P)
             g4 == CutLoop(g3, ns, P, S, SuccOf(P))
             g5 == WithSucc(g4, P, S, outer, after)
             r == destruct_inner_scc(g, scc, number).g
  <1>1. r = g \/ (Entries(g, scc, ns) # {} /\ r = g5)
    BY Outcomes DEF destruct_inner_scc
  <1>2. ASSUME Entries(g, scc, ns) # {} PROVE GraphOK(g5)
    <2>1. ns \subseteq NodesOf(g) /\ P \in ns
      BY <1>2, EntryIs
    <2>2. Sound(g) /\ Backed(g, {}) /\ P # Nowhere
      BY <2>1 DEF GraphOK, Sound
    <2>3. SameLinks(g, g1)
      BY <2>2, UsedIs
    <2>4. SccNodes(g1, scc, number) = ns /\ Unused(g1, PrepOf(P))
      <3>1. NodesOf(g1) = NodesOf(g)
        BY <2>3 DEF SameLinks, NodesOf
      <3>2. \A n : Targets(g1, n) = Targets(g, n)
        BY DEF Targets, Used
      <3> HIDE DEF g1
      <3> QED
        BY <1>2, <3>1, <3>2 DEF SccNodes, Unused
    <2>5. SuccOf(P) \notin NodesOf(g) /\ SuccOf(P) # Nowhere /\ ~Reaches(g, SuccOf(P)) /\ PrepOf(P) # SuccOf(P)
      BY <1>2, UnusedIs
    <2>0. /\ g2 = WithPrep(g1, scc, number, P) /\ g3 = RedirectNodes(g2, scc, number, ns, P)
          /\ g4 = CutLoop(g3, ns, P, S, SuccOf(P)) /\ g5 = WithSucc(g4, P, S, outer, after)
      OBVIOUS
    <2> DEFINE R == SuccOf(P)
               Q == PrepOf(P)
               but == Leading(g1, ns, P)
    <2> HIDE DEF ns, S, outer, after, g1, g2, g3, g4, g5, but
    <2>6. /\ GraphOK(g1) /\ NodesOf(g1) = NodesOf(g)
          /\ \A t : Reaches(g1, t) => Reaches(g, t)
      <3>1. /\ Sound(g1) /\ NodesOf(g1) = NodesOf(g) /\ Backed(g1, {})
            /\ \A n : Own(g1, n) = Own(g, n)
            /\ \A id \in DOMAIN g.edge : Target(g1, id) = Target(g, id)
        BY <2>2, <2>3, SameLinksKeep
      <3>2. \A m \in NodesOf(g) : Own(g, m) \subseteq DOMAIN g.edge
        BY <2>2 DEF Sound
      <3>3. \A t : Reaches(g1, t) => Reaches(g, t)
        BY <3>1, <3>2 DEF Reaches
      <3> QED
        BY <3>1, <3>3 DEF GraphOK
    <2>7. /\ Sound(g2) /\ Backed(g2, but) /\ NodesOf(g2) = NodesOf(g1) \cup {Q}
          /\ but \subseteq Leading(g2, ns, P)
          /\ \A t : Reaches(g2, t) => Reaches(g1, t) \/ t \in {P, Q}
      BY <2>0, <2>1, <2>4, <2>6, WithPrepKeeps DEF but
    <2>8. /\ Sound(g3) /\ Backed(g3, but) /\ NodesOf(g3) = NodesOf(g2)
          /\ but \subseteq Leading(g3, ns, P)
          /\ \A t : Reaches(g3, t) => Reaches(g2, t)
      <3>1. SameLinks(g2, g3)
        BY <2>0, <2>7, RedirectIs
      <3>2. /\ Sound(g3) /\ NodesOf(g3) = NodesOf(g2) /\ Backed(g3, but)
            /\ \A n : Own(g3, n) = Own(g2, n)
            /\ \A id \in DOMAIN g2.edge : Target(g3, id) = Target(g2, id)
        BY <2>7, <3>1, SameLinksKeep
      <3>3. \A m \in NodesOf(g2) : Own(g2, m) \subseteq DOMAIN g2.edge
        BY <2>7 DEF Sound
      <3>4. \A t : Reaches(g3, t) => Reaches(g2, t)
        BY <3>2, <3>3 DEF Reaches
      <3>5. ns \subseteq NodesOf(g2)
        BY <2>1, <2>6, <2>7
      <3>6. \A id : id \in Leading(g2, ns, P) => id \in Leading(g3, ns, P)
        BY <3>2, <3>3, <3>5, LeadingIs
      <3> QED
        BY <2>7, <3>2, <3>4, <3>6
    <2>9. GraphOK(g4) /\ Severed(g3, g4)
      <3>1. ns \subseteq NodesOf(g3)
        BY <2>1, <2>6, <2>7, <2>8
      <3> QED
        BY <2>0, <2>2, <2>8, <3>1, CutLoopKeeps
    <2>10. R \notin NodesOf(g4) /\ R # Nowhere /\ ~Reaches(g4, R)
      <3>1. R # P
        BY <2>1, <2>5
      <3>2. ~Reaches(g3, R)
        BY <2>5, <2>6, <2>7, <2>8, <3>1
      <3>3. \A t : Reaches(g4, t) => Reaches(g3, t) \/ t = Nowhere
        BY <2>9 DEF Reaches, Severed
      <3> QED
        BY <2>5, <2>6, <2>7, <2>8, <2>9, <3>2, <3>3 DEF Severed
    <2> QED
      BY <2>0, <2>9, <2>10, WithSuccKeeps
  <1> HIDE DEF g5, r
  <1> QED
    BY <1>1, <1>2 DEF r

\* construct_loop: the node becomes the loop, with an edge to the node after it.
LEMMA ConstructLoopKeeps ==
    ASSUME NEW g, GraphOK(g), NEW n \in NodesOf(g)
    PROVE  GraphOK(construct_loop(g, n).g)
  <1> DEFINE lineno == g.last[Last(g.backs[n]).from]
             looped == [g EXCEPT !.insts = Updated(@, n, <<ILoop(Blank(@[n]), lineno)>>),
                                 !.uses = Updated(@, n, @[n] \ {n})]
             S == CHOOSE a \in BreakPoints(g.insts[n]) : TRUE
             left == [looped EXCEPT !.uses = Updated(@, S, @[S] \ {n})]
             h == AddEdge(left, n, S)
             r == construct_loop(g, n).g
  <1>1. r \in {g, looped, h} /\ h = AddEdge(left, n, S)
    BY Outcomes DEF construct_loop
  <1>2. Sound(g) /\ Backed(g, {})
    BY DEF GraphOK
  <1>3. SameLinks(g, looped) /\ SameLinks(g, left)
    <2> HIDE DEF lineno, S
    <2> QED
      BY <1>2 DEF SameLinks, Sound, Fields
  <1> HIDE DEF lineno, looped, S, left, h
  <1>4. Sound(looped) /\ Backed(looped, {})
    BY <1>2, <1>3, SameLinksKeep
  <1>5. Sound(left) /\ Backed(left, {}) /\ NodesOf(left) = NodesOf(g)
    BY <1>2, <1>3, SameLinksKeep
  <1>6. Sound(h) /\ Backed(h, {})
    BY <1>1, <1>5, AddEdgeKeeps
  <1> HIDE DEF r
  <1>7. GraphOK(r)
    BY <1>1, <1>2, <1>4, <1>6 DEF GraphOK
  <1> QED
    BY <1>7 DEF r

-----------------------------------------------------------------------------
(* The graph of a function. *)

\* The positions of a function's edges: a block and one of its edges.
LEMMA SlotsAre ==
    ASSUME NEW f \in Functions
    PROVE  /\ Distinct(f.order) /\ Nowhere \notin ToSet(f.order)
           /\ \A b \in ToSet(f.order) :
                 /\ Len(BlockEdges(f, b)) \in Nat /\ DOMAIN BlockEdges(f, b) = 1..Len(BlockEdges(f, b))
                 /\ Position(f, b) \in DOMAIN f.order /\ f.order[Position(f, b)] = b
           /\ \A k \in DOMAIN f.order : f.order[k] \in ToSet(f.order) /\ Position(f, f.order[k]) = k
           /\ \A s : s \in Slots(f) <=>
                 \E k \in DOMAIN f.order : \E i \in DOMAIN BlockEdges(f, f.order[k]) : s = <<k, i>>
  <1>1. /\ Distinct(f.order) /\ Nowhere \notin ToSet(f.order)
        /\ \A b \in ToSet(f.order) : BlockEdges(f, b) \in Seq(ToSet(BlockEdges(f, b)))
    BY FunctionsAssumption DEF Nowhere
  <1>2. ASSUME NEW b \in ToSet(f.order)
        PROVE  /\ Len(BlockEdges(f, b)) \in Nat /\ DOMAIN BlockEdges(f, b) = 1..Len(BlockEdges(f, b))
               /\ Position(f, b) \in DOMAIN f.order /\ f.order[Position(f, b)] = b
    <2>1. BlockEdges(f, b) \in Seq(ToSet(BlockEdges(f, b)))
      BY <1>1, <1>2
    <2>2. \E k \in DOMAIN f.order : f.order[k] = b
      BY <1>2 DEF ToSet
    <2>3. Position(f, b) \in DOMAIN f.order /\ f.order[Position(f, b)] = b
      BY <2>2 DEF Position
    <2> DEFINE es == BlockEdges(f, b)
    <2> HIDE DEF es
    <2>4. Len(es) \in Nat /\ DOMAIN es = 1..Len(es)
      <3>1. es \in Seq(ToSet(es))
        BY <2>1 DEF es
      <3> QED
        BY <3>1
    <2> QED
      BY <2>3, <2>4 DEF es
  <1>3. ASSUME NEW k \in DOMAIN f.order
        PROVE  f.order[k] \in ToSet(f.order) /\ Position(f, f.order[k]) = k
    <2>1. f.order[k] \in ToSet(f.order)
      BY DEF ToSet
    <2>2. Position(f, f.order[k]) \in DOMAIN f.order /\ f.order[Position(f, f.order[k])] = f.order[k]
      BY <1>2, <2>1
    <2> QED
      BY <1>1, <2>1, <2>2 DEF Distinct
  <1>4. \A s : s \in Slots(f) <=>
            \E k \in DOMAIN f.order : \E i \in DOMAIN BlockEdges(f, f.order[k]) : s = <<k, i>>
    BY DEF Slots
  <1> QED
    BY <1>1, <1>2, <1>3, <1>4

\* A function has finitely many edges.
LEMMA SlotsFinite ==
    ASSUME NEW f \in Functions
    PROVE  IsFiniteSet(Slots(f))
  <1> DEFINE D == DOMAIN f.order
             m == [k \in D |-> {<<k, i>> : i \in DOMAIN BlockEdges(f, f.order[k])}]
  <1>1. IsFiniteSet(D)
    <2>1. Len(f.order) \in Nat /\ D = 1..Len(f.order)
      BY SlotsAre, DistinctIs
    <2>2. 1 \in Int /\ Len(f.order) \in Int
      BY <2>1
    <2> QED
      BY <2>1, <2>2, FS_Interval
  <1>2. ASSUME NEW k \in D PROVE IsFiniteSet(m[k])
    <2> DEFINE n == Len(BlockEdges(f, f.order[k]))
               E == 1..n
               h == [i \in E |-> <<k, i>>]
    <2>1. n \in Nat /\ DOMAIN BlockEdges(f, f.order[k]) = E
      BY SlotsAre
    <2>2. IsFiniteSet(E)
      <3>1. 1 \in Int /\ n \in Int
        BY <2>1
      <3> HIDE DEF n
      <3> QED
        BY <3>1, FS_Interval
    <2>3. m[k] = {<<k, i>> : i \in E}
      BY <2>1
    <2>4. h \in Surjection(E, m[k])
      <3> HIDE DEF E, m
      <3> QED
        BY <2>3 DEF Surjection
    <2> HIDE DEF E, h, m
    <2> QED
      BY <2>2, <2>4, FS_Surjection
  <1>3. DOMAIN m = D /\ Slots(f) = UNION {m[k] : k \in D}
    BY DEF Slots
  <1> HIDE DEF D, m
  <1> QED
    BY <1>1, <1>2, <1>3, FiniteUnion

\* The edges into a block in the order of the blocks, each once.
LEMMA SlotsInOrder ==
    ASSUME NEW f \in Functions, NEW b, NEW S, S = SlotsInto(f, b),
           NEW slots, slots = InOrder(Earlier(S), S)
    PROVE  Distinct(slots) /\ ToSet(slots) = S
  <1>1. S \subseteq Slots(f)
    BY DEF SlotsInto
  <1>2. IsFiniteSet(S)
    BY <1>1, SlotsFinite, FS_Subset
  <1>3. \A s \in S : s = <<s[1], s[2]>> /\ s[1] \in Int /\ s[2] \in Int
    <2>1. Len(f.order) \in Nat /\ DOMAIN f.order = 1..Len(f.order)
      BY SlotsAre, DistinctIs
    <2>2. \A k \in DOMAIN f.order : \A i \in DOMAIN BlockEdges(f, f.order[k]) : k \in Int /\ i \in Int
      BY <2>1, SlotsAre
    <2> QED
      BY <1>1, <2>2, SlotsAre
  <1>4. IsOrder(Earlier(S), S)
    <2>1. \A x, y \in S : <<x, y>> \in Earlier(S) <=> x[1] < y[1] \/ (x[1] = y[1] /\ x[2] < y[2])
      BY DEF Earlier
    <2>2. \A x \in S : <<x, x>> \notin Earlier(S)
      BY <1>3, <2>1
    <2>3. ASSUME NEW x \in S, NEW y \in S, x # y PROVE <<x, y>> \in Earlier(S) \/ <<y, x>> \in Earlier(S)
      <3>1. x[1] # y[1] \/ x[2] # y[2]
        BY <1>3, <2>3
      <3> QED
        BY <1>3, <2>1, <3>1
    <2>4. ASSUME NEW x \in S, NEW y \in S, NEW z \in S, <<x, y>> \in Earlier(S), <<y, z>> \in Earlier(S)
          PROVE  <<x, z>> \in Earlier(S)
      BY <1>3, <2>1, <2>4
    <2> QED
      BY <2>2, <2>3, <2>4 DEF IsOrder
  <1>5. /\ slots \in Seq(S)
        /\ \A x \in S : \E k \in DOMAIN slots : slots[k] = x
        /\ \A k, m \in DOMAIN slots : slots[k] = slots[m] => k = m
    BY <1>2, <1>4, InOrderIs
  <1>6. ToSet(slots) = S
    BY <1>5 DEF ToSet
  <1> QED
    BY <1>5, <1>6 DEF Distinct, ToSet

\* The graph built from a function is consistent.
LEMMA BuildKeeps ==
    ASSUME NEW f \in Functions
    PROVE  GraphOK(Build(f))
  <1> DEFINE g == Build(f)
             blocks == ToSet(f.order)
             es(b) == BlockEdges(f, b)
             slots(b) == InOrder(Earlier(SlotsInto(f, b)), SlotsInto(f, b))
             outs(b) == [i \in DOMAIN es(b) |-> <<Position(f, b), i>>]
             refs(b) == [i \in DOMAIN slots(b) |-> Ref(f.order[slots(b)[i][1]], slots(b)[i])]
  <1>1. /\ DOMAIN g = Fields /\ g.order = f.order /\ g.fresh = 1
        /\ DOMAIN g.edge = Slots(f) /\ \A s \in Slots(f) : Target(g, s) = SlotEdge(f, s).next
        /\ DOMAIN g.edges = blocks /\ \A b \in blocks : g.edges[b] = outs(b)
        /\ DOMAIN g.backs = blocks /\ \A b \in blocks : g.backs[b] = refs(b)
    BY DEF Build, Fields, Target, Ref
  <1>2. NodesOf(g) = blocks
    BY <1>1 DEF NodesOf
  <1>3. /\ Distinct(f.order) /\ Nowhere \notin blocks
        /\ \A b \in blocks : /\ Len(es(b)) \in Nat /\ DOMAIN es(b) = 1..Len(es(b))
                             /\ Position(f, b) \in DOMAIN f.order /\ f.order[Position(f, b)] = b
        /\ \A k \in DOMAIN f.order : f.order[k] \in blocks /\ Position(f, f.order[k]) = k
        /\ \A s : s \in Slots(f) <=>
              \E k \in DOMAIN f.order : \E i \in DOMAIN es(f.order[k]) : s = <<k, i>>
    BY SlotsAre
  <1> HIDE DEF g, blocks
  \* The edges of a block.
  <1>4. ASSUME NEW b \in blocks
        PROVE  /\ Distinct(g.edges[b])
               /\ \A s : s \in Own(g, b) <=> \E i \in DOMAIN es(b) : s = <<Position(f, b), i>>
    <2> DEFINE n == Len(es(b))
               o == outs(b)
    <2>1. n \in Nat /\ DOMAIN es(b) = 1..n
      BY <1>3
    <2>2. /\ DOMAIN o = 1..n /\ o = [i \in 1..n |-> o[i]]
          /\ \A i, j \in 1..n : o[i] = o[j] => i = j
      BY <2>1
    <2>3. g.edges[b] = o
      BY <1>1
    <2>4. \A s : s \in ToSet(o) <=> \E i \in DOMAIN es(b) : s = <<Position(f, b), i>>
      BY DEF ToSet
    <2> HIDE DEF n, o
    <2>5. Distinct(o)
      BY <2>1, <2>2, DistinctOf
    <2> QED
      BY <2>3, <2>4, <2>5 DEF Own
  \* The references of a block.
  <1>5. ASSUME NEW b \in blocks
        PROVE  /\ Distinct(g.backs[b])
               /\ \A r : r \in Refs(g, b) <=> \E s \in SlotsInto(f, b) : r = Ref(f.order[s[1]], s)
    <2> DEFINE ss == slots(b)
               r == refs(b)
               n == Len(ss)
    <2>1. Distinct(ss) /\ ToSet(ss) = SlotsInto(f, b)
      BY SlotsInOrder
    <2>2. n \in Nat /\ DOMAIN ss = 1..n /\ \A i, j \in 1..n : ss[i] = ss[j] => i = j
      <3> HIDE DEF ss
      <3> QED
        BY <2>1, DistinctIs DEF Distinct
    <2>3. /\ r = [i \in DOMAIN ss |-> Ref(f.order[ss[i][1]], ss[i])]
          /\ g.backs[b] = r
      BY <1>1
    <2> HIDE DEF ss, r, n
    <2>4. /\ DOMAIN r = 1..n /\ r = [i \in 1..n |-> r[i]]
          /\ \A i \in 1..n : r[i] = Ref(f.order[ss[i][1]], ss[i])
      BY <2>2, <2>3
    <2>5. \A i, j \in 1..n : r[i] = r[j] => i = j
      BY <2>2, <2>4, RefIs
    <2>6. Distinct(r)
      BY <2>2, <2>4, <2>5, DistinctOf
    <2>7. \A x : x \in ToSet(r) <=> \E i \in 1..n : x = r[i]
      BY <2>4 DEF ToSet
    <2>8. \A s : s \in SlotsInto(f, b) <=> \E i \in 1..n : s = ss[i]
      BY <2>1, <2>2 DEF ToSet
    <2>9. \A x : x \in ToSet(r) <=> \E s \in SlotsInto(f, b) : x = Ref(f.order[s[1]], s)
      BY <2>4, <2>7, <2>8
    <2> QED
      BY <2>3, <2>6, <2>9 DEF Refs
  <1> HIDE DEF es, slots, outs, refs
  <1>6. /\ \A b \in blocks : Own(g, b) \subseteq DOMAIN g.edge
        /\ \A b, c \in blocks : b # c => Own(g, b) \cap Own(g, c) = {}
    <2>1. ASSUME NEW b \in blocks, NEW s \in Own(g, b) PROVE s \in Slots(f) /\ f.order[s[1]] = b
      BY <1>3, <1>4, <2>1
    <2> QED
      BY <1>1, <2>1
  <1>7. 1 \in Nat /\ \A k \in Nat : k >= 1 => <<0, k>> \notin DOMAIN g.edge
    <2>1. 0 \notin DOMAIN f.order
      BY <1>3, DistinctIs
    <2> QED
      BY <1>1, <1>3, <2>1
  <1>8. Sound(g)
    BY <1>1, <1>2, <1>3, <1>4, <1>5, <1>6, <1>7 DEF Sound
  <1>9. ASSUME NEW b \in blocks, NEW r \in Refs(g, b) PROVE IsRef(g, b, r)
    <2>1. PICK s \in SlotsInto(f, b) : r = Ref(f.order[s[1]], s)
      BY <1>5
    <2>2. s \in Slots(f) /\ Target(g, s) = b
      BY <1>1 DEF SlotsInto
    <2>3. PICK k \in DOMAIN f.order : \E i \in DOMAIN es(f.order[k]) : s = <<k, i>>
      BY <1>3, <2>2
    <2>4. s[1] = k /\ f.order[k] \in blocks /\ s \in Own(g, f.order[k])
      BY <1>3, <1>4, <2>3
    <2> QED
      BY <1>2, <2>1, <2>2, <2>4, RefIs DEF IsRef
  <1>10. ASSUME NEW c \in blocks, NEW s \in Own(g, c), Target(g, s) \in blocks
         PROVE  Ref(c, s) \in Refs(g, Target(g, s))
    <2>1. s \in Slots(f) /\ f.order[s[1]] = c
      BY <1>3, <1>4
    <2>2. s \in SlotsInto(f, Target(g, s))
      BY <1>1, <2>1 DEF SlotsInto
    <2> QED
      BY <1>5, <1>10, <2>1, <2>2
  <1>11. Backed(g, {})
    BY <1>2, <1>9, <1>10 DEF Backed
  <1> QED
    BY <1>8, <1>11 DEF GraphOK, g

-----------------------------------------------------------------------------
(* What the lemmas on rules come to. *)

\* Consistency, as the rules read the graph.
LEMMA GraphBackwards ==
    ASSUME GraphOK(graph)
    PROVE  BackwardsConsistent
  <1>1. Sound(graph) /\ Backed(graph, {})
    BY DEF GraphOK
  <1> SUFFICES ASSUME NEW n \in NodesOf(graph)
               PROVE  /\ Cardinality({b.edge : b \in ToSet(graph.backs[n])}) = Len(graph.backs[n])
                      /\ ToSet(graph.backs[n]) = Into(graph, NodesOf(graph), n)
    BY DEF BackwardsConsistent
  <1> DEFINE refs == graph.backs[n]
             k == Len(refs)
             D == 1..k
             E == {b.edge : b \in ToSet(refs)}
             f == [i \in D |-> refs[i].edge]
  <1>2. Distinct(refs) /\ k \in Nat /\ DOMAIN refs = D /\ ToSet(refs) = Refs(graph, n)
    BY <1>1, DistinctIs DEF Sound, Refs
  <1>3. \A b \in Refs(graph, n) : IsRef(graph, n, b)
    BY <1>1 DEF Backed
  <1>4. \A b, c \in Refs(graph, n) : b.edge = c.edge => b = c
    BY <1>1, <1>3 DEF Sound, IsRef
  <1>5. ToSet(refs) = Into(graph, NodesOf(graph), n)
    <2>1. \A b : b \in Into(graph, NodesOf(graph), n) <=>
              \E m \in NodesOf(graph) : \E id \in Own(graph, m) : Target(graph, id) = n /\ b = Ref(m, id)
      BY DEF Into, Own, Target, Ref
    <2>2. ASSUME NEW b \in Into(graph, NodesOf(graph), n) PROVE b \in Refs(graph, n)
      BY <1>1, <2>1, <2>2 DEF Backed
    <2>3. ASSUME NEW b \in Refs(graph, n) PROVE b \in Into(graph, NodesOf(graph), n)
      BY <1>3, <2>1, <2>3 DEF IsRef
    <2> QED
      BY <1>2, <2>2, <2>3
  <1>6. f \in [D -> E] /\ \A e \in E : \E i \in D : f[i] = e
    BY <1>2 DEF ToSet
  <1>7. \A i, j \in D : f[i] = f[j] => i = j
    <2>1. \A i \in D : refs[i] \in Refs(graph, n)
      BY <1>2 DEF ToSet
    <2> QED
      BY <1>2, <1>4, <2>1 DEF Distinct
  <1>8. IsFiniteSet(D) /\ Cardinality(D) = k
    <2>1. 1 \in Int /\ k \in Int /\ k - 1 + 1 = k
      BY <1>2
    <2> HIDE DEF k
    <2>2. IsFiniteSet(D) /\ Cardinality(D) = IF 1 > k THEN 0 ELSE k - 1 + 1
      BY <2>1, FS_Interval
    <2>3. k \in Nat
      BY <1>2 DEF k
    <2> QED
      BY <2>2, <2>3
  <1> HIDE DEF D, E, f
  <1>9. f \in Surjection(D, E) /\ f \in Injection(D, E)
    BY <1>6, <1>7 DEF Surjection, Injection, IsInjective
  <1>10. Cardinality(E) = k
    BY <1>8, <1>9, FS_Surjection
  <1> QED
    BY <1>5, <1>10 DEF E

\* The rule taken applies to the node it is taken to.
LEMMA FirstIs ==
    ASSUME sc.seq \in Seq(NodesOf(graph)), NEW r \in 1..8, FirstRule = r
    PROVE  FirstNode(r) \in NodesOf(graph) /\ Applies(r, FirstNode(r))
  <1> DEFINE rules == {q \in 1..8 : Applicable(q) # {}}
             n == Len(sc.seq)
  <1>1. n \in Nat /\ DOMAIN sc.seq = 1..n /\ \A i \in 1..n : sc.seq[i] \in NodesOf(graph)
    OBVIOUS
  <1>2. Applicable(r) # {}
    <2>1. rules # {}
      BY DEF FirstRule
    <2>2. 8 \in Nat /\ rules \subseteq 1..8
      OBVIOUS
    <2>3. Least(rules) \in rules /\ \A q \in rules : Least(rules) <= q
      <3> HIDE DEF rules
      <3> QED
        BY <2>1, <2>2, LeastIs
    <2>4. \A q \in 1..(Least(rules) - 1) : Applicable(q) = {}
      <3>1. Least(rules) \in 1..8
        BY <2>2, <2>3
      <3>2. \A q \in 1..(Least(rules) - 1) : q \in 1..8 /\ ~(Least(rules) <= q)
        BY <3>1
      <3> QED
        BY <2>3, <3>2
    <2>5. \E q \in 1..8 : Applicable(q) # {} /\ \A p \in 1..(q - 1) : Applicable(p) = {}
      BY <2>3, <2>4
    <2> QED
      BY <2>1, <2>5 DEF FirstRule
  <1>3. Applicable(r) \subseteq 1..n
    BY <1>1 DEF Applicable
  <1>4. Least(Applicable(r)) \in Applicable(r)
    BY <1>1, <1>2, <1>3, LeastIs
  <1> QED
    BY <1>1, <1>3, <1>4 DEF Applicable, FirstNode

\* One step of the main loop.
LEMMA StepKeeps ==
    ASSUME GraphOK(graph), NamesOK, [Next]_vars
    PROVE  GraphOK(graph')
  <1>1. sc.seq \in Seq(NodesOf(graph)) /\ HelpersNew
    BY DEF NamesOK
  <1>2. \A r \in 1..8 : FirstRule = r => FirstNode(r) \in NodesOf(graph) /\ Applies(r, FirstNode(r))
    BY <1>1, FirstIs
  <1>3. CASE EliminateLeaf
    <2>1. FirstRule = 1 /\ graph' = eliminate_leaf(graph, FirstNode(1)).g
      BY <1>3 DEF EliminateLeaf, Take
    <2>2. FirstNode(1) \in NodesOf(graph) /\ leaf_applies(graph, FirstNode(1))
      BY <1>2, <2>1 DEF Applies
    <2> QED
      BY <2>1, <2>2, EliminateLeafKeeps
  <1>4. CASE EliminateBridge
    <2>1. FirstRule = 2 /\ graph' = eliminate_bridge(graph, FirstNode(2)).g
      BY <1>4 DEF EliminateBridge, Take
    <2>2. FirstNode(2) \in NodesOf(graph) /\ bridge_applies(graph, FirstNode(2))
      BY <1>2, <2>1 DEF Applies
    <2> QED
      BY <2>1, <2>2, EliminateBridgeKeeps
  <1>5. CASE MergeBranches
    <2>1. FirstRule = 3 /\ graph' = merge_branches(graph, FirstNode(3)).g
      BY <1>5 DEF MergeBranches, Take
    <2>2. FirstNode(3) \in NodesOf(graph) /\ merge_applies(graph, FirstNode(3))
      BY <1>2, <2>1 DEF Applies
    <2> QED
      BY <2>1, <2>2, MergeBranchesKeeps
  <1>6. CASE DestructScc
    <2>1. graph' = destruct_scc(graph, sc.scc, sc.scc[FirstNode(4)]).g
      BY <1>6 DEF DestructScc, Take
    <2> QED
      BY <2>1, DestructSccKeeps
  <1>7. CASE DestructInnerScc
    <2> DEFINE scc == sc.scc
               number == scc[FirstNode(5)]
               ns == SccNodes(graph, scc, number)
               P == TheEntry(graph, scc, ns)
    <2>1. pc = "running" /\ FirstRule = 5 /\ graph' = destruct_inner_scc(graph, scc, number).g
      BY <1>7 DEF DestructInnerScc, Take
    <2>2. Entries(graph, scc, ns) # {} =>
              Unused(graph, PrepOf(P)) /\ Unused(graph, SuccOf(P)) /\ PrepOf(P) # SuccOf(P)
      BY <1>1, <2>1 DEF HelpersNew
    <2> QED
      BY <2>1, <2>2, DestructInnerSccKeeps
  <1>8. CASE ConstructLoop
    <2>1. FirstRule = 6 /\ graph' = construct_loop(graph, FirstNode(6)).g
      BY <1>8 DEF ConstructLoop, Take
    <2>2. FirstNode(6) \in NodesOf(graph)
      BY <1>2, <2>1
    <2> QED
      BY <2>1, <2>2, ConstructLoopKeeps
  <1>9. CASE MergeBranchesLocal
    <2>1. FirstRule = 7 /\ graph' = merge_branches_local(graph, FirstNode(7)).g
      BY <1>9 DEF MergeBranchesLocal, Take
    <2>2. FirstNode(7) \in NodesOf(graph) /\ local_applies(graph, FirstNode(7))
      BY <1>2, <2>1 DEF Applies
    <2> QED
      BY <2>1, <2>2, MergeBranchesLocalKeeps
  <1>10. CASE DuplicateNode
    <2>1. FirstRule = 8 /\ graph' = duplicate_node(graph, FirstNode(8)).g
      BY <1>10 DEF DuplicateNode, Take
    <2>2. FirstNode(8) \in NodesOf(graph) /\ duplicate_applies(graph, FirstNode(8))
      BY <1>2, <2>1 DEF Applies
    <2> QED
      BY <2>1, <2>2, DuplicateNodeKeeps
  <1>11. CASE GiveUp
    BY <1>11 DEF GiveUp
  <1>12. CASE UNCHANGED vars
    BY <1>12 DEF vars
  <1> QED
    BY <1>3, <1>4, <1>5, <1>6, <1>7, <1>8, <1>9, <1>10, <1>11, <1>12 DEF Next

(***************************************************************************)
(* Whatever function is converted, every rule leaves the backward          *)
(* references of the graph the edges seen from their targets, as long as   *)
(* the search that orders the nodes lists only nodes and the nodes put     *)
(* around an inner loop get names no node has (control_flow.cpp:653        *)
(* overwrites a node of the name).                                         *)
(***************************************************************************)
THEOREM GraphConsistent == Spec /\ []NamesOK => []GraphOK(graph)
  <1>1. Init => GraphOK(graph)
    BY BuildKeeps DEF Init
  <1>2. GraphOK(graph) /\ NamesOK /\ [Next]_vars => GraphOK(graph)'
    <2>1. SUFFICES ASSUME GraphOK(graph), NamesOK, [Next]_vars PROVE GraphOK(graph')
      OBVIOUS
    <2> QED
      BY <2>1, StepKeeps
  <1> QED
    BY <1>1, <1>2, PTL DEF Spec

\* The same, as the property the runs check: a rule that looks for the ways into a
\* node finds every one, and only those.
THEOREM SpecBackwards == Spec /\ []NamesOK => []BackwardsConsistent
  <1>1. GraphOK(graph) => BackwardsConsistent
    BY GraphBackwards
  <1> QED
    BY <1>1, GraphConsistent, PTL
===============================================================================
