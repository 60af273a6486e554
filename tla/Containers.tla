------------------------------ MODULE Containers ------------------------------
(***************************************************************************)
(* What the program does with std::map and std::vector, on functions and   *)
(* sequences: an entry is set, entries are erased, one map is laid over    *)
(* another, and a vector loses the elements an erasing loop removes, the   *)
(* others keeping their order.                                             *)
(***************************************************************************)
EXTENDS Integers, FiniteSets, Sequences

Updated(f, k, v) == [x \in DOMAIN f \cup {k} |-> IF x = k THEN v ELSE f[x]]
Without(f, keys) == [x \in DOMAIN f \ keys |-> f[x]]

(* The entries of g, with those of f before them. *)
LaidOver(f, g) == [x \in DOMAIN f \cup DOMAIN g |-> IF x \in DOMAIN f THEN f[x] ELSE g[x]]

(* The k-th element of a finite set in the order R, given by its pairs,    *)
(* and the set as a sequence in that order.                                *)
NthBy(R, P, k) == CHOOSE x \in P : Cardinality({y \in P : <<y, x>> \in R}) = k - 1
InOrder(R, P) == [k \in 1..Cardinality(P) |-> NthBy(R, P, k)]

(* The k-th smallest of a set of numbers, and the elements of s at the     *)
(* positions P, in their order.                                            *)
Nth(P, k) == NthBy({p \in P \X P : p[1] < p[2]}, P, k)
Least(P) == Nth(P, 1)
Subsequence(s, P) == [k \in 1..Cardinality(P) |-> s[Nth(P, k)]]

(* A vector that holds nothing twice. *)
Distinct(s) == s \in Seq({s[i] : i \in DOMAIN s}) /\ \A i, j \in DOMAIN s : s[i] = s[j] => i = j
===============================================================================
