----------------------------- MODULE MemoryRegions -----------------------------
(***************************************************************************)
(* The memory a project takes for granted (AbstractPattern with an         *)
(* address and a size) and the check that no two regions of it overlap     *)
(* (Project::prepare_abstraction): the bounds are read as ints, sorted,    *)
(* and each region is compared with the next.                              *)
(*                                                                         *)
(* rs is cmds.AbstractConstant, a sequence of [start, size, wrapper].      *)
(***************************************************************************)
EXTENDS Integers, Sequences

CONSTANT IntLimit       \* the least natural number an int does not hold

ASSUME IntLimitAssumption == IntLimit \in Nat \ {0}

(* The low bits of u as an int. *)
AsInt(u) ==
    LET w == u % (2 * IntLimit) IN IF w < IntLimit THEN w ELSE w - 2 * IntLimit

First(rs, i)  == AsInt(rs[i].start)
Second(rs, i) == AsInt(rs[i].start + rs[i].size)

(* The order of std::sort on pairs, and the regions that come to lie side *)
(* by side.                                                               *)
Before(rs, i, j) ==
    \/ First(rs, i) < First(rs, j)
    \/ First(rs, i) = First(rs, j) /\ Second(rs, i) < Second(rs, j)
    \/ First(rs, i) = First(rs, j) /\ Second(rs, i) = Second(rs, j) /\ i < j
Neighbours(rs) ==
    {pair \in (DOMAIN rs) \X (DOMAIN rs) :
        /\ Before(rs, pair[1], pair[2])
        /\ ~\E k \in DOMAIN rs : Before(rs, pair[1], k) /\ Before(rs, k, pair[2])}

(* A plausible slip: only a nested region overlaps. *)
Within(rs, i, j)      == Second(rs, j) <= Second(rs, i)
Overlapping(rs, i, j) == First(rs, j) <= Second(rs, i)

(* Both assertions hold. *)
Accepted(rs) ==
    /\ \A i \in DOMAIN rs : rs[i].size > 0
    /\ \A pair \in Neighbours(rs) : ~Overlapping(rs, pair[1], pair[2])

(* What the regions have in common, for bounds an int can hold. *)
Fits(rs)     == \A i \in DOMAIN rs : rs[i].start + rs[i].size < IntLimit
Words(r)     == r.start..(r.start + r.size - 1)
Disjoint(rs) == \A i, j \in DOMAIN rs : i # j => Words(rs[i]) \cap Words(rs[j]) = {}
===============================================================================
