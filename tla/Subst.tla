--------------------------------- MODULE Subst ---------------------------------
(***************************************************************************)
(* Names, free variables and substitution (optimizations/rules.cpp): what  *)
(* every rewriting rule that moves a node under a binder rests on.         *)
(*                                                                         *)
(* free_vars is a walk over one accumulating set, so it is written as a    *)
(* function of the set collected so far.  The renamings of subst_v2 and    *)
(* eliminate_ambiguity visit a hash table; it is taken in the reverse      *)
(* order of insertion, as the build's library keeps a table of few names.  *)
(***************************************************************************)
EXTENDS SpecLang

RECURSIVE free_vars_from(_, _)
RECURSIVE contains_vars(_, _)
RECURSIVE subst(_, _, _)
RECURSIVE pattern_names(_)
RECURSIVE subst_v2(_, _)
RECURSIVE eliminate_ambiguity(_, _)

(* The text counted up from x until it is not in prev. *)
pick_new_name(x, prev) ==
    IF x \notin prev THEN x
    ELSE LET free == {i \in 0..(Cardinality(prev) + x[2] + 1) :
                         i > x[2] /\ <<x[1], i>> \notin prev}
         IN  <<x[1], CHOOSE i \in free : \A j \in free : i <= j>>

(***************************************************************************)
(* Free variables, as the code collects them.                              *)
(***************************************************************************)
free_vars_from(n, free) ==
    CASE n.k = "sym"   -> IF is_known_symbol(n.x) THEN free ELSE free \cup {n.x}
      [] n.k = "match" ->
            FoldLeft(LAMBDA acc, a :
                        free_vars_from(a.body, acc) \ collect_symbols(a.pattern),
                     free_vars_from(n.src, free), n.arms)
      [] IsQuant(n)    -> free_vars_from(n.body, free) \ {n.vars[i].name : i \in DOMAIN n.vars}
      [] OTHER         -> FoldLeft(LAMBDA acc, kid : free_vars_from(kid, acc), free, Kids(n))
free_vars(n) == free_vars_from(n, {})

contains_vars(n, vars) ==
    CASE n.k = "sym"   -> n.x \in vars
      [] n.k = "match" ->
            \/ contains_vars(n.src, vars)
            \/ \E i \in DOMAIN n.arms :
                 contains_vars(n.arms[i].body, vars \ get_vars_from_pattern(n.arms[i].pattern))
      [] OTHER         -> \E i \in DOMAIN Kids(n) : contains_vars(Kids(n)[i], vars)

(***************************************************************************)
(* subst: an arm whose pattern binds the name is left alone; a name free   *)
(* in v that the pattern binds is not looked for, nor are the names of a   *)
(* quantifier.                                                             *)
(***************************************************************************)
subst(n, x, v) ==
    CASE n.k = "sym"   -> IF n.x = x THEN v ELSE n
      [] n.k = "match" ->
            Match(subst(n.src, x, v),
                  Each(LAMBDA a : IF x \in collect_symbols(a.pattern) THEN a
                                  ELSE Arm(a.pattern, subst(a.body, x, v)), n.arms))
      [] IsQuant(n)    ->
            [n EXCEPT !.vars = Each(LAMBDA q : [q EXCEPT !.hypo = Each(LAMBDA h : subst(h, x, v), @)], @),
                      !.body = subst(@, x, v)]
      [] OTHER         -> Rebuild(n, Each(LAMBDA kid : subst(kid, x, v), Kids(n)))

(* The names a pattern's variables are given, one after the other, so that *)
(* each is outside `taken` and differs from the pattern's other names.     *)
FreshNames(names, taken) ==
    FoldRight(LAMBDA x, acc :
                 LET new == pick_new_name(x, acc.taken \cup (ToSet(names) \ {x}))
                 IN  [taken |-> acc.taken \cup {new}, map |-> (x :> new) @@ acc.map],
              SelectSeq(names, LAMBDA x : x # N("_") /\ ~is_known_symbol(x)),
              [taken |-> taken, map |-> <<>>])

pattern_names(p) ==
    CASE p.k = "sym"  -> <<p.x>>
      [] p.k = "expr" -> FlattenSeq([i \in DOMAIN p.e |-> pattern_names(p.e[i])])
      [] OTHER        -> <<>>

Renamed(map) == {x \in DOMAIN map : map[x] # x}
Symbols(map) == [x \in Renamed(map) |-> Sym(map[x])]

(***************************************************************************)
(* subst_v2: simultaneous substitution of sub, a function from names to    *)
(* nodes; a binder that occurs in a value, or in the body, is renamed.     *)
(***************************************************************************)
(* The substitution that goes under binders named ns, and their new names. *)
Under(ns, sub) == [x \in DOMAIN sub \ ToSet(ns) |-> sub[x]]
NamesIn(sub) == UNION {free_vars(sub[x]) : x \in DOMAIN sub}
NewNames(ns, free, sub) == FreshNames(ns, free \cup NamesIn(Under(ns, sub))).map

(* A body under the binders ns, given new names by re. *)
SubstBody(body, ns, re, sub) == subst_v2(subst_v2(body, re), Under(ns, sub))
SubstArm(a, ns, re, sub) == Arm(subst_v2(a.pattern, re), SubstBody(a.body, ns, re, sub))
SubstQuantifier(n, ns, map, sub) ==
    [n EXCEPT !.vars = [i \in DOMAIN n.vars |->
                 [name |-> map[ns[Len(ns) + 1 - i]],
                  hypo |-> Each(LAMBDA h : subst_v2(h, sub), n.vars[i].hypo)]],
              !.body = SubstBody(@, ns, Symbols(map), sub)]

MatchSubst(a, ns, sub) ==
    SubstArm(a, ns, Symbols(NewNames(ns, free_vars(a.body) \ ToSet(ns), sub)), sub)
QuantSubst(n, ns, sub) == SubstQuantifier(n, ns, NewNames(ns, free_vars(n.body), sub), sub)
subst_v2(n, sub) ==
    IF sub = <<>> THEN n ELSE
    CASE n.k = "sym"   -> IF n.x \in DOMAIN sub THEN sub[n.x] ELSE n
      [] n.k = "match" ->
            Match(subst_v2(n.src, sub),
                  Each(LAMBDA a : MatchSubst(a, pattern_names(a.pattern), sub), n.arms))
      [] IsQuant(n)    -> QuantSubst(n, Each(LAMBDA v : v.name, n.vars), sub)
      [] OTHER         -> Rebuild(n, Each(LAMBDA kid : subst_v2(kid, sub), Kids(n)))

(***************************************************************************)
(* eliminate_ambiguity: every pattern variable gets a name outside prev,   *)
(* its source and its body.  A quantifier's body is renamed as well, its   *)
(* variables are not.                                                      *)
(***************************************************************************)
eliminate_ambiguity(n, prev) ==
    CASE n.k = "match" ->
            LET src == eliminate_ambiguity(n.src, prev)
                Clear(a) ==
                    LET ns    == pattern_names(a.pattern)
                        fresh == FreshNames(ns, (free_vars(a.body) \ ToSet(ns))
                                                  \cup prev \cup free_vars(src))
                        Rename(m) == FoldRight(LAMBDA x, acc : subst(acc, x, Sym(fresh.map[x])),
                                               SelectSeq(ns, LAMBDA x : x \in Renamed(fresh.map)), m)
                    IN  Arm(Rename(a.pattern), Rename(eliminate_ambiguity(a.body, fresh.taken)))
            IN  Match(src, Each(Clear, n.arms))
      [] IsQuant(n)    ->
            LET ns == [i \in DOMAIN n.vars |-> n.vars[i].name]
                Rename(acc, x) ==
                    LET new == pick_new_name(x, acc.taken \cup (ToSet(ns) \ {x}))
                    IN  [taken |-> acc.taken \cup {new},
                         body |-> IF new = x THEN acc.body ELSE subst(acc.body, x, Sym(new))]
                done == FoldLeft(Rename, [taken |-> (free_vars(n.body) \ ToSet(ns)) \cup prev,
                                          body |-> n.body], ns)
            IN  [n EXCEPT !.vars = [i \in DOMAIN n.vars |-> [n.vars[i] EXCEPT
                              !.hypo = Each(LAMBDA h : eliminate_ambiguity(h, done.taken), @)]],
                          !.body = eliminate_ambiguity(done.body, prev)]
      [] OTHER         -> Rebuild(n, Each(LAMBDA kid : eliminate_ambiguity(kid, prev), Kids(n)))
===============================================================================
