-------------------------- MODULE QueryCache_proofs --------------------------
(***************************************************************************)
(* How far Z3Cache can be trusted, for every set of formulas, every        *)
(* meaning, every injective hash and every collection of goals: an answer  *)
(* taken from it is right under lemmas its own goal has put the question   *)
(* under; so it is as right as a computed one unless the lemmas changed in *)
(* between, which nothing in the key would show.                           *)
(***************************************************************************)
EXTENDS QueryCache, TLAPS, WellFoundedInduction

\* The largest path condition is one of the path conditions: a nonempty set of
\* bounded hashes has a maximum.
LEMMA LargestPresent ==
    ASSUME NEW m \in [Formulas -> Nat], Present(m) # {}
    PROVE  Largest(m) \in Present(m)
<1> DEFINE Gap(f) == MaxHash - HashOf[f]
           T == {Gap(f) : f \in Present(m)}
<1>1. \A f \in Formulas : HashOf[f] \in Nat /\ Gap(f) \in Nat
  <2> TAKE f \in Formulas
  <2>1. HashOf[f] \in 0..MaxHash /\ MaxHash \in Nat
    BY HashAssumption
  <2> QED BY <2>1
<1>2. T \subseteq Nat /\ T # {}
  BY <1>1 DEF Present
<1>3. \E x \in T : \A y \in T : <<y, x>> \notin OpToRel(<, Nat)
  <2> HIDE DEF T
  <2> QED BY <1>2, NatLessThanWellFounded, WFMin, Zenon
<1>4. PICK f \in Present(m) : \A y \in T : <<y, Gap(f)>> \notin OpToRel(<, Nat)
  BY <1>3
<1>5. \A h \in Present(m) : ~(Gap(h) < Gap(f))
  <2> SUFFICES ASSUME NEW h \in Present(m) PROVE ~(Gap(h) < Gap(f))
    OBVIOUS
  <2>1. Gap(h) \in T /\ Gap(h) \in Nat /\ Gap(f) \in Nat
    BY <1>1 DEF Present
  <2>2. <<Gap(h), Gap(f)>> \notin OpToRel(<, Nat)
    BY <1>4, <2>1
  <2> QED BY <2>1, <2>2 DEF OpToRel
<1>6. \A h \in Present(m) : HashOf[h] <= HashOf[f]
  <2> TAKE h \in Present(m)
  <2>1. HashOf[h] \in Nat /\ HashOf[f] \in Nat /\ MaxHash \in Nat
    BY <1>1, HashAssumption DEF Present
  <2>2. ~(Gap(h) < Gap(f))
    BY <1>5
  <2> QED BY <2>1, <2>2
<1> QED BY <1>4, <1>6 DEF Largest

\* The formulas on the path of a query with its condition added.
Constraints(q) == Present(q.conds) \cup (IF q.cond = NoCond THEN {} ELSE {q.cond})

\* What the key of a query says of the query: the formulas it constrains the
\* solver with (a condition counts as one more path condition).
LEMMA KeyConstraints ==
    ASSUME NEW q \in Query
    PROVE  Present(KeyOf(q).front) \cup ({KeyOf(q).last} \ {NoCond}) = Constraints(q)
<1>1. CASE q.cond # NoCond
  BY <1>1 DEF KeyOf, Constraints
<1>2. CASE q.cond = NoCond /\ Present(q.conds) = {}
  BY <1>2 DEF KeyOf, Constraints
<1>3. CASE q.cond = NoCond /\ Present(q.conds) # {}
  <2> DEFINE m == q.conds
             top == Largest(m)
             rest == [m EXCEPT ![top] = @ - 1]
  <2>1. m \in [Formulas -> Nat]
    BY DEF Query
  <2>2. top \in Formulas /\ m[top] > 0 /\ top # NoCond
    <3>1. top \in Present(m)
      BY <1>3, <2>1, LargestPresent
    <3> QED BY <3>1, FormulaAssumption DEF Present
  <2>3. Present(rest) \cup {top} = Present(m)
    <3> HIDE DEF top
    <3> QED BY <2>1, <2>2 DEF Present
  <2>4. KeyOf(q).front = rest /\ KeyOf(q).last = top
    BY <1>3 DEF KeyOf
  <2> QED BY <1>3, <2>2, <2>3, <2>4 DEF Constraints
<1> QED BY <1>1, <1>2, <1>3

-----------------------------------------------------------------------------

\* What an entry of the cache promises to every query of key k asked under lemmas L.
EntrySound(k, r, L) ==
    /\ r = "True" => Sat(Present(k.front) \cup L) \subseteq Holds[k.last]
    /\ r = "False" => Sat(Present(k.front) \cup ({k.last} \ {NoCond}) \cup L) = {}

(***************************************************************************)
(* The inductive invariant.  AnswerSound alone is not inductive: it says   *)
(* nothing of what is in the cache.  As long as only transformer goals     *)
(* were run an entry is sound without lemmas; in a proof it is sound under *)
(* the lemmas of a query that was put since the proof began.               *)
(***************************************************************************)
CacheSound ==
    \A k \in DOMAIN cache :
        /\ goal \in Transforms => EntrySound(k, cache[k], {})
        /\ goal \notin Transforms =>
              \E p \in asked : KeyOf(p) = k /\ EntrySound(k, cache[k], p.lemmas)

IInv == TypeOK /\ CacheSound /\ AnswerSound

\* What satisfies a path satisfies a part of it.
LEMMA SatMonotonic ==
    ASSUME NEW s \in SUBSET Formulas, NEW t \in SUBSET s
    PROVE  Sat(s) \subseteq Sat(t)
BY DEF Sat

\* Satisfying a path with one more condition.
LEMMA SatWith ==
    ASSUME NEW s \in SUBSET Formulas, NEW f \in Formulas
    PROVE  Sat(s \cup {f}) = Sat(s) \cap Holds[f]
BY FormulaAssumption DEF Sat

\* The solver is told at most what holds on the path.
LEMMA ReachableAsserted ==
    ASSUME NEW q \in Query
    PROVE  Reachable(q) \subseteq Asserted(q)
BY DEF Reachable, Asserted, Sat, Query, Present

\* A path and its conditions have a key.
LEMMA KeyInKeys ==
    ASSUME NEW q \in Query
    PROVE  KeyOf(q) \in Keys
<1>1. CASE q.cond # NoCond \/ Present(q.conds) = {}
  BY <1>1 DEF KeyOf, Keys, Query
<1>2. CASE q.cond = NoCond /\ Present(q.conds) # {}
  <2> DEFINE top == Largest(q.conds)
  <2>1. q.conds \in [Formulas -> Nat] /\ q.timeout \in Nat
    BY DEF Query
  <2>2. top \in Formulas /\ q.conds[top] > 0
    <3>1. top \in Present(q.conds)
      BY <1>2, <2>1, LargestPresent
    <3> QED BY <3>1 DEF Present
  <2>3. KeyOf(q) = [front |-> [q.conds EXCEPT ![top] = @ - 1], last |-> top,
                    timeout |-> q.timeout]
    BY <1>2 DEF KeyOf
  <2>4. [q.conds EXCEPT ![top] = @ - 1] \in [Formulas -> Nat]
    <3> HIDE DEF top
    <3> QED BY <2>1, <2>2
  <2> QED BY <2>1, <2>2, <2>3, <2>4 DEF Keys
<1> QED BY <1>1, <1>2

\* What a sound entry means for a query about a condition.
LEMMA EntryForCondition ==
    ASSUME NEW q \in Query, q.cond # NoCond, NEW r, EntrySound(KeyOf(q), r, q.lemmas)
    PROVE  /\ r = "True" => Entailed(q)
           /\ r = "False" => Refuted(q)
<1>1. KeyOf(q).front = q.conds /\ KeyOf(q).last = q.cond
  BY DEF KeyOf
<1>2. q.cond \in Formulas /\ Present(q.conds) \cup q.lemmas \in SUBSET Formulas
  BY DEF Query, Present
<1>3. r = "True" => Entailed(q)
  BY <1>1 DEF EntrySound, Entailed, Reachable
<1>4. Present(q.conds) \cup ({q.cond} \ {NoCond}) \cup q.lemmas
        = (Present(q.conds) \cup q.lemmas) \cup {q.cond}
  OBVIOUS
<1>5. r = "False" => Refuted(q)
  BY <1>1, <1>2, <1>4, SatWith DEF EntrySound, Refuted, Reachable
<1> QED BY <1>3, <1>5

\* What a sound entry means for a query about the path alone.
LEMMA EntryForPath ==
    ASSUME NEW q \in Query, q.cond = NoCond, NEW r, EntrySound(KeyOf(q), r, q.lemmas)
    PROVE  r = "False" => Reachable(q) = {}
<1>1. Present(KeyOf(q).front) \cup ({KeyOf(q).last} \ {NoCond}) = Present(q.conds)
  BY KeyConstraints DEF Constraints
<1> QED BY <1>1 DEF EntrySound, Reachable

\* What z3_check stores is sound for the query it was asked.
LEMMA CheckStores ==
    ASSUME NEW q \in Query, q.cond # NoCond,
           NEW pos \in SolverAnswers(Asserted(q) \cap Holds[q.cond]),
           NEW neg \in SolverAnswers(Asserted(q) \ Holds[q.cond])
    PROVE  EntrySound(KeyOf(q), CheckVerdict(pos, neg), q.lemmas)
<1>1. KeyOf(q).front = q.conds /\ KeyOf(q).last = q.cond
  BY DEF KeyOf
<1>2. q.cond \in Formulas /\ Present(q.conds) \cup q.lemmas \in SUBSET Formulas
  BY DEF Query, Present
<1>3. Reachable(q) \subseteq Asserted(q)
  BY ReachableAsserted
<1>4. CheckVerdict(pos, neg) = "True" => Reachable(q) \subseteq Holds[q.cond]
  BY <1>3 DEF CheckVerdict, SolverAnswers
<1>5. CheckVerdict(pos, neg) = "False" => Reachable(q) \cap Holds[q.cond] = {}
  BY <1>3 DEF CheckVerdict, SolverAnswers
<1>6. Present(q.conds) \cup ({q.cond} \ {NoCond}) \cup q.lemmas
        = (Present(q.conds) \cup q.lemmas) \cup {q.cond}
  OBVIOUS
<1> QED BY <1>1, <1>2, <1>4, <1>5, <1>6, SatWith DEF EntrySound, Reachable

\* What the check of a path stores is sound for the query it was asked.
LEMMA CheckStateStores ==
    ASSUME NEW q \in Query, q.cond = NoCond, NEW ans \in SolverAnswers(Asserted(q))
    PROVE  EntrySound(KeyOf(q), StateVerdict(ans), q.lemmas)
<1>1. Present(KeyOf(q).front) \cup ({KeyOf(q).last} \ {NoCond}) = Present(q.conds)
  BY KeyConstraints DEF Constraints
<1>2. StateVerdict(ans) = "False" => Reachable(q) = {}
  BY ReachableAsserted DEF StateVerdict, SolverAnswers
<1>3. StateVerdict(ans) # "True"
  BY DEF StateVerdict
<1> QED BY <1>1, <1>2, <1>3 DEF EntrySound, Reachable

-----------------------------------------------------------------------------

\* The queries of the goal at hand are well formed, and those of a transformer
\* goal carry no lemmas.
LEMMA GoalQueries ==
    ASSUME TypeOK, NEW q \in goal
    PROVE  /\ q \in Query
           /\ goal \in Transforms => q.lemmas = {}
BY GoalAssumption DEF TypeOK, Goals

\* The key of a query does not say which lemmas it was put under.
LEMMA KeyIgnoresLemmas ==
    ASSUME NEW q \in Query, NEW L \in SUBSET Formulas
    PROVE  /\ [q EXCEPT !.lemmas = L] \in Query
           /\ [q EXCEPT !.lemmas = L].lemmas = L
           /\ [q EXCEPT !.lemmas = L].cond = q.cond
           /\ KeyOf([q EXCEPT !.lemmas = L]) = KeyOf(q)
<1> DEFINE p == [q EXCEPT !.lemmas = L]
<1>1. p \in Query /\ p.lemmas = L
  BY DEF Query
<1>2. p.conds = q.conds /\ p.cond = q.cond /\ p.timeout = q.timeout
  BY DEF Query
<1>3. KeyOf(p) = KeyOf(q)
  <2> HIDE DEF p
  <2> QED BY <1>2 DEF KeyOf
<1> QED BY <1>1, <1>2, <1>3

\* An entry the goal at hand can hit is sound under lemmas the goal has put the
\* key under, the query that hits it included.
LEMMA HitSound ==
    ASSUME TypeOK, CacheSound, NEW q \in goal, KeyOf(q) \in DOMAIN cache
    PROVE  \E p \in asked \cup {q} :
               KeyOf(p) = KeyOf(q) /\ EntrySound(KeyOf(q), cache[KeyOf(q)], p.lemmas)
<1>1. CASE goal \in Transforms
  BY <1>1, GoalQueries DEF CacheSound
<1>2. CASE goal \notin Transforms
  BY <1>2 DEF CacheSound
<1> QED BY <1>1, <1>2

\* A hit keeps the invariant: what is returned is right under lemmas the key was
\* put under.
LEMMA HitStep ==
    ASSUME IInv, NEW q \in goal, NEW fn \in {"z3_check", "z3_check_state", "z3_check_unsat"},
           fn = "z3_check_state" <=> q.cond = NoCond, CacheHit(fn, q)
    PROVE  IInv'
<1> DEFINE r == cache[KeyOf(q)]
<1>1. q \in Query /\ TypeOK /\ CacheSound
  BY GoalQueries DEF IInv
<1>2. /\ KeyOf(q) \in DOMAIN cache /\ r \in {"True", "False", "Unknown"}
      /\ goal' = goal /\ cache' = cache /\ asked' = asked \cup {q}
      /\ answer' = [fn |-> fn, query |-> q, result |-> r, cached |-> TRUE]
  BY <1>1 DEF CacheHit, Answer, TypeOK
<1>3. TypeOK'
  BY <1>1, <1>2 DEF TypeOK, Calls, Results
<1>4. CacheSound'
  BY <1>1, <1>2 DEF CacheSound
<1>5. PICK p \in asked \cup {q} : KeyOf(p) = KeyOf(q) /\ EntrySound(KeyOf(q), r, p.lemmas)
  BY <1>1, <1>2, HitSound
<1>6. p.lemmas \in SUBSET Formulas
  <2>1. p \in Query
    BY <1>1, <1>5, GoalQueries DEF TypeOK
  <2> QED BY <2>1 DEF Query
<1>7. Right(fn, r, [q EXCEPT !.lemmas = p.lemmas])
  <2> DEFINE t == [q EXCEPT !.lemmas = p.lemmas]
  <2>1. t \in Query /\ t.cond = q.cond /\ EntrySound(KeyOf(t), r, t.lemmas)
    BY <1>1, <1>5, <1>6, KeyIgnoresLemmas
  <2>2. Right(fn, r, t)
    <3> HIDE DEF t, r
    <3>1. CASE q.cond # NoCond
      <4>1. (r = "True" => Entailed(t)) /\ (r = "False" => Refuted(t))
        BY <2>1, <3>1, EntryForCondition
      <4> QED BY <3>1, <4>1 DEF Right
    <3>2. CASE q.cond = NoCond
      <4>1. r = "False" => Reachable(t) = {}
        BY <2>1, <3>2, EntryForPath
      <4> QED BY <3>2, <4>1 DEF Right
    <3> QED BY <3>1, <3>2
  <2> QED BY <2>2
<1>8. AnswerSound'
  <2>1. p.lemmas \in LemmasAsked(q)'
    BY <1>2, <1>5 DEF LemmasAsked
  <2> QED BY <1>2, <1>7, <2>1 DEF AnswerSound, LemmasAsked
<1> QED BY <1>3, <1>4, <1>8 DEF IInv

\* A computed answer that is right about its query keeps the answers sound.
LEMMA FreshSound ==
    ASSUME NEW q \in Query, NEW fn \in Calls, NEW r \in Results,
           Answer(fn, q, r, FALSE), Right(fn, r, q)
    PROVE  AnswerSound'
<1>1. [q EXCEPT !.lemmas = q.lemmas] = q
  BY DEF Query
<1>2. answer' = [fn |-> fn, query |-> q, result |-> r, cached |-> FALSE]
  BY DEF Answer
<1> QED BY <1>1, <1>2 DEF AnswerSound

\* An answer of any kind keeps the types of what it does not touch.
LEMMA AnswerTyped ==
    ASSUME TypeOK, NEW q \in goal, NEW fn \in Calls, NEW r \in Results, NEW hit \in BOOLEAN,
           Answer(fn, q, r, hit), goal' = goal, DOMAIN cache' \subseteq Keys,
           \A k \in DOMAIN cache' : cache'[k] \in {"True", "False", "Unknown"}
    PROVE  TypeOK'
BY GoalQueries DEF TypeOK, Answer

\* Storing a result that is sound for its own query keeps the cache sound: the
\* query has been put.
LEMMA StoreSound ==
    ASSUME TypeOK, CacheSound, NEW q \in goal, NEW r \in {"True", "False", "Unknown"},
           EntrySound(KeyOf(q), r, q.lemmas),
           cache' = Store(KeyOf(q), r), goal' = goal, asked' = asked \cup {q}
    PROVE  /\ CacheSound'
           /\ DOMAIN cache' \subseteq Keys
           /\ \A k \in DOMAIN cache' : cache'[k] \in {"True", "False", "Unknown"}
<1>1. q \in Query /\ (goal \in Transforms => q.lemmas = {})
  BY GoalQueries
<1>2. KeyOf(q) \in Keys
  BY <1>1, KeyInKeys
<1>3. /\ DOMAIN cache' = DOMAIN cache \cup {KeyOf(q)}
      /\ \A k \in DOMAIN cache' : cache'[k] = IF k = KeyOf(q) THEN r ELSE cache[k]
  BY DEF Store
<1>4. CacheSound'
  <2> SUFFICES ASSUME NEW k \in DOMAIN cache'
               PROVE  /\ goal \in Transforms => EntrySound(k, cache'[k], {})
                      /\ goal \notin Transforms =>
                            \E p \in asked' : KeyOf(p) = k /\ EntrySound(k, cache'[k], p.lemmas)
    BY DEF CacheSound
  <2>1. CASE k # KeyOf(q)
    BY <1>3, <2>1 DEF CacheSound
  <2>2. CASE k = KeyOf(q)
    BY <1>1, <1>3, <2>2
  <2> QED BY <2>1, <2>2
<1> QED BY <1>2, <1>3, <1>4 DEF TypeOK

-----------------------------------------------------------------------------

\* Every step of Z3's five entry points and of the program around them keeps
\* the inductive invariant.
LEMMA InitIInv ==
    ASSUME Init
    PROVE  IInv
BY DEF Init, IInv, TypeOK, CacheSound, AnswerSound, NoAnswer, Calls, Query, Results

\* z3_check keeps the invariant, whether the cache knows the answer or not.
LEMMA CheckStep ==
    ASSUME IInv, NEW q \in goal, Check(q)
    PROVE  IInv'
<1>1. q \in Query /\ q.cond # NoCond
  BY GoalQueries DEF IInv, Check
<1>2. CASE CacheHit("z3_check", q)
  BY <1>1, <1>2, HitStep
<1>3. CASE ~CacheHit("z3_check", q)
  <2>1. PICK pos \in SolverAnswers(Asserted(q) \cap Holds[q.cond]),
             neg \in SolverAnswers(Asserted(q) \ Holds[q.cond]) :
                /\ cache' = Store(KeyOf(q), CheckVerdict(pos, neg))
                /\ Answer("z3_check", q, CheckVerdict(pos, neg), FALSE)
    BY <1>3 DEF Check
  <2> DEFINE r == CheckVerdict(pos, neg)
  <2>2. r \in {"True", "False", "Unknown"} /\ goal' = goal /\ asked' = asked \cup {q}
    BY <1>3, <2>1 DEF CheckVerdict, Check, Answer
  <2>3. EntrySound(KeyOf(q), r, q.lemmas)
    BY <1>1, CheckStores
  <2> HIDE DEF r
  <2>4. /\ CacheSound'
        /\ DOMAIN cache' \subseteq Keys
        /\ \A k \in DOMAIN cache' : cache'[k] \in {"True", "False", "Unknown"}
    <3>1. cache' = Store(KeyOf(q), r)
      BY <2>1 DEF r
    <3> QED BY <2>2, <2>3, <3>1, StoreSound DEF IInv
  <2>5. "z3_check" \in Calls /\ r \in Results /\ Answer("z3_check", q, r, FALSE)
    BY <2>1, <2>2 DEF Calls, Results, r
  <2>6. TypeOK'
    BY <2>2, <2>4, <2>5, AnswerTyped DEF IInv
  <2>7. Right("z3_check", r, q)
    BY <1>1, <2>3, EntryForCondition DEF Right
  <2>8. AnswerSound'
    BY <1>1, <2>5, <2>7, FreshSound
  <2> QED BY <2>4, <2>6, <2>8 DEF IInv
<1> QED BY <1>2, <1>3

\* check_state keeps the invariant.
LEMMA CheckStateStep ==
    ASSUME IInv, NEW q \in goal, CheckState(q)
    PROVE  IInv'
<1>1. q \in Query /\ q.cond = NoCond
  BY GoalQueries DEF IInv, CheckState
<1>2. CASE CacheHit("z3_check_state", q)
  BY <1>1, <1>2, HitStep
<1>3. CASE ~CacheHit("z3_check_state", q)
  <2>1. PICK ans \in SolverAnswers(Asserted(q)) :
                /\ cache' = Store(KeyOf(q), StateVerdict(ans))
                /\ Answer("z3_check_state", q, StateVerdict(ans), FALSE)
    BY <1>3 DEF CheckState
  <2> DEFINE r == StateVerdict(ans)
  <2>2. r \in {"True", "False", "Unknown"} /\ goal' = goal /\ asked' = asked \cup {q}
    BY <1>3, <2>1 DEF StateVerdict, CheckState, Answer
  <2>3. EntrySound(KeyOf(q), r, q.lemmas)
    BY <1>1, CheckStateStores
  <2> HIDE DEF r
  <2>4. /\ CacheSound'
        /\ DOMAIN cache' \subseteq Keys
        /\ \A k \in DOMAIN cache' : cache'[k] \in {"True", "False", "Unknown"}
    <3>1. cache' = Store(KeyOf(q), r)
      BY <2>1 DEF r
    <3> QED BY <2>2, <2>3, <3>1, StoreSound DEF IInv
  <2>5. "z3_check_state" \in Calls /\ r \in Results /\ Answer("z3_check_state", q, r, FALSE)
    BY <2>1, <2>2 DEF Calls, Results, r
  <2>6. TypeOK'
    BY <2>2, <2>4, <2>5, AnswerTyped DEF IInv
  <2>7. Right("z3_check_state", r, q)
    BY <1>1, <2>3, EntryForPath DEF Right
  <2>8. AnswerSound'
    BY <1>1, <2>5, <2>7, FreshSound
  <2> QED BY <2>4, <2>6, <2>8 DEF IInv
<1> QED BY <1>2, <1>3

\* Steps that neither read nor write the cache, and only add to what was asked,
\* keep it sound.
LEMMA CacheUntouched ==
    ASSUME IInv, goal' = goal, cache' = cache, asked \subseteq asked'
    PROVE  CacheSound'
BY DEF IInv, CacheSound

\* check_unsat keeps the invariant.
LEMMA CheckUnsatStep ==
    ASSUME IInv, NEW q \in goal, CheckUnsat(q)
    PROVE  IInv'
<1>1. q \in Query /\ q.cond # NoCond
  BY GoalQueries DEF IInv, CheckUnsat
<1>2. CASE CacheHit("z3_check_unsat", q)
  BY <1>1, <1>2, HitStep
<1>3. CASE ~CacheHit("z3_check_unsat", q)
  <2>1. PICK ans \in SolverAnswers(Asserted(q) \ Holds[q.cond]) :
                Answer("z3_check_unsat", q, UnsatVerdict(ans), FALSE)
    BY <1>3 DEF CheckUnsat
  <2> DEFINE r == UnsatVerdict(ans)
  <2>2. goal' = goal /\ cache' = cache /\ asked \subseteq asked'
    BY <1>3, <2>1 DEF CheckUnsat, Answer
  <2>3. r \in {"True", "Sat", "Unknown"}
    BY DEF UnsatVerdict
  <2>4. r = "True" => Entailed(q)
    BY <1>1, ReachableAsserted DEF UnsatVerdict, SolverAnswers, Entailed
  <2> HIDE DEF r
  <2>5. "z3_check_unsat" \in Calls /\ r \in Results /\ Answer("z3_check_unsat", q, r, FALSE)
    BY <2>1, <2>3 DEF Calls, Results, r
  <2>6. TypeOK'
    BY <2>2, <2>5, AnswerTyped DEF IInv, TypeOK
  <2>7. Right("z3_check_unsat", r, q)
    BY <2>3, <2>4 DEF Right
  <2>8. AnswerSound'
    BY <1>1, <2>5, <2>7, FreshSound
  <2> QED BY <2>2, <2>6, <2>8, CacheUntouched DEF IInv
<1> QED BY <1>2, <1>3

\* verify keeps the invariant.
LEMMA VerifyStep ==
    ASSUME IInv, NEW q \in goal, Verify(q) \/ VerifyStateSat(q)
    PROVE  IInv'
<1>1. q \in Query /\ q.prover /\ goal' = goal /\ cache' = cache
  BY GoalQueries DEF IInv, Verify, VerifyStateSat
<1>2. Asserted(q) = Reachable(q)
  BY <1>1 DEF Asserted, Reachable
<1>3. PICK fn \in {"z3_verify", "z3_verify_state_sat"}, r \in Results :
          Answer(fn, q, r, FALSE) /\ Right(fn, r, q)
  <2>1. CASE Verify(q)
    <3>1. PICK ans \in SolverAnswers(Asserted(q) \ Holds[q.cond]) :
                  Answer("z3_verify", q, VerifyVerdict(ans), FALSE)
      BY <2>1 DEF Verify
    <3>2. VerifyVerdict(ans) \in Results
      BY DEF VerifyVerdict, Results
    <3>3. /\ VerifyVerdict(ans) = "True" => Entailed(q)
          /\ VerifyVerdict(ans) = "False" => ~Entailed(q)
      BY <1>2 DEF VerifyVerdict, SolverAnswers, Entailed
    <3>4. Right("z3_verify", VerifyVerdict(ans), q)
      BY <3>3 DEF Right
    <3> QED BY <3>1, <3>2, <3>4
  <2>2. CASE VerifyStateSat(q)
    <3>1. PICK ans \in SolverAnswers(Asserted(q)) :
                  Answer("z3_verify_state_sat", q, VerifySatVerdict(ans), FALSE)
      BY <2>2 DEF VerifyStateSat
    <3>2. VerifySatVerdict(ans) \in Results
      BY DEF VerifySatVerdict, Results
    <3>3. /\ VerifySatVerdict(ans) = "True" => Reachable(q) # {}
          /\ VerifySatVerdict(ans) = "False" => Reachable(q) = {}
      BY <1>2 DEF VerifySatVerdict, SolverAnswers
    <3>4. Right("z3_verify_state_sat", VerifySatVerdict(ans), q)
      BY <3>3 DEF Right
    <3> QED BY <3>1, <3>2, <3>4
  <2> QED BY <2>1, <2>2
<1>4. fn \in Calls
  BY DEF Calls
<1>5. TypeOK'
  BY <1>1, <1>3, <1>4, AnswerTyped DEF IInv, TypeOK
<1>6. CacheSound'
  BY <1>1, <1>3, CacheUntouched DEF Answer
<1>7. AnswerSound'
  BY <1>1, <1>3, <1>4, FreshSound
<1> QED BY <1>5, <1>6, <1>7 DEF IInv

\* Moving to another transformer goal keeps the cache, and its entries stay
\* sound: no transformer query has lemmas.
LEMMA NextTransformStep ==
    ASSUME IInv, NextTransform
    PROVE  IInv'
<1>1. goal \in Transforms /\ goal' \in Transforms /\ cache' = cache
      /\ answer' = NoAnswer /\ asked' = {}
  BY DEF NextTransform
<1>2. \A k \in DOMAIN cache : EntrySound(k, cache[k], {})
  BY <1>1 DEF IInv, CacheSound
<1>3. CacheSound'
  BY <1>1, <1>2 DEF CacheSound
<1>4. TypeOK'
  BY <1>1 DEF IInv, TypeOK, Goals
<1>5. AnswerSound'
  BY <1>1 DEF AnswerSound
<1> QED BY <1>3, <1>4, <1>5 DEF IInv

\* Forgetting the cache keeps the invariant.
LEMMA ClearStep ==
    ASSUME IInv, ClearAfterTransform \/ StartProof \/ ClearInProof
    PROVE  IInv'
<1>1. cache' = [k \in {} |-> "Unknown"] /\ goal' \in Goals
  BY DEF ClearAfterTransform, StartProof, ClearInProof, Goals
<1>2. \/ answer' = answer /\ asked' = asked /\ goal' = goal
      \/ answer' = NoAnswer /\ asked' = {}
  BY DEF ClearAfterTransform, StartProof, ClearInProof
<1>3. TypeOK'
  BY <1>1, <1>2 DEF IInv, TypeOK
<1>4. CacheSound'
  BY <1>1 DEF CacheSound
<1>5. AnswerSound'
  <2>1. CASE answer' = answer /\ asked' = asked
    BY <2>1 DEF IInv, AnswerSound, LemmasAsked
  <2>2. CASE answer' = NoAnswer
    BY <2>2 DEF AnswerSound
  <2> QED BY <1>2, <2>1, <2>2
<1> QED BY <1>3, <1>4, <1>5 DEF IInv

\* Every step keeps the invariant.
LEMMA NextIInv ==
    ASSUME IInv, [Next]_vars
    PROVE  IInv'
<1>1. CASE Ask
  BY <1>1, CheckStep, CheckStateStep, CheckUnsatStep, VerifyStep DEF Ask, AskedBy
<1>2. CASE NextTransform
  BY <1>2, NextTransformStep
<1>3. CASE ClearAfterTransform \/ StartProof \/ ClearInProof
  BY <1>3, ClearStep
<1>4. CASE UNCHANGED vars
  BY <1>4 DEF vars, IInv, TypeOK, CacheSound, AnswerSound, LemmasAsked
<1> QED BY <1>1, <1>2, <1>3, <1>4 DEF Next

(***************************************************************************)
(* The shape of the state, for any goals: in particular Z3Cache only ever  *)
(* holds True, False and Unknown, though z3_check_unsat may return Sat.    *)
(***************************************************************************)
THEOREM Typing == Spec => []TypeOK
<1>1. IInv => TypeOK
  BY DEF IInv
<1> QED BY <1>1, InitIInv, NextIInv, PTL DEF Spec

(***************************************************************************)
(* The answers of all five entry points of the query layer, in the         *)
(* transformer and in the prover: computed ones are right about their      *)
(* query, cached ones under lemmas this goal has put the question under,   *)
(* for any goals, those that change their lemmas between two equal keys    *)
(* included.                                                               *)
(***************************************************************************)
THEOREM AnswersSound == Spec => []AnswerSound
<1>1. IInv => AnswerSound
  BY DEF IInv
<1> QED BY <1>1, InitIInv, NextIInv, PTL DEF Spec

(***************************************************************************)
(* Where the cache is transparent: a goal that has put a question under    *)
(* one set of lemmas only, the query's own, gets an answer that is right   *)
(* about the query, cached or not.  A transformer goal, which carries no   *)
(* lemmas, is always in this case; a proof whose traversal has replaced    *)
(* the lemmas under unchanged path conditions is not.                      *)
(***************************************************************************)
THEOREM TransparentWhileLemmasStay ==
    Spec => [](/\ answer # NoAnswer
               /\ LemmasAsked(answer.query) \subseteq {answer.query.lemmas}
               => Right(answer.fn, answer.result, answer.query))
<1> DEFINE Exact == /\ answer # NoAnswer
                    /\ LemmasAsked(answer.query) \subseteq {answer.query.lemmas}
                    => Right(answer.fn, answer.result, answer.query)
<1>1. IInv => Exact
  <2> SUFFICES ASSUME IInv, answer # NoAnswer,
                      LemmasAsked(answer.query) \subseteq {answer.query.lemmas}
               PROVE  Right(answer.fn, answer.result, answer.query)
    OBVIOUS
  <2>1. Right(answer.fn, answer.result,
              [answer.query EXCEPT !.lemmas = answer.query.lemmas])
    BY DEF IInv, AnswerSound
  <2>2. answer.query \in Query
    BY DEF IInv, TypeOK
  <2>3. [answer.query EXCEPT !.lemmas = answer.query.lemmas] = answer.query
    BY <2>2 DEF Query
  <2> QED BY <2>1, <2>3
<1>2. Spec => []IInv
  BY InitIInv, NextIInv, PTL DEF Spec
<1> QED BY <1>1, <1>2, PTL

-----------------------------------------------------------------------------

\* Only a solver that was given every path condition and lemma reports a
\* counterexample, never the cache.
LEMMA CounterexampleStep ==
    ASSUME IInv, CounterexampleReal, [Next]_vars
    PROVE  CounterexampleReal'
<1>1. ASSUME NEW q \in goal, CheckUnsat(q)
      PROVE  CounterexampleReal'
  <2>1. q \in Query /\ q.prover
    BY <1>1, GoalQueries DEF IInv, CheckUnsat
  <2>2. CASE CacheHit("z3_check_unsat", q)
    <3>1. cache[KeyOf(q)] # "Sat"
      BY <2>2 DEF CacheHit, IInv, TypeOK
    <3> QED BY <2>2, <3>1 DEF CacheHit, Answer, CounterexampleReal, Given
  <2>3. CASE ~CacheHit("z3_check_unsat", q)
    <3>1. PICK ans \in SolverAnswers(Asserted(q) \ Holds[q.cond]) :
                  Answer("z3_check_unsat", q, UnsatVerdict(ans), FALSE)
      BY <1>1, <2>3 DEF CheckUnsat
    <3>2. Asserted(q) = Reachable(q)
      BY <2>1 DEF Asserted, Reachable
    <3>3. UnsatVerdict(ans) = "Sat" => ~Entailed(q)
      BY <3>2 DEF UnsatVerdict, SolverAnswers, Entailed
    <3> QED BY <3>1, <3>3 DEF Answer, CounterexampleReal, Given
  <2> QED BY <2>2, <2>3
<1>2. ASSUME NEW q \in goal, Check(q) \/ CheckState(q) \/ Verify(q) \/ VerifyStateSat(q)
      PROVE  CounterexampleReal'
  BY <1>2 DEF Check, CheckState, Verify, VerifyStateSat, CacheHit, Answer,
              CounterexampleReal, Given
<1>3. CASE NextTransform \/ StartProof
  BY <1>3 DEF NextTransform, StartProof, CounterexampleReal, Given
<1>4. CASE ClearAfterTransform \/ ClearInProof \/ UNCHANGED vars
  BY <1>4 DEF ClearAfterTransform, ClearInProof, vars, CounterexampleReal, Given, Entailed
<1> QED BY <1>1, <1>2, <1>3, <1>4 DEF Next, Ask, AskedBy

(***************************************************************************)
(* The counterexamples z3_check_unsat reports are real, for any goals.     *)
(***************************************************************************)
THEOREM CounterexamplesReal == Spec => []CounterexampleReal
<1>1. Init => CounterexampleReal
  BY DEF Init, CounterexampleReal, Given
<1> QED BY <1>1, InitIInv, NextIInv, CounterexampleStep, PTL DEF Spec
=============================================================================
