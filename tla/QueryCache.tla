----------------------------- MODULE QueryCache -----------------------------
(***************************************************************************)
(* The query layer of the prover (optimizations/z3_utils.cpp): every       *)
(* question the transformer, the evaluator and the prover put to Z3 goes   *)
(* through one of five functions, three of which share the global Z3Cache. *)
(*                                                                         *)
(* A formula is a model value with a meaning, the set of worlds it holds   *)
(* in.  A solver is sound and may always give up.  A query is what a call  *)
(* site passes: the path conditions (a multiset: the code's vector may     *)
(* hold a formula twice), the lemmas in force, a condition or none, and a  *)
(* timeout.  The goals the program works on (one call of the transformer,  *)
(* or one obligation of the prover) are given as sets of the queries their *)
(* traversal may put, in any order and any number of times.                *)
(***************************************************************************)
EXTENDS Naturals

CONSTANTS
    Formulas,    \* the z3 expressions that occur
    Worlds,      \* the valuations the formulas are interpreted over
    Holds,       \* Holds[f]: the worlds f is true in
    HashOf,      \* HashOf[f]: the hash z3 gives f
    MaxHash,     \* hashes are unsigned integers of a fixed width: 2^32 - 1
    Timeouts,    \* Timeouts[fn]: the timeouts (ms) the call sites of fn pass
    NoCond,      \* the condition of a query about the path alone
    Transforms,  \* the goals of the transformer: EvalState queries
    Proofs       \* the goals of the prover: ProveState queries

Query == [conds : [Formulas -> Nat], lemmas : SUBSET Formulas,
          cond : Formulas \cup {NoCond}, timeout : Nat, prover : BOOLEAN]

Goals == Transforms \cup Proofs

(***************************************************************************)
(* The key of a query: the sorted hashes of the path conditions, then the  *)
(* hash of the condition, then the timeout, hashed in that order.  The     *)
(* sorted sequence is kept as the multiset of all but its last element and *)
(* that last element, which is the same thing when hashes are distinct; a  *)
(* query without condition ends with its largest path condition.           *)
(***************************************************************************)
Present(m) == {f \in Formulas : m[f] > 0}

Largest(m) == CHOOSE f \in Present(m) : \A h \in Present(m) : HashOf[h] <= HashOf[f]

KeyOf(q) ==
    IF q.cond # NoCond
    THEN [front |-> q.conds, last |-> q.cond, timeout |-> q.timeout]
    ELSE IF Present(q.conds) = {}
    THEN [front |-> q.conds, last |-> NoCond, timeout |-> q.timeout]
    ELSE [front |-> [q.conds EXCEPT ![Largest(q.conds)] = @ - 1],
          last |-> Largest(q.conds), timeout |-> q.timeout]

Keys == [front : [Formulas -> Nat], last : Formulas \cup {NoCond}, timeout : Nat]

-----------------------------------------------------------------------------

Sat(s) == {w \in Worlds : \A f \in s : w \in Holds[f]}

(***************************************************************************)
(* The worlds the path leads to: its conditions and the lemmas in force    *)
(* hold.                                                                   *)
(***************************************************************************)
Reachable(q) == Sat(Present(q.conds) \cup q.lemmas)

\* The worlds the solver is told about: a plain EvalState carries no lemmas.
Asserted(q) == Sat(Present(q.conds) \cup (IF q.prover THEN q.lemmas ELSE {}))

\* What a solver may answer when asked whether one of the worlds exists.
SolverAnswers(ws) == {"unknown", IF ws = {} THEN "unsat" ELSE "sat"}

-----------------------------------------------------------------------------

(***************************************************************************)
(* The key of a query does not mention the lemmas, and nothing is assumed  *)
(* of them: prove_by_traverse replaces the lemmas after a call and leaves  *)
(* the path conditions as they are when the source of the match is an      *)
(* abstract primitive, or in the arm of None (symbolic.cpp:807-816 and     *)
(* 975-985), so one proof may put one key under several sets of lemmas.    *)
(***************************************************************************)
ASSUME FormulaAssumption ==
    /\ NoCond \notin Formulas
    /\ Holds \in [Formulas -> SUBSET Worlds]

ASSUME HashAssumption ==
    /\ MaxHash \in Nat
    /\ HashOf \in [Formulas -> 0..MaxHash]
    /\ \A f, g \in Formulas : HashOf[f] = HashOf[g] => f = g

ASSUME GoalAssumption ==
    /\ Goals # {}
    /\ \A g \in Goals : g \subseteq Query
    /\ \A g \in Transforms : \A q \in g : ~q.prover /\ q.lemmas = {}

-----------------------------------------------------------------------------
VARIABLES
    goal,    \* the goal being worked on
    cache,   \* Z3Cache: a partial function from keys to results
    answer,  \* the last call and what it returned
    asked    \* history: the queries put since the goal was begun

vars == <<goal, cache, answer, asked>>

Results == {"True", "False", "Sat", "Unknown"}

NoAnswer == [fn |-> "none"]

Calls == {"z3_check", "z3_check_state", "z3_check_unsat", "z3_verify",
          "z3_verify_state_sat"}

TypeOK ==
    /\ goal \in Goals
    /\ DOMAIN cache \subseteq Keys
    /\ \A k \in DOMAIN cache : cache[k] \in {"True", "False", "Unknown"}
    /\ \/ answer = NoAnswer
       \/ answer \in [fn : Calls, query : Query, result : Results, cached : BOOLEAN]
    /\ asked \subseteq goal

Store(k, r) == [j \in DOMAIN cache \cup {k} |-> IF j = k THEN r ELSE cache[j]]

Answer(fn, q, r, hit) ==
    /\ answer' = [fn |-> fn, query |-> q, result |-> r, cached |-> hit]
    /\ asked' = asked \cup {q}

Init ==
    /\ goal \in Goals
    /\ cache = [k \in {} |-> "Unknown"]
    /\ answer = NoAnswer
    /\ asked = {}

CacheHit(fn, q) ==
    /\ KeyOf(q) \in DOMAIN cache
    /\ Answer(fn, q, cache[KeyOf(q)], TRUE)
    /\ UNCHANGED <<goal, cache>>

\* z3_check(state, cond, timeout): the condition and its negation are both tried.
CheckVerdict(pos, neg) ==
    IF neg = "unsat" THEN "True" ELSE IF pos = "unsat" THEN "False" ELSE "Unknown"

Check(q) ==
    /\ q.cond # NoCond
    /\ \/ CacheHit("z3_check", q)
       \/ /\ KeyOf(q) \notin DOMAIN cache
          /\ \E pos \in SolverAnswers(Asserted(q) \cap Holds[q.cond]),
                neg \in SolverAnswers(Asserted(q) \ Holds[q.cond]) :
                /\ cache' = Store(KeyOf(q), CheckVerdict(pos, neg))
                /\ Answer("z3_check", q, CheckVerdict(pos, neg), FALSE)
          /\ UNCHANGED goal

\* z3_check(state, timeout): is the path dead?
StateVerdict(ans) == IF ans = "unsat" THEN "False" ELSE "Unknown"

CheckState(q) ==
    /\ q.cond = NoCond
    /\ \/ CacheHit("z3_check_state", q)
       \/ /\ KeyOf(q) \notin DOMAIN cache
          /\ \E ans \in SolverAnswers(Asserted(q)) :
                /\ cache' = Store(KeyOf(q), StateVerdict(ans))
                /\ Answer("z3_check_state", q, StateVerdict(ans), FALSE)
          /\ UNCHANGED goal

\* Taking "unknown" for a counterexample.
UnsatVerdictHasty(ans) == IF ans = "unsat" THEN "True" ELSE "Sat"

\* z3_check_unsat reads Z3Cache but never writes it.  With --race the verdict is
\* that of RaceCheck, which may return the same three results.
UnsatVerdict(ans) ==
    IF ans = "unsat" THEN "True" ELSE IF ans = "sat" THEN "Sat" ELSE "Unknown"

\* Storing the answer, as the other two do.
CheckUnsatStored(q) ==
    /\ q.prover
    /\ q.cond # NoCond
    /\ \/ CacheHit("z3_check_unsat", q)
       \/ /\ KeyOf(q) \notin DOMAIN cache
          /\ \E ans \in SolverAnswers(Asserted(q) \ Holds[q.cond]) :
                /\ cache' = Store(KeyOf(q), UnsatVerdict(ans))
                /\ Answer("z3_check_unsat", q, UnsatVerdict(ans), FALSE)
          /\ UNCHANGED goal

CheckUnsat(q) ==
    /\ q.prover
    /\ q.cond # NoCond
    /\ \/ CacheHit("z3_check_unsat", q)
       \/ /\ KeyOf(q) \notin DOMAIN cache
          /\ \E ans \in SolverAnswers(Asserted(q) \ Holds[q.cond]) :
                Answer("z3_check_unsat", q, UnsatVerdict(ans), FALSE)
          /\ UNCHANGED <<goal, cache>>

\* z3_verify and z3_verify_state_sat neither read nor write the cache.
VerifyVerdict(ans) ==
    IF ans = "unsat" THEN "True" ELSE IF ans = "sat" THEN "False" ELSE "Unknown"

Verify(q) ==
    /\ q.prover
    /\ q.cond # NoCond
    /\ \E ans \in SolverAnswers(Asserted(q) \ Holds[q.cond]) :
          Answer("z3_verify", q, VerifyVerdict(ans), FALSE)
    /\ UNCHANGED <<goal, cache>>

VerifySatVerdict(ans) ==
    IF ans = "sat" THEN "True" ELSE IF ans = "unsat" THEN "False" ELSE "Unknown"

VerifyStateSat(q) ==
    /\ q.prover
    /\ q.cond = NoCond
    /\ \E ans \in SolverAnswers(Asserted(q)) :
          Answer("z3_verify_state_sat", q, VerifySatVerdict(ans), FALSE)
    /\ UNCHANGED <<goal, cache>>

(***************************************************************************)
(* Between goals.  The transformer runs goal after goal on one cache, and  *)
(* clears it only in its first version; every proof obligation starts from *)
(* an empty cache, and no transformer goal follows a proof (the prover     *)
(* runs last).                                                             *)
(***************************************************************************)
NextTransform ==
    /\ goal \in Transforms
    /\ goal' \in Transforms
    /\ UNCHANGED cache
    /\ answer' = NoAnswer
    /\ asked' = {}

ClearAfterTransform ==
    /\ goal \in Transforms
    /\ cache' = [k \in {} |-> "Unknown"]
    /\ UNCHANGED <<goal, answer, asked>>

\* A proof that starts from the cache the last one left.
StartProofWarm ==
    /\ goal' \in Proofs
    /\ UNCHANGED cache
    /\ answer' = NoAnswer
    /\ asked' = {}

StartProof ==
    /\ goal' \in Proofs
    /\ cache' = [k \in {} |-> "Unknown"]
    /\ answer' = NoAnswer
    /\ asked' = {}

\* A nested precondition check throws the cache away in the middle of a proof.
ClearInProof ==
    /\ goal \in Proofs
    /\ cache' = [k \in {} |-> "Unknown"]
    /\ UNCHANGED <<goal, answer, asked>>

AskedBy(fn) == {q \in goal : q.timeout \in Timeouts[fn]}

Ask ==
    \/ \E q \in AskedBy("z3_check") : Check(q)
    \/ \E q \in AskedBy("z3_check_state") : CheckState(q)
    \/ \E q \in AskedBy("z3_check_unsat") : CheckUnsat(q)
    \/ \E q \in AskedBy("z3_verify") : Verify(q)
    \/ \E q \in AskedBy("z3_verify_state_sat") : VerifyStateSat(q)

Next == Ask \/ NextTransform \/ ClearAfterTransform \/ StartProof \/ ClearInProof

Spec == Init /\ [][Next]_vars

-----------------------------------------------------------------------------

\* Every path the query is about satisfies the condition; none does.
Entailed(q) == Reachable(q) \subseteq Holds[q.cond]
Refuted(q) == Reachable(q) \cap Holds[q.cond] = {}

Given(fns, r) == answer # NoAnswer /\ answer.fn \in fns /\ answer.result = r

\* The verdict r of fn, read as an answer to q, is right.
Right(fn, r, q) ==
    /\ fn \in {"z3_check", "z3_check_unsat", "z3_verify"} /\ r = "True" => Entailed(q)
    /\ fn \in {"z3_check", "z3_check_unsat"} /\ r = "False" => Refuted(q)
    /\ fn = "z3_verify" /\ r = "False" => ~Entailed(q)
    /\ fn \in {"z3_check_state", "z3_verify_state_sat"} /\ r = "False" => Reachable(q) = {}
    /\ fn = "z3_verify_state_sat" /\ r = "True" => Reachable(q) # {}

\* The lemmas under which the key of q was asked for since the goal was begun.
LemmasAsked(q) == {p.lemmas : p \in {p \in asked : KeyOf(p) = KeyOf(q)}}

(***************************************************************************)
(* How far the callers may trust an answer.  A computed one is right about *)
(* the query: "True" only when the condition follows, "False" only when it *)
(* contradicts the path or the path is dead.  One found in Z3Cache is right*)
(* about the same conditions under lemmas this very goal has put them      *)
(* under before: never under those of another proof, and, as long as the   *)
(* lemmas have not changed, under the query's own.                         *)
(***************************************************************************)
AnswerSound ==
    answer # NoAnswer =>
        \E L \in IF answer.cached THEN LemmasAsked(answer.query)
                                  ELSE {answer.query.lemmas} :
            Right(answer.fn, answer.result, [answer.query EXCEPT !.lemmas = L])

(***************************************************************************)
(* A counterexample is never stale: z3_check_unsat says "Sat" only of a    *)
(* path that really has a state breaking the condition, so what the user   *)
(* is told to look at exists.                                              *)
(***************************************************************************)
CounterexampleReal ==
    Given({"z3_check_unsat"}, "Sat") => ~Entailed(answer.query)

(***************************************************************************)
(* The comment above z3_check_unsat (z3_utils.cpp:443-444): "return True   *)
(* if unsat, SAT if sat. will not return False since will not check        *)
(* invalidity."                                                            *)
(***************************************************************************)
UnsatNeverFalse ==
    ~Given({"z3_check_unsat"}, "False")
=============================================================================
