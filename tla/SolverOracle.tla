---------------------------- MODULE SolverOracle ----------------------------
(***************************************************************************)
(* What the prover expects of whatever decides a goal for it, one solver   *)
(* or several raced against each other: every question is answered, the    *)
(* answer is right, and Unknown is always allowed.                         *)
(***************************************************************************)
CONSTANT Truths          \* what is the case of a goal's negation

VARIABLES pending, truth, verdict

vars == <<pending, truth, verdict>>

Verdicts == {"True", "Sat", "Unknown"}

Right(v, t) ==
    /\ v = "True" => t = "unsat"
    /\ v = "Sat" => t = "sat"

Init ==
    /\ pending = FALSE
    /\ truth \in Truths
    /\ verdict = "Unknown"

Ask ==
    /\ ~pending
    /\ pending' = TRUE
    /\ truth' \in Truths
    /\ verdict' = "Unknown"

Reply ==
    /\ pending
    /\ pending' = FALSE
    /\ verdict' \in {v \in Verdicts : Right(v, truth)}
    /\ UNCHANGED truth

Next == Ask \/ Reply

Spec == Init /\ [][Next]_vars /\ WF_vars(Reply)
=============================================================================
