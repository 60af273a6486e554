------------------------------ MODULE RaceCheck ------------------------------
(***************************************************************************)
(* z3_race_check (optimizations/z3_utils.cpp): two solver processes are    *)
(* forked on the query file z3_check_unsat has just saved, and the parent  *)
(* polls them without blocking until one says "unsat", both are finished,  *)
(* or the wall clock limit has passed.                                     *)
(*                                                                         *)
(* The race is run again and again by one program, so what it leaves       *)
(* behind (descriptors, running solvers, children nobody waited for) is    *)
(* there in the next one.  A solver reads the file it was given; it may    *)
(* answer rightly, give no answer (its own time limit, an error), or never *)
(* end.  The scheduler interleaves the solvers and the clock with every    *)
(* step of the parent's loop.                                              *)
(***************************************************************************)
EXTENDS Integers, FiniteSets, Sequences

CONSTANTS
    Truths,       \* what is the case of a query: "unsat" or "sat"
    MaxRaces,     \* bound on the races of one program run
    MaxSaved,     \* bound on the files of one QueryInfo
    ProcLimit,    \* processes the user may have, zombies included (RLIMIT_NPROC)
    PipesMayFail  \* may pipe() fail (descriptors used up)?

ASSUME RaceAssumption ==
    /\ Truths = {"unsat", "sat"}
    /\ MaxRaces \in Nat
    /\ MaxSaved \in Nat
    /\ ProcLimit \in Nat
    /\ PipesMayFail \in BOOLEAN

Slot == {0, 1}

\* The two children of every race; a race's children are numbered by its slots.
Child == (1..MaxRaces) \X Slot

NoPid == <<0, 0>>       \* pids[i] before fork
ForkFailed == <<0, 1>>  \* pids[i] = -1

VARIABLES
    pc,         \* where the parent is
    race,       \* races begun so far
    saved,      \* QueryInfo: the queries saved, query_id is their number
    asked,      \* the query this race is about
    pids,       \* pids[i], as fork returned it
    done,       \* done[i]
    outputs,    \* outputs[i]
    proc,       \* the state of every child process
    said,       \* what every child wrote to its pipe
    readFd,     \* openings minus closings of the parent's end of every pipe
    late,       \* has the wall limit passed?
    verdict,    \* what the last race returned
    outsiders   \* the other processes of the user: "alive" or "killed"

vars == <<pc, race, saved, asked, pids, done, outputs, proc, said, readFd, late,
          verdict, outsiders>>

parent == <<race, saved, asked>>

States == {"unborn", "running", "dead", "reaped"}

TypeOK ==
    /\ pc \in {"idle", "spawn0", "spawn1", "poll0", "poll1", "clock"}
    /\ race \in 0..MaxRaces
    /\ saved \in Seq(Truths)
    /\ asked \in Truths
    /\ pids \in [Slot -> Child \cup {NoPid, ForkFailed}]
    /\ done \in [Slot -> BOOLEAN]
    /\ outputs \in [Slot -> Truths \cup {"none"}]
    /\ proc \in [Child -> States]
    /\ said \in [Child -> Truths \cup {"none"}]
    /\ readFd \in [Child -> Int]
    /\ late \in BOOLEAN
    /\ verdict \in {"True", "Sat", "Unknown"}
    /\ outsiders \in {"alive", "killed"}

Init ==
    /\ pc = "idle"
    /\ race = 0
    /\ saved = <<>>
    /\ asked \in Truths
    /\ pids = [i \in Slot |-> NoPid]
    /\ done = [i \in Slot |-> FALSE]
    /\ outputs = [i \in Slot |-> "none"]
    /\ proc = [c \in Child |-> "unborn"]
    /\ said = [c \in Child |-> "none"]
    /\ readFd = [c \in Child |-> 0]
    /\ late = FALSE
    /\ verdict = "Unknown"
    /\ outsiders = "alive"

-----------------------------------------------------------------------------

Children(s) == {c \in Child : proc[c] \in s}

\* The children waitpid(p) is about: all of them when p is -1.
Awaited(p) == IF p = ForkFailed THEN Child ELSE {p} \cap Child

\* What kill(p, SIGKILL) does: with p = -1 it reaches every process it may.
Killed(p) == IF p = ForkFailed THEN Children({"running"}) ELSE {p} \cap Children({"running"})

Kill(ps) ==
    /\ proc' = [c \in Child |-> IF \E p \in ps : c \in Killed(p) THEN "dead" ELSE proc[c]]
    /\ outsiders' = IF ForkFailed \in ps THEN "killed" ELSE outsiders

Close(cs) == readFd' = [c \in Child |-> IF c \in cs THEN readFd[c] - 1 ELSE readFd[c]]

Pipe(i) == <<race, i>>

-----------------------------------------------------------------------------
\* The file of a query: z3_verify and z3_verify_state_sat save theirs too, and
\* a new proof starts a new QueryInfo.
SaveOther(t) ==
    /\ pc = "idle"
    /\ race < MaxRaces
    /\ Len(saved) < MaxSaved
    /\ saved' = Append(saved, t)
    /\ UNCHANGED <<pc, race, asked, pids, done, outputs, proc, said, readFd, late,
                   verdict, outsiders>>

NewQueryInfo ==
    /\ pc = "idle"
    /\ saved' = <<>>
    /\ UNCHANGED <<pc, race, asked, pids, done, outputs, proc, said, readFd, late,
                   verdict, outsiders>>

\* z3_check_unsat saves the query and calls the race.  The race's guard against a
\* missing QueryInfo, or one without a file (138-139), cannot fire: every caller
\* passes the project's QueryInfo, and the query has just been saved to it.
Begin(t) ==
    /\ pc = "idle"
    /\ race < MaxRaces
    /\ Len(saved) < MaxSaved
    /\ race' = race + 1
    /\ saved' = Append(saved, t)
    /\ asked' = t
    /\ pc' = "spawn0"
    /\ pids' = [i \in Slot |-> NoPid]
    /\ done' = [i \in Slot |-> FALSE]
    /\ outputs' = [i \in Slot |-> "none"]
    /\ late' = FALSE
    /\ verdict' = "Unknown"
    /\ UNCHANGED <<proc, said, readFd, outsiders>>

Spawning(i) == pc = IF i = 0 THEN "spawn0" ELSE "spawn1"

Spawned(i) == pc' = IF i = 0 THEN "spawn1" ELSE "poll0"

Return(v) == pc' = "idle" /\ verdict' = v

PipeFails(i) ==
    /\ PipesMayFail
    /\ Spawning(i)
    /\ Return("Unknown")
    /\ UNCHANGED <<parent, pids, done, outputs, proc, said, readFd, late, outsiders>>

\* The process table of the user holds the children nobody has waited for.
Crowded == Cardinality(Children({"running", "dead"})) >= ProcLimit

Fork(i) ==
    /\ Spawning(i)
    /\ readFd' = [readFd EXCEPT ![Pipe(i)] = @ + 1]
    /\ IF Crowded
       THEN /\ pids' = [pids EXCEPT ![i] = ForkFailed]
            /\ UNCHANGED proc
       ELSE /\ pids' = [pids EXCEPT ![i] = Pipe(i)]
            /\ proc' = [proc EXCEPT ![Pipe(i)] = "running"]
    /\ Spawned(i)
    /\ UNCHANGED <<parent, done, outputs, said, late, verdict, outsiders>>

-----------------------------------------------------------------------------
\* The environment: a solver ends, and time passes.  What a solver an older race
\* left running says no longer matters.
Racing(c) == c[1] = race /\ pc # "idle"

\* A wrong query_id: the file before.
FileReadStale == saved[IF Len(saved) > 1 THEN Len(saved) - 1 ELSE 1]

\* The solvers are given the file of query number query_id - 1, counted from 0.
FileRead == saved[Len(saved)]

SolverExits(c) ==
    /\ proc[c] = "running"
    /\ proc' = [proc EXCEPT ![c] = "dead"]
    /\ \E a \in {"none"} \cup (IF Racing(c) THEN {FileRead} ELSE {}) :
          said' = [said EXCEPT ![c] = a]
    /\ UNCHANGED <<pc, parent, pids, done, outputs, readFd, late, verdict, outsiders>>

WallClock ==
    /\ pc \in {"poll0", "poll1", "clock"}
    /\ ~late
    /\ late' = TRUE
    /\ UNCHANGED <<pc, parent, pids, done, outputs, proc, said, readFd, verdict, outsiders>>

-----------------------------------------------------------------------------
\* One turn of the polling loop.
Polling(i) == pc = IF i = 0 THEN "poll0" ELSE "poll1"

Polled(i) == pc' = IF i = 0 THEN "poll1" ELSE "clock"

Dead(i) == Awaited(pids[i]) \cap Children({"dead"})
Alive(i) == Awaited(pids[i]) \cap Children({"running"})

PollDone(i) ==
    /\ Polling(i)
    /\ done[i] \/ (Dead(i) = {} /\ Alive(i) # {})
    /\ Polled(i)
    /\ UNCHANGED <<parent, pids, done, outputs, proc, said, readFd, late, verdict, outsiders>>

\* waitpid fails: there is no such child (any more).
PollGone(i) ==
    /\ Polling(i)
    /\ ~done[i]
    /\ Dead(i) = {} /\ Alive(i) = {}
    /\ done' = [done EXCEPT ![i] = TRUE]
    /\ Close({Pipe(i)})
    /\ Polled(i)
    /\ UNCHANGED <<parent, pids, outputs, proc, said, late, verdict, outsiders>>

\* What is read from pipe i: nothing when no child was ever given its other end.
Received(i) == IF pids[i] = Pipe(i) THEN said[Pipe(i)] ELSE "none"

\* The other solver is killed and its pipe closed, unless it is finished.
StopOther(i) ==
    IF done[1 - i]
    THEN /\ Close({Pipe(i)})
         /\ UNCHANGED outsiders
    ELSE /\ Close({Pipe(i), Pipe(1 - i)})
         /\ outsiders' = IF pids[1 - i] = ForkFailed THEN "killed" ELSE outsiders

PollExited(i) ==
    /\ Polling(i)
    /\ ~done[i]
    /\ done' = [done EXCEPT ![i] = TRUE]
    /\ outputs' = [outputs EXCEPT ![i] = Received(i)]
    /\ \E c \in Dead(i) :
          IF Received(i) = "unsat"
          THEN /\ proc' = [d \in Child |->
                     IF d = c THEN "reaped"
                     ELSE IF ~done[1 - i] /\ d \in Killed(pids[1 - i]) THEN "dead"
                     ELSE proc[d]]
               /\ StopOther(i)
               /\ Return("True")
          ELSE /\ proc' = [proc EXCEPT ![c] = "reaped"]
               /\ Close({Pipe(i)})
               /\ Polled(i)
               /\ UNCHANGED <<outsiders, verdict>>
    /\ UNCHANGED <<parent, pids, said, late>>

AllDone == \A i \in Slot : done[i]

\* The clock is not looked at.
SleepOn ==
    /\ pc = "clock"
    /\ ~AllDone
    /\ pc' = "poll0"
    /\ UNCHANGED <<parent, pids, done, outputs, proc, said, readFd, late, verdict, outsiders>>

Sleep ==
    /\ pc = "clock"
    /\ ~AllDone
    /\ ~late
    /\ pc' = "poll0"
    /\ UNCHANGED <<parent, pids, done, outputs, proc, said, readFd, late, verdict, outsiders>>

Unfinished == {i \in Slot : ~done[i]}

\* The solvers are left to themselves, or their pipes are left open.
TimeOutUnkilled ==
    /\ pc = "clock"
    /\ ~AllDone
    /\ late
    /\ Close({Pipe(i) : i \in Unfinished})
    /\ Return("Unknown")
    /\ UNCHANGED <<parent, pids, done, outputs, proc, said, late, outsiders>>

TimeOutUnclosed ==
    /\ pc = "clock"
    /\ ~AllDone
    /\ late
    /\ Kill({pids[i] : i \in Unfinished})
    /\ Return("Unknown")
    /\ UNCHANGED <<parent, pids, done, outputs, said, readFd, late>>

TimeOut ==
    /\ pc = "clock"
    /\ ~AllDone
    /\ late
    /\ Kill({pids[i] : i \in Unfinished})
    /\ Close({Pipe(i) : i \in Unfinished})
    /\ Return("Unknown")
    /\ UNCHANGED <<parent, pids, done, outputs, said, late>>

\* Waiting for both to say "sat"; the "False" of the other checks.
VerdictUnanimous ==
    IF \E i \in Slot : outputs[i] = "unsat" THEN "True"
    ELSE IF \A i \in Slot : outputs[i] = "sat" THEN "Sat" ELSE "Unknown"

VerdictFalse ==
    IF \E i \in Slot : outputs[i] = "unsat" THEN "True"
    ELSE IF \E i \in Slot : outputs[i] = "sat" THEN "False" ELSE "Unknown"

\* Both are finished: any "unsat" wins, then any "sat".
Verdict ==
    IF \E i \in Slot : outputs[i] = "unsat" THEN "True"
    ELSE IF \E i \in Slot : outputs[i] = "sat" THEN "Sat" ELSE "Unknown"

Decide ==
    /\ pc = "clock"
    /\ AllDone
    /\ Return(Verdict)
    /\ UNCHANGED <<parent, pids, done, outputs, proc, said, readFd, late, outsiders>>

-----------------------------------------------------------------------------

Parent ==
    \/ \E i \in Slot : PipeFails(i) \/ Fork(i) \/ PollDone(i) \/ PollGone(i) \/ PollExited(i)
    \/ Sleep \/ TimeOut \/ Decide

Outside ==
    \/ \E t \in Truths : Begin(t) \/ SaveOther(t)
    \/ NewQueryInfo
    \/ \E c \in Child : SolverExits(c)

Next == Parent \/ WallClock \/ Outside

(***************************************************************************)
(* The parent is a running program and the clock is a clock; nothing makes *)
(* a solver end, nor the caller ask again.                                 *)
(***************************************************************************)
Spec == Init /\ [][Next]_vars /\ WF_vars(Parent) /\ WF_vars(WallClock)

-----------------------------------------------------------------------------

(***************************************************************************)
(* What the race returns is right about the query it was called for: the   *)
(* solvers read its file and no other, and no output of an earlier race or *)
(* of a killed solver is taken for an answer.                              *)
(***************************************************************************)
VerdictSound ==
    pc = "idle" =>
        /\ verdict = "True" => asked = "unsat"
        /\ verdict = "Sat" => asked = "sat"

BothForked == \A i \in Slot : pids[i] = Pipe(i)

(***************************************************************************)
(* No answer is lost: when both solvers could be started and the wall      *)
(* limit has not passed, the race is undecided only if neither solver      *)
(* answered.                                                               *)
(***************************************************************************)
AnswerNotLost ==
    pc = "idle" /\ race > 0 /\ verdict = "Unknown" /\ BothForked /\ ~late
        => \A i \in Slot : said[Pipe(i)] = "none"

\* A race given up because its second pipe could not be made.
Abandoned(r) == proc[<<r, 1>>] = "unborn"

(***************************************************************************)
(* Descriptors: the parent closes each end it opened exactly once, on      *)
(* every way out of the loop (answer, failed wait, short cut, timeout), so *)
(* that long runs neither run out of descriptors nor close one twice.  The *)
(* one leak is the first pipe of a race whose second pipe failed.          *)
(***************************************************************************)
Descriptors ==
    \A c \in Child :
        /\ readFd[c] \in {0, 1}
        /\ pc = "idle" /\ readFd[c] = 1 => c[2] = 0 /\ Abandoned(c[1])

(***************************************************************************)
(* No solver outlives its race, to compete with the solvers of later ones: *)
(* a race that returns has seen each solver end or has killed it, whatever *)
(* fork and waitpid returned.  The exception is again the second pipe.     *)
(***************************************************************************)
NoneLeftRunning ==
    pc = "idle" => \A c \in Children({"running"}) : c[2] = 0 /\ Abandoned(c[1])

(***************************************************************************)
(* The comment at the timeout (z3_utils.cpp:220): "kill any still-running  *)
(* solver".  A process that is not a solver of this program is never       *)
(* killed.                                                                 *)
(***************************************************************************)
KillsOnlySolvers == outsiders = "alive"

(***************************************************************************)
(* The race implements the oracle the prover expects, its termination      *)
(* included: solvers that hang or are slow to die hold it up no longer     *)
(* than the wall limit.                                                    *)
(***************************************************************************)
Oracle == INSTANCE SolverOracle
              WITH pending <- pc # "idle", truth <- asked, verdict <- verdict

ImplementsOracle == Oracle!Spec
=============================================================================
