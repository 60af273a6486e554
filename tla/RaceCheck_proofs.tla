--------------------------- MODULE RaceCheck_proofs ---------------------------
(***************************************************************************)
(* The race is sound and tidy for any number of races, any process limit   *)
(* and whether or not pipes fail: its verdict is right, an answer in time  *)
(* is not lost, descriptors balance and no solver outlives its race.  Its  *)
(* steps are steps of the oracle the prover expects.                       *)
(***************************************************************************)
EXTENDS RaceCheck, TLAPS

\* Slot i of the current race has been through fork.
Forked(i) == pc \in {"poll0", "poll1", "clock"} \/ (pc = "spawn1" /\ i = 0)

NoForkFailed == \A j \in Slot : pids[j] # ForkFailed

\* Children of races to come.
Fresh ==
    \A c \in Child :
        c[1] > race => proc[c] = "unborn" /\ said[c] = "none" /\ readFd[c] = 0

\* The race that is on: the file it reads is the query it is about, and
\* everything read so far is right about it.
Reading ==
    pc # "idle" =>
        /\ race \in 1..MaxRaces
        /\ saved # <<>>
        /\ FileRead = asked
        /\ \A i \in Slot : said[Pipe(i)] \in {"none", asked} /\ outputs[i] \in {"none", asked}

\* The two slots of the race that is on.
SlotOK(i) ==
    /\ Forked(i) => pids[i] \in {Pipe(i), ForkFailed}
    /\ ~Forked(i) => pids[i] = NoPid /\ proc[Pipe(i)] = "unborn" /\ readFd[Pipe(i)] = 0 /\ ~done[i]
    /\ Forked(i) => readFd[Pipe(i)] = IF done[i] THEN 0 ELSE 1
    /\ pids[i] = ForkFailed => proc[Pipe(i)] = "unborn"
    /\ pc = "spawn1" => ~done[i]
    /\ done[i] => proc[Pipe(i)] # "running"
    /\ done[i] /\ NoForkFailed => outputs[i] = said[Pipe(i)]
    /\ ~done[i] /\ Forked(i) /\ NoForkFailed => proc[Pipe(i)] \in {"running", "dead"}

Slots == pc # "idle" => \A i \in Slot : SlotOK(i)

Over(c) == c[1] < race \/ (pc = "idle" /\ c[1] <= race)

\* What the races that are over have left behind.
Left ==
    \A c \in Child :
        Over(c) =>
            /\ readFd[c] \in {0, 1}
            /\ readFd[c] = 1 \/ proc[c] = "running" => c[2] = 0 /\ Abandoned(c[1])

(***************************************************************************)
(* The inductive invariant.  The properties speak of a race that has       *)
(* returned; what makes them true is what holds of each slot while it is   *)
(* on, of the children still unborn, and of the races before it.           *)
(***************************************************************************)
IInv ==
    /\ TypeOK
    /\ Fresh
    /\ Reading
    /\ Slots
    /\ Left
    /\ VerdictSound
    /\ AnswerNotLost

\* The children of one race differ, and are no failures.
LEMMA PipeFacts ==
    ASSUME TypeOK, NEW i \in Slot, race \in 1..MaxRaces
    PROVE  /\ Pipe(i) \in Child
           /\ Pipe(i)[1] = race /\ Pipe(i)[2] = i
           /\ Pipe(i) # NoPid /\ Pipe(i) # ForkFailed
           /\ \A j \in Slot : Pipe(j) = Pipe(i) => j = i
BY RaceAssumption DEF Pipe, Child, Slot, NoPid, ForkFailed

\* A child is a race and a slot, and no failure.
LEMMA ChildFacts ==
    ASSUME NEW c \in Child
    PROVE  c[1] \in 1..MaxRaces /\ c[2] \in Slot /\ c = <<c[1], c[2]>> /\ c # NoPid /\ c # ForkFailed
BY RaceAssumption DEF Child, Slot, NoPid, ForkFailed

\* Saving a query appends it, and the last file saved is that query.
LEMMA Appended ==
    ASSUME NEW S, NEW s \in Seq(S), NEW t \in S
    PROVE  /\ Append(s, t) \in Seq(S)
           /\ Append(s, t) # <<>>
           /\ Append(s, t)[Len(Append(s, t))] = t
OBVIOUS

\* The invariant holds before the first race.
LEMMA InitIInv ==
    ASSUME Init
    PROVE  IInv
<1>1. TypeOK
  <2>1. saved \in Seq(Truths)
    BY DEF Init
  <2>2. race \in 0..MaxRaces
    BY RaceAssumption DEF Init
  <2>3. pids \in [Slot -> Child \cup {NoPid, ForkFailed}]
    BY DEF Init
  <2>4. done \in [Slot -> BOOLEAN]
    BY DEF Init
  <2>5. outputs \in [Slot -> Truths \cup {"none"}] /\ said \in [Child -> Truths \cup {"none"}]
    BY DEF Init
  <2>6. proc \in [Child -> States] /\ readFd \in [Child -> Int]
    BY DEF Init, States
  <2>7. /\ pc \in {"idle", "spawn0", "spawn1", "poll0", "poll1", "clock"}
        /\ asked \in Truths /\ late \in BOOLEAN /\ verdict \in {"True", "Sat", "Unknown"}
        /\ outsiders \in {"alive", "killed"}
    BY DEF Init
  <2> QED BY <2>1, <2>2, <2>3, <2>4, <2>5, <2>6, <2>7 DEF TypeOK
<1>2. Fresh /\ Reading /\ Slots /\ VerdictSound /\ AnswerNotLost
  BY DEF Init, Fresh, Reading, Slots, VerdictSound, AnswerNotLost
<1>3. Left
  BY DEF Init, Left, Over
<1> QED BY <1>1, <1>2, <1>3 DEF IInv

\* Other queries are saved, or a proof starts a new list of them.
LEMMA SaveStep ==
    ASSUME IInv, (\E t \in Truths : SaveOther(t)) \/ NewQueryInfo
    PROVE  IInv'
<1>1. /\ pc = "idle" /\ saved' \in Seq(Truths)
      /\ UNCHANGED <<pc, race, asked, pids, done, outputs, proc, said, readFd, late,
                     verdict, outsiders>>
  <2>1. CASE NewQueryInfo
    BY <2>1 DEF NewQueryInfo
  <2>2. ASSUME NEW t \in Truths, SaveOther(t)
        PROVE  /\ pc = "idle" /\ saved' \in Seq(Truths)
               /\ UNCHANGED <<pc, race, asked, pids, done, outputs, proc, said, readFd, late,
                              verdict, outsiders>>
    <3>1. saved \in Seq(Truths)
      BY DEF IInv, TypeOK
    <3>2. Append(saved, t) \in Seq(Truths)
      BY <3>1, Appended
    <3> QED BY <2>2, <3>2 DEF SaveOther
  <2> QED BY <2>1, <2>2
<1> QED BY <1>1 DEF IInv, TypeOK, Fresh, Reading, Slots, Left, Over, Abandoned,
                    VerdictSound, AnswerNotLost, BothForked, Pipe

\* A race begins.
LEMMA BeginStep ==
    ASSUME IInv, NEW t \in Truths, Begin(t)
    PROVE  IInv'
<1> USE DEF IInv
<1>1. race' \in 1..MaxRaces /\ race' = race + 1 /\ race \in 0..MaxRaces
  BY RaceAssumption DEF Begin, TypeOK
<1>2. saved' \in Seq(Truths) /\ saved' # <<>> /\ saved'[Len(saved')] = t
  <2>1. saved \in Seq(Truths) /\ saved' = Append(saved, t)
    BY DEF TypeOK, Begin
  <2> QED BY <2>1, Appended
<1>0. TypeOK'
  <2>1. pids' \in [Slot -> Child \cup {NoPid, ForkFailed}]
    BY DEF Begin
  <2>2. done' \in [Slot -> BOOLEAN]
    BY DEF Begin
  <2>3. outputs' \in [Slot -> Truths \cup {"none"}]
    BY DEF Begin
  <2>4. proc' = proc /\ said' = said /\ readFd' = readFd /\ outsiders' = outsiders
    BY DEF Begin
  <2>5. pc' = "spawn0" /\ asked' \in Truths /\ late' \in BOOLEAN /\ verdict' = "Unknown"
    BY DEF Begin
  <2> QED BY <1>1, <1>2, <2>1, <2>2, <2>3, <2>4, <2>5 DEF TypeOK
<1>3. Fresh'
  BY <1>1, ChildFacts DEF Fresh, Begin
<1>4. \A i \in Slot : /\ Pipe(i)' \in Child /\ Pipe(i)'[1] > race
                      /\ proc'[Pipe(i)'] = "unborn" /\ said'[Pipe(i)'] = "none"
                      /\ readFd'[Pipe(i)'] = 0
  <2> TAKE i \in Slot
  <2>1. Pipe(i)' \in Child /\ Pipe(i)'[1] > race
    BY <1>1 DEF Pipe, Child
  <2> QED BY <2>1 DEF Fresh, Begin
<1>5. Reading'
  BY <1>1, <1>2, <1>4 DEF Reading, FileRead, Begin
<1>6. Slots'
  BY <1>4 DEF Slots, SlotOK, Forked, NoForkFailed, Begin, NoPid, ForkFailed
<1>7. Left'
  BY <1>1, ChildFacts DEF Left, Over, Abandoned, Begin
<1>8. VerdictSound' /\ AnswerNotLost'
  BY DEF Begin, VerdictSound, AnswerNotLost
<1> QED BY <1>0, <1>3, <1>5, <1>6, <1>7, <1>8

\* A child of the race that is on is the child of one of its slots.
LEMMA CurrentChild ==
    ASSUME NEW c \in Child, c[1] = race
    PROVE  c[2] \in Slot /\ c = Pipe(c[2])
BY ChildFacts DEF Pipe

\* A pipe is refused.
LEMMA PipeFailsStep ==
    ASSUME IInv, NEW i \in Slot, PipeFails(i)
    PROVE  IInv'
<1> USE DEF IInv
<1>1. /\ pc' = "idle" /\ verdict' = "Unknown" /\ pc = IF i = 0 THEN "spawn0" ELSE "spawn1"
      /\ UNCHANGED <<race, saved, asked, pids, done, outputs, proc, said, readFd, late, outsiders>>
  BY DEF PipeFails, Spawning, Return, parent
<1>2. race \in 1..MaxRaces /\ \A j \in Slot : SlotOK(j)
  BY <1>1 DEF Reading, Slots
<1>3. TypeOK' /\ Fresh' /\ Reading' /\ Slots' /\ VerdictSound'
  BY <1>1 DEF TypeOK, Fresh, Reading, Slots, VerdictSound
<1>4. Left'
  <2> SUFFICES ASSUME NEW c \in Child, Over(c)'
               PROVE  /\ readFd[c] \in {0, 1}
                      /\ readFd[c] = 1 \/ proc[c] = "running" => c[2] = 0 /\ Abandoned(c[1])
    BY <1>1 DEF Left, Abandoned
  <2>1. CASE c[1] = race
    <3>1. c[2] \in Slot /\ c = Pipe(c[2])
      BY <2>1, CurrentChild
    <3>2. c[2] = 1 \/ i = 0 => readFd[c] = 0 /\ proc[c] = "unborn"
      BY <1>1, <1>2, <3>1 DEF SlotOK, Forked, Slot
    <3>3. c[2] = 0 /\ i = 1 => readFd[c] = 1 /\ Abandoned(c[1])
      <4>1. i = 1 => proc[Pipe(1)] = "unborn"
        BY <1>1, <1>2 DEF SlotOK, Forked, Slot
      <4>2. c[2] = 0 /\ i = 1 => readFd[c] = 1
        BY <1>1, <1>2, <3>1 DEF SlotOK, Forked, Slot
      <4> QED BY <2>1, <4>1, <4>2 DEF Abandoned, Pipe
    <3> QED BY <3>1, <3>2, <3>3 DEF Slot
  <2>2. CASE c[1] # race
    <3>1. Over(c)
      BY <1>1, <1>2, <2>2, ChildFacts DEF Over
    <3> QED BY <3>1 DEF Left
  <2> QED BY <2>1, <2>2
<1>5. AnswerNotLost'
  <2>1. pids[1] = NoPid /\ Pipe(1) # NoPid
    BY <1>1, <1>2, PipeFacts DEF SlotOK, Forked, Slot
  <2> QED BY <1>1, <2>1 DEF AnswerNotLost, BothForked, Slot, Pipe
<1> QED BY <1>3, <1>4, <1>5

\* While a race is on, what the races before it left stays as it is if their
\* children's descriptors do and no child but those of this race starts.
LEMMA LeftStays ==
    ASSUME TypeOK, Left, pc # "idle", race' = race, race \in 1..MaxRaces,
           \A c \in Child : c[1] # race =>
               /\ readFd'[c] = readFd[c]
               /\ proc'[c] = "running" => proc[c] = "running"
               /\ proc[c] = "unborn" => proc'[c] = "unborn",
           pc' # "idle"
    PROVE  Left'
<1> SUFFICES ASSUME NEW c \in Child, Over(c)'
             PROVE  /\ readFd'[c] \in {0, 1}
                    /\ readFd'[c] = 1 \/ proc'[c] = "running" => c[2] = 0 /\ Abandoned(c[1])'
  BY DEF Left
<1>1. c[1] < race /\ c[1] # race
  BY ChildFacts DEF Over
<1>2. Over(c)
  BY <1>1 DEF Over
<1>3. <<c[1], 1>> \in Child
  BY ChildFacts DEF Child, Slot
<1>4. Abandoned(c[1]) => Abandoned(c[1])'
  BY <1>1, <1>3 DEF Abandoned
<1> QED BY <1>1, <1>2, <1>4 DEF Left

\* A child is forked, or the fork fails.
LEMMA ForkStep ==
    ASSUME IInv, NEW i \in Slot, Fork(i)
    PROVE  IInv'
<1> USE DEF IInv
<1>1. /\ pc = IF i = 0 THEN "spawn0" ELSE "spawn1"
      /\ pc' = IF i = 0 THEN "spawn1" ELSE "poll0"
      /\ readFd' = [readFd EXCEPT ![Pipe(i)] = @ + 1]
      /\ UNCHANGED <<race, saved, asked, done, outputs, said, late, verdict, outsiders>>
  BY DEF Fork, Spawning, Spawned, parent
<1>2. \/ pids' = [pids EXCEPT ![i] = ForkFailed] /\ proc' = proc
      \/ pids' = [pids EXCEPT ![i] = Pipe(i)] /\ proc' = [proc EXCEPT ![Pipe(i)] = "running"]
  BY DEF Fork
<1>3. race \in 1..MaxRaces /\ \A j \in Slot : SlotOK(j)
  BY <1>1 DEF Reading, Slots
<1>4. /\ Pipe(i) \in Child /\ Pipe(i)[1] = race /\ Pipe(i) # ForkFailed
      /\ \A j \in Slot : Pipe(j) \in Child /\ (Pipe(j) = Pipe(i) => j = i)
  BY <1>3, PipeFacts
<1>5. TypeOK'
  <2>1. readFd' \in [Child -> Int]
    BY <1>1, <1>4 DEF TypeOK
  <2>2. /\ pids \in [Slot -> Child \cup {NoPid, ForkFailed}] /\ proc \in [Child -> States]
        /\ "running" \in States /\ Pipe(i) \in Child
    BY <1>4 DEF TypeOK, States
  <2>3. pids' \in [Slot -> Child \cup {NoPid, ForkFailed}]
    BY <1>2, <2>2
  <2>4. proc' \in [Child -> States]
    BY <1>2, <2>2
  <2> QED BY <1>1, <2>1, <2>3, <2>4 DEF TypeOK
<1>6. Fresh'
  BY <1>1, <1>2, <1>3, <1>4 DEF Fresh, TypeOK
<1>7. Reading'
  BY <1>1 DEF Reading, FileRead, Pipe
<1>8. Slots'
  <2> SUFFICES ASSUME NEW j \in Slot PROVE SlotOK(j)'
    BY DEF Slots
  <2>1. Pipe(j)' = Pipe(j) /\ ~done[j]
    BY <1>1, <1>3 DEF Pipe, SlotOK, Forked
  <2>2. CASE j = i
    <3>1. pids'[j] \in {Pipe(j), ForkFailed} /\ readFd'[Pipe(j)] = 1
      BY <1>1, <1>2, <1>3, <1>4, <2>2 DEF SlotOK, Forked, TypeOK
    <3>2. pids'[j] = ForkFailed => proc'[Pipe(j)] = "unborn"
      BY <1>1, <1>2, <1>3, <1>4, <2>2 DEF SlotOK, Forked, TypeOK
    <3>3. pids'[j] # ForkFailed => proc'[Pipe(j)] = "running"
      BY <1>2, <1>4, <2>2 DEF TypeOK
    <3>4. Forked(j)'
      BY <1>1, <2>2 DEF Forked, Slot
    <3> QED BY <1>1, <2>1, <3>1, <3>2, <3>3, <3>4 DEF SlotOK, NoForkFailed
  <2>3. CASE j # i
    <3>1. /\ pids'[j] = pids[j] /\ proc'[Pipe(j)] = proc[Pipe(j)]
          /\ readFd'[Pipe(j)] = readFd[Pipe(j)]
      BY <1>1, <1>2, <1>4, <2>3 DEF TypeOK
    <3>2. Forked(j)' <=> Forked(j)
      BY <1>1, <2>3 DEF Forked, Slot
    <3>3. pids[i] # ForkFailed
      BY <1>1, <1>3 DEF SlotOK, Forked, NoPid, ForkFailed
    <3>4. NoForkFailed' => NoForkFailed
      BY <1>2, <3>3 DEF NoForkFailed, TypeOK
    <3>5. pids'[j] \in {Pipe(j), ForkFailed} \/ ~Forked(j)
      BY <1>3, <3>1 DEF SlotOK
    <3> QED BY <1>1, <1>3, <2>1, <3>1, <3>2, <3>4, <3>5 DEF SlotOK
  <2> QED BY <2>2, <2>3
<1>9. Left'
  BY <1>1, <1>2, <1>3, <1>4, LeftStays DEF TypeOK
<1>10. VerdictSound' /\ AnswerNotLost'
  BY <1>1 DEF VerdictSound, AnswerNotLost
<1> QED BY <1>5, <1>6, <1>7, <1>8, <1>9, <1>10

\* A solver answers, or dies.
LEMMA SolverExitsStep ==
    ASSUME IInv, NEW c \in Child, SolverExits(c)
    PROVE  IInv'
<1> USE DEF IInv
<1>1. /\ proc[c] = "running" /\ proc' = [proc EXCEPT ![c] = "dead"]
      /\ UNCHANGED <<pc, race, saved, asked, pids, done, outputs, readFd, late, verdict, outsiders>>
  BY DEF SolverExits, parent
<1>2. PICK a \in {"none"} \cup (IF Racing(c) THEN {FileRead} ELSE {}) :
             said' = [said EXCEPT ![c] = a]
  BY DEF SolverExits
<1>3. /\ a = "none" \/ (c[1] = race /\ pc # "idle" /\ a = asked)
      /\ c[1] <= race
  <2>1. c[1] <= race
    <3>1. ~(c[1] > race)
      BY <1>1 DEF Fresh
    <3>2. c[1] \in Int /\ race \in Int
      BY ChildFacts, RaceAssumption DEF TypeOK
    <3> QED BY <3>1, <3>2
  <2> QED BY <1>2, <2>1 DEF Racing, Reading
<1>4. TypeOK'
  <2>1. said' \in [Child -> Truths \cup {"none"}] /\ proc' \in [Child -> States]
    BY <1>1, <1>2, <1>3 DEF TypeOK, States
  <2> QED BY <1>1, <2>1 DEF TypeOK
<1>5. Fresh'
  <2> SUFFICES ASSUME NEW d \in Child, d[1] > race
               PROVE  proc'[d] = "unborn" /\ said'[d] = "none" /\ readFd[d] = 0
    BY <1>1 DEF Fresh
  <2>1. d # c
    BY <1>3, ChildFacts DEF TypeOK
  <2> QED BY <1>1, <1>2, <2>1 DEF Fresh, TypeOK
<1>6. Reading'
  <2> SUFFICES ASSUME pc # "idle", NEW i \in Slot
               PROVE  said'[Pipe(i)] \in {"none", asked}
    BY <1>1 DEF Reading, FileRead, Pipe
  <2>1. Pipe(i) \in Child
    BY PipeFacts DEF Reading
  <2> QED BY <1>2, <1>3, <2>1 DEF Reading, TypeOK
<1>7. Slots'
  <2> SUFFICES ASSUME pc # "idle", NEW i \in Slot PROVE SlotOK(i)'
    BY <1>1 DEF Slots
  <2>1. Pipe(i) \in Child /\ Pipe(i)' = Pipe(i) /\ SlotOK(i)
    BY <1>1, PipeFacts DEF Reading, Slots, Pipe
  <2>2. CASE c = Pipe(i)
    <3>1. proc'[Pipe(i)] = "dead" /\ ~done[i] /\ pids[i] # ForkFailed /\ Forked(i)
      BY <1>1, <2>1, <2>2 DEF SlotOK, TypeOK
    <3> QED BY <1>1, <2>1, <3>1 DEF SlotOK, Forked, NoForkFailed
  <2>3. CASE c # Pipe(i)
    <3>1. proc'[Pipe(i)] = proc[Pipe(i)] /\ said'[Pipe(i)] = said[Pipe(i)]
      BY <1>1, <1>2, <2>1, <2>3 DEF TypeOK
    <3> QED BY <1>1, <2>1, <3>1 DEF SlotOK, Forked, NoForkFailed
  <2> QED BY <2>2, <2>3
<1>8. Left'
  <2> SUFFICES ASSUME NEW d \in Child, Over(d)
               PROVE  /\ readFd[d] \in {0, 1}
                      /\ readFd[d] = 1 \/ proc'[d] = "running" => d[2] = 0 /\ Abandoned(d[1])'
    BY <1>1 DEF Left, Over
  <2>1. proc'[d] = "running" => proc[d] = "running"
    BY <1>1 DEF TypeOK
  <2>2. <<d[1], 1>> \in Child
    BY ChildFacts DEF Child, Slot
  <2>3. Abandoned(d[1]) => Abandoned(d[1])'
    BY <1>1, <2>2 DEF Abandoned, TypeOK
  <2> QED BY <2>1, <2>3 DEF Left
<1>9. VerdictSound'
  BY <1>1 DEF VerdictSound
<1>10. AnswerNotLost'
  <2> SUFFICES ASSUME pc = "idle", race > 0, verdict = "Unknown", BothForked, ~late,
                      NEW i \in Slot
               PROVE  said'[Pipe(i)] = "none"
    BY <1>1 DEF AnswerNotLost, BothForked, Pipe
  <2>1. said[Pipe(i)] = "none" /\ race \in 1..MaxRaces
    BY RaceAssumption DEF AnswerNotLost, TypeOK
  <2>2. Pipe(i) \in Child
    BY <2>1, PipeFacts
  <2> QED BY <1>2, <1>3, <2>1, <2>2 DEF TypeOK
<1> QED BY <1>4, <1>5, <1>6, <1>7, <1>8, <1>9, <1>10

\* Steps of the parent that change nothing but its place in the loop.
LEMMA MovesOn ==
    ASSUME IInv, pc \in {"poll0", "poll1", "clock"}, pc' \in {"poll0", "poll1", "clock"},
           late' \in BOOLEAN,
           UNCHANGED <<race, saved, asked, pids, done, outputs, proc, said, readFd, verdict,
                       outsiders>>
    PROVE  IInv'
<1> USE DEF IInv
<1>1. TypeOK' /\ Fresh' /\ Reading' /\ VerdictSound' /\ AnswerNotLost'
  BY DEF TypeOK, Fresh, Reading, FileRead, Pipe, VerdictSound, AnswerNotLost
<1>2. Slots'
  BY DEF Slots, SlotOK, Forked, NoForkFailed, Pipe
<1>3. Left'
  BY LeftStays DEF Reading
<1> QED BY <1>1, <1>2, <1>3

\* The parent looks and finds a child alive or done, reads the clock, or sleeps.
LEMMA IdleLoopStep ==
    ASSUME IInv, WallClock \/ Sleep \/ \E i \in Slot : PollDone(i)
    PROVE  IInv'
<1>1. /\ pc \in {"poll0", "poll1", "clock"} /\ pc' \in {"poll0", "poll1", "clock"}
      /\ late' \in BOOLEAN
      /\ UNCHANGED <<race, saved, asked, pids, done, outputs, proc, said, readFd, verdict,
                     outsiders>>
  BY DEF IInv, TypeOK, WallClock, Sleep, PollDone, Polling, Polled, parent
<1> QED BY <1>1, MovesOn

\* A race that returns with its descriptors closed and its solvers ended leaves
\* nothing behind that earlier races did not.
LEMMA LeftAtEnd ==
    ASSUME TypeOK, Left, pc # "idle", race' = race, race \in 1..MaxRaces,
           \A c \in Child : c[1] # race =>
               /\ readFd'[c] = readFd[c]
               /\ proc'[c] = "running" => proc[c] = "running"
               /\ proc[c] = "unborn" => proc'[c] = "unborn",
           \A j \in Slot : readFd'[Pipe(j)] = 0 /\ proc'[Pipe(j)] # "running"
    PROVE  Left'
<1> SUFFICES ASSUME NEW c \in Child, Over(c)'
             PROVE  /\ readFd'[c] \in {0, 1}
                    /\ readFd'[c] = 1 \/ proc'[c] = "running" => c[2] = 0 /\ Abandoned(c[1])'
  BY DEF Left
<1>1. CASE c[1] = race
  BY <1>1, CurrentChild
<1>2. CASE c[1] # race
  <2>1. c[1] < race
    BY <1>2, ChildFacts DEF Over
  <2>2. <<c[1], 1>> \in Child
    BY ChildFacts DEF Child, Slot
  <2>3. Abandoned(c[1]) => Abandoned(c[1])'
    BY <1>2, <2>2 DEF Abandoned
  <2> QED BY <1>2, <2>1, <2>3 DEF Left, Over
<1> QED BY <1>1, <1>2

\* waitpid finds no such child.
LEMMA PollGoneStep ==
    ASSUME IInv, NEW i \in Slot, PollGone(i)
    PROVE  IInv'
<1> USE DEF IInv
<1>1. /\ pc \in {"poll0", "poll1"} /\ pc' \in {"poll1", "clock"}
      /\ ~done[i] /\ Dead(i) = {} /\ Alive(i) = {}
      /\ done' = [done EXCEPT ![i] = TRUE]
      /\ UNCHANGED <<race, saved, asked, pids, outputs, proc, said, late, verdict, outsiders>>
  BY DEF PollGone, Polling, Polled, parent
<1>2. readFd' = [c \in Child |-> IF c \in {Pipe(i)} THEN readFd[c] - 1 ELSE readFd[c]]
  BY DEF PollGone, Close
<1>3. race \in 1..MaxRaces /\ \A j \in Slot : SlotOK(j)
  BY <1>1 DEF Reading, Slots
<1>4. Pipe(i) \in Child /\ \A j \in Slot : Pipe(j) \in Child /\ (Pipe(j) = Pipe(i) => j = i)
  BY <1>3, PipeFacts
<1>5. TypeOK'
  BY <1>1, <1>2 DEF TypeOK
<1>6. Fresh'
  BY <1>1, <1>2, <1>3, <1>4, PipeFacts, ChildFacts DEF Fresh
<1>7. Reading' /\ VerdictSound' /\ AnswerNotLost'
  BY <1>1 DEF Reading, FileRead, Pipe, VerdictSound, AnswerNotLost
<1>8. Slots'
  <2> SUFFICES ASSUME NEW j \in Slot PROVE SlotOK(j)'
    BY DEF Slots
  <2>1. Pipe(j)' = Pipe(j) /\ Forked(j) /\ Forked(j)' /\ (NoForkFailed' <=> NoForkFailed)
    BY <1>1 DEF Pipe, Forked, NoForkFailed
  <2>2. CASE j = i
    <3>1. readFd'[Pipe(j)] = 0 /\ done'[j]
      BY <1>1, <1>2, <1>3, <1>4, <2>1, <2>2 DEF SlotOK, TypeOK
    <3>2. pids[i] = Pipe(i) => proc[Pipe(i)] \notin {"running", "dead"}
      BY <1>1, <1>4 DEF Dead, Alive, Awaited, Children
    <3>3. proc[Pipe(i)] # "running" /\ ~NoForkFailed
      BY <1>1, <1>3, <2>1, <2>2, <3>2 DEF SlotOK, NoForkFailed
    <3> QED BY <1>1, <1>3, <2>1, <2>2, <3>1, <3>3 DEF SlotOK
  <2>3. CASE j # i
    <3>1. readFd'[Pipe(j)] = readFd[Pipe(j)] /\ done'[j] = done[j]
      BY <1>1, <1>2, <1>4, <2>3 DEF TypeOK
    <3> QED BY <1>1, <1>3, <2>1, <3>1 DEF SlotOK
  <2> QED BY <2>2, <2>3
<1>9. Left'
  <2>1. \A c \in Child : c[1] # race => readFd'[c] = readFd[c]
    BY <1>2, <1>3, PipeFacts
  <2> QED BY <1>1, <1>3, <2>1, LeftStays
<1> QED BY <1>5, <1>6, <1>7, <1>8, <1>9

\* The time of the race is up.
LEMMA TimeOutStep ==
    ASSUME IInv, TimeOut
    PROVE  IInv'
<1> USE DEF IInv
<1>1. /\ pc = "clock" /\ late /\ pc' = "idle" /\ verdict' = "Unknown"
      /\ UNCHANGED <<race, saved, asked, pids, done, outputs, said, late>>
  BY DEF TimeOut, Return, parent
<1>2. /\ proc' = [c \in Child |-> IF \E j \in Unfinished : c \in Killed(pids[j])
                                  THEN "dead" ELSE proc[c]]
      /\ outsiders' \in {"alive", "killed"}
  BY DEF TimeOut, Kill, TypeOK
<1>3. readFd' = [c \in Child |-> IF \E j \in Unfinished : c = Pipe(j)
                                 THEN readFd[c] - 1 ELSE readFd[c]]
  BY DEF TimeOut, Close
<1>4. race \in 1..MaxRaces /\ \A j \in Slot : SlotOK(j)
  BY <1>1 DEF Reading, Slots
<1>5. \A p, c : c \in Killed(p) => proc[c] = "running"
  BY DEF Killed, Children
<1>6. \A j \in Slot : Pipe(j) \in Child /\ Pipe(j)[1] = race
                      /\ \A k \in Slot : Pipe(j) = Pipe(k) => j = k
  BY <1>4, PipeFacts
<1>7. TypeOK'
  <2>1. proc' \in [Child -> States]
    BY <1>2 DEF TypeOK, States
  <2>2. readFd' \in [Child -> Int]
    BY <1>3 DEF TypeOK
  <2> QED BY <1>1, <1>2, <2>1, <2>2 DEF TypeOK
<1>8. \A c \in Child : c[1] # race =>
               /\ readFd'[c] = readFd[c]
               /\ proc'[c] = "running" => proc[c] = "running"
               /\ proc[c] = "unborn" => proc'[c] = "unborn"
  BY <1>2, <1>3, <1>5, <1>6 DEF Unfinished
<1>9. Fresh'
  BY <1>1, <1>4, <1>8, ChildFacts DEF Fresh
<1>10. Left'
  <2>1. ASSUME NEW j \in Slot PROVE readFd'[Pipe(j)] = 0 /\ proc'[Pipe(j)] # "running"
    <3>1. CASE done[j]
      BY <1>1, <1>2, <1>3, <1>4, <1>6, <3>1 DEF SlotOK, Forked, Unfinished
    <3>2. CASE ~done[j]
      <4>1. j \in Unfinished /\ readFd[Pipe(j)] = 1 /\ pids[j] \in {Pipe(j), ForkFailed}
        BY <1>1, <1>4, <3>2 DEF SlotOK, Forked, Unfinished
      <4>2. proc[Pipe(j)] = "running" => Pipe(j) \in Killed(pids[j])
        BY <1>6, <4>1 DEF Killed, Children
      <4> QED BY <1>2, <1>3, <1>6, <4>1, <4>2
    <3> QED BY <3>1, <3>2
  <2> QED BY <1>1, <1>4, <1>8, <2>1, LeftAtEnd
<1>11. Reading' /\ Slots' /\ VerdictSound' /\ AnswerNotLost'
  BY <1>1 DEF Reading, Slots, VerdictSound, AnswerNotLost
<1> QED BY <1>7, <1>9, <1>10, <1>11

\* Both are finished, and the race is decided.
LEMMA DecideStep ==
    ASSUME IInv, Decide
    PROVE  IInv'
<1> USE DEF IInv
<1>1. /\ pc = "clock" /\ pc' = "idle" /\ verdict' = Verdict /\ \A j \in Slot : done[j]
      /\ UNCHANGED <<race, saved, asked, pids, done, outputs, proc, said, readFd, late, outsiders>>
  BY DEF Decide, Return, AllDone, parent
<1>2. race \in 1..MaxRaces /\ \A j \in Slot : SlotOK(j) /\ outputs[j] \in {"none", asked}
  BY <1>1 DEF Reading, Slots
<1>3. Verdict \in {"True", "Sat", "Unknown"}
  BY DEF Verdict
<1>4. TypeOK' /\ Fresh' /\ Reading' /\ Slots'
  BY <1>1, <1>3 DEF TypeOK, Fresh, Reading, Slots
<1>5. VerdictSound'
  BY <1>1, <1>2 DEF VerdictSound, Verdict
<1>6. Left'
  BY <1>1, <1>2, LeftAtEnd DEF SlotOK, Forked
<1>7. AnswerNotLost'
  <2> SUFFICES ASSUME Verdict = "Unknown", BothForked, NEW j \in Slot
               PROVE  said[Pipe(j)] = "none"
    BY <1>1 DEF AnswerNotLost, BothForked, Pipe
  <2>1. NoForkFailed
    BY <1>2, PipeFacts DEF BothForked, NoForkFailed
  <2>2. outputs[j] = said[Pipe(j)]
    BY <1>1, <1>2, <2>1 DEF SlotOK
  <2>3. outputs[j] \notin {"unsat", "sat"}
    BY DEF Verdict
  <2> QED BY <2>2, <2>3, RaceAssumption DEF TypeOK
<1> QED BY <1>4, <1>5, <1>6, <1>7

\* A child has ended and slot i takes it for its own: so it is, unless fork
\* failed, and then nothing is read.
LEMMA Reaping ==
    ASSUME IInv, NEW i \in Slot, Polling(i), ~done[i], NEW c \in Dead(i)
    PROVE  /\ pc \in {"poll0", "poll1"} /\ race \in 1..MaxRaces
           /\ \A j \in Slot : SlotOK(j)
           /\ c \in Child /\ proc[c] = "dead"
           /\ Received(i) \in {"none", asked}
           /\ pids[i] = Pipe(i) => c = Pipe(i) /\ Received(i) = said[Pipe(i)]
           /\ pids[i] # Pipe(i) => pids[i] = ForkFailed /\ Received(i) = "none"
<1> USE DEF IInv
<1>1. pc \in {"poll0", "poll1"}
  BY DEF Polling
<1>2. race \in 1..MaxRaces /\ (\A j \in Slot : SlotOK(j)) /\ said[Pipe(i)] \in {"none", asked}
  BY <1>1 DEF Reading, Slots
<1>3. c \in Child /\ proc[c] = "dead" /\ (pids[i] # ForkFailed => c = pids[i])
  BY DEF Dead, Awaited, Children
<1>4. pids[i] \in {Pipe(i), ForkFailed} /\ Pipe(i) # ForkFailed
  BY <1>1, <1>2, PipeFacts DEF SlotOK, Forked
<1> QED BY <1>1, <1>2, <1>3, <1>4 DEF Received

\* A child that exited has said unsat, which ends the race.
LEMMA ShortCutStep ==
    ASSUME IInv, NEW i \in Slot, PollExited(i), Received(i) = "unsat"
    PROVE  IInv'
<1> USE DEF IInv
<1>1. PICK c \in Dead(i) :
         /\ proc' = [d \in Child |->
               IF d = c THEN "reaped"
               ELSE IF ~done[1 - i] /\ d \in Killed(pids[1 - i]) THEN "dead" ELSE proc[d]]
         /\ StopOther(i)
  BY DEF PollExited
<1>2. /\ Polling(i) /\ ~done[i] /\ pc' = "idle" /\ verdict' = "True"
      /\ done' = [done EXCEPT ![i] = TRUE]
      /\ outputs' = [outputs EXCEPT ![i] = Received(i)]
      /\ UNCHANGED <<race, saved, asked, pids, said, late>>
  BY DEF PollExited, Return, parent
<1>3. /\ pc \in {"poll0", "poll1"} /\ race \in 1..MaxRaces
      /\ \A j \in Slot : SlotOK(j)
      /\ c = Pipe(i) /\ c \in Child /\ proc[c] = "dead" /\ asked = "unsat"
      /\ Received(i) = said[Pipe(i)]
  BY <1>2, Reaping
<1>4. \A p, d : d \in Killed(p) => proc[d] = "running"
  BY DEF Killed, Children
<1>5. \A j \in Slot : Pipe(j) \in Child /\ Pipe(j)[1] = race
                      /\ \A k \in Slot : Pipe(j) = Pipe(k) => j = k
  BY <1>3, PipeFacts
<1>6. 1 - i \in Slot /\ 1 - i # i /\ \A j \in Slot : j = i \/ j = 1 - i
  BY DEF Slot
<1>7. /\ readFd' = [d \in Child |->
            IF d = Pipe(i) \/ (~done[1 - i] /\ d = Pipe(1 - i)) THEN readFd[d] - 1 ELSE readFd[d]]
      /\ outsiders' \in {"alive", "killed"}
  BY <1>1 DEF StopOther, Close, TypeOK
<1>8. TypeOK'
  <2>1. proc' \in [Child -> States] /\ readFd' \in [Child -> Int]
    BY <1>1, <1>7 DEF TypeOK, States
  <2>2. done' \in [Slot -> BOOLEAN]
    BY <1>2 DEF TypeOK
  <2>3. outputs' \in [Slot -> Truths \cup {"none"}]
    BY <1>2, <1>3, <1>5 DEF TypeOK
  <2> QED BY <1>2, <1>7, <2>1, <2>2, <2>3 DEF TypeOK
<1>9. \A d \in Child : d[1] # race =>
               /\ readFd'[d] = readFd[d]
               /\ proc'[d] = "running" => proc[d] = "running"
               /\ proc[d] = "unborn" => proc'[d] = "unborn"
  BY <1>1, <1>3, <1>4, <1>5, <1>6, <1>7
<1>10. Fresh'
  BY <1>2, <1>3, <1>9, ChildFacts DEF Fresh
<1>11. Left'
  <2>1. readFd'[Pipe(i)] = 0 /\ proc'[Pipe(i)] # "running"
    BY <1>1, <1>2, <1>3, <1>5, <1>7 DEF SlotOK, Forked
  <2>2. readFd'[Pipe(1 - i)] = 0 /\ proc'[Pipe(1 - i)] # "running"
    <3>1. CASE done[1 - i]
      BY <1>1, <1>3, <1>5, <1>6, <1>7, <3>1 DEF SlotOK, Forked
    <3>2. CASE ~done[1 - i]
      <4>1. readFd[Pipe(1 - i)] = 1 /\ pids[1 - i] \in {Pipe(1 - i), ForkFailed}
        BY <1>3, <1>6, <3>2 DEF SlotOK, Forked
      <4>2. proc[Pipe(1 - i)] = "running" => Pipe(1 - i) \in Killed(pids[1 - i])
        BY <1>5, <1>6, <4>1 DEF Killed, Children
      <4> QED BY <1>1, <1>5, <1>6, <1>7, <3>2, <4>1, <4>2
    <3> QED BY <3>1, <3>2
  <2>3. \A j \in Slot : readFd'[Pipe(j)] = 0 /\ proc'[Pipe(j)] # "running"
    BY <1>6, <2>1, <2>2
  <2> QED BY <1>2, <1>3, <1>9, <2>3, LeftAtEnd
<1>12. Reading' /\ Slots' /\ AnswerNotLost' /\ VerdictSound'
  BY <1>2, <1>3 DEF Reading, Slots, AnswerNotLost, VerdictSound
<1> QED BY <1>8, <1>10, <1>11, <1>12

\* A child that exited has said something else.
LEMMA ReadOnStep ==
    ASSUME IInv, NEW i \in Slot, PollExited(i), Received(i) # "unsat"
    PROVE  IInv'
<1> USE DEF IInv
<1>1. PICK c \in Dead(i) :
         /\ proc' = [proc EXCEPT ![c] = "reaped"]
         /\ Close({Pipe(i)}) /\ Polled(i) /\ UNCHANGED <<outsiders, verdict>>
  BY DEF PollExited
<1>2. /\ Polling(i) /\ ~done[i]
      /\ done' = [done EXCEPT ![i] = TRUE]
      /\ outputs' = [outputs EXCEPT ![i] = Received(i)]
      /\ UNCHANGED <<race, saved, asked, pids, said, late>>
  BY DEF PollExited, parent
<1>3. /\ pc \in {"poll0", "poll1"} /\ race \in 1..MaxRaces
      /\ \A j \in Slot : SlotOK(j)
      /\ c \in Child /\ proc[c] = "dead"
      /\ Received(i) \in {"none", asked}
      /\ pids[i] = Pipe(i) => c = Pipe(i) /\ Received(i) = said[Pipe(i)]
      /\ pids[i] # Pipe(i) => pids[i] = ForkFailed
  BY <1>2, Reaping
<1>4. pc' \in {"poll1", "clock"}
  BY <1>1 DEF Polled
<1>5. readFd' = [d \in Child |-> IF d = Pipe(i) THEN readFd[d] - 1 ELSE readFd[d]]
  BY <1>1 DEF Close
<1>6. \A j \in Slot : Pipe(j) \in Child /\ Pipe(j)[1] = race
                      /\ \A k \in Slot : Pipe(j) = Pipe(k) => j = k
  BY <1>3, PipeFacts
<1>7. TypeOK'
  <2>1. proc' \in [Child -> States]
    BY <1>1 DEF TypeOK, States
  <2>4. readFd' \in [Child -> Int]
    BY <1>5 DEF TypeOK
  <2>2. done' \in [Slot -> BOOLEAN]
    BY <1>2 DEF TypeOK
  <2>3. outputs' \in [Slot -> Truths \cup {"none"}]
    BY <1>2, <1>3 DEF TypeOK
  <2> QED BY <2>4, <1>1, <1>2, <1>4, <2>1, <2>2, <2>3 DEF TypeOK
<1>8. \A d \in Child :
               /\ d[1] # race => readFd'[d] = readFd[d]
               /\ proc'[d] = "running" => proc[d] = "running"
               /\ proc[d] = "unborn" => proc'[d] = "unborn"
  BY <1>1, <1>3, <1>5, <1>6 DEF TypeOK
<1>9. Fresh'
  BY <1>2, <1>3, <1>8, ChildFacts DEF Fresh
<1>10. Reading'
  BY <1>2, <1>3 DEF Reading, FileRead, Pipe, TypeOK
<1>11. Slots'
  <2> SUFFICES ASSUME NEW j \in Slot PROVE SlotOK(j)'
    BY DEF Slots
  <2>1. Pipe(j)' = Pipe(j) /\ Forked(j) /\ Forked(j)' /\ (NoForkFailed' <=> NoForkFailed)
    BY <1>2, <1>3, <1>4 DEF Pipe, Forked, NoForkFailed
  <2>2. NoForkFailed => c = Pipe(i)
    BY <1>3 DEF NoForkFailed
  <2>3. CASE j = i
    <3>1. readFd'[Pipe(j)] = 0 /\ done'[j] /\ outputs'[j] = Received(i)
      BY <1>2, <1>3, <1>5, <1>6, <2>1, <2>3 DEF SlotOK, TypeOK
    <3>2. pids[i] = Pipe(i) => proc'[Pipe(i)] = "reaped"
      BY <1>1, <1>3, <1>6 DEF TypeOK
    <3>3. pids[i] # Pipe(i) => proc'[Pipe(i)] = "unborn"
      BY <1>3, <1>6, <1>8 DEF SlotOK
    <3>4. NoForkFailed => outputs'[j] = said[Pipe(j)]
      BY <1>3, <2>3, <3>1 DEF NoForkFailed
    <3>5. proc'[Pipe(j)] # "running"
      BY <2>3, <3>2, <3>3
    <3>6. pids[j] = ForkFailed => proc'[Pipe(j)] = "unborn"
      BY <1>3, <1>6, <1>8 DEF SlotOK
    <3> QED BY <1>2, <1>3, <1>4, <2>1, <3>1, <3>4, <3>5, <3>6 DEF SlotOK
  <2>4. CASE j # i
    <3>1. readFd'[Pipe(j)] = readFd[Pipe(j)] /\ done'[j] = done[j] /\ outputs'[j] = outputs[j]
      BY <1>2, <1>5, <1>6, <2>4 DEF TypeOK
    <3>2. NoForkFailed => proc'[Pipe(j)] = proc[Pipe(j)]
      BY <1>1, <1>6, <2>2, <2>4 DEF TypeOK
    <3>3. /\ pids[j] = ForkFailed => proc'[Pipe(j)] = "unborn"
          /\ done[j] => proc'[Pipe(j)] # "running"
      BY <1>3, <1>6, <1>8 DEF SlotOK
    <3> QED BY <1>2, <1>3, <1>4, <2>1, <3>1, <3>2, <3>3 DEF SlotOK
  <2> QED BY <2>3, <2>4
<1>12. Left'
  BY <1>2, <1>3, <1>4, <1>8, LeftStays
<1>13. VerdictSound' /\ AnswerNotLost'
  BY <1>4 DEF VerdictSound, AnswerNotLost
<1> QED BY <1>7, <1>9, <1>10, <1>11, <1>12, <1>13

-----------------------------------------------------------------------------

\* Every step keeps the invariant.
LEMMA NextIInv ==
    ASSUME IInv, [Next]_vars
    PROVE  IInv'
<1>1. CASE Parent
  BY <1>1, PipeFailsStep, ForkStep, IdleLoopStep, PollGoneStep, ShortCutStep, ReadOnStep,
     TimeOutStep, DecideStep DEF Parent
<1>2. CASE WallClock
  BY <1>2, IdleLoopStep
<1>3. CASE Outside
  BY <1>3, BeginStep, SaveStep, SolverExitsStep DEF Outside
<1>4. CASE UNCHANGED vars
  BY <1>4 DEF vars, IInv, TypeOK, Fresh, Reading, FileRead, Slots, SlotOK, Forked, NoForkFailed,
              Left, Over, Abandoned, VerdictSound, AnswerNotLost, BothForked, Pipe
<1> QED BY <1>1, <1>2, <1>3, <1>4 DEF Next

\* The invariant of every run.
LEMMA Inductive == Spec => []IInv
BY InitIInv, NextIInv, PTL DEF Spec

\* The shape of the state, for any bounds.
THEOREM RaceTyping == Spec => []TypeOK
<1>1. IInv => TypeOK
  BY DEF IInv
<1> QED BY <1>1, Inductive, PTL

(***************************************************************************)
(* z3_race_check returns True only of an unsatisfiable query and Sat only  *)
(* of a satisfiable one, however solvers, clock, fork and pipe behave.     *)
(***************************************************************************)
THEOREM RaceSound == Spec => []VerdictSound
<1>1. IInv => VerdictSound
  BY DEF IInv
<1> QED BY <1>1, Inductive, PTL

(***************************************************************************)
(* Unknown within the wall limit means that neither solver answered.       *)
(***************************************************************************)
THEOREM RaceLosesNothing == Spec => []AnswerNotLost
<1>1. IInv => AnswerNotLost
  BY DEF IInv
<1> QED BY <1>1, Inductive, PTL

\* What is left of a child when its race is over.
LEMMA ChildrenTidied ==
    ASSUME IInv, NEW c \in Child
    PROVE  /\ readFd[c] \in {0, 1}
           /\ pc = "idle" /\ (readFd[c] = 1 \/ proc[c] = "running")
                  => c[2] = 0 /\ Abandoned(c[1])
<1> USE DEF IInv
<1>1. CASE c[1] > race
  BY <1>1 DEF Fresh
<1>2. CASE Over(c)
  BY <1>2 DEF Left
<1>3. CASE ~(c[1] > race) /\ ~Over(c)
  <2>1. c[1] = race /\ pc # "idle"
    <3>1. c[1] \in Int /\ race \in Int
      BY ChildFacts, RaceAssumption DEF TypeOK
    <3> QED BY <1>3, <3>1 DEF Over
  <2>2. c[2] \in Slot /\ c = Pipe(c[2]) /\ SlotOK(c[2])
    BY <2>1, CurrentChild DEF Slots
  <2> QED BY <2>1, <2>2 DEF SlotOK
<1> QED BY <1>1, <1>2, <1>3

(***************************************************************************)
(* Every descriptor a race opens is closed once and none stays open, but   *)
(* for that of the first solver of a race whose second pipe failed.        *)
(***************************************************************************)
THEOREM RaceClosesDescriptors == Spec => []Descriptors
<1>1. IInv => Descriptors
  BY ChildrenTidied DEF Descriptors, Children
<1> QED BY <1>1, Inductive, PTL

(***************************************************************************)
(* No solver outlives its race, but for the first solver of a race whose   *)
(* second pipe failed.                                                     *)
(***************************************************************************)
THEOREM RaceLeavesNoneRunning == Spec => []NoneLeftRunning
<1>1. IInv => NoneLeftRunning
  BY ChildrenTidied DEF NoneLeftRunning, Children
<1> QED BY <1>1, Inductive, PTL

(***************************************************************************)
(* The race implements the safety part of the oracle: what the prover sees *)
(* is a question put and, in one step, a right answer to it.               *)
(***************************************************************************)
THEOREM RaceImplementsOracle == Spec => Oracle!Init /\ [][Oracle!Next]_(Oracle!vars)
<1>1. Init => Oracle!Init
  BY DEF Init, Oracle!Init
<1>2. ASSUME IInv, IInv', [Next]_vars
      PROVE  [Oracle!Next]_(Oracle!vars)
  <2>1. CASE \E t \in Truths : Begin(t)
    BY <2>1 DEF Begin, Oracle!Next, Oracle!Ask
  <2>2. CASE Parent
    <3>1. asked' = asked /\ pc # "idle"
      BY <2>2 DEF Parent, PipeFails, Fork, PollDone, PollGone, PollExited, Sleep, TimeOut,
                  Decide, Spawning, Polling, parent
    <3>2. CASE pc' = "idle"
      <4>1. verdict' \in {"True", "Sat", "Unknown"} /\ Oracle!Right(verdict', asked)
        BY <1>2, <3>1, <3>2 DEF IInv, TypeOK, VerdictSound, Oracle!Right
      <4> QED BY <3>1, <3>2, <4>1 DEF Oracle!Next, Oracle!Reply, Oracle!Verdicts
    <3>3. CASE pc' # "idle"
      <4>1. verdict' = verdict
        BY <2>2, <3>3 DEF Parent, PipeFails, Fork, PollDone, PollGone, PollExited, Sleep,
                          TimeOut, Decide, Return
      <4> QED BY <3>1, <3>3, <4>1 DEF Oracle!vars
    <3> QED BY <3>2, <3>3
  <2>3. CASE WallClock \/ (\E t \in Truths : SaveOther(t)) \/ NewQueryInfo
             \/ (\E c \in Child : SolverExits(c)) \/ UNCHANGED vars
    BY <2>3 DEF WallClock, SaveOther, NewQueryInfo, SolverExits, vars, parent, Oracle!vars
  <2> QED BY <1>2, <2>1, <2>2, <2>3 DEF Next, Outside
<1> QED BY <1>1, <1>2, Inductive, PTL DEF Spec
=============================================================================
