------------------------- MODULE SemPrinters_proofs -------------------------
(***************************************************************************)
(* Proofs about module SemPrinters, for any number of rounds: whole        *)
(* messages, in turn where the program has a flag, and all of them.        *)
(*                                                                         *)
(* Two things keep the writers apart: the semaphore, as long as it exists  *)
(* (Locks) - it is removed only when one of them has left its loop for     *)
(* good (Removals) - and in shmem the flag (Turns), whatever the           *)
(* semaphores are.  On that rests what the last character of the output    *)
(* tells (Text, Alternation), and so that messages stay whole.             *)
(***************************************************************************)
EXTENDS SemPrinters, FiniteSetTheorems, TLAPS

Other(w) == 3 - w

\* The part of the loop between the two operations on the semaphore.
Inside(w) == pc[w] \in {"display", "set", "release"}

\* A semaphore that exists counts the places its users have left free, and these
\* exclude each other; removed ones are used by one writer at most.
Locks ==
    /\ \A s \in Sems : ~removed[s] =>
          sem[s] = IF \E w \in Writers : MySem(w) = s /\ Inside(w) THEN 0 ELSE 1
    /\ OneSem => ~(Inside(1) /\ Inside(2))

\* The writer whose turn it is not has not passed its look at the flag.
Turns ==
    program.turns => \A w \in Writers :
        pc[w] \in {"acquire", "display", "set"} => x = w - 1

\* Whoever removes has left its loop, and outside sp1 so has the other writer.
Removals ==
    /\ \A w \in Writers : pc[w] \in {"wait", "remove"} => ~program.joins
    /\ program.name # "sp1" => pc[1] \notin {"wait", "remove"}
    /\ pc[2] = "remove" => ~Prints(1)
    /\ (\E s \in Sems : removed[s]) =>
          IF program.name = "sp1" THEN ~Prints(1) \/ ~Prints(2)
                                  ELSE ~Prints(1) /\ ~Prints(2)

\* Before the fork nothing has happened; a child that was not forked does nothing.
Forking ==
    /\ pc[1] # "fork" /\ pc[2] # "none"
    /\ pc[2] = "fork" => pc[1] = "none" /\ \A s \in Sems : ~removed[s]
    /\ pc[1] = "none" => round[1] = 0 /\ chars[1] = 0
    /\ pc[2] = "fork" => round[2] = 0 /\ chars[2] = 0

\* A writer in its loop has rounds left, one behind it has none, unless the fork
\* failed and ended the program.
Rounds ==
    /\ \A w \in Writers : Prints(w) => round[w] < NumProc
    /\ \A w \in Writers : pc[w] \in {"wait", "remove", "exit"} =>
          \/ round[w] = NumProc
          \/ pc[1] = "none" /\ program.noFork = "exit"

\* A message is begun and ended inside the semaphore.
Middle == \A w \in Writers : chars[w] < MsgLength[w] /\ (chars[w] > 0 => pc[w] = "display")

\* What each writer has written: its rounds, and what it has of this one.
Counted ==
    ~program.turns => \A w \in Writers :
        Cardinality(By(w)) = round[w] * MsgLength[w] + chars[w]
                             + IF pc[w] \in {"set", "release"} THEN MsgLength[w] ELSE 0

IInv == TypeOK /\ Locks /\ Turns /\ Removals /\ Forking /\ Rounds /\ Middle

Apart == OneSem \/ program.turns

\* The last character is the last one of whoever is in the middle of a message, or
\* ends a message.
Text ==
    Apart =>
        /\ \A k \in 1 .. Len(out) - 1 : InOrder(k)
        /\ \A w \in Writers : chars[w] > 0 => out # <<>> /\ out[Len(out)] = <<w, chars[w]>>
        /\ (\A w \in Writers : chars[w] = 0) /\ out # <<>> =>
              out[Len(out)][2] = MsgLength[out[Len(out)][1]]

\* The flag shows whose message comes next, once the last one's writer has set it.
Alternation ==
    program.turns =>
        /\ Alternating
        /\ out = <<>> => x = 0
        /\ \A w \in Writers : pc[w] = "set" => out # <<>> /\ out[Len(out)][1] = w
        /\ out # <<>> => LET l == out[Len(out)][1]
                         IN x = IF chars[l] > 0 \/ pc[l] = "set" THEN l - 1 ELSE 2 - l
TInv == IInv /\ Text /\ Alternation

\* What the five programs have in common.
LEMMA ProgramFacts ==
  ASSUME program \in Programs
  PROVE  /\ MySem(1) = 1 /\ MySem(2) \in Sems
         /\ program.removes = {MySem(1), MySem(2)}
         /\ program.joins \in BOOLEAN /\ program.turns \in BOOLEAN
         /\ program.noFork \in {"exit", "loop"}
         /\ \A w \in Writers : program.after[w] \in {"exit", "wait"}
         /\ program.joins => \A w \in Writers : program.after[w] = "exit"
         /\ program.name # "sp1" => program.after[1] = "exit"
  <1>1. program \in AllPrograms
    BY ProgramsAssumption
  <1>2. PICK s \in Sems : program \in {SynProcess1, Sp1, SynThread1, SynProcess2(s), Shmem(s)}
    BY <1>1 DEF AllPrograms, Sems
  <1>3. CASE program = SynProcess1
    BY <1>3 DEF SynProcess1, MySem, Sems, Writers
  <1>4. CASE program = Sp1
    BY <1>4 DEF Sp1, MySem, Sems, Writers
  <1>5. CASE program = SynThread1
    BY <1>5 DEF SynThread1, MySem, Sems, Writers
  <1>6. CASE program = SynProcess2(s)
    BY <1>6 DEF SynProcess2, MySem, Sems, Writers
  <1>7. CASE program = Shmem(s)
    BY <1>7 DEF Shmem, MySem, Sems, Writers
  <1>8. QED
    BY <1>2, <1>3, <1>4, <1>5, <1>6, <1>7

LEMMA MsgLengths == MsgLength[1] = 2 /\ MsgLength[2] = 3
  BY DEF MsgLength

\* Where a writer can be.
Places == {"none", "fork", "loop", "acquire", "display", "set", "release", "wait", "remove", "exit"}

\* The two pairs the module gives for pc are functions on the writers.
LEMMA PairsOfPlaces ==
  ASSUME NEW a \in Places, NEW b \in Places
  PROVE  <<a, b>> \in [Writers -> Places] /\ <<a, b>>[1] = a /\ <<a, b>>[2] = b
  BY DEF Writers

\* The first state satisfies the invariant.
LEMMA Start == Init => IInv
  <1> SUFFICES ASSUME Init PROVE IInv
    OBVIOUS
  <1> USE NumProcAssumption
  <1>1. pc \in [Writers -> Places] /\ pc[1] = "none" /\ pc[2] = "fork"
    <2>1. "none" \in Places /\ "fork" \in Places
      BY DEF Places
    <2>2. QED
      BY <2>1, PairsOfPlaces DEF Init
  <1>2. TypeOK
    BY <1>1 DEF Init, TypeOK, Writers, Sems, Places
  <1>3. Locks /\ Turns
    BY <1>1 DEF Init, Locks, Turns, Inside, Writers
  <1>4. Removals /\ Forking /\ Rounds
    BY <1>1 DEF Init, Removals, Forking, Rounds, Prints, Writers, Sems
  <1>5. Middle
    BY MsgLengths DEF Init, Middle, Writers
  <1>6. QED
    BY <1>2, <1>3, <1>4, <1>5 DEF IInv

\* The step of the parent that forks, or fails to.
LEMMA ForkPreserves == IInv /\ (Fork \/ ForkFails) => IInv'
  <1> SUFFICES ASSUME IInv, Fork \/ ForkFails PROVE IInv'
    OBVIOUS
  <1> USE NumProcAssumption DEF IInv
  <1>1. pc[2] = "fork" /\ pc[1] = "none" /\ UNCHANGED <<program, sem, removed, round, chars, x, out>>
    BY DEF Fork, ForkFails, GoTo, Forking
  <1>2. PICK a \in {"none", "loop"}, b \in {"loop", "exit"} :
            /\ pc' \in [Writers -> Places]
            /\ pc'[1] = a /\ pc'[2] = b
            /\ b = "exit" => a = "none" /\ program.noFork = "exit"
    <2>1. CASE Fork
      <3>1. "loop" \in Places
        BY DEF Places
      <3>2. QED
        BY <2>1, <3>1, PairsOfPlaces DEF Fork
    <2>2. CASE ForkFails
      BY <2>2, <1>1, ProgramFacts DEF ForkFails, GoTo, TypeOK, Writers, Places
    <2>3. QED
      BY <2>1, <2>2
  <1>3. TypeOK'
    BY <1>1, <1>2 DEF TypeOK, Places
  <1>4. Locks' /\ Turns'
    BY <1>1, <1>2 DEF Locks, Turns, Inside, Writers, MySem, OneSem
  <1>5. Removals'
    BY <1>1, <1>2 DEF Removals, Forking, Prints, Writers
  <1>6. Forking' /\ Middle'
    BY <1>1, <1>2 DEF Forking, Middle, Writers, TypeOK
  <1>7. Rounds'
    BY <1>1, <1>2 DEF Rounds, Forking, Prints, Writers, TypeOK
  <1>8. QED
    BY <1>3, <1>4, <1>5, <1>6, <1>7

\* A writer in its loop who stays there, or leaves it the way its program says.
LEMMA StepInLoop ==
  ASSUME IInv, NEW w \in Writers, Prints(w), UNCHANGED <<program, removed>>,
         NEW to \in {"loop", "acquire", "display", "set", "release", program.after[w]},
         pc' = [pc EXCEPT ![w] = to],
         \A v \in Writers \ {w} : round'[v] = round[v] /\ chars'[v] = chars[v]
  PROVE  pc' \in [Writers -> Places] /\ Removals' /\ Forking'
  <1> USE DEF IInv
  <1>1. pc \in [Writers -> Places] /\ to \in Places
    BY ProgramFacts DEF TypeOK, Places
  <1>2. to \in {"wait", "remove"} => to = "wait" /\ ~program.joins
    BY ProgramFacts DEF TypeOK
  <1>3. w = 1 /\ program.name # "sp1" => to \notin {"wait", "remove"}
    BY ProgramFacts DEF TypeOK
  <1>4. Removals'
    BY <1>1, <1>2, <1>3 DEF Removals, Prints, Writers
  <1>5. to \notin {"none", "fork", "remove"}
    BY ProgramFacts DEF TypeOK
  <1>6. Forking'
    BY <1>1, <1>5 DEF Forking, Prints, Writers
  <1>7. QED
    BY <1>1, <1>4, <1>6

\* A step on which nobody goes into or comes out of a semaphore.
LEMMA SameLocks ==
  ASSUME Locks, UNCHANGED <<program, sem, removed>>, \A v \in Writers : Inside(v)' <=> Inside(v)
  PROVE  Locks'
  BY DEF Locks, MySem, OneSem, Writers

\* The round of a writer that leaves its loop is the last one.
LEMMA RoundOver ==
  ASSUME IInv, NEW w \in Writers, Prints(w), UNCHANGED program,
         pc' = [pc EXCEPT ![w] = NextRound(w)], round' = [round EXCEPT ![w] = round[w] + 1]
  PROVE  Rounds' /\ round' \in [Writers -> 0..NumProc]
  <1> USE NumProcAssumption DEF IInv
  <1>1. round[w] \in 0..NumProc /\ round[w] < NumProc
    BY DEF TypeOK, Rounds
  <1>2. round' \in [Writers -> 0..NumProc]
    BY <1>1 DEF TypeOK
  <1>3. pc'[w] = NextRound(w) /\ \A v \in Writers \ {w} : pc'[v] = pc[v] /\ round'[v] = round[v]
    BY DEF TypeOK
  <1>4. Prints(w)' => round'[w] < NumProc
    BY <1>1, <1>3, ProgramFacts DEF NextRound, Prints, TypeOK
  <1>5. ~Prints(w)' => round'[w] = NumProc
    BY <1>1, <1>3 DEF NextRound, Prints, TypeOK
  <1>6. pc[1] = "none" => pc'[1] = "none" \/ w = 1
    BY <1>3 DEF Writers
  <1>7. pc[1] = "none" => w # 1
    BY DEF Prints
  <1>8. QED
    BY <1>2, <1>3, <1>4, <1>5, <1>6, <1>7 DEF Rounds, Prints, Writers

\* The top of the loop.
LEMMA LoopPreserves == ASSUME IInv, NEW w \in Writers, Loop(w) PROVE IInv'
  <1> USE NumProcAssumption DEF IInv
  <1>1. pc[w] = "loop" /\ Prints(w) /\ UNCHANGED <<program, sem, removed, chars, x, out>>
    BY DEF Loop, GoTo, Prints
  <1>2. PICK to \in {"loop", "acquire", program.after[w]} : pc' = [pc EXCEPT ![w] = to]
    BY DEF Loop, GoTo, NextRound
  <1>3. \A v \in Writers \ {w} : round'[v] = round[v]
    BY DEF Loop, TypeOK
  <1>4. pc' \in [Writers -> Places] /\ Removals' /\ Forking'
    BY <1>1, <1>2, <1>3, StepInLoop
  <1>5. to \notin {"display", "set", "release"}
    BY <1>2, ProgramFacts DEF TypeOK
  <1>6. Locks'
    <2>1. \A v \in Writers : Inside(v)' <=> Inside(v)
      BY <1>1, <1>2, <1>5 DEF Inside, TypeOK
    <2>2. QED
      BY <1>1, <2>1, SameLocks
  <1>7. Rounds' /\ round' \in [Writers -> 0..NumProc]
    <2>1. CASE MyTurn(w)
      <3>1. pc' = [pc EXCEPT ![w] = "acquire"] /\ round' = round
        BY <2>1 DEF Loop, GoTo, TypeOK
      <3>2. QED
        BY <1>1, <3>1 DEF Rounds, Prints, TypeOK, Writers
    <2>2. CASE ~MyTurn(w)
      BY <1>1, <2>2, RoundOver DEF Loop, GoTo
    <2>3. QED
      BY <2>1, <2>2
  <1>8. TypeOK'
    BY <1>1, <1>4, <1>7 DEF TypeOK, Places
  <1>9. Turns'
    <2>1. to = "acquire" => MyTurn(w)
      BY <1>2, ProgramFacts DEF Loop, GoTo, NextRound, TypeOK
    <2>2. QED
      BY <1>1, <1>2, <1>5, <2>1 DEF Turns, MyTurn, TypeOK
  <1>10. Middle'
    BY <1>1, <1>2 DEF Middle, TypeOK
  <1>11. QED
    BY <1>4, <1>6, <1>7, <1>8, <1>9, <1>10

\* Taking the semaphore: if it is removed, the other writer is through with it.
LEMMA AcquirePreserves == ASSUME IInv, NEW w \in Writers, Acquire(w) PROVE IInv'
  <1> USE NumProcAssumption DEF IInv
  <1> DEFINE s == MySem(w)
  <1>1. pc[w] = "acquire" /\ Prints(w) /\ pc' = [pc EXCEPT ![w] = "display"]
    BY DEF Acquire, GoTo, Prints
  <1>2. UNCHANGED <<program, removed, round, chars, x, out>>
    BY DEF Acquire
  <1>3. pc' \in [Writers -> Places] /\ Removals' /\ Forking'
    BY <1>1, <1>2, StepInLoop
  <1>4. s \in Sems /\ Other(w) \in Writers /\ Other(w) # w
    BY ProgramFacts DEF TypeOK, Writers, Sems, Other
  <1>5. Inside(w)' /\ ~Inside(w) /\ (Inside(Other(w))' <=> Inside(Other(w)))
    BY <1>1, <1>4 DEF Inside, TypeOK
  <1>6. \A v \in Writers : v = w \/ v = Other(w)
    BY DEF Writers, Other
  <1>7. Locks' /\ sem' \in [Sems -> {0, 1}]
    <2>1. CASE removed[s]
      <3>1. sem' = sem
        BY <2>1 DEF Acquire
      <3>2. ~Prints(1) \/ ~Prints(2)
        BY <1>4, <2>1 DEF Removals
      <3>3. ~Inside(Other(w))
        BY <1>1, <3>2 DEF Prints, Inside, Other, Writers
      <3>4. QED
        BY <1>2, <1>4, <1>5, <1>6, <2>1, <3>1, <3>3 DEF Locks, TypeOK, MySem, OneSem, Writers
    <2>2. CASE ~removed[s]
      <3>1. sem[s] = 1
        BY <1>4, <2>2 DEF Acquire, TypeOK
      <3>2. sem' = [sem EXCEPT ![s] = 0]
        <4>1. sem' = [sem EXCEPT ![s] = sem[s] - 1]
          BY <2>2 DEF Acquire
        <4>2. sem[s] - 1 = 0
          BY <3>1
        <4>3. QED
          BY <4>1, <4>2
      <3>3. MySem(Other(w)) = s => ~Inside(Other(w))
        BY <1>4, <2>2, <3>1 DEF Locks
      <3>4. \A t \in Sems : ~removed'[t] =>
               sem'[t] = IF \E v \in Writers : MySem(v)' = t /\ Inside(v)' THEN 0 ELSE 1
        <4> SUFFICES ASSUME NEW t \in Sems, ~removed[t]
                     PROVE  sem'[t] = IF \E v \in Writers : MySem(v)' = t /\ Inside(v)' THEN 0 ELSE 1
          BY <1>2
        <4>1. CASE t = s
          BY <1>2, <1>4, <1>5, <3>2, <4>1 DEF TypeOK, MySem
        <4>2. CASE t # s
          <5>1. sem'[t] = sem[t]
            BY <3>2, <4>2 DEF TypeOK
          <5>2. (\E v \in Writers : MySem(v)' = t /\ Inside(v)') <=> (\E v \in Writers : MySem(v) = t /\ Inside(v))
            BY <1>2, <1>5, <1>6, <4>2 DEF MySem
          <5>3. QED
            BY <5>1, <5>2 DEF Locks
        <4>3. QED
          BY <4>1, <4>2
      <3>5. OneSem' => ~(Inside(1)' /\ Inside(2)')
        BY <1>2, <1>4, <1>5, <3>3 DEF OneSem, MySem, Writers, Other
      <3>6. QED
        BY <1>4, <3>2, <3>4, <3>5 DEF Locks, TypeOK
    <2>3. QED
      BY <2>1, <2>2
  <1>8. TypeOK'
    BY <1>2, <1>3, <1>7 DEF TypeOK, Places
  <1>9. Turns' /\ Middle'
    BY <1>1, <1>2 DEF Turns, Middle, TypeOK
  <1>10. Rounds'
    BY <1>1, <1>2 DEF Rounds, Prints, TypeOK, Writers
  <1>11. QED
    BY <1>3, <1>7, <1>8, <1>9, <1>10

\* Writing a character.
LEMMA DisplayPreserves == ASSUME IInv, NEW w \in Writers, Display(w) PROVE IInv'
  <1> USE DEF IInv
  <1>1. pc[w] = "display" /\ Prints(w) /\ UNCHANGED <<program, sem, removed, round, x>>
    BY DEF Display, Prints
  <1>2. PICK to \in {"display", "set", "release"} :
            /\ pc' = [pc EXCEPT ![w] = to]
            /\ to = "set" => program.turns
    BY <1>1, ProgramFacts DEF Display, TypeOK
  <1>3. chars[w] \in Nat /\ chars[w] < MsgLength[w] /\ MsgLength[w] \in {2, 3}
    BY MsgLengths DEF TypeOK, Middle, Writers
  <1>4. /\ chars' \in [Writers -> 0..2]
        /\ \A v \in Writers \ {w} : chars'[v] = chars[v]
        /\ chars'[w] < MsgLength[w] /\ (chars'[w] > 0 => to = "display")
    <2>1. CASE chars[w] + 1 = MsgLength[w]
      <3>1. chars' = [chars EXCEPT ![w] = 0]
        BY <2>1 DEF Display
      <3>2. QED
        BY <1>3, <3>1 DEF TypeOK
    <2>2. CASE chars[w] + 1 # MsgLength[w]
      <3>1. chars' = [chars EXCEPT ![w] = chars[w] + 1] /\ pc' = pc
        BY <2>2 DEF Display
      <3>2. to = "display"
        BY <1>1, <1>2, <3>1 DEF TypeOK
      <3>3. chars[w] + 1 \in 0..2 /\ chars[w] + 1 < MsgLength[w]
        BY <1>3, <2>2
      <3>4. QED
        BY <3>1, <3>2, <3>3 DEF TypeOK
    <2>3. QED
      BY <2>1, <2>2
  <1>5. out' \in Seq(Writers \X (1..3))
    <2>1. <<w, chars[w] + 1>> \in Writers \X (1..3)
      BY <1>3
    <2>2. QED
      BY <2>1 DEF Display, TypeOK
  <1>6. pc' \in [Writers -> Places] /\ Removals' /\ Forking'
    <2>1. UNCHANGED <<program, removed>>
      BY <1>1
    <2>2. QED
      BY <1>1, <1>2, <1>4, <2>1, StepInLoop
  <1>7. TypeOK'
    BY <1>1, <1>4, <1>5, <1>6 DEF TypeOK, Places
  <1>8. Locks'
    <2>1. \A v \in Writers : Inside(v)' <=> Inside(v)
      BY <1>1, <1>2 DEF Inside, TypeOK
    <2>2. QED
      BY <1>1, <2>1, SameLocks
  <1>9. Turns' /\ Middle'
    <2>1. Turns'
      BY <1>1, <1>2 DEF Turns, TypeOK
    <2>2. Middle'
      BY <1>2, <1>4 DEF Middle, TypeOK
    <2>3. QED
      BY <2>1, <2>2
  <1>10. Rounds'
    BY <1>1, <1>2 DEF Rounds, Prints, TypeOK, Writers
  <1>11. QED
    BY <1>6, <1>7, <1>8, <1>9, <1>10

\* The other writer's turn: the one that has it has not looked at the flag yet.
LEMMA SetTurnPreserves == ASSUME IInv, NEW w \in Writers, SetTurn(w) PROVE IInv'
  <1> USE DEF IInv
  <1>1. pc[w] = "set" /\ Prints(w) /\ pc' = [pc EXCEPT ![w] = "release"] /\ x' = 2 - w
    BY DEF SetTurn, GoTo, Prints
  <1>2. UNCHANGED <<program, sem, removed, round, chars, out>>
    BY DEF SetTurn
  <1>3. pc' \in [Writers -> Places] /\ Removals' /\ Forking'
    <2>1. UNCHANGED <<program, removed>> /\ UNCHANGED <<round, chars>>
      BY <1>2
    <2>2. QED
      BY <1>1, <2>1, StepInLoop
  <1>4. TypeOK'
    BY <1>1, <1>2, <1>3 DEF TypeOK, Places, Writers
  <1>5. Locks'
    <2>1. \A v \in Writers : Inside(v)' <=> Inside(v)
      BY <1>1 DEF Inside, TypeOK
    <2>2. QED
      BY <1>2, <2>1, SameLocks
  <1>6. Turns'
    <2>1. program.turns => x = w - 1
      BY <1>1 DEF Turns
    <2>2. \A v \in Writers \ {w} : program.turns => pc[v] \notin {"acquire", "display", "set"}
      BY <2>1 DEF Turns, Writers
    <2>3. QED
      BY <1>1, <1>2, <2>2 DEF Turns, TypeOK
  <1>7. Middle' /\ Rounds'
    BY <1>1, <1>2 DEF Middle, Rounds, Prints, TypeOK, Writers
  <1>8. QED
    BY <1>3, <1>4, <1>5, <1>6, <1>7

\* Giving the semaphore back, at the end of a round.
LEMMA ReleasePreserves == ASSUME IInv, NEW w \in Writers, Release(w) PROVE IInv'
  <1> USE NumProcAssumption DEF IInv
  <1> DEFINE s == MySem(w)
  <1>1. pc[w] = "release" /\ Prints(w) /\ UNCHANGED <<program, removed, chars, x, out>>
    BY DEF Release, GoTo, Prints
  <1>2. pc' = [pc EXCEPT ![w] = NextRound(w)] /\ round' = [round EXCEPT ![w] = round[w] + 1]
    BY DEF Release, GoTo
  <1>3. NextRound(w) \in {"loop", program.after[w]} /\ NextRound(w) \in {"loop", "exit", "wait"}
    BY ProgramFacts DEF NextRound, TypeOK
  <1>4. \A v \in Writers \ {w} : round'[v] = round[v]
    BY <1>2 DEF TypeOK
  <1>5. pc' \in [Writers -> Places] /\ Removals' /\ Forking'
    BY <1>1, <1>2, <1>3, <1>4, StepInLoop
  <1>6. Rounds' /\ round' \in [Writers -> 0..NumProc]
    BY <1>1, <1>2, RoundOver
  <1>7. s \in Sems /\ Other(w) \in Writers /\ Other(w) # w /\ \A v \in Writers : v = w \/ v = Other(w)
    BY ProgramFacts DEF TypeOK, Writers, Sems, Other
  <1>8. ~Inside(w)' /\ Inside(w) /\ (Inside(Other(w))' <=> Inside(Other(w)))
    BY <1>1, <1>2, <1>3, <1>7 DEF Inside, TypeOK
  <1>9. MySem(Other(w)) = s => ~Inside(Other(w))
    BY <1>7, <1>8 DEF Locks, OneSem, MySem, Writers, Other
  <1>10. Locks' /\ sem' \in [Sems -> {0, 1}]
    <2>1. CASE removed[s]
      <3>1. sem' = sem
        BY <2>1 DEF Release
      <3>2. QED
        BY <1>1, <1>7, <1>8, <2>1, <3>1 DEF Locks, TypeOK, MySem, OneSem, Writers
    <2>2. CASE ~removed[s]
      <3>1. sem[s] = 0
        BY <1>7, <1>8, <2>2 DEF Locks
      <3>2. sem' = [sem EXCEPT ![s] = 1]
        <4>1. sem' = [sem EXCEPT ![s] = sem[s] + 1]
          BY <2>2 DEF Release
        <4>2. sem[s] + 1 = 1
          BY <3>1
        <4>3. QED
          BY <4>1, <4>2
      <3>3. \A t \in Sems : ~removed'[t] =>
               sem'[t] = IF \E v \in Writers : MySem(v)' = t /\ Inside(v)' THEN 0 ELSE 1
        <4> SUFFICES ASSUME NEW t \in Sems, ~removed[t]
                     PROVE  sem'[t] = IF \E v \in Writers : MySem(v)' = t /\ Inside(v)' THEN 0 ELSE 1
          BY <1>1
        <4>1. CASE t = s
          BY <1>1, <1>7, <1>8, <1>9, <3>2, <4>1 DEF TypeOK, MySem
        <4>2. CASE t # s
          <5>1. sem'[t] = sem[t]
            BY <3>2, <4>2 DEF TypeOK
          <5>2. (\E v \in Writers : MySem(v)' = t /\ Inside(v)') <=> (\E v \in Writers : MySem(v) = t /\ Inside(v))
            BY <1>1, <1>7, <1>8, <4>2 DEF MySem
          <5>3. QED
            BY <5>1, <5>2 DEF Locks
        <4>3. QED
          BY <4>1, <4>2
      <3>4. OneSem' => ~(Inside(1)' /\ Inside(2)')
        BY <1>8 DEF Writers
      <3>5. QED
        BY <1>7, <3>2, <3>3, <3>4 DEF Locks, TypeOK
    <2>3. QED
      BY <2>1, <2>2
  <1>11. TypeOK'
    BY <1>1, <1>5, <1>6, <1>10 DEF TypeOK, Places
  <1>12. Turns' /\ Middle'
    BY <1>1, <1>2, <1>3 DEF Turns, Middle, TypeOK
  <1>13. QED
    BY <1>5, <1>6, <1>10, <1>11, <1>12

\* The wait, the removal and the return of whoever is through with its loop.
LEMMA EndPreserves == ASSUME IInv, NEW w \in Writers, Wait(w) \/ Remove(w) PROVE IInv'
  <1> USE DEF IInv
  <1>1. PICK to \in {"remove", "exit"} :
            /\ pc[w] = (IF to = "remove" THEN "wait" ELSE "remove")
            /\ pc' = [pc EXCEPT ![w] = to]
            /\ to = "remove" => UNCHANGED removed /\ (w = 2 => pc[1] \in {"none", "exit"})
            /\ to = "exit" => RemoveAll
    BY DEF Wait, Remove, GoTo
  <1>2. UNCHANGED <<program, sem, round, chars, x, out>>
    BY DEF Wait, Remove
  <1>3. removed' \in [Sems -> BOOLEAN] /\ \A s \in Sems : removed[s] => removed'[s]
    BY <1>1 DEF RemoveAll, TypeOK
  <1>4. TypeOK'
    BY <1>1, <1>2, <1>3 DEF TypeOK
  <1>5. \A v \in Writers : Inside(v)' <=> Inside(v)
    BY <1>1 DEF Inside, TypeOK
  <1>6. Locks'
    BY <1>2, <1>3, <1>5 DEF Locks, MySem, OneSem, Writers
  <1>7. Turns' /\ Middle'
    BY <1>1, <1>2 DEF Turns, Middle, TypeOK
  <1>8. Removals'
    <2>1. \A v \in Writers : Prints(v)' <=> Prints(v)
      BY <1>1 DEF Prints, TypeOK
    <2>2. to = "exit" => IF program.name = "sp1" THEN ~Prints(1) \/ ~Prints(2)
                                                ELSE ~Prints(1) /\ ~Prints(2)
      BY <1>1 DEF Removals, Prints, Writers
    <2>3. (\E s \in Sems : removed'[s]) =>
              IF program.name = "sp1" THEN ~Prints(1)' \/ ~Prints(2)'
                                      ELSE ~Prints(1)' /\ ~Prints(2)'
      BY <1>1, <2>1, <2>2 DEF Removals, Writers
    <2>4. pc'[2] = "remove" => ~Prints(1)'
      BY <1>1, <2>1 DEF Removals, Prints, TypeOK, Writers
    <2>5. \A v \in Writers : pc'[v] \in {"wait", "remove"} => pc[v] \in {"wait", "remove"}
      BY <1>1 DEF TypeOK
    <2>6. QED
      BY <1>2, <2>3, <2>4, <2>5 DEF Removals, Writers
  <1>9. Forking'
    BY <1>1, <1>2 DEF Forking, TypeOK, Writers
  <1>10. Rounds'
    BY <1>1, <1>2 DEF Rounds, Prints, TypeOK, Writers
  <1>11. QED
    BY <1>4, <1>6, <1>7, <1>8, <1>9, <1>10

\* main destroys the mutex after both threads have ended.
LEMMA JoinPreserves == IInv /\ JoinAndDestroy => IInv'
  <1> SUFFICES ASSUME IInv, JoinAndDestroy PROVE IInv'
    OBVIOUS
  <1> USE DEF IInv
  <1>1. pc[1] = "exit" /\ pc[2] = "exit" /\ RemoveAll
    BY DEF JoinAndDestroy
  <1>2. UNCHANGED <<program, sem, pc, round, chars, x, out>>
    BY DEF JoinAndDestroy
  <1>3. removed' \in [Sems -> BOOLEAN] /\ \A s \in Sems : removed[s] => removed'[s]
    BY <1>1 DEF RemoveAll, TypeOK
  <1>4. TypeOK'
    BY <1>2, <1>3 DEF TypeOK
  <1>5. Locks'
    BY <1>2, <1>3 DEF Locks, MySem, OneSem, Inside, Writers
  <1>6. Turns' /\ Middle' /\ Rounds'
    BY <1>2 DEF Turns, Middle, Rounds, Prints
  <1>7. Removals' /\ Forking'
    BY <1>1, <1>2 DEF Removals, Forking, Prints, Writers
  <1>8. QED
    BY <1>4, <1>5, <1>6, <1>7

\* Every step preserves the invariant.
LEMMA Preserved == IInv /\ [Next]_vars => IInv'
  <1> SUFFICES ASSUME IInv, [Next]_vars PROVE IInv'
    OBVIOUS
  <1>1. CASE Fork \/ ForkFails
    BY <1>1, ForkPreserves
  <1>2. CASE \E w \in Writers : Step(w)
    BY <1>2, LoopPreserves, AcquirePreserves, DisplayPreserves, SetTurnPreserves,
       ReleasePreserves, EndPreserves DEF Step
  <1>3. CASE JoinAndDestroy
    BY <1>3, JoinPreserves
  <1>4. CASE UNCHANGED vars
    BY <1>4 DEF vars, IInv, TypeOK, Locks, Turns, Removals, Forking, Rounds, Middle, Inside, Prints,
                MySem, OneSem
  <1>5. QED
    BY <1>1, <1>2, <1>3, <1>4 DEF Next, Finished

\* The invariant holds in every state.
LEMMA Invariance == Spec => []IInv
  BY Start, Preserved, PTL DEF Spec

\* Type correctness, for any number of rounds and any of the programs; a semaphore
\* never counts more than one free place.
THEOREM TypeCorrect == Spec => []TypeOK
  <1>1. IInv => TypeOK
    BY DEF IInv
  <1>2. QED
    BY <1>1, Invariance, PTL

-----------------------------------------------------------------------------
(* The text                                                                *)

\* Where the writers share a semaphore or have a flag, one at most is in display.
LEMMA OneDisplays ==
  ASSUME IInv, Apart, NEW w \in Writers, pc[w] = "display"
  PROVE  \A v \in Writers \ {w} : pc[v] # "display" /\ chars[v] = 0
  <1> USE DEF IInv
  <1> SUFFICES ASSUME NEW v \in Writers \ {w} PROVE pc[v] # "display" /\ chars[v] = 0
    OBVIOUS
  <1>1. CASE OneSem
    BY <1>1 DEF Locks, Inside, Middle, TypeOK, Writers
  <1>2. CASE program.turns
    <2>1. x = w - 1 /\ x # v - 1
      BY <1>2 DEF Turns, Writers
    <2>2. pc[v] # "display"
      BY <1>2, <2>1 DEF Turns
    <2>3. QED
      BY <2>2 DEF Middle, TypeOK
  <1>3. QED
    BY <1>1, <1>2 DEF Apart

\* What Append does to a sequence.
LEMMA Appended ==
  ASSUME NEW S, NEW s \in Seq(S), NEW e \in S
  PROVE  /\ Append(s, e) \in Seq(S) /\ Append(s, e) # <<>>
         /\ Len(Append(s, e)) = Len(s) + 1 /\ Len(s) \in Nat
         /\ Append(s, e)[Len(s) + 1] = e
         /\ \A k \in 1 .. Len(s) : Append(s, e)[k] = s[k] /\ s[k] \in S
         /\ s # <<>> <=> Len(s) >= 1
  OBVIOUS

\* What display does, seen from the text.
LEMMA DisplayStep ==
  ASSUME IInv, NEW w \in Writers, Display(w)
  PROVE  /\ out' # <<>> /\ Len(out') = Len(out) + 1 /\ Len(out) \in Nat
         /\ out'[Len(out')] = <<w, chars[w] + 1>>
         /\ \A k \in 1 .. Len(out) : out'[k] = out[k] /\ out[k] \in Writers \X (1..3)
         /\ out # <<>> <=> Len(out) >= 1
         /\ \A v \in Writers \ {w} : chars'[v] = chars[v] /\ pc'[v] = pc[v]
         /\ chars[w] \in Nat /\ chars[w] < MsgLength[w]
         /\ \/ /\ chars[w] + 1 = MsgLength[w] /\ chars'[w] = 0
               /\ pc'[w] = IF program.turns THEN "set" ELSE "release"
            \/ /\ chars[w] + 1 # MsgLength[w] /\ chars'[w] = chars[w] + 1
               /\ pc'[w] = "display"
  <1> USE DEF IInv
  <1>1. chars[w] \in Nat /\ chars[w] < MsgLength[w] /\ MsgLength[w] \in {2, 3}
    BY MsgLengths DEF TypeOK, Middle, Writers
  <1>2. <<w, chars[w] + 1>> \in Writers \X (1..3)
    BY <1>1
  <1>3. out \in Seq(Writers \X (1..3)) /\ out' = Append(out, <<w, chars[w] + 1>>)
    BY DEF Display, TypeOK
  <1>4. /\ out' # <<>> /\ Len(out') = Len(out) + 1 /\ Len(out) \in Nat
        /\ out'[Len(out) + 1] = <<w, chars[w] + 1>>
        /\ \A k \in 1 .. Len(out) : out'[k] = out[k] /\ out[k] \in Writers \X (1..3)
        /\ out # <<>> <=> Len(out) >= 1
    BY <1>2, <1>3, Appended
  <1>5. \A v \in Writers \ {w} : chars'[v] = chars[v] /\ pc'[v] = pc[v]
    BY DEF Display, TypeOK
  <1>6. CASE chars[w] + 1 = MsgLength[w]
    <2>1. chars' = [chars EXCEPT ![w] = 0]
          /\ pc' = [pc EXCEPT ![w] = IF program.turns THEN "set" ELSE "release"]
      BY <1>6 DEF Display
    <2>2. QED
      BY <1>1, <1>4, <1>5, <1>6, <2>1 DEF TypeOK
  <1>7. CASE chars[w] + 1 # MsgLength[w]
    <2>1. chars' = [chars EXCEPT ![w] = chars[w] + 1] /\ pc' = pc /\ pc[w] = "display"
      BY <1>7 DEF Display
    <2>2. QED
      BY <1>1, <1>4, <1>5, <1>7, <2>1 DEF TypeOK
  <1>8. QED
    BY <1>6, <1>7

\* Text survives a character: it continues the message of its writer, or no message
\* was unfinished.
LEMMA DisplayText ==
  ASSUME IInv, Text, NEW w \in Writers, Display(w)
  PROVE  Text'
  <1>1. pc[w] = "display" /\ UNCHANGED program
    BY DEF Display
  <1> SUFFICES ASSUME Apart
               PROVE  /\ \A k \in 1 .. Len(out') - 1 : InOrder(k)'
                      /\ \A v \in Writers : chars'[v] > 0 => out' # <<>> /\ out'[Len(out')] = <<v, chars'[v]>>
                      /\ (\A v \in Writers : chars'[v] = 0) /\ out' # <<>> =>
                            out'[Len(out')][2] = MsgLength[out'[Len(out')][1]]
    BY <1>1 DEF Text, Apart, OneSem
  <1>2. \A v \in Writers \ {w} : chars[v] = 0
    BY <1>1, OneDisplays
  <1>3. ASSUME NEW k \in 1 .. Len(out') - 1 PROVE InOrder(k)'
    <2>1. Len(out) \in Nat /\ k \in 1 .. Len(out) /\ out'[k] = out[k] /\ out[k] \in Writers \X (1..3)
      BY DisplayStep
    <2>2. CASE k < Len(out)
      <3>1. out'[k + 1] = out[k + 1]
        BY <2>1, <2>2, DisplayStep
      <3>2. InOrder(k)
        BY <2>1, <2>2 DEF Text
      <3>3. QED
        BY <2>1, <3>1, <3>2 DEF InOrder
    <2>3. CASE k = Len(out)
      <3>1. out'[k + 1] = <<w, chars[w] + 1>> /\ out # <<>>
        BY <2>1, <2>3, DisplayStep
      <3>2. CASE chars[w] > 0
        <4>1. out[k] = <<w, chars[w]>>
          BY <2>3, <3>2 DEF Text
        <4>2. chars[w] < MsgLength[w]
          BY DisplayStep
        <4>3. QED
          BY <2>1, <3>1, <4>1, <4>2 DEF InOrder
      <3>3. CASE chars[w] = 0
        <4>1. \A v \in Writers : chars[v] = 0
          BY <1>2, <3>3
        <4>2. out[k][2] = MsgLength[out[k][1]]
          BY <2>3, <3>1, <4>1 DEF Text
        <4>3. out[k][1] \in Writers /\ out[k][2] \in Nat
          BY <2>1
        <4>4. ~(out[k][2] < MsgLength[out[k][1]])
          BY <4>2, <4>3
        <4>5. out'[k + 1][2] = 1
          BY <3>1, <3>3
        <4>6. QED
          BY <2>1, <4>4, <4>5 DEF InOrder
      <3>4. QED
        BY <3>2, <3>3, DisplayStep
    <2>4. QED
      BY <2>1, <2>2, <2>3
  <1>4. \A v \in Writers : chars'[v] > 0 => out' # <<>> /\ out'[Len(out')] = <<v, chars'[v]>>
    BY <1>2, DisplayStep
  <1>5. (\A v \in Writers : chars'[v] = 0) => out'[Len(out')][2] = MsgLength[out'[Len(out')][1]]
    BY DisplayStep
  <1>6. QED
    BY <1>3, <1>4, <1>5

\* The flag sends the characters of a new message to the other writer.
LEMMA DisplayAlternation ==
  ASSUME IInv, Text, Alternation, NEW w \in Writers, Display(w)
  PROVE  Alternation'
  <1>1. pc[w] = "display" /\ UNCHANGED <<program, x>>
    BY DEF Display
  <1> DEFINE l == out[Len(out)][1]
             m == out'[Len(out')][1]
  <1> SUFFICES ASSUME program.turns
               PROVE  /\ Alternating'
                      /\ out' # <<>>
                      /\ \A v \in Writers : pc'[v] = "set" => out'[Len(out')][1] = v
                      /\ x = IF chars'[m] > 0 \/ pc'[m] = "set" THEN m - 1 ELSE 2 - m
    BY <1>1 DEF Alternation
  <1>2. x = w - 1 /\ w \in {1, 2}
    BY <1>1 DEF IInv, Turns, Writers
  <1>3. m = w /\ out' # <<>>
    BY DisplayStep
  <1>4. chars'[w] > 0 \/ pc'[w] = "set"
    BY DisplayStep
  <1>5. \A v \in Writers : pc'[v] = "set" => v = w
    <2>1. \A v \in Writers \ {w} : pc[v] # "set"
      BY <1>2 DEF IInv, Turns, Writers
    <2>2. QED
      BY <2>1, DisplayStep
  <1>6. Alternating'
    <2>1. ASSUME out = <<>> PROVE out'[1] = <<1, 1>>
      <3>1. w = 1 /\ chars[w] = 0
        BY <1>2, <2>1, DisplayStep DEF Alternation, Text, Apart
      <3>2. Len(out') = 1 /\ out'[Len(out')] = <<w, chars[w] + 1>>
        BY <2>1, DisplayStep
      <3>3. QED
        BY <3>1, <3>2
    <2>2. out # <<>> => out'[1] = <<1, 1>>
      <3>1. out # <<>> => 1 \in 1 .. Len(out)
        BY DisplayStep
      <3>2. QED
        BY <3>1, DisplayStep DEF Alternation, Alternating
    <2>3. ASSUME NEW k \in 1 .. Len(out') - 1, out'[k + 1][2] = 1
          PROVE  out'[k + 1][1] # out'[k][1]
      <3>1. Len(out) \in Nat /\ k \in 1 .. Len(out) /\ out'[k] = out[k] /\ out[k] \in Writers \X (1..3)
        BY DisplayStep
      <3>2. CASE k < Len(out)
        <4>1. out'[k + 1] = out[k + 1] /\ k \in 1 .. Len(out) - 1
          BY <3>1, <3>2, DisplayStep
        <4>2. QED
          BY <2>3, <3>1, <4>1 DEF Alternation, Alternating
      <3>3. CASE k = Len(out)
        <4>1. out # <<>> /\ out'[k + 1] = <<w, chars[w] + 1>>
          BY <3>1, <3>3, DisplayStep
        <4>2. chars[w] = 0
          BY <2>3, <4>1, DisplayStep
        <4>3. x = IF chars[l] > 0 \/ pc[l] = "set" THEN l - 1 ELSE 2 - l
          BY <4>1 DEF Alternation
        <4>4. l # w
          BY <1>1, <1>2, <4>2, <4>3
        <4>5. QED
          BY <3>1, <3>3, <4>1, <4>4
      <3>4. QED
        BY <3>1, <3>2, <3>3
    <2>4. QED
      BY <2>1, <2>2, <2>3 DEF Alternating
  <1>7. QED
    BY <1>2, <1>3, <1>4, <1>5, <1>6

\* The flag is set by the writer of the last message.
LEMMA SetTurnAlternation ==
  ASSUME IInv, Alternation, NEW w \in Writers, SetTurn(w)
  PROVE  Alternation'
  <1>1. pc[w] = "set" /\ pc' = [pc EXCEPT ![w] = "release"] /\ x' = 2 - w
    BY DEF SetTurn, GoTo
  <1>2. UNCHANGED <<program, chars, out>>
    BY DEF SetTurn
  <1>3. chars[w] = 0
    <2>1. chars[w] \in 0..2 /\ ~(chars[w] > 0)
      BY <1>1 DEF IInv, TypeOK, Middle
    <2>2. QED
      BY <2>1
  <1>4. pc'[w] = "release" /\ \A v \in Writers : pc'[v] = "set" => pc[v] = "set"
    BY <1>1 DEF IInv, TypeOK
  <1>5. program.turns => out # <<>> /\ out[Len(out)][1] = w
    BY <1>1 DEF Alternation
  <1>6. QED
    BY <1>1, <1>2, <1>3, <1>4, <1>5 DEF Alternation, Alternating

\* A step that leaves the text, the flag and the writers at "set" alone.
LEMMA SameText ==
  ASSUME IInv, Text, Alternation, UNCHANGED <<program, chars, x, out>>,
         \A v \in Writers : pc'[v] = "set" <=> pc[v] = "set"
  PROVE  Text' /\ Alternation'
  <1>1. Text'
    BY DEF Text, Apart, OneSem, InOrder
  <1>2. out # <<>> => out[Len(out)][1] \in Writers
    <2>1. out \in Seq(Writers \X (1..3))
      BY DEF IInv, TypeOK
    <2>2. out # <<>> => Len(out) \in 1 .. Len(out)
      BY <2>1
    <2>3. QED
      BY <2>1, <2>2
  <1>3. QED
    BY <1>1, <1>2 DEF Alternation, Alternating

\* Every step preserves what the text tells.
LEMMA TextPreserved == TInv /\ [Next]_vars => Text' /\ Alternation'
  <1> SUFFICES ASSUME IInv, Text, Alternation, [Next]_vars PROVE Text' /\ Alternation'
    BY DEF TInv
  <1>1. ASSUME NEW w \in Writers, Display(w) PROVE Text' /\ Alternation'
    BY <1>1, DisplayText, DisplayAlternation
  <1>2. ASSUME NEW w \in Writers, SetTurn(w) PROVE Text' /\ Alternation'
    <2>1. Alternation'
      BY <1>2, SetTurnAlternation
    <2>2. UNCHANGED <<program, chars, out>>
      BY <1>2 DEF SetTurn
    <2>3. QED
      BY <2>1, <2>2 DEF Text, Apart, OneSem, InOrder
  <1>3. CASE Fork \/ ForkFails
    <2>1. UNCHANGED <<program, chars, x, out>>
      BY <1>3 DEF Fork, ForkFails
    <2>2. \A v \in Writers : pc'[v] = "set" <=> pc[v] = "set"
      BY <1>3, ProgramFacts DEF Fork, ForkFails, GoTo, Writers, IInv, TypeOK, Forking
    <2>3. QED
      BY <2>1, <2>2, SameText
  <1>4. ASSUME NEW w \in Writers, Loop(w) \/ Acquire(w) \/ Release(w) \/ Wait(w) \/ Remove(w)
        PROVE  Text' /\ Alternation'
    <2>1. UNCHANGED <<program, chars, x, out>>
      BY <1>4 DEF Loop, Acquire, Release, Wait, Remove
    <2>2. PICK to \in {"loop", "acquire", "display", "remove", "exit", program.after[w]} :
              pc[w] # "set" /\ pc' = [pc EXCEPT ![w] = to]
      BY <1>4 DEF Loop, Acquire, Release, Wait, Remove, GoTo, NextRound
    <2>3. to # "set"
      BY <2>2, ProgramFacts DEF IInv, TypeOK
    <2>4. \A v \in Writers : pc'[v] = "set" <=> pc[v] = "set"
      BY <2>2, <2>3 DEF IInv, TypeOK
    <2>5. QED
      BY <2>1, <2>4, SameText
  <1>5. CASE JoinAndDestroy \/ UNCHANGED vars
    <2>1. UNCHANGED <<program, pc, chars, x, out>>
      BY <1>5 DEF JoinAndDestroy, vars
    <2>2. QED
      BY <2>1, SameText
  <1>6. QED
    BY <1>1, <1>2, <1>3, <1>4, <1>5 DEF Next, Step, Finished

\* Messages stay whole wherever the writers share the semaphore or have a flag, and
\* with the flag they alternate, for any number of rounds: also in sp1, where the
\* semaphore goes away under a writer, and in shmem with two semaphores.
THEOREM MessagesStayWhole == Spec => []WholeMessages
  <1>1. Init => Text /\ Alternation
    <2>1. Init => out = <<>> /\ x = 0 /\ \A w \in Writers : chars[w] = 0 /\ pc[w] # "set"
      BY DEF Init, Writers
    <2>2. QED
      BY <2>1 DEF Text, Alternation, Alternating
  <1>2. TInv => WholeMessages
    BY DEF TInv, WholeMessages, Text, Alternation, Apart
  <1>3. IInv /\ Text /\ Alternation /\ [Next]_vars => IInv' /\ Text' /\ Alternation'
    BY Preserved, TextPreserved DEF TInv
  <1>4. QED
    BY <1>1, <1>2, <1>3, Start, PTL DEF Spec, TInv

-----------------------------------------------------------------------------
(* The number of characters                                                *)

\* What writer w has written is a finite set of places; appending one of its
\* characters adds one.
LEMMA OneMore ==
  ASSUME TypeOK, NEW w \in Writers, NEW k \in 1..3, out' = Append(out, <<w, k>>)
  PROVE  /\ \A v \in Writers : Cardinality(By(v)) \in Nat
         /\ Cardinality(By(w)') = Cardinality(By(w)) + 1
         /\ \A v \in Writers \ {w} : By(v)' = By(v)
  <1> DEFINE n == Len(out)
  <1>1. /\ n \in Nat /\ Len(out') = n + 1 /\ out'[n + 1] = <<w, k>>
        /\ \A i \in 1..n : out'[i] = out[i]
    BY DEF TypeOK
  <1>2. 1 .. n + 1 = (1..n) \cup {n + 1}
    BY <1>1
  <1>3. By(w)' = By(w) \cup {n + 1}
    BY <1>1, <1>2 DEF By
  <1>4. \A v \in Writers \ {w} : By(v)' = By(v)
    BY <1>1, <1>2 DEF By
  <1>5. \A v \in Writers : IsFiniteSet(By(v))
    <2>1. IsFiniteSet(1..n)
      BY <1>1, FS_Interval
    <2>2. \A v \in Writers : By(v) \subseteq 1..n
      BY DEF By
    <2>3. QED
      BY <2>1, <2>2, FS_Subset
  <1>6. n + 1 \notin By(w)
    BY <1>1 DEF By
  <1>7. Cardinality(By(w) \cup {n + 1}) = Cardinality(By(w)) + 1
    BY <1>5, <1>6, FS_AddElement
  <1>8. QED
    BY <1>3, <1>4, <1>5, <1>7, FS_CardinalityType

\* Every step preserves the count.
LEMMA CountPreserved == IInv /\ Counted /\ [Next]_vars => Counted'
  <1> SUFFICES ASSUME IInv, Counted, [Next]_vars, ~program.turns
               PROVE  \A w \in Writers :
                        Cardinality(By(w)') = round'[w] * MsgLength[w] + chars'[w]
                               + IF pc'[w] \in {"set", "release"} THEN MsgLength[w] ELSE 0
    <2>1. [Next]_vars => program' = program
      <3>1. ASSUME NEW w \in Writers, Step(w) PROVE program' = program
        BY <3>1 DEF Step, Loop, Acquire, Display, SetTurn, Release, Wait, Remove
      <3>2. QED
        BY <3>1 DEF Next, Fork, ForkFails, JoinAndDestroy, Finished, vars
    <2>2. QED
      BY <2>1 DEF Counted
  <1> USE DEF IInv
  <1>1. ASSUME NEW w \in Writers, Display(w), NEW v \in Writers
        PROVE  Cardinality(By(v)') = round'[v] * MsgLength[v] + chars'[v]
                               + IF pc'[v] \in {"set", "release"} THEN MsgLength[v] ELSE 0
    <2>1. pc[w] = "display" /\ round' = round /\ out' = Append(out, <<w, chars[w] + 1>>)
      BY <1>1 DEF Display
    <2>2. chars[w] + 1 \in 1..3
      BY DEF TypeOK
    <2>3. CASE v = w
      <3>1. Cardinality(By(w)') = Cardinality(By(w)) + 1
        BY <2>1, <2>2, OneMore
      <3>2. Cardinality(By(w)) = round[w] * MsgLength[w] + chars[w]
        BY <2>1, MsgLengths DEF Counted, TypeOK, Writers
      <3>3. round[w] * MsgLength[w] \in Nat /\ MsgLength[w] \in Nat
        BY MsgLengths DEF TypeOK, Writers
      <3>4. chars'[w] + (IF pc'[w] \in {"set", "release"} THEN MsgLength[w] ELSE 0) = chars[w] + 1
        BY <1>1, <3>3, DisplayStep
      <3>5. chars'[w] \in Nat /\ chars[w] \in Nat
        BY <1>1, DisplayStep
      <3>6. Cardinality(By(w)') = round[w] * MsgLength[w] + (chars[w] + 1)
        BY <3>1, <3>2, <3>3, <3>5
      <3>7. QED
        BY <2>1, <2>3, <3>3, <3>4, <3>5, <3>6
    <2>4. CASE v # w
      <3>1. By(v)' = By(v)
        BY <2>1, <2>2, <2>4, OneMore
      <3>2. chars'[v] = chars[v] /\ pc'[v] = pc[v]
        BY <1>1, <2>4, DisplayStep
      <3>3. QED
        BY <2>1, <3>1, <3>2 DEF Counted
    <2>5. QED
      BY <2>3, <2>4
  <1>2. ASSUME NEW w \in Writers, Release(w), NEW v \in Writers
        PROVE  Cardinality(By(v)') = round'[v] * MsgLength[v] + chars'[v]
                               + IF pc'[v] \in {"set", "release"} THEN MsgLength[v] ELSE 0
    <2>1. By(v)' = By(v) /\ chars' = chars
      BY <1>2 DEF Release, By
    <2>2. /\ pc[w] = "release" /\ pc' = [pc EXCEPT ![w] = NextRound(w)]
          /\ round' = [round EXCEPT ![w] = round[w] + 1]
      BY <1>2 DEF Release, GoTo
    <2>3. NextRound(w) \notin {"set", "release"}
      BY ProgramFacts DEF NextRound, TypeOK
    <2>4. CASE v = w
      <3>1. MsgLength[w] \in {2, 3} /\ round[w] \in Nat /\ chars[w] \in Nat
        BY MsgLengths DEF TypeOK, Writers
      <3>2. (round[w] + 1) * MsgLength[w] = round[w] * MsgLength[w] + MsgLength[w]
        BY <3>1
      <3>3. Cardinality(By(w)) = round[w] * MsgLength[w] + chars[w] + MsgLength[w]
        BY <2>2 DEF Counted
      <3>4. round'[w] = round[w] + 1 /\ pc'[w] = NextRound(w)
        BY <2>2 DEF TypeOK
      <3>5. QED
        BY <2>1, <2>3, <2>4, <3>1, <3>2, <3>3, <3>4
    <2>5. CASE v # w
      BY <2>1, <2>2, <2>5 DEF Counted, TypeOK
    <2>6. QED
      BY <2>4, <2>5
  <1>3. CASE \/ Fork \/ ForkFails \/ JoinAndDestroy \/ UNCHANGED vars
             \/ \E w \in Writers : Loop(w) \/ Acquire(w) \/ SetTurn(w) \/ Wait(w) \/ Remove(w)
    <2>1. UNCHANGED <<round, chars, out>>
      BY <1>3 DEF Fork, ForkFails, JoinAndDestroy, vars, Loop, MyTurn, Acquire, SetTurn, Wait, Remove, TypeOK
    <2>2. \A v \in Writers : pc'[v] \in {"set", "release"} <=> pc[v] \in {"set", "release"}
      <3>1. CASE Fork \/ ForkFails
        BY <3>1, ProgramFacts DEF Fork, ForkFails, GoTo, Writers, TypeOK, Forking
      <3>2. CASE JoinAndDestroy \/ UNCHANGED vars
        BY <3>2 DEF JoinAndDestroy, vars
      <3>3. CASE \E w \in Writers : Loop(w) \/ Acquire(w) \/ SetTurn(w) \/ Wait(w) \/ Remove(w)
        BY <3>3 DEF Loop, MyTurn, Acquire, SetTurn, Wait, Remove, GoTo, TypeOK
      <3>4. QED
        BY <1>3, <3>1, <3>2, <3>3
    <2>3. QED
      BY <2>1, <2>2 DEF Counted, By
  <1>4. QED
    BY <1>1, <1>2, <1>3 DEF Next, Step, Finished

\* Every writer that ends has printed all its messages, for any number of rounds, and
\* outside sp1 nobody's semaphore is removed before it is through with it.
THEOREM EverythingIsPrinted == Spec => []AllPrinted
  <1>1. Init => Counted
    <2> SUFFICES ASSUME Init PROVE Counted
      OBVIOUS
    <2>1. IInv /\ out = <<>> /\ \A w \in Writers : round[w] = 0 /\ chars[w] = 0
      BY Start DEF Init
    <2>2. \A w \in Writers : By(w) = {} /\ pc[w] \notin {"set", "release"}
      BY <2>1 DEF By, Init, Writers
    <2>3. \A w \in Writers : 0 * MsgLength[w] + 0 + 0 = 0
      BY MsgLengths DEF Writers
    <2>4. \A w \in Writers : Cardinality(By(w)) = 0
      BY <2>2, FS_EmptySet
    <2>5. QED
      BY <2>1, <2>2, <2>3, <2>4 DEF Counted
  <1>2. IInv /\ Counted => AllPrinted
    <2> SUFFICES ASSUME IInv, Counted PROVE AllPrinted
      OBVIOUS
    <2> USE DEF IInv
    <2>1. ASSUME NEW w \in Writers, pc[w] = "exit", ~(pc[1] = "none" /\ program.noFork = "exit"),
                 ~program.turns
          PROVE  Cardinality(By(w)) = NumProc * MsgLength[w]
      <3>1. round[w] = NumProc /\ chars[w] \in Nat /\ ~(chars[w] > 0)
        BY <2>1 DEF Rounds, Middle, TypeOK
      <3>2. Cardinality(By(w)) = round[w] * MsgLength[w] + chars[w] + 0
        BY <2>1 DEF Counted
      <3>3. NumProc * MsgLength[w] \in Nat
        BY NumProcAssumption, MsgLengths DEF Writers
      <3>4. QED
        BY <3>1, <3>2, <3>3
    <2>2. ASSUME program.name # "sp1", NEW w \in Writers, removed[MySem(w)] PROVE ~Prints(w)
      BY <2>2, ProgramFacts DEF Removals, TypeOK, Writers, Sems
    <2>3. QED
      BY <2>1, <2>2 DEF AllPrinted
  <1>3. QED
    BY <1>1, <1>2, Invariance, CountPreserved, PTL DEF Spec
=============================================================================
