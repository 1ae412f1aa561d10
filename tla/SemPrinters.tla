---------------------------- MODULE SemPrinters ----------------------------
(***************************************************************************)
(* The exercises in which two writers print whole messages with display,   *)
(* one write(2) per character, between an operation -1 and an operation +1 *)
(* on a semaphore: syn_process_1.c and sp1!!!!!!!!.c (two processes, one   *)
(* semaphore), syn_process_2.c (two processes, two semaphores), shmem.c    *)
(* (the same with a flag in shared memory for whose turn it is) and        *)
(* syn_thread_1.c (two threads, one mutex).  They differ in the semaphore  *)
(* each writer uses and in what a writer does after its loop, which the    *)
(* records SynProcess1, Sp1, SynProcess2, Shmem and SynThread1 tell.       *)
(*                                                                         *)
(* Writer 1 is the child process (threads[0]), writer 2 the parent         *)
(* (threads[1]).  Behaviours begin where the semaphores are set to 1 and   *)
(* the parent is about to fork.                                            *)
(***************************************************************************)
EXTENDS Integers, FiniteSets, Sequences

CONSTANTS
    NumProc,    \* NUM_PROC, NUM_THREADS: messages each writer prints
    Programs    \* the programs to run, a set of the records below

ASSUME NumProcAssumption == NumProc \in Nat \ {0}

VARIABLES
    program,    \* the record of the program that runs
    sem,        \* sem[s]: value of semaphore s
    removed,    \* removed[s]: s was removed with IPC_RMID (or destroyed)
    pc,         \* pc[w]: where writer w is
    round,      \* round[w]: the loop counter i or j
    chars,      \* chars[w]: characters of its current message display has written
    x,          \* the flag of shmem: 0 when it is writer 1's turn, 1 for writer 2
    out         \* the characters written, each as <<writer, index in its message>>

vars == <<program, sem, removed, pc, round, chars, x, out>>

Writers == {1, 2}
Sems == {1, 2}

\* Characters of each writer's message; only "ab" and "cd\n" are kept at length.
MsgLength == <<2, 3>>

\* A program: the semaphore of each writer, where each goes after its loop, the
\* semaphores main removes, whether main is a writer or joins them both, whether
\* a failed fork ends it, and whether the writers look at a flag for their turn.
SynProcess1 ==
    [name |-> "syn_process_1", sems |-> <<1, 1>>, after |-> <<"exit", "wait">>,
     removes |-> {1}, joins |-> FALSE, noFork |-> "exit", turns |-> FALSE]

\* The child has no return of its own: it waits and removes as well.  fork() == 0
\* takes a failed fork for the parent's branch.
Sp1 ==
    [name |-> "sp1", sems |-> <<1, 1>>, after |-> <<"wait", "wait">>,
     removes |-> {1}, joins |-> FALSE, noFork |-> "loop", turns |-> FALSE]

\* semget(semid1, ...) and semget(semid2, ...) take their keys from variables with
\* no value yet: two semaphores, or one if both hold the same key.
SynProcess2(semid2) ==
    [name |-> "syn_process_2", sems |-> <<1, semid2>>, after |-> <<"exit", "wait">>,
     removes |-> {1, semid2}, joins |-> FALSE, noFork |-> "exit", turns |-> FALSE]

\* The keys again have no value.  A round in which it is not the writer's turn is
\* lost; fork() == 0 takes a failed fork for the parent's branch.
Shmem(semid2) ==
    [name |-> "shmem", sems |-> <<1, semid2>>, after |-> <<"exit", "wait">>,
     removes |-> {1, semid2}, joins |-> FALSE, noFork |-> "loop", turns |-> TRUE]

SynThread1 ==
    [name |-> "syn_thread_1", sems |-> <<1, 1>>, after |-> <<"exit", "exit">>,
     removes |-> {1}, joins |-> TRUE, noFork |-> "exit", turns |-> FALSE]

AllPrograms ==
    {SynProcess1, Sp1, SynThread1} \cup {SynProcess2(s) : s \in Sems} \cup {Shmem(s) : s \in Sems}

ASSUME ProgramsAssumption == Programs \subseteq AllPrograms

MySem(w) == program.sems[w]

Init ==
    /\ program \in Programs
    /\ sem = [s \in Sems |-> 1]
    /\ removed = [s \in Sems |-> FALSE]
    /\ pc = <<"none", "fork">>
    /\ round = [w \in Writers |-> 0]
    /\ chars = [w \in Writers |-> 0]
    /\ x = 0
    /\ out = <<>>

GoTo(w, from, to) == pc[w] = from /\ pc' = [pc EXCEPT ![w] = to]

\* fork (or two pthread_create): both writers start.
Fork ==
    /\ pc[2] = "fork"
    /\ pc' = <<"loop", "loop">>
    /\ UNCHANGED <<program, sem, removed, round, chars, x, out>>

\* fork fails: perror and exit(1), or the parent goes on alone.
ForkFails ==
    /\ ~program.joins
    /\ GoTo(2, "fork", program.noFork)
    /\ UNCHANGED <<program, sem, removed, round, chars, x, out>>

\* The top of the loop, where shmem looks at the flag; i++ and the loop's test for
\* a round that is lost.
MyTurn(w) == program.turns => x = w - 1
NextRound(w) == IF round[w] + 1 < NumProc THEN "loop" ELSE program.after[w]

Loop(w) ==
    /\ GoTo(w, "loop", IF MyTurn(w) THEN "acquire" ELSE NextRound(w))
    /\ round' = [round EXCEPT ![w] = IF MyTurn(w) THEN @ ELSE @ + 1]
    /\ UNCHANGED <<program, sem, removed, chars, x, out>>

\* Mutant: the first operation of the loop is missing.
AcquireAny(w) ==
    /\ GoTo(w, "acquire", "display")
    /\ UNCHANGED <<program, sem, removed, round, chars, x, out>>

\* semop with sem_op = -1: waits for a positive value.  On a removed semaphore it
\* fails, also when it was already waiting, and nobody looks at the result.
Acquire(w) ==
    /\ GoTo(w, "acquire", "display")
    /\ IF removed[MySem(w)] THEN UNCHANGED sem
       ELSE /\ sem[MySem(w)] > 0
            /\ sem' = [sem EXCEPT ![MySem(w)] = @ - 1]
    /\ UNCHANGED <<program, removed, round, chars, x, out>>

\* display writes its next character.
Display(w) ==
    /\ pc[w] = "display"
    /\ out' = Append(out, <<w, chars[w] + 1>>)
    /\ IF chars[w] + 1 = MsgLength[w]
       THEN /\ chars' = [chars EXCEPT ![w] = 0]
            /\ pc' = [pc EXCEPT ![w] = IF program.turns THEN "set" ELSE "release"]
       ELSE /\ chars' = [chars EXCEPT ![w] = @ + 1]
            /\ UNCHANGED pc
    /\ UNCHANGED <<program, sem, removed, round, x>>

\* *x = 1 or *x = 0: the other writer's turn.
SetTurn(w) ==
    /\ GoTo(w, "set", "release")
    /\ x' = 2 - w
    /\ UNCHANGED <<program, sem, removed, round, chars, out>>

\* Mutant: the loop runs once more.
ReleaseOnceMore(w) ==
    /\ GoTo(w, "release", IF round[w] < NumProc THEN "loop" ELSE program.after[w])
    /\ round' = [round EXCEPT ![w] = @ + 1]
    /\ sem' = IF removed[MySem(w)] THEN sem ELSE [sem EXCEPT ![MySem(w)] = @ + 1]
    /\ UNCHANGED <<program, removed, chars, x, out>>

\* Mutant: the second operation of the loop is missing.
ReleaseNot(w) ==
    /\ GoTo(w, "release", NextRound(w))
    /\ round' = [round EXCEPT ![w] = @ + 1]
    /\ UNCHANGED <<program, sem, removed, chars, x, out>>

\* semop with sem_op = 1, and the loop's i++ and test.
Release(w) ==
    /\ GoTo(w, "release", NextRound(w))
    /\ round' = [round EXCEPT ![w] = @ + 1]
    /\ sem' = IF removed[MySem(w)] THEN sem ELSE [sem EXCEPT ![MySem(w)] = @ + 1]
    /\ UNCHANGED <<program, removed, chars, x, out>>

\* The loop of NUM_PROC waits: the first returns when the child is over, the
\* others fail at once, as all do for who has no child.
Wait(w) ==
    /\ w = 2 => pc[1] \in {"none", "exit"}
    /\ GoTo(w, "wait", "remove")
    /\ UNCHANGED <<program, sem, removed, round, chars, x, out>>

RemoveAll == removed' = [s \in Sems |-> removed[s] \/ s \in program.removes]

\* semctl(..., IPC_RMID), and return from main.
Remove(w) ==
    /\ GoTo(w, "remove", "exit")
    /\ RemoveAll
    /\ UNCHANGED <<program, sem, round, chars, x, out>>

\* main of syn_thread_1 joins both threads and destroys the mutex.
JoinAndDestroy ==
    /\ program.joins
    /\ pc = <<"exit", "exit">>
    /\ ~removed[1]
    /\ RemoveAll
    /\ UNCHANGED <<program, sem, pc, round, chars, x, out>>

Step(w) ==
    \/ Loop(w) \/ Acquire(w) \/ Display(w) \/ SetTurn(w) \/ Release(w)
    \/ Wait(w) \/ Remove(w)

Over == pc[2] = "exit" /\ pc[1] \in {"none", "exit"}

Finished == Over /\ (program.joins => removed[1]) /\ UNCHANGED vars

Next == Fork \/ ForkFails \/ (\E w \in Writers : Step(w)) \/ JoinAndDestroy \/ Finished

\* Every process and thread that can run does.
Spec ==
    /\ Init /\ [][Next]_vars
    /\ WF_vars(Fork \/ ForkFails) /\ WF_vars(JoinAndDestroy)
    /\ \A w \in Writers : WF_vars(Step(w))
-----------------------------------------------------------------------------
(* Properties                                                              *)

\* Type correctness; a semaphore never counts more than one free place.
TypeOK ==
    /\ program \in Programs
    /\ sem \in [Sems -> {0, 1}]
    /\ removed \in [Sems -> BOOLEAN]
    /\ pc \in [Writers -> {"none", "fork", "loop", "acquire", "display", "set",
                           "release", "wait", "remove", "exit"}]
    /\ round \in [Writers -> 0..NumProc]
    /\ chars \in [Writers -> 0..2]
    /\ x \in {0, 1}
    /\ out \in Seq(Writers \X (1..3))

OneSem == program.sems[1] = program.sems[2]

\* The character after the i-th one belongs to the same message, or begins one.
InOrder(i) ==
    LET w == out[i][1]
        k == out[i][2]
    IN IF k < MsgLength[w] THEN out[i + 1] = <<w, k + 1>> ELSE out[i + 1][2] = 1

\* The message after a whole one is by the other writer, and writer 1's comes first.
Alternating ==
    /\ \A i \in 1 .. Len(out) - 1 : out[i + 1][2] = 1 => out[i + 1][1] # out[i][1]
    /\ out # <<>> => out[1] = <<1, 1>>

\* Assignment 2 on syn_process_1: the two messages are never mixed.  Every
\* character written continues the message before it or begins a new one, in
\* each program whose writers share the semaphore, also in sp1, where the
\* semaphore is removed under a writer that still uses it; and in shmem whatever
\* the semaphores are, where the flag, tested before the semaphore is taken, makes
\* "ab" come first and "cd\n" follow it as assignment 2 wants of syn_process_2.
WholeMessages ==
    /\ OneSem \/ program.turns => \A i \in 1 .. Len(out) - 1 : InOrder(i)
    /\ program.turns => Alternating

\* The characters writer w has written.
By(w) == {i \in 1..Len(out) : out[i][1] = w}

Prints(w) == pc[w] \in {"loop", "acquire", "display", "set", "release"}

\* Every writer prints all its messages before it ends, unless a failed fork ended
\* the program or it lost rounds waiting for its turn; and where the child returns
\* before the waits (line 83 of syn_process_1.c), no semaphore is removed while a
\* writer has still to use it.
AllPrinted ==
    /\ \A w \in Writers :
         pc[w] = "exit" /\ ~(pc[1] = "none" /\ program.noFork = "exit") /\ ~program.turns =>
             Cardinality(By(w)) = NumProc * MsgLength[w]
    /\ program.name # "sp1" => \A w \in Writers : removed[MySem(w)] => ~Prints(w)

\* Both writers end: nobody waits for a semaphore or a child for ever.
Ends == <>Over
=============================================================================
