--------------------------- MODULE ThreadPrograms ---------------------------
(***************************************************************************)
(* The small exercises on threads, mutexes and semaphores: ab_ex.c,        *)
(* deadlock.c, mutex.c, mutex1.c, join1.c, hello.c, ex_pthread1.c,         *)
(* ex_pthread2.c, oddevev.c and, with processes for threads, sem_ex1.cpp.  *)
(* Each thread is a line of calls with few jumps, which is written down as *)
(* a sequence; there is one action per kind of call.                       *)
(***************************************************************************)
EXTENDS Integers, Sequences, FiniteSets

CONSTANTS
    Programs,   \* the programs to run
    NLoops,     \* NLOOPS of ab_ex.c
    NThreads,   \* NTHREADS of join1.c, NUM_THREADS of hello.c
    Pairs,      \* pairs of threads mutex.c starts
    Last        \* the limit of the loops of oddevev.c and ex_pthread1.c

ASSUME BoundsAssumption ==
    /\ NLoops \in Nat \ {0} /\ NThreads \in Nat \ {0} /\ Pairs \in Nat \ {0}
    /\ Last \in Nat \ {0}

VARIABLES
    prog,       \* the program
    pc,         \* pc[t]: next call of thread t; 0 before it is created, -1 when it has ended
    over,       \* the process has exited
    locked,     \* locked[m]: mutex m
    sem,        \* sem[s]: value of semaphore s
    removed,    \* the semaphore of sem_ex1 is removed
    undo,       \* undo[t]: what SEM_UNDO gives back when process t ends
    shared,     \* the variable the threads share: counter, x, shared_data
    reg,        \* reg[t]: the value thread t has loaded of it
    out         \* what is printed, as records [by, what, value of shared]

kernel == <<locked, sem, removed, undo>>
vars == <<prog, pc, over, kernel, shared, reg, out>>

MaxOf(a, b) == IF a > b THEN a ELSE b
Threads == 1 .. 1 + MaxOf(MaxOf(NThreads, 2 * Pairs), 3)   \* 1 is main
Mutexes == 1..2
Sems == 0..3

call(op, a, b) == [op |-> op, a |-> a, b |-> b]
create(t) == call("create", t, 0)
createOrExit(t) == call("create", t, 1)     \* exits when the creation fails
createOrGoOn(t) == call("create", t, 2)     \* says so and goes on
join(t) == call("join", t, 0)
lock(m) == call("lock", m, 0)
unlock(m) == call("unlock", m, 0)
wait(s) == call("sem_wait", s, 0)
post(s) == call("sem_post", s, 0)
load == call("load", 0, 0)
store == call("store", 0, 0)
print(c) == call("print", c, 0)
isParity(r, else) == call("parity", r, else)
while(to) == call("while", to, 0)
spin == call("spin", 0, 0)
exit == call("exit", 0, 0)
end == call("end", 0, 0)
assertOne == call("assert", 0, 0)
acquire(else) == call("acquire", 0, else)
release == call("release", 0, 0)
fork(t, else) == call("fork", t, else)
remove == call("remove", 0, 0)

Times(n, body) == [i \in 1 .. n * Len(body) |-> body[((i - 1) % Len(body)) + 1]]
-----------------------------------------------------------------------------
(* ab_ex.c                                                                 *)

\* Mutants of process_A: a character after the post that lets the other thread
\* go on; a post of the wrong semaphore.
BodyASwapped ==
    << wait(0), print("A"), post(1), post(3), print("B"), post(2),
       wait(0), print("A"), post(1), wait(3), print("B"), post(2) >>

BodyAWrongPost ==
    << wait(0), print("A"), post(1), print("B"), post(1), post(2),
       wait(0), print("A"), post(1), wait(3), print("B"), post(2) >>

\* process_A, one round
BodyA ==
    << wait(0), print("A"), post(1), print("B"), post(3), post(2),
       wait(0), print("A"), post(1), wait(3), print("B"), post(2) >>

\* Mutant of process_B: it waits for s2 before it posts s3.
BodyBCrossed ==
    << wait(1), wait(3), print("C"), wait(2), print("D"), post(0),
       wait(1), print("C"), wait(2), post(3), print("D"), post(0) >>

\* process_B, one round
BodyB ==
    << wait(1), wait(3), print("C"), wait(2), print("D"), post(0),
       wait(1), print("C"), post(3), wait(2), print("D"), post(0) >>

AbExMain == <<create(2), create(3), join(2), join(3), exit>>
AbEx == <<AbExMain, Times(NLoops, BodyA) \o <<end>>, Times(NLoops, BodyB) \o <<end>>>>
-----------------------------------------------------------------------------
(* The other programs with threads                                         *)

\* deadlock.c
DeadlockMain == <<create(2), create(3), spin>>
print_i == <<lock(1), lock(2), print("i"), unlock(2), unlock(1), end>>
print_j == <<lock(2), lock(1), print("j"), unlock(1), unlock(2), end>>

\* mutex.c
MutexMain == [i \in 1 .. 2 * Pairs |-> create(i + 1)] \o <<spin>>

Print12 == <<lock(1), print("1:"), print("2:"), unlock(1), end>>

\* mutex1.c
Mutex1Main == <<createOrGoOn(2), createOrGoOn(3), join(2), join(3), exit>>
functionC == <<lock(1), load, store, print("counter"), unlock(1), end>>

\* join1.c
Join1Main ==
    [i \in 1 .. NThreads |-> create(i + 1)] \o [i \in 1 .. NThreads |-> join(i + 1)]
    \o <<print("final"), exit>>

thread_function == <<print("number"), lock(1), load, store, unlock(1), end>>

\* hello.c: main ends by pthread_exit and leaves the process to its threads.
HelloMain == [i \in 1 .. NThreads |-> createOrExit(i + 1)] \o <<end>>
PrintHello == <<print("hello"), end>>

\* ex_pthread1.c
ExPthread1Main == <<createOrExit(2), join(2), print("x"), exit>>
inc_x == Times(Last, <<load, store>>) \o <<end>>

\* ex_pthread2.c
ExPthread2Main == <<create(2), create(3), join(2), join(3), print("returns"), exit>>
print_message_function == <<print("message"), end>>

\* oddevev.c: r is the parity a thread prints.  The mutex is locked once, before
\* the loop, and unlocked in every turn that finds the other parity.
OddEvEvMain == <<create(2), create(3), join(2), join(3), exit>>
PrintNos(r) ==
    <<lock(1), isParity(r, 8),
      print("no"), load, store, while(2), end,
      unlock(1), while(2), end>>
-----------------------------------------------------------------------------
(* sem_ex1.cpp: parent, child1, child2 and grandchild                      *)

FamilyMain == <<fork(2, 6), fork(3, 6), join(3), print("parent"), remove, end>>

\* Mutant: child1 releases the semaphore before it prints.
Child1Early ==
    <<assertOne, acquire(7), fork(4, 6), join(4), release, print("child1"), end>>

child1 == <<assertOne, acquire(7), fork(4, 6), join(4), print("child1"), release, end>>
Child2 == <<acquire(2), print("child2"), end>>
Grandchild == <<print("grandchild"), end>>

Code(g, t) ==
    CASE g = "ab_ex" -> AbEx[t]
      [] g = "deadlock" -> <<DeadlockMain, print_i, print_j>>[t]
      [] g = "mutex" -> IF t = 1 THEN MutexMain ELSE Print12
      [] g = "mutex1" -> IF t = 1 THEN Mutex1Main ELSE functionC
      [] g = "join1" -> IF t = 1 THEN Join1Main ELSE thread_function
      [] g = "hello" -> IF t = 1 THEN HelloMain ELSE PrintHello
      [] g = "ex_pthread1" -> IF t = 1 THEN ExPthread1Main ELSE inc_x
      [] g = "ex_pthread2" -> IF t = 1 THEN ExPthread2Main ELSE print_message_function
      [] g = "oddevev" -> <<OddEvEvMain, PrintNos(0), PrintNos(1)>>[t]
      [] g = "sem_ex1" -> <<FamilyMain, child1, Child2, Grandchild>>[t]

AllPrograms ==
    {"ab_ex", "deadlock", "mutex", "mutex1", "join1", "hello", "ex_pthread1",
     "ex_pthread2", "oddevev", "sem_ex1"}

ASSUME ProgramsAssumption == Programs \subseteq AllPrograms
-----------------------------------------------------------------------------
Init ==
    /\ prog \in Programs
    /\ pc = [t \in Threads |-> IF t = 1 THEN 1 ELSE 0]
    /\ over = FALSE
    /\ locked = [m \in Mutexes |-> FALSE]
    /\ sem = [s \in Sems |-> IF s = 0 THEN 1 ELSE 0]
    /\ removed = FALSE
    /\ undo = [t \in Threads |-> 0]
    /\ shared = 0
    /\ reg = [t \in Threads |-> 0]
    /\ out = <<>>

Op(t) == Code(prog, t)[pc[t]]
At(t, op) == pc[t] > 0 /\ ~over /\ Op(t).op = op

\* Thread t goes on behind its call, or at call n.
GoTo(t, n) == pc' = [pc EXCEPT ![t] = n]
Goes(t) == GoTo(t, pc[t] + 1)

Gone == -1

Create(t) ==
    /\ At(t, "create")
    /\ pc' = [pc EXCEPT ![t] = @ + 1, ![Op(t).a] = 1]
    /\ UNCHANGED <<prog, over, kernel, shared, reg, out>>

\* pthread_create fails where the program tests for it.
CreateFails(t) ==
    /\ At(t, "create")
    /\ \/ /\ Op(t).b = 1
          /\ over' = TRUE
          /\ UNCHANGED <<pc, out>>
       \/ /\ Op(t).b = 2
          /\ out' = Append(out, [by |-> t, what |-> "failed", value |-> shared])
          /\ Goes(t)
          /\ UNCHANGED over
    /\ UNCHANGED <<prog, kernel, shared, reg>>

\* pthread_join, wait and waitpid
Join(t) ==
    /\ At(t, "join")
    /\ pc[Op(t).a] = Gone
    /\ Goes(t)
    /\ UNCHANGED <<prog, over, kernel, shared, reg, out>>

\* main of mutex1.c joins a thread it could not create, with an id that was never
\* set; no other program goes on after a creation that it sees fail.
JoinsNobody(t) == prog = "mutex1" /\ At(t, "join") /\ pc[Op(t).a] = 0

\* pthread_join of such an id is undefined: it returns, takes the process down, or,
\* as no fairness is asked of this action, waits for ever.
JoinNobody(t) ==
    /\ JoinsNobody(t)
    /\ \/ Goes(t) /\ UNCHANGED over
       \/ over' = TRUE /\ UNCHANGED pc
    /\ UNCHANGED <<prog, kernel, shared, reg, out>>

Lock(t) ==
    /\ At(t, "lock")
    /\ ~locked[Op(t).a]
    /\ locked' = [locked EXCEPT ![Op(t).a] = TRUE]
    /\ Goes(t)
    /\ UNCHANGED <<prog, over, sem, removed, undo, shared, reg, out>>

\* Whoever holds the mutex, the default kind is unlocked.
Unlock(t) ==
    /\ At(t, "unlock")
    /\ locked' = [locked EXCEPT ![Op(t).a] = FALSE]
    /\ Goes(t)
    /\ UNCHANGED <<prog, over, sem, removed, undo, shared, reg, out>>

SemWait(t) ==
    /\ At(t, "sem_wait")
    /\ sem[Op(t).a] > 0
    /\ sem' = [sem EXCEPT ![Op(t).a] = @ - 1]
    /\ Goes(t)
    /\ UNCHANGED <<prog, over, locked, removed, undo, shared, reg, out>>

SemPost(t) ==
    /\ At(t, "sem_post")
    /\ sem' = [sem EXCEPT ![Op(t).a] = @ + 1]
    /\ Goes(t)
    /\ UNCHANGED <<prog, over, locked, removed, undo, shared, reg, out>>

Load(t) ==
    /\ At(t, "load")
    /\ reg' = [reg EXCEPT ![t] = shared]
    /\ Goes(t)
    /\ UNCHANGED <<prog, over, kernel, shared, out>>

Store(t) ==
    /\ At(t, "store")
    /\ shared' = reg[t] + 1
    /\ Goes(t)
    /\ UNCHANGED <<prog, over, kernel, reg, out>>

PutOut(t) ==
    /\ At(t, "print")
    /\ out' = Append(out, [by |-> t, what |-> Op(t).a, value |-> shared])
    /\ Goes(t)
    /\ UNCHANGED <<prog, over, kernel, shared, reg>>

Parity(t) ==
    /\ At(t, "parity")
    /\ GoTo(t, IF shared % 2 = Op(t).a THEN pc[t] + 1 ELSE Op(t).b)
    /\ UNCHANGED <<prog, over, kernel, shared, reg, out>>

While(t) ==
    /\ At(t, "while")
    /\ GoTo(t, IF shared <= Last THEN Op(t).a ELSE pc[t] + 1)
    /\ UNCHANGED <<prog, over, kernel, shared, reg, out>>

\* SEM_UNDO: what the process has taken of the semaphore is given back.
Undo(t) == sem' = IF removed THEN sem ELSE [sem EXCEPT ![0] = @ + undo[t]]

\* Return from the thread's function, or of a process of sem_ex1 from main.
End(t) ==
    /\ At(t, "end")
    /\ GoTo(t, Gone)
    /\ Undo(t)
    /\ undo' = [undo EXCEPT ![t] = 0]
    /\ UNCHANGED <<prog, over, locked, removed, shared, reg, out>>

\* exit, or return from main: the process ends with all its threads.
Exit(t) ==
    /\ At(t, "exit")
    /\ over' = TRUE
    /\ UNCHANGED <<prog, pc, kernel, shared, reg, out>>
-----------------------------------------------------------------------------
(* The processes of sem_ex1.cpp and their semaphore, number 0              *)

\* assert(semctl(GETVAL) == 1), or the process is aborted.
AssertOne(t) ==
    /\ At(t, "assert")
    /\ GoTo(t, IF ~removed /\ sem[0] = 1 THEN pc[t] + 1 ELSE Len(Code(prog, t)))
    /\ UNCHANGED <<prog, over, kernel, shared, reg, out>>

\* semop of acquire; it fails when the semaphore is, or meanwhile gets, removed.
Acquire(t) ==
    /\ At(t, "acquire")
    /\ IF removed THEN GoTo(t, Op(t).b) /\ UNCHANGED <<sem, undo>>
       ELSE /\ sem[0] > 0
            /\ sem' = [sem EXCEPT ![0] = @ - 1]
            /\ undo' = [undo EXCEPT ![t] = @ + 1]
            /\ Goes(t)
    /\ UNCHANGED <<prog, over, locked, removed, shared, reg, out>>

Release(t) ==
    /\ At(t, "release")
    /\ Goes(t)
    /\ IF removed THEN UNCHANGED <<sem, undo>>
       ELSE /\ sem' = [sem EXCEPT ![0] = @ + 1]
            /\ undo' = [undo EXCEPT ![t] = @ - 1]
    /\ UNCHANGED <<prog, over, locked, removed, shared, reg, out>>

Fork(t) ==
    /\ At(t, "fork")
    /\ pc' = [pc EXCEPT ![t] = @ + 1, ![Op(t).a] = 1]
    /\ UNCHANGED <<prog, over, kernel, shared, reg, out>>

ForkFails(t) ==
    /\ At(t, "fork")
    /\ GoTo(t, Op(t).b)
    /\ UNCHANGED <<prog, over, kernel, shared, reg, out>>

Remove(t) ==
    /\ At(t, "remove")
    /\ removed' = TRUE
    /\ Goes(t)
    /\ UNCHANGED <<prog, over, locked, sem, undo, shared, reg, out>>
-----------------------------------------------------------------------------
Step(t) ==
    \/ Create(t) \/ Join(t) \/ Lock(t) \/ Unlock(t) \/ SemWait(t) \/ SemPost(t)
    \/ Load(t) \/ Store(t) \/ PutOut(t) \/ Parity(t) \/ While(t) \/ End(t) \/ Exit(t)
    \/ AssertOne(t) \/ Acquire(t) \/ Release(t) \/ Fork(t) \/ Remove(t)

Next == \E t \in Threads : Step(t) \/ CreateFails(t) \/ JoinNobody(t) \/ ForkFails(t)

Spec == Init /\ [][Next]_vars

FairSpec == Spec /\ \A t \in Threads : WF_vars(Step(t))
-----------------------------------------------------------------------------
(* Properties                                                              *)

\* Type correctness; no semaphore of ab_ex.c or sem_ex1.cpp ever counts more
\* than one.
TypeOK ==
    /\ prog \in Programs
    /\ \A t \in Threads : pc[t] > 0 => pc[t] \in 1..Len(Code(prog, t))
    /\ over \in BOOLEAN
    /\ locked \in [Mutexes -> BOOLEAN]
    /\ sem \in [Sems -> {0, 1}]
    /\ removed \in BOOLEAN
    /\ undo \in [Threads -> {0, 1}]
    /\ shared \in 0 .. MaxOf(Last + 2, NThreads)
    /\ reg \in [Threads -> 0 .. MaxOf(Last + 2, NThreads)]
    /\ \A i \in DOMAIN out : out[i].by \in Threads

\* The two threads of ab_ex.c together print ABCDACBD over and over, whatever the
\* scheduler does: every other order of two neighbouring characters is excluded
\* by a semaphore.
Cyc == INSTANCE CyclicOutput WITH
    Cycle <- <<"A", "B", "C", "D", "A", "C", "B", "D">>,
    out <- IF prog = "ab_ex" THEN [i \in DOMAIN out |-> out[i].what] ELSE <<>>

ImplementsCyclicOutput == Cyc!Spec

Printed(c) == \E i \in DOMAIN out : out[i].what = c
LinesUpTo(c, n) == Cardinality({i \in 1..n : out[i].what = c})
Lines(c) == LinesUpTo(c, Len(out))

\* c is printed before d is, and nothing by others in between.
Adjacent(c, d) ==
    \A i \in DOMAIN out :
        /\ out[i].what = c /\ i < Len(out) => out[i + 1].what = d /\ out[i + 1].by = out[i].by
        /\ out[i].what = d => i > 1 /\ out[i - 1].what = c /\ out[i - 1].by = out[i].by

\* What the semaphore of sem_ex1.cpp does give: child2 prints before the grandchild or
\* after child1, as one of them holds it, and the parent prints after child2.  The
\* comments of the program promise more: the next property is theirs.
SectionsApart ==
    \A i, j \in DOMAIN out :
        /\ out[i].what = "grandchild" /\ out[j].what = "child1" => j = i + 1 \/
               (j = i + 2 /\ out[i + 1].what = "parent")
        /\ out[i].what = "child2" /\ out[j].what = "parent" => i < j

\* "The parent process waits for both child1 and child2 to complete, and then
\* prints": the parent's line is the last one.  What would come after it is of child1
\* and the grandchild, and child2's line, which SectionsApart puts before the parent's,
\* would not have waited for them either.
ParentWaitsForBoth ==
    prog = "sem_ex1" => \A i \in DOMAIN out : out[i].what = "parent" => i = Len(out)

\* What each exercise is there to show, for every schedule: the lines of mutex.c
\* come in pairs; the counters of mutex1.c and join1.c lose no increment; mutex1.c
\* reaches its exit with a line of every thread, or a message for one that could
\* not be created, and main of join1.c prints the final count; oddevev.c counts
\* without a gap, one beyond the limit at most, although its mutex excludes nobody;
\* all lines of hello.c, ex_pthread1.c and ex_pthread2.c are out when they end; and
\* the sections of the family in sem_ex1.cpp are apart.
Outcome ==
    CASE prog = "mutex" -> Adjacent("1:", "2:")
      [] prog = "mutex1" -> /\ \A i \in DOMAIN out : out[i].what = "counter" =>
                                   out[i].value = LinesUpTo("counter", i)
                            /\ over /\ Op(1).op = "exit" =>
                                   Lines("counter") + Lines("failed") = 2
      [] prog = "join1" -> Printed("final") => /\ shared = NThreads
                                               /\ Lines("number") = NThreads
      [] prog = "hello" -> (\A t \in Threads : pc[t] <= 0) => Len(out) = NThreads
      [] prog = "ex_pthread1" -> Printed("x") => shared = Last
      [] prog = "ex_pthread2" -> Printed("returns") => Lines("message") = 2
      [] prog = "oddevev" -> /\ \A i \in DOMAIN out : out[i].value = i - 1
                             /\ over => Len(out) \in {Last + 1, Last + 2}
      [] prog = "sem_ex1" -> SectionsApart
      [] OTHER -> TRUE

\* All threads have ended but a main that loops for ever, or that joins nobody.
AllEnd == \A t \in Threads : pc[t] <= 0 \/ Op(t).op = "spin" \/ JoinsNobody(t)

\* Every program ends, or its threads do where main loops for ever, or waits for ever
\* for a thread of mutex1.c that was never created; deadlock.c may stop instead with
\* each thread holding the mutex the other one waits for.
Ends == <>[](over \/ AllEnd \/ (/\ prog = "deadlock"
                                /\ \A t \in {2, 3} : pc[t] = 2
                                /\ \A m \in Mutexes : locked[m]))
=============================================================================
