---------------------------- MODULE SharedArray ----------------------------
(***************************************************************************)
(* sys_sem_ex2.c: P processes work on an array in shared memory.  Each     *)
(* reads elements 1 .. N-1 without a lock, adds them up and looks for      *)
(* their maximum, writes maximum + 1 to a random place under semaphore 1,  *)
(* and raises array[0] to its sum under semaphore 0.  main forks them,     *)
(* waits and prints the array.                                             *)
(***************************************************************************)
EXTENDS Integers, FiniteSets

CONSTANTS
    N,          \* size of the array
    P,          \* number of processes
    Rounds      \* 10 in the code: iterations of each process

ASSUME ArrayAssumption ==
    /\ N \in Nat \ {0, 1}
    /\ P \in Nat \ {0}
    /\ Rounds \in Nat \ {0}

VARIABLES
    array,      \* the shared memory
    sem,        \* sem[0], sem[1]: the values of the two semaphores
    mpc,        \* where main is
    forked,     \* children main has forked
    printed,    \* what main has printed, last of all
    pc,         \* pc[p]: where child p is in manipulate
    i, j,       \* i[p], j[p]: its loop counters
    max, sum    \* max[p], sum[p]: of what it has read in this iteration

vars == <<array, sem, mpc, forked, printed, pc, i, j, max, sum>>
mainVars == <<mpc, forked, printed>>
locals == <<i, j, max, sum>>

Procs == 1..P
Index == 0 .. N - 1
Nothing == [k \in {} |-> 0]

Init ==
    /\ array = [k \in Index |-> 0]
    /\ sem = [s \in {0, 1} |-> 1]
    /\ mpc = "fork"
    /\ forked = 0
    /\ printed = Nothing
    /\ pc = [p \in Procs |-> "none"]
    /\ i = [p \in Procs |-> 0]
    /\ j = [p \in Procs |-> 1]
    /\ max = [p \in Procs |-> 0]
    /\ sum = [p \in Procs |-> 0]
-----------------------------------------------------------------------------
(* main                                                                    *)

Fork ==
    /\ mpc = "fork"
    /\ forked' = forked + 1
    /\ pc' = [pc EXCEPT ![forked + 1] = "read"]
    /\ mpc' = IF forked + 1 = P THEN "wait" ELSE "fork"
    /\ UNCHANGED <<array, sem, printed, locals>>

\* fork fails: perror, exit(1).  The children run on; nothing is removed.
ForkFails ==
    /\ mpc = "fork"
    /\ mpc' = "exit"
    /\ UNCHANGED <<array, sem, forked, printed, pc, locals>>

\* P calls of wait, one for each child.
Wait ==
    /\ mpc = "wait"
    /\ \A p \in Procs : pc[p] = "exit"
    /\ mpc' = "print"
    /\ UNCHANGED <<array, sem, forked, printed, pc, locals>>

PrintAndRemove ==
    /\ mpc = "print"
    /\ printed' = array
    /\ mpc' = "exit"
    /\ UNCHANGED <<array, sem, forked, pc, locals>>
-----------------------------------------------------------------------------
(* manipulate                                                              *)

GoTo(p, from, to) == pc[p] = from /\ pc' = [pc EXCEPT ![p] = to]

\* max = sum = array[1], then one element at a time: each is read just once, at a
\* moment of its own.
Read(p) ==
    /\ GoTo(p, "read", IF j[p] = N - 1 THEN "wait1" ELSE "read")
    /\ LET tmp == array[j[p]]
       IN IF j[p] = 1
          THEN /\ max' = [max EXCEPT ![p] = tmp]
               /\ sum' = [sum EXCEPT ![p] = tmp]
          ELSE /\ max' = [max EXCEPT ![p] = IF tmp > @ THEN tmp ELSE @]
               /\ sum' = [sum EXCEPT ![p] = @ + tmp]
    /\ j' = [j EXCEPT ![p] = IF @ = N - 1 THEN 1 ELSE @ + 1]
    /\ UNCHANGED <<array, sem, mainVars, i>>

\* semop with -1 and +1 on semaphore s; the set is removed after all children ended.
SemWait(s) == sem[s] > 0 /\ sem' = [sem EXCEPT ![s] = @ - 1]

SemPost(s) == sem' = [sem EXCEPT ![s] = @ + 1]

Wait1(p) ==
    /\ GoTo(p, "wait1", "write")
    /\ SemWait(1)
    /\ UNCHANGED <<array, mainVars, locals>>

\* Mutant: sum in max's place.
WriteSum(p) ==
    /\ GoTo(p, "write", "post1")
    /\ \E loc \in 1 .. N - 1 : array' = [array EXCEPT ![loc] = sum[p] + 1]
    /\ UNCHANGED <<sem, mainVars, locals>>

\* array[loc] = max + 1 at a random place that is not 0.
Write(p) ==
    /\ GoTo(p, "write", "post1")
    /\ \E loc \in 1 .. N - 1 : array' = [array EXCEPT ![loc] = max[p] + 1]
    /\ UNCHANGED <<sem, mainVars, locals>>

Post1(p) ==
    /\ GoTo(p, "post1", "wait0")
    /\ SemPost(1)
    /\ UNCHANGED <<array, mainVars, locals>>

\* Mutant: array[0] is changed without semaphore 0.
Wait0Not(p) ==
    /\ GoTo(p, "wait0", "test")
    /\ UNCHANGED <<array, sem, mainVars, locals>>

Wait0(p) ==
    /\ GoTo(p, "wait0", "test")
    /\ SemWait(0)
    /\ UNCHANGED <<array, mainVars, locals>>

\* if (array[0] < sum)
Test(p) ==
    /\ GoTo(p, "test", IF array[0] < sum[p] THEN "raise" ELSE "post0")
    /\ UNCHANGED <<array, sem, mainVars, locals>>

\* array[0] = sum
Raise(p) ==
    /\ GoTo(p, "raise", "post0")
    /\ array' = [array EXCEPT ![0] = sum[p]]
    /\ UNCHANGED <<sem, mainVars, locals>>

\* Mutant: one iteration too many.
Post0Again(p) ==
    /\ GoTo(p, "post0", IF i[p] < Rounds THEN "read" ELSE "exit")
    /\ SemPost(0)
    /\ i' = [i EXCEPT ![p] = @ + 1]
    /\ UNCHANGED <<array, mainVars, j, max, sum>>

\* Mutant: the second semaphore is released again in the first one's place.
Post0Other(p) ==
    /\ GoTo(p, "post0", IF i[p] + 1 < Rounds THEN "read" ELSE "exit")
    /\ SemPost(1)
    /\ i' = [i EXCEPT ![p] = @ + 1]
    /\ UNCHANGED <<array, mainVars, j, max, sum>>

Post0(p) ==
    /\ GoTo(p, "post0", IF i[p] + 1 < Rounds THEN "read" ELSE "exit")
    /\ SemPost(0)
    /\ i' = [i EXCEPT ![p] = @ + 1]
    /\ UNCHANGED <<array, mainVars, j, max, sum>>

Step(p) ==
    \/ Read(p) \/ Wait1(p) \/ Write(p) \/ Post1(p)
    \/ Wait0(p) \/ Test(p) \/ Raise(p) \/ Post0(p)

Main == Fork \/ ForkFails \/ Wait \/ PrintAndRemove

Over == mpc = "exit" /\ \A p \in Procs : pc[p] \in {"none", "exit"}

Finished == Over /\ UNCHANGED vars

Next == Main \/ (\E p \in Procs : Step(p)) \/ Finished

\* Every process that can run does.
Spec ==
    /\ Init /\ [][Next]_vars
    /\ WF_vars(Main) /\ \A p \in Procs : WF_vars(Step(p))
-----------------------------------------------------------------------------
(* Properties                                                              *)

\* How often child p has written max + 1 so far.
Writes(p) == i[p] + IF pc[p] \in {"post1", "wait0", "test", "raise", "post0"} THEN 1 ELSE 0

\* Every write so far, as <<process, which one of its writes>>.
Written == {w \in Procs \X (1..Rounds) : w[2] <= Writes(w[1])}

AllWrites == Cardinality(Written)

\* Type correctness; each semaphore is free or taken once.
TypeOK ==
    /\ array \in [Index -> Nat]
    /\ sem \in [{0, 1} -> {0, 1}]
    /\ mpc \in {"fork", "wait", "print", "exit"}
    /\ forked \in 0..P
    /\ printed = Nothing \/ printed \in [Index -> Nat]
    /\ pc \in [Procs -> {"none", "read", "wait1", "write", "post1",
                         "wait0", "test", "raise", "post0", "exit"}]
    /\ i \in [Procs -> 0..Rounds]
    /\ j \in [Procs -> 1 .. N - 1]
    /\ max \in [Procs -> Nat]
    /\ sum \in [Procs -> Nat]

\* Although the maximum is read without a lock and may be stale when it is used,
\* no element and no maximum in use is ahead of the writes so far: array[loc] =
\* max + 1 adds one to something that was in the array.  And what main prints is
\* the final array: nobody changes it any more.
ElementsBounded ==
    /\ printed # Nothing => printed = array
    /\ \A k \in Index \ {0} : array[k] <= AllWrites
    /\ \A p \in Procs : max[p] <= AllWrites

\* array[0] is tested and set under semaphore 0 and loses nothing: it never
\* decreases, and no process releases the semaphore while its sum is above it.
IndexZeroGrows ==
    [][/\ array'[0] >= array[0]
       /\ \A p \in Procs : pc'[p] = "post0" => array'[0] >= sum'[p]]_vars

\* Every process ends: no semaphore stays taken.
Ends == <>Over

=============================================================================
