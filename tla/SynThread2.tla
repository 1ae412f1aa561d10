----------------------------- MODULE SynThread2 -----------------------------
(***************************************************************************)
(* syn_thread_2.c: thread "ab" runs print_ab, thread "cd" print_cd.  They  *)
(* alternate by the parity of shared_data.  print_cd tests it with the     *)
(* mutex held; print_ab tests it first (line 29) and takes the mutex only  *)
(* to print, so that its pthread_cond_wait (line 39) is called without the *)
(* mutex, and both loop conditions read shared_data without it.            *)
(*                                                                         *)
(* The mutex is a default one: unlocking it is a store that asks nobody    *)
(* who holds it.  POSIX leaves the unlock by another thread undefined; the *)
(* model takes what the C library does, for the cond_wait and the unlock.  *)
(*                                                                         *)
(* ThreadsInit, ThreadsNext and the like have names of their own, because  *)
(* one module of proofs extends this module and PipePrograms.              *)
(***************************************************************************)
EXTENDS Integers, Sequences

CONSTANT NumThreads     \* NUM_THREADS: pairs to print

ASSUME NumThreadsAssumption == NumThreads \in Nat \ {0}

VARIABLES
    shared_data,
    lock,       \* the mutex is locked
    waiters,    \* threads registered with cond and not woken
    pc,         \* pc[t]: where thread t is
    reg,        \* reg[t]: the value shared_data++ has read
    chars,      \* chars[t]: characters of its text display has written
    out         \* everything written

threadVars == <<shared_data, lock, waiters, pc, reg, chars, out>>

Threads == {"ab", "cd"}
PC == {"check", "lock", "display", "load", "store", "signal",
       "cond_wait", "release", "waiting", "relock", "unlock", "while", "done"}

Text(t) == IF t = "ab" THEN <<"a", "b">> ELSE <<"c", "d", "newline">>

\* Where each do loop begins.
Start(t) == IF t = "ab" THEN "check" ELSE "lock"

\* The parity under which thread t prints.
Parity(t) == IF t = "ab" THEN 0 ELSE 1

ThreadsInit ==
    /\ shared_data = 0
    /\ lock = FALSE
    /\ waiters = {}
    /\ pc = [t \in Threads |-> Start(t)]
    /\ reg = [t \in Threads |-> 0]
    /\ chars = [t \in Threads |-> 0]
    /\ out = <<>>

GoTo(t, from, to) == pc[t] = from /\ pc' = [pc EXCEPT ![t] = to]

\* Mutant: print_cd does not look at the parity.
CheckAbOnly(t) ==
    /\ GoTo(t, "check", IF t = "cd" THEN "display"
                        ELSE IF shared_data % 2 = Parity(t) THEN "lock" ELSE "cond_wait")
    /\ UNCHANGED <<shared_data, lock, waiters, reg, chars, out>>

\* if (shared_data%2 == 0), before the lock; if (shared_data%2 != 0), after it.
Check(t) ==
    /\ GoTo(t, "check", IF shared_data % 2 # Parity(t) THEN "cond_wait"
                        ELSE IF t = "ab" THEN "lock" ELSE "display")
    /\ UNCHANGED <<shared_data, lock, waiters, reg, chars, out>>

\* pthread_mutex_lock
Lock(t) ==
    /\ ~lock
    /\ lock' = TRUE
    /\ GoTo(t, "lock", IF t = "ab" THEN "display" ELSE "check")
    /\ UNCHANGED <<shared_data, waiters, reg, chars, out>>

\* display: one write(2) per character.
Display(t) ==
    /\ pc[t] = "display"
    /\ out' = Append(out, Text(t)[chars[t] + 1])
    /\ IF chars[t] + 1 = Len(Text(t))
       THEN /\ chars' = [chars EXCEPT ![t] = 0]
            /\ pc' = [pc EXCEPT ![t] = "load"]
       ELSE /\ chars' = [chars EXCEPT ![t] = @ + 1]
            /\ UNCHANGED pc
    /\ UNCHANGED <<shared_data, lock, waiters, reg>>

\* shared_data++ is a load and a store.
Load(t) ==
    /\ GoTo(t, "load", "store")
    /\ reg' = [reg EXCEPT ![t] = shared_data]
    /\ UNCHANGED <<shared_data, lock, waiters, chars, out>>

Store(t) ==
    /\ GoTo(t, "store", "signal")
    /\ shared_data' = reg[t] + 1
    /\ UNCHANGED <<lock, waiters, reg, chars, out>>

\* pthread_cond_signal wakes a registered thread, if there is one.
Signal(t) ==
    /\ GoTo(t, "signal", "unlock")
    /\ IF waiters = {} THEN UNCHANGED waiters
       ELSE \E w \in waiters : waiters' = waiters \ {w}
    /\ UNCHANGED <<shared_data, lock, reg, chars, out>>

\* pthread_cond_wait: register, release the mutex (held or not), block, and
\* take the mutex again.
CondWait(t) ==
    /\ GoTo(t, "cond_wait", "release")
    /\ waiters' = waiters \cup {t}
    /\ UNCHANGED <<shared_data, lock, reg, chars, out>>

Release(t) ==
    /\ GoTo(t, "release", "waiting")
    /\ lock' = FALSE
    /\ UNCHANGED <<shared_data, waiters, reg, chars, out>>

Wake(t) ==
    /\ t \notin waiters
    /\ GoTo(t, "waiting", "relock")
    /\ UNCHANGED <<shared_data, lock, waiters, reg, chars, out>>

\* A wakeup without a signal, which POSIX allows.
Spurious(t) ==
    /\ t \in waiters
    /\ GoTo(t, "waiting", "relock")
    /\ waiters' = waiters \ {t}
    /\ UNCHANGED <<shared_data, lock, reg, chars, out>>

\* Mutant: the unlock stands in the other branch only.
RelockKeep(t) ==
    /\ ~lock
    /\ lock' = TRUE
    /\ GoTo(t, "relock", "while")
    /\ UNCHANGED <<shared_data, waiters, reg, chars, out>>

Relock(t) ==
    /\ ~lock
    /\ lock' = TRUE
    /\ GoTo(t, "relock", "unlock")
    /\ UNCHANGED <<shared_data, waiters, reg, chars, out>>

\* pthread_mutex_unlock
Unlock(t) ==
    /\ GoTo(t, "unlock", "while")
    /\ lock' = FALSE
    /\ UNCHANGED <<shared_data, waiters, reg, chars, out>>

\* Mutants of the loop condition, off by one either way.
WhileAtMost(t) ==
    /\ GoTo(t, "while", IF shared_data <= 2 * NumThreads THEN Start(t) ELSE "done")
    /\ UNCHANGED <<shared_data, lock, waiters, reg, chars, out>>

WhileLess(t) ==
    /\ GoTo(t, "while", IF shared_data < 2 * NumThreads - 1 THEN Start(t) ELSE "done")
    /\ UNCHANGED <<shared_data, lock, waiters, reg, chars, out>>

\* while (shared_data < 2*NUM_THREADS), without the mutex.
While(t) ==
    /\ GoTo(t, "while", IF shared_data < 2 * NumThreads THEN Start(t) ELSE "done")
    /\ UNCHANGED <<shared_data, lock, waiters, reg, chars, out>>

ThreadStep(t) ==
    \/ Check(t) \/ Lock(t) \/ Display(t) \/ Load(t) \/ Store(t) \/ Signal(t)
    \/ CondWait(t) \/ Release(t) \/ Wake(t) \/ Relock(t) \/ Unlock(t) \/ While(t)

BothDone == \A t \in Threads : pc[t] = "done"

\* main has joined both threads.
Finished == BothDone /\ UNCHANGED threadVars

ThreadsNext == (\E t \in Threads : ThreadStep(t) \/ Spurious(t)) \/ Finished

ThreadsSpec == ThreadsInit /\ [][ThreadsNext]_threadVars

\* Both threads run, and a thread that finds the mutex free again and again gets
\* it.  Nothing wakes a waiting thread but a signal.
Fairness ==
    \A t \in Threads : WF_threadVars(ThreadStep(t)) /\ SF_threadVars(Lock(t)) /\ SF_threadVars(Relock(t))

FairThreadsSpec == ThreadsSpec /\ Fairness
-----------------------------------------------------------------------------
(* Properties                                                              *)

\* Type correctness.
ThreadsTypeOK ==
    /\ shared_data \in 0 .. 2 * NumThreads + 1
    /\ lock \in BOOLEAN
    /\ waiters \subseteq Threads
    /\ pc \in [Threads -> PC]
    /\ reg \in [Threads -> 0 .. 2 * NumThreads + 1]
    /\ chars \in [Threads -> 0..2]
    /\ out \in Seq({"a", "b", "c", "d", "newline"})

\* Every character written continues ab, cd, newline, ab, ... although the
\* mutex is released under its holder and the parity is read without it: the
\* parity of shared_data alone keeps the two texts apart and in order.
Cyc == INSTANCE CyclicOutput WITH Cycle <- <<"a", "b", "c", "d", "newline">>

ImplementsCyclicOutput == Cyc!Spec

\* When both threads have returned, NUM_THREADS lines were printed, and at most
\* one "ab" more: print_ab can pass its loop condition before the last "cd" and
\* its parity test after it.
AllPairsAtTheEnd == BothDone => Len(out) \in {5 * NumThreads, 5 * NumThreads + 2}

\* If nobody waits on cond for ever, the program ends: no other step blocks.
EndsUnlessWaiting ==
    (\A t \in Threads : []<>(pc[t] # "waiting")) => <>BothDone

\* The program ends, as main's pthread_join of both threads wants.
ThreadsEnd == <>BothDone
=============================================================================
