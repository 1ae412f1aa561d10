------------------------------ MODULE ProcTrack ------------------------------
(***************************************************************************)
(* proc1.c and basic_sem.c: a process may work while it has the "track", a *)
(* System V semaphore that is zero when the track is free.  One semop call *)
(* waits for zero and adds one, atomically; another one takes the one away *)
(* again.  All of them carry SEM_UNDO: the kernel keeps an adjustment per  *)
(* process and applies it when the process ends, however it ends.          *)
(*                                                                         *)
(* Both programs ask for key 1234 and never remove the semaphore, so that  *)
(* one running program meets the processes of the other and what earlier   *)
(* runs left behind.  proc1 writes a message with display while it has the *)
(* track; basic_sem only reports to stderr.  Signals may kill a process    *)
(* anywhere.                                                               *)
(***************************************************************************)
EXTENDS Integers

CONSTANTS
    Programs,   \* the programs somebody starts, among "proc1" and "basic_sem"
    Rounds,     \* 3 in the code: how often each process takes the track
    Chars,      \* bound: characters of a message
    MaxKills    \* bound: processes that are killed

ASSUME TrackAssumption ==
    /\ Programs \subseteq {"proc1", "basic_sem"}
    /\ Rounds \in Nat \ {0}
    /\ Chars \in Nat \ {0}
    /\ MaxKills \in Nat

VARIABLES
    sem,        \* value of the semaphore
    adj,        \* adj[p]: the kernel's undo adjustment for process p
    pc,         \* pc[p]: where process p is
    i,          \* i[p]: its loop counter
    chars,      \* chars[p]: characters of its message display has written
    last,       \* the last character written, as <<process, its index>>
    kills       \* processes killed so far

vars == <<sem, adj, pc, i, chars, last, kills>>

Procs == Programs \X {"child", "parent"}
NoChar == <<<<"none", "none">>, 0>>

Init ==
    /\ sem = 0
    /\ adj = [p \in Procs |-> 0]
    /\ pc = [p \in Procs |-> IF p[2] = "parent" THEN "fork" ELSE "none"]
    /\ i = [p \in Procs |-> 0]
    /\ chars = [p \in Procs |-> 0]
    /\ last = NoChar
    /\ kills = 0

GoTo(p, from, to) == pc[p] = from /\ pc' = [pc EXCEPT ![p] = to]

\* fork: parent and child enter the same loop.
Fork(g) ==
    /\ pc[<<g, "parent">>] = "fork"
    /\ pc' = [p \in Procs |-> IF p[1] = g THEN "take" ELSE pc[p]]
    /\ UNCHANGED <<sem, adj, i, chars, last, kills>>

\* fork fails: perror, exit(1).
ForkFails(g) ==
    /\ GoTo(<<g, "parent">>, "fork", "over")
    /\ UNCHANGED <<sem, adj, i, chars, last, kills>>

\* Mutants: no SEM_UNDO on the increment; nsops = 1 and the increment alone.
TakeNoUndo(p) ==
    /\ GoTo(p, "take", IF p[1] = "proc1" THEN "display" ELSE "give")
    /\ sem = 0
    /\ sem' = sem + 1
    /\ UNCHANGED <<adj, i, chars, last, kills>>

TakeAtOnce(p) ==
    /\ GoTo(p, "take", IF p[1] = "proc1" THEN "display" ELSE "give")
    /\ sem' = sem + 1
    /\ adj' = [adj EXCEPT ![p] = @ - 1]
    /\ UNCHANGED <<i, chars, last, kills>>

\* semop of two operations, wait for zero and add one: both or none.
Take(p) ==
    /\ GoTo(p, "take", IF p[1] = "proc1" THEN "display" ELSE "give")
    /\ sem = 0
    /\ sem' = sem + 1
    /\ adj' = [adj EXCEPT ![p] = @ - 1]
    /\ UNCHANGED <<i, chars, last, kills>>

Display(p) ==
    /\ pc[p] = "display"
    /\ last' = <<p, chars[p] + 1>>
    /\ IF chars[p] + 1 = Chars
       THEN /\ chars' = [chars EXCEPT ![p] = 0]
            /\ pc' = [pc EXCEPT ![p] = "give"]
       ELSE /\ chars' = [chars EXCEPT ![p] = @ + 1]
            /\ UNCHANGED pc
    /\ UNCHANGED <<sem, adj, i, kills>>

Loop(p) == IF i[p] + 1 < Rounds THEN "take" ELSE "return"

\* The semop of take fails, as when the kernel has no room for the adjustment:
\* perror, and ++i without the work.
TakeFails(p) ==
    /\ GoTo(p, "take", Loop(p))
    /\ i' = [i EXCEPT ![p] = @ + 1]
    /\ UNCHANGED <<sem, adj, chars, last, kills>>

\* Mutants: no SEM_UNDO on the second call; the second call missing.
GiveNoUndo(p) ==
    /\ GoTo(p, "give", Loop(p))
    /\ i' = [i EXCEPT ![p] = @ + 1]
    /\ IF sem > 0 THEN sem' = sem - 1 ELSE UNCHANGED sem
    /\ UNCHANGED <<adj, chars, last, kills>>

GiveNot(p) ==
    /\ GoTo(p, "give", Loop(p))
    /\ i' = [i EXCEPT ![p] = @ + 1]
    /\ UNCHANGED <<sem, adj, chars, last, kills>>

\* semop with -1, SEM_UNDO and IPC_NOWAIT: fails when the value is zero; ++i.
Give(p) ==
    /\ GoTo(p, "give", Loop(p))
    /\ i' = [i EXCEPT ![p] = @ + 1]
    /\ IF sem > 0
       THEN sem' = sem - 1 /\ adj' = [adj EXCEPT ![p] = @ + 1]
       ELSE UNCHANGED <<sem, adj>>
    /\ UNCHANGED <<chars, last, kills>>

\* The kernel applies the adjustment of a process that ends, down to zero.
Undo(p) ==
    /\ sem' = IF sem + adj[p] < 0 THEN 0 ELSE sem + adj[p]
    /\ adj' = [adj EXCEPT ![p] = 0]

\* Return from main.
Return(p) ==
    /\ GoTo(p, "return", "over")
    /\ Undo(p)
    /\ UNCHANGED <<i, chars, last, kills>>

Kill(p) ==
    /\ pc[p] \notin {"none", "over"}
    /\ kills < MaxKills
    /\ kills' = kills + 1
    /\ pc' = [pc EXCEPT ![p] = "over"]
    /\ Undo(p)
    /\ UNCHANGED <<i, chars, last>>

Step(p) == Take(p) \/ Display(p) \/ Give(p) \/ Return(p)

Over == \A p \in Procs : pc[p] \in {"none", "over"}

Finished == Over /\ UNCHANGED vars

Next ==
    \/ \E g \in Programs : Fork(g) \/ ForkFails(g)
    \/ \E p \in Procs : Step(p) \/ TakeFails(p) \/ Kill(p)
    \/ Finished

\* Every process that can run does; nobody has to be killed, no call to fail.
Fairness ==
    /\ \A g \in Programs : WF_vars(Fork(g) \/ ForkFails(g))
    /\ \A p \in Procs : WF_vars(Step(p))

Spec == Init /\ [][Next]_vars

FairSpec == Spec /\ Fairness
-----------------------------------------------------------------------------
(* Properties                                                              *)

OnTrack(p) == pc[p] \in {"display", "give"}

\* Type correctness; the semaphore counts one process at most, and no process
\* owes the kernel more than that one.
TypeOK ==
    /\ sem \in {0, 1}
    /\ adj \in [Procs -> {-1, 0}]
    /\ pc \in [Procs -> {"none", "fork", "take", "display", "give", "return", "over"}]
    /\ i \in [Procs -> 0..Rounds]
    /\ chars \in [Procs -> 0 .. Chars - 1]
    /\ last \in {NoChar} \cup (Procs \X (1..Chars))
    /\ kills \in 0..MaxKills

\* One process at a time has the track, over both programs, and the semaphore
\* is set for as long as it has it, also when processes are killed.  In
\* particular the value is zero again when nobody is left, which the next run
\* needs: no program sets it.
OneOnTrack ==
    /\ \A p, q \in Procs : OnTrack(p) /\ OnTrack(q) => p = q
    /\ sem = 0 <=> \A p \in Procs : ~OnTrack(p)

\* A message goes on where it stopped, and another one begins only when it is
\* complete or its writer was killed in the middle of it.
MessagesWhole ==
    [][last' # last =>
           IF last'[2] > 1 THEN last = <<last'[1], last'[2] - 1>>
           ELSE last = NoChar \/ last[2] = Chars \/ pc[last[1]] = "over"]_vars

\* Every process ends, killed or not, although others are killed on the track.
AllEnd == <>Over
=============================================================================
