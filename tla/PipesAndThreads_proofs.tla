----------------------- MODULE PipesAndThreads_proofs -----------------------
(***************************************************************************)
(* Proofs about PipePrograms and, in the last part, about SynThread2.      *)
(*                                                                         *)
(* Of PipePrograms they show, for every set of programs and any            *)
(* number of items: no process runs past its code, commands are plumbed    *)
(* right whichever calls fail, a program that waits for its pipeline waits *)
(* for the last command, and no process keeps the end of a pipe that       *)
(* would hold up end of file or SIGPIPE, where the program closes it.      *)
(*                                                                         *)
(* The programs are fixed texts, so the first part settles what the texts  *)
(* say, each of them by itself: every call refers to what is there         *)
(* (WellCode), a child finds the ends it redirects (HandedOver), who       *)
(* executes a command has redirected what that command needs               *)
(* (ReadyToExecute).  The steps never look at a text again: Fits says what *)
(* descriptors a process has at a call, from what the calls before it have *)
(* done and the calls behind it still want, and each kind of call takes it *)
(* from one call to the next; a fork takes it to the child, whose table is *)
(* the parent's.  For the programs that wait, Awaited weighs the children  *)
(* that are not reaped against the calls of wait that are left.            *)
(* NoMore looks at the calls the other way round from Fits: it says what   *)
(* a process cannot have open any more.                                    *)
(***************************************************************************)
EXTENDS PipePrograms, SynThread2, FiniteSetTheorems, TLAPS

-----------------------------------------------------------------------------
(* The programs' code                                                      *)

\* The process makes the pipe of end a itself; pipe i is made by its call i.
Makes(s, a) == a \div 2 \in 1..Len(s) /\ s[a \div 2].op = "pipe"

\* Call i of n of process p refers to what there is, and is not the last.
WellPlaced(c, i, n, p) ==
    /\ c.op \in {"pipe", "close", "dup2", "fork", "exec", "wait", "write", "read", "prompt", "exit"}
    /\ c.op \notin {"prompt", "exit"} => i < n
    /\ c.op = "pipe" => c.a = i /\ i \in Pipes
    /\ c.op = "close" => c.a \in 2..5
    /\ c.op = "dup2" => c.a \in 2..5 /\ c.b \in 0..1
    /\ c.op = "fork" => c.a \in p + 1 .. 4 /\ c.b \in 0..1
    /\ c.op = "exec" => c.a \in 1..3
    /\ c.op \in {"write", "read"} => c.a \in Fds

\* It forks before it redirects, redirects a descriptor once, after it has made the
\* pipe and before it closes the end.
Redirects(s) ==
    \A j \in 1..Len(s) : s[j].op = "dup2" =>
        /\ Makes(s, s[j].a) => s[j].a \div 2 < j
        /\ \A k \in 1..Len(s) :
            /\ s[k].op = "fork" => k < j
            /\ s[k].op = "dup2" /\ s[k].b = s[j].b => j = k
            /\ s[k].op = "close" /\ s[k].a = s[j].a => j < k

Well(s, p) ==
    /\ Len(s) \in Nat \ {0}
    /\ \A i \in 1..Len(s) : WellPlaced(s[i], i, Len(s), p)
    /\ Redirects(s)

\* What a call is, read off the constructor it was written with.
LEMMA Calls ==
  /\ \A a : /\ pipe(a).op = "pipe" /\ pipe(a).a = a
            /\ close(a).op = "close" /\ close(a).a = a
            /\ forkOrExit(a).op = "fork" /\ forkOrExit(a).a = a /\ forkOrExit(a).b = 1
            /\ fork(a).op = "fork" /\ fork(a).a = a /\ fork(a).b = 0
            /\ exec(a).op = "exec" /\ exec(a).a = a
            /\ write(a).op = "write" /\ write(a).a = a
            /\ read(a).op = "read" /\ read(a).a = a
  /\ \A a, b : dup2(a, b).op = "dup2" /\ dup2(a, b).a = a /\ dup2(a, b).b = b
  /\ wait.op = "wait" /\ prompt.op = "prompt" /\ exit.op = "exit"
  BY DEF pipe, close, dup2, forkOrExit, fork, exec, wait, write, read, prompt, exit, call

\* The text of a process the program does not have.
LEMMA WellNone == ASSUME NEW p \in Procs PROVE Well(None, p)
  BY Calls DEF None, Well, WellPlaced, Redirects, Makes, Pipes, Fds, Procs

\* The texts of the process that is started first.
LEMMA WellFirst ==
  /\ Well(DraftShell, 1) /\ Well(ExecPipe, 1) /\ Well(PipeExample, 1) /\ Well(PipeC, 1)
  /\ Well(fork_pipes, 1) /\ Well(ExamplePipe, 1) /\ Well(launch_job, 1)
  <1> USE Calls DEF Well, WellPlaced, Redirects, Makes, Pipes, Fds
  <1>1. Well(DraftShell, 1)
    BY DEF DraftShell
  <1>2. Well(ExecPipe, 1)
    BY DEF ExecPipe
  <1>3. Well(PipeExample, 1)
    BY DEF PipeExample
  <1>4. Well(PipeC, 1)
    BY DEF PipeC
  <1>5. Well(fork_pipes, 1)
    BY DEF fork_pipes
  <1>6. Well(ExamplePipe, 1)
    BY DEF ExamplePipe
  <1>7. Well(launch_job, 1)
    BY DEF launch_job
  <1>8. QED
    BY <1>1, <1>2, <1>3, <1>4, <1>5, <1>6, <1>7

\* twopipes.c call by call, where the texts are put together from two.
LEMMA TwoPipesCode ==
  /\ Len(TwoPipes) = 13
  /\ TwoPipes[1] = pipe(1) /\ TwoPipes[2] = pipe(2)
  /\ TwoPipes[3] = fork(2) /\ TwoPipes[4] = fork(3) /\ TwoPipes[5] = fork(4)
  /\ TwoPipes[6] = close(2) /\ TwoPipes[7] = close(3)
  /\ TwoPipes[8] = close(4) /\ TwoPipes[9] = close(5)
  /\ TwoPipes[10] = wait /\ TwoPipes[11] = wait /\ TwoPipes[12] = wait
  /\ TwoPipes[13] = exit
  BY DEF TwoPipes, CloseAll

LEMMA CatCode ==
  /\ Len(TwoPipesCat) = 7
  /\ TwoPipesCat[1] = dup2(3, 1)
  /\ TwoPipesCat[2] = close(2) /\ TwoPipesCat[3] = close(3)
  /\ TwoPipesCat[4] = close(4) /\ TwoPipesCat[5] = close(5)
  /\ TwoPipesCat[6] = exec(1) /\ TwoPipesCat[7] = exit
  BY DEF TwoPipesCat, CloseAll

LEMMA GrepCode ==
  /\ Len(TwoPipesGrep) = 8
  /\ TwoPipesGrep[1] = dup2(2, 0) /\ TwoPipesGrep[2] = dup2(5, 1)
  /\ TwoPipesGrep[3] = close(2) /\ TwoPipesGrep[4] = close(3)
  /\ TwoPipesGrep[5] = close(4) /\ TwoPipesGrep[6] = close(5)
  /\ TwoPipesGrep[7] = exec(2) /\ TwoPipesGrep[8] = exit
  BY DEF TwoPipesGrep, CloseAll

LEMMA CutCode ==
  /\ Len(TwoPipesCut) = 7
  /\ TwoPipesCut[1] = dup2(4, 0)
  /\ TwoPipesCut[2] = close(2) /\ TwoPipesCut[3] = close(3)
  /\ TwoPipesCut[4] = close(4) /\ TwoPipesCut[5] = close(5)
  /\ TwoPipesCut[6] = exec(3) /\ TwoPipesCut[7] = exit
  BY DEF TwoPipesCut, CloseAll

\* The places of these texts, one by one.
LEMMA Upto ==
  /\ \A i \in 1..7 : i \in {1, 2, 3, 4, 5, 6, 7}
  /\ \A i \in 1..8 : i \in {1, 2, 3, 4, 5, 6, 7, 8}
  /\ \A i \in 1..13 : i \in {1, 2, 3, 4, 5, 6, 7, 8, 9, 10, 11, 12, 13}
  OBVIOUS

\* The texts of twopipes.c.
LEMMA WellTwo ==
  /\ Well(TwoPipes, 1) /\ Well(TwoPipesCat, 2) /\ Well(TwoPipesGrep, 3)
  /\ Well(TwoPipesCut, 4)
  <1> USE Calls, Upto DEF Well, WellPlaced, Redirects, Makes, Pipes, Fds
  <1>1. Well(TwoPipes, 1)
    BY TwoPipesCode
  <1>2. Well(TwoPipesCat, 2)
    BY CatCode
  <1>3. Well(TwoPipesGrep, 3)
    BY GrepCode
  <1>4. Well(TwoPipesCut, 4)
    BY CutCode
  <1>5. QED
    BY <1>1, <1>2, <1>3, <1>4

\* The texts of the other children.
LEMMA WellOthers ==
  /\ Well(DraftChild, 2) /\ Well(docommand, 2) /\ Well(docommandChild, 3)
  /\ Well(PipeChild, 2) /\ Well(spawn_proc, 2) /\ Well(ExamplePipeChild, 2)
  /\ Well(launch_process1, 2) /\ Well(launch_process2, 3)
  <1> USE Calls DEF Well, WellPlaced, Redirects, Makes, Pipes, Fds
  <1>1. Well(DraftChild, 2)
    BY DEF DraftChild
  <1>2. Well(docommand, 2)
    BY DEF docommand
  <1>3. Well(docommandChild, 3)
    BY DEF docommandChild
  <1>4. Well(PipeChild, 2)
    BY DEF PipeChild
  <1>5. Well(spawn_proc, 2)
    BY DEF spawn_proc
  <1>6. Well(ExamplePipeChild, 2)
    BY DEF ExamplePipeChild
  <1>7. Well(launch_process1, 2)
    BY DEF launch_process1
  <1>8. Well(launch_process2, 3)
    BY DEF launch_process2
  <1>9. QED
    BY <1>1, <1>2, <1>3, <1>4, <1>5, <1>6, <1>7, <1>8

\* Which process runs which text.
LEMMA CodeOf ==
  /\ Code("draft") = <<DraftShell, DraftChild, None, None>>
  /\ Code("docommand") = <<ExecPipe, docommand, docommandChild, None>>
  /\ Code("pipe_example") = <<PipeExample, docommand, docommandChild, None>>
  /\ Code("pipe") = <<PipeC, PipeChild, None, None>>
  /\ Code("twopipes") = <<TwoPipes, TwoPipesCat, TwoPipesGrep, TwoPipesCut>>
  /\ Code("pipes") = <<fork_pipes, spawn_proc, None, None>>
  /\ Code("examplePipe") = <<ExamplePipe, ExamplePipeChild, None, None>>
  /\ Code("launch_job") = <<launch_job, launch_process1, launch_process2, None>>
  BY DEF Code, DraftDocommand, DraftDocommandChild

\* The code of every process of every program is well placed.
LEMMA WellCode ==
  ASSUME NEW g \in AllPrograms, NEW p \in Procs
  PROVE  Well(Code(g)[p], p)
  BY WellNone, WellFirst, WellTwo, WellOthers, CodeOf DEF AllPrograms, Procs

-----------------------------------------------------------------------------
(* Descriptors                                                             *)

\* When call j is reached, end a has been made and not yet closed.
Open(s, j, a) ==
    /\ Makes(s, a)
    /\ a \div 2 < j
    /\ \A k \in 1..Len(s) : s[k].op = "close" /\ s[k].a = a => j < k

\* What a child redirects, it makes a pipe for, or its parent has it open when call
\* j starts the child.
HandsOver(s, j, child) ==
    \A i \in 1..Len(child) :
        child[i].op = "dup2" => Makes(child, child[i].a) \/ Open(s, j, child[i].a)

Never(op, s) == \A i \in 1..Len(s) : s[i].op # op

\* The texts that start nobody.
LEMMA NeverForks ==
  /\ Never("fork", None) /\ Never("fork", DraftChild) /\ Never("fork", docommandChild)
  /\ Never("fork", PipeChild) /\ Never("fork", TwoPipesCat) /\ Never("fork", TwoPipesGrep)
  /\ Never("fork", TwoPipesCut) /\ Never("fork", spawn_proc) /\ Never("fork", ExamplePipeChild)
  /\ Never("fork", launch_process1) /\ Never("fork", launch_process2)
  <1> USE Calls, Upto DEF Never
  <1>1. Never("fork", TwoPipesCat)
    BY CatCode
  <1>2. Never("fork", TwoPipesGrep)
    BY GrepCode
  <1>3. Never("fork", TwoPipesCut)
    BY CutCode
  <1>4. Never("fork", None)
    BY DEF None
  <1>5. Never("fork", DraftChild)
    BY DEF DraftChild
  <1>6. Never("fork", docommandChild)
    BY DEF docommandChild
  <1>7. Never("fork", PipeChild)
    BY DEF PipeChild
  <1>8. Never("fork", spawn_proc)
    BY DEF spawn_proc
  <1>9. Never("fork", ExamplePipeChild)
    BY DEF ExamplePipeChild
  <1>10. Never("fork", launch_process1)
    BY DEF launch_process1
  <1>11. Never("fork", launch_process2)
    BY DEF launch_process2
  <1>12. QED
    BY <1>1, <1>2, <1>3, <1>4, <1>5, <1>6, <1>7, <1>8, <1>9, <1>10, <1>11

Only(op, s, A) == \A i \in 1..Len(s) : s[i].op = op => s[i].a \in A

\* The ends each child redirects.
LEMMA Dups ==
  /\ Only("dup2", DraftChild, {2}) /\ Only("dup2", docommand, {2}) /\ Makes(docommand, 2)
  /\ Only("dup2", docommandChild, {3}) /\ Only("dup2", PipeChild, {2})
  /\ Only("dup2", TwoPipesCat, {3}) /\ Only("dup2", TwoPipesGrep, {2, 5})
  /\ Only("dup2", TwoPipesCut, {4}) /\ Only("dup2", spawn_proc, {2, 3})
  /\ Only("dup2", ExamplePipeChild, {})
  /\ Only("dup2", launch_process1, {3}) /\ Only("dup2", launch_process2, {2})
  <1> USE Calls, Upto DEF Only
  <1>1. Only("dup2", TwoPipesCat, {3})
    BY CatCode
  <1>2. Only("dup2", TwoPipesGrep, {2, 5})
    BY GrepCode
  <1>3. Only("dup2", TwoPipesCut, {4})
    BY CutCode
  <1>4. Only("dup2", DraftChild, {2})
    BY DEF DraftChild
  <1>5. Only("dup2", docommand, {2}) /\ Makes(docommand, 2)
    BY DEF docommand, Makes
  <1>6. Only("dup2", docommandChild, {3})
    BY DEF docommandChild
  <1>7. Only("dup2", PipeChild, {2})
    BY DEF PipeChild
  <1>8. Only("dup2", spawn_proc, {2, 3})
    BY DEF spawn_proc
  <1>9. Only("dup2", ExamplePipeChild, {})
    BY DEF ExamplePipeChild
  <1>10. Only("dup2", launch_process1, {3})
    BY DEF launch_process1
  <1>11. Only("dup2", launch_process2, {2})
    BY DEF launch_process2
  <1>12. QED
    BY <1>1, <1>2, <1>3, <1>4, <1>5, <1>6, <1>7, <1>8, <1>9, <1>10, <1>11

\* The ends each parent has open when it forks.
LEMMA Opens ==
  /\ Open(DraftShell, 2, 2)
  /\ Open(docommand, 2, 3)
  /\ Open(PipeC, 2, 2)
  /\ Open(TwoPipes, 3, 3)
  /\ Open(TwoPipes, 4, 2) /\ Open(TwoPipes, 4, 5)
  /\ Open(TwoPipes, 5, 4)
  /\ Open(fork_pipes, 2, 2) /\ Open(fork_pipes, 2, 3)
  /\ Open(launch_job, 2, 3)
  /\ Open(launch_job, 4, 2)
  <1> USE Calls, Upto DEF Open, Makes
  <1>1. Open(DraftShell, 2, 2)
    BY DEF DraftShell
  <1>2. Open(docommand, 2, 3)
    BY DEF docommand
  <1>3. Open(PipeC, 2, 2)
    BY DEF PipeC
  <1>4. Open(TwoPipes, 3, 3)
    BY TwoPipesCode
  <1>5. Open(TwoPipes, 4, 2)
    BY TwoPipesCode
  <1>6. Open(TwoPipes, 4, 5)
    BY TwoPipesCode
  <1>7. Open(TwoPipes, 5, 4)
    BY TwoPipesCode
  <1>8. Open(fork_pipes, 2, 2) /\ Open(fork_pipes, 2, 3)
    BY DEF fork_pipes
  <1>9. Open(launch_job, 2, 3)
    BY DEF launch_job
  <1>10. Open(launch_job, 4, 2)
    BY DEF launch_job
  <1>11. QED
    BY <1>1, <1>2, <1>3, <1>4, <1>5, <1>6, <1>7, <1>8, <1>9, <1>10

\* Call i of s starts process c, and no other call starts one.
OneFork(s, i, c) == \A j \in 1..Len(s) : s[j].op = "fork" => j = i /\ s[j].a = c

\* Who starts whom, and where.
LEMMA Forks ==
  /\ OneFork(DraftShell, 2, 2)
  /\ OneFork(ExecPipe, 1, 2)
  /\ OneFork(PipeExample, 1, 2)
  /\ OneFork(docommand, 2, 3)
  /\ OneFork(PipeC, 2, 2)
  /\ (\A j \in 1..Len(TwoPipes) : TwoPipes[j].op = "fork" =>
            \/ j = 3 /\ TwoPipes[j].a = 2
            \/ j = 4 /\ TwoPipes[j].a = 3
            \/ j = 5 /\ TwoPipes[j].a = 4)
  /\ OneFork(fork_pipes, 2, 2)
  /\ OneFork(ExamplePipe, 2, 2)
  /\ (\A j \in 1..Len(launch_job) : launch_job[j].op = "fork" =>
            \/ j = 2 /\ launch_job[j].a = 2
            \/ j = 4 /\ launch_job[j].a = 3)
  <1> USE Calls, Upto DEF OneFork
  <1>1. OneFork(DraftShell, 2, 2)
    BY DEF DraftShell
  <1>2. OneFork(ExecPipe, 1, 2)
    BY DEF ExecPipe
  <1>3. OneFork(PipeExample, 1, 2)
    BY DEF PipeExample
  <1>4. OneFork(docommand, 2, 3)
    BY DEF docommand
  <1>5. OneFork(PipeC, 2, 2)
    BY DEF PipeC
  <1>6. (\A j \in 1..Len(TwoPipes) : TwoPipes[j].op = "fork" =>
            \/ j = 3 /\ TwoPipes[j].a = 2
            \/ j = 4 /\ TwoPipes[j].a = 3
            \/ j = 5 /\ TwoPipes[j].a = 4)
    BY TwoPipesCode
  <1>7. OneFork(fork_pipes, 2, 2)
    BY DEF fork_pipes
  <1>8. OneFork(ExamplePipe, 2, 2)
    BY DEF ExamplePipe
  <1>9. (\A j \in 1..Len(launch_job) : launch_job[j].op = "fork" =>
            \/ j = 2 /\ launch_job[j].a = 2
            \/ j = 4 /\ launch_job[j].a = 3)
    BY DEF launch_job
  <1>10. QED
    BY <1>1, <1>2, <1>3, <1>4, <1>5, <1>6, <1>7, <1>8, <1>9

\* So each child finds the ends it redirects.
LEMMA Handing ==
  /\ HandsOver(DraftShell, 2, DraftChild)
  /\ HandsOver(ExecPipe, 1, docommand) /\ HandsOver(PipeExample, 1, docommand)
  /\ HandsOver(docommand, 2, docommandChild)
  /\ HandsOver(PipeC, 2, PipeChild)
  /\ HandsOver(TwoPipes, 3, TwoPipesCat)
  /\ HandsOver(TwoPipes, 4, TwoPipesGrep)
  /\ HandsOver(TwoPipes, 5, TwoPipesCut)
  /\ HandsOver(fork_pipes, 2, spawn_proc)
  /\ HandsOver(ExamplePipe, 2, ExamplePipeChild)
  /\ HandsOver(launch_job, 2, launch_process1)
  /\ HandsOver(launch_job, 4, launch_process2)
  <1>1. \A s, child, j, a : Only("dup2", child, {a}) /\ (Makes(child, a) \/ Open(s, j, a))
                                => HandsOver(s, j, child)
    BY DEF HandsOver, Only
  <1>2. \A s, child, j, a, b : Only("dup2", child, {a, b}) /\ Open(s, j, a) /\ Open(s, j, b)
                                => HandsOver(s, j, child)
    BY DEF HandsOver, Only
  <1>3. \A s, child, j : Only("dup2", child, {}) => HandsOver(s, j, child)
    BY DEF HandsOver, Only
  <1>4. /\ HandsOver(TwoPipes, 4, TwoPipesGrep)
        /\ HandsOver(fork_pipes, 2, spawn_proc)
    BY <1>2, Dups, Opens
  <1>5. HandsOver(ExamplePipe, 2, ExamplePipeChild)
    BY <1>3, Dups
  <1>6. QED
    BY <1>1, <1>4, <1>5, Dups, Opens

\* Whichever process forks, the child finds the ends it redirects.
LEMMA HandedOver ==
  ASSUME NEW g \in AllPrograms, NEW p \in Procs, NEW j \in 1..Len(Code(g)[p]),
         Code(g)[p][j].op = "fork"
  PROVE  HandsOver(Code(g)[p], j, Code(g)[Code(g)[p][j].a])
  <1>1. \A s : Never("fork", s) => \A i \in 1..Len(s) : s[i].op # "fork"
    BY DEF Never
  <1> USE DEF OneFork
  <1>2. CASE g = "draft"
    BY <1>1, <1>2, Forks, NeverForks, Handing, CodeOf DEF Procs
  <1>3. CASE g = "docommand"
    BY <1>1, <1>3, Forks, NeverForks, Handing, CodeOf DEF Procs
  <1>4. CASE g = "pipe_example"
    BY <1>1, <1>4, Forks, NeverForks, Handing, CodeOf DEF Procs
  <1>5. CASE g = "pipe"
    BY <1>1, <1>5, Forks, NeverForks, Handing, CodeOf DEF Procs
  <1>6. CASE g = "twopipes"
    BY <1>1, <1>6, Forks, NeverForks, Handing, CodeOf DEF Procs
  <1>7. CASE g = "pipes"
    BY <1>1, <1>7, Forks, NeverForks, Handing, CodeOf DEF Procs
  <1>8. CASE g = "examplePipe"
    BY <1>1, <1>8, Forks, NeverForks, Handing, CodeOf DEF Procs
  <1>9. CASE g = "launch_job"
    BY <1>1, <1>9, Forks, NeverForks, Handing, CodeOf DEF Procs
  <1>10. QED
    BY <1>2, <1>3, <1>4, <1>5, <1>6, <1>7, <1>8, <1>9 DEF AllPrograms

\* What the program itself redirects, it makes a pipe for.
LEMMA MainMakes ==
  ASSUME NEW g \in AllPrograms, NEW j \in 1..Len(Code(g)[1]), Code(g)[1][j].op = "dup2"
  PROVE  Makes(Code(g)[1], Code(g)[1][j].a)
  <1>1. /\ Never("dup2", TwoPipes)
        /\ Never("dup2", ExecPipe) /\ Never("dup2", PipeExample)
        /\ Never("dup2", ExamplePipe) /\ Never("dup2", launch_job)
    <2> USE Calls, Upto DEF Never
    <2>1. Never("dup2", TwoPipes)
      BY TwoPipesCode
    <2>2. Never("dup2", ExecPipe) /\ Never("dup2", PipeExample)
      BY DEF ExecPipe, PipeExample
    <2>3. Never("dup2", ExamplePipe)
      BY DEF ExamplePipe
    <2>4. Never("dup2", launch_job)
      BY DEF launch_job
    <2>5. QED
      BY <2>1, <2>2, <2>3, <2>4
  <1>2. \A i \in 1..Len(DraftShell) :
            DraftShell[i].op = "dup2" => Makes(DraftShell, DraftShell[i].a)
    BY Calls DEF DraftShell, Makes
  <1>3. \A i \in 1..Len(PipeC) : PipeC[i].op = "dup2" => Makes(PipeC, PipeC[i].a)
    BY Calls DEF PipeC, Makes
  <1>4. \A i \in 1..Len(fork_pipes) :
            fork_pipes[i].op = "dup2" => Makes(fork_pipes, fork_pipes[i].a)
    BY Calls DEF fork_pipes, Makes
  <1>5. QED
    BY <1>1, <1>2, <1>3, <1>4, CodeOf DEF AllPrograms, Never

\* By call j, descriptor f is redirected to end e, or is the terminal still.
Redirected(s, j, f, e) == \E i \in 1 .. j - 1 : s[i].op = "dup2" /\ s[i].b = f /\ s[i].a = e
Kept(s, j, f) == \A i \in 1 .. j - 1 : s[i].op = "dup2" => s[i].b # f

\* At call j, standard input and output are what command k of n needs.
ReadyFor(s, j, k, n) ==
    /\ IF k = 1 THEN Kept(s, j, 0) ELSE Redirected(s, j, 0, ReadEnd(k - 1))
    /\ IF k = n THEN Kept(s, j, 1) ELSE Redirected(s, j, 1, WriteEnd(k))

Plumbs(s, n) == \A j \in 1..Len(s) : s[j].op = "exec" => ReadyFor(s, j, s[j].a, n)

\* Every text but spawn_proc has redirected, before it executes a command, what the
\* command needs.
LEMMA Plumbing ==
  /\ Plumbs(DraftShell, 2) /\ Plumbs(DraftChild, 2)
  /\ Plumbs(docommand, 2) /\ Plumbs(docommandChild, 2)
  /\ Plumbs(PipeC, 2) /\ Plumbs(PipeChild, 2)
  /\ Plumbs(TwoPipesCat, 3) /\ Plumbs(TwoPipesGrep, 3) /\ Plumbs(TwoPipesCut, 3)
  /\ Plumbs(fork_pipes, 2)
  /\ Plumbs(launch_process1, 2) /\ Plumbs(launch_process2, 2)
  <1> USE Calls, Upto DEF Plumbs, ReadyFor, Redirected, Kept, ReadEnd, WriteEnd
  <1>1. Plumbs(DraftShell, 2)
    BY DEF DraftShell
  <1>2. Plumbs(DraftChild, 2)
    BY DEF DraftChild
  <1>3. Plumbs(docommand, 2)
    BY DEF docommand
  <1>4. Plumbs(docommandChild, 2)
    BY DEF docommandChild
  <1>5. Plumbs(PipeC, 2)
    BY DEF PipeC
  <1>6. Plumbs(PipeChild, 2)
    BY DEF PipeChild
  <1>7. Plumbs(TwoPipesCat, 3)
    BY CatCode
  <1>8. Plumbs(TwoPipesGrep, 3)
    BY GrepCode
  <1>9. Plumbs(TwoPipesCut, 3)
    BY CutCode
  <1>10. Plumbs(fork_pipes, 2)
    BY DEF fork_pipes
  <1>11. Plumbs(launch_process1, 2)
    BY DEF launch_process1
  <1>12. Plumbs(launch_process2, 2)
    BY DEF launch_process2
  <1>13. QED
    BY <1>1, <1>2, <1>3, <1>4, <1>5, <1>6, <1>7, <1>8, <1>9, <1>10, <1>11, <1>12

\* The child of pipes.c is plumbed for the first command.
LEMMA SpawnProc ==
  \A j \in 1..Len(spawn_proc) :
      spawn_proc[j].op = "exec" =>
          spawn_proc[j].a = 2 \/ ReadyFor(spawn_proc, j, spawn_proc[j].a, 2)
  BY Calls DEF spawn_proc, ReadyFor, Redirected, Kept, ReadEnd, WriteEnd

\* The texts that execute nothing.
LEMMA NeverExecs ==
  /\ Never("exec", None) /\ Never("exec", ExecPipe) /\ Never("exec", PipeExample)
  /\ Never("exec", TwoPipes) /\ Never("exec", ExamplePipe) /\ Never("exec", ExamplePipeChild)
  /\ Never("exec", launch_job)
  <1> USE Calls, Upto DEF Never
  <1>1. Never("exec", None)
    BY DEF None
  <1>2. Never("exec", ExecPipe) /\ Never("exec", PipeExample)
    BY DEF ExecPipe, PipeExample
  <1>3. Never("exec", TwoPipes)
    BY TwoPipesCode
  <1>4. Never("exec", ExamplePipe)
    BY DEF ExamplePipe
  <1>5. Never("exec", ExamplePipeChild)
    BY DEF ExamplePipeChild
  <1>6. Never("exec", launch_job)
    BY DEF launch_job
  <1>7. QED
    BY <1>1, <1>2, <1>3, <1>4, <1>5, <1>6

\* Whoever executes a command is plumbed for it, the child of fork_pipes that goes on
\* after a failed execvp excepted.
LEMMA ReadyToExecute ==
  ASSUME NEW g \in AllPrograms, NEW p \in Procs, NEW j \in 1..Len(Code(g)[p]),
         Code(g)[p][j].op = "exec", ~(g = "pipes" /\ p = 2 /\ Code(g)[p][j].a = 2)
  PROVE  ReadyFor(Code(g)[p], j, Code(g)[p][j].a, Commands(g))
  <1> USE DEF Never, Plumbs, Procs
  <1>1. CASE g = "draft"
    BY <1>1, Plumbing, NeverExecs, CodeOf DEF Commands
  <1>2. CASE g = "docommand"
    BY <1>2, Plumbing, NeverExecs, CodeOf DEF Commands
  <1>3. CASE g = "pipe_example"
    BY <1>3, Plumbing, NeverExecs, CodeOf DEF Commands
  <1>4. CASE g = "pipe"
    BY <1>4, Plumbing, NeverExecs, CodeOf DEF Commands
  <1>5. CASE g = "twopipes"
    BY <1>5, Plumbing, NeverExecs, CodeOf DEF Commands
  <1>6. CASE g = "pipes"
    BY <1>6, Plumbing, SpawnProc, NeverExecs, CodeOf DEF Commands
  <1>7. CASE g = "examplePipe"
    BY <1>7, NeverExecs, CodeOf DEF Commands
  <1>8. CASE g = "launch_job"
    BY <1>8, Plumbing, NeverExecs, CodeOf DEF Commands
  <1>9. QED
    BY <1>1, <1>2, <1>3, <1>4, <1>5, <1>6, <1>7, <1>8 DEF AllPrograms

-----------------------------------------------------------------------------
(* What descriptors a process has                                          *)

\* Table d of a process of program g that has come to call k of s: a descriptor of
\* the pipe arrays is its own end or closed; standard input and output are what
\* the calls before k have made them; the ends that are redirected later are open
\* or still to come, for the process and for the children it starts.
Sound(d) == d \in [Fds -> 0..5] /\ \A f \in 2..5 : d[f] \in {Closed, f}

HasEnd(s, k, d, a) == d[a] = a \/ (Makes(s, a) /\ k <= a \div 2)

Fits(g, s, k, d) ==
    /\ Sound(d)
    /\ \A f \in 0..1 :
        /\ \A i \in 1 .. k - 1 : s[i].op = "dup2" /\ s[i].b = f => d[f] = s[i].a
        /\ Kept(s, k, f) => d[f] = Terminal
    /\ \A j \in k..Len(s) : s[j].op = "dup2" => HasEnd(s, k, d, s[j].a)
    /\ \A j \in k..Len(s) : s[j].op = "fork" =>
        LET child == Code(g)[s[j].a] IN
        \A i \in 1..Len(child) : child[i].op = "dup2" =>
            Makes(child, child[i].a) \/ HasEnd(s, k, d, child[i].a)

\* A process that has its ends at its first call fits.
LEMMA FitsAtFirst ==
  ASSUME NEW g \in AllPrograms, NEW p \in Procs, NEW d,
         Sound(d), d[0] = Terminal, d[1] = Terminal,
         \A j \in 1..Len(Code(g)[p]) :
             Code(g)[p][j].op = "dup2" => HasEnd(Code(g)[p], 1, d, Code(g)[p][j].a)
  PROVE  Fits(g, Code(g)[p], 1, d)
  <1> DEFINE s == Code(g)[p]
  <1>1. \A j, a : Open(s, j, a) => HasEnd(s, 1, d, a)
    BY DEF Open, HasEnd, Makes
  <1>2. ASSUME NEW j \in 1..Len(s), s[j].op = "fork"
        PROVE  LET child == Code(g)[s[j].a] IN
               \A i \in 1..Len(child) : child[i].op = "dup2" =>
                   Makes(child, child[i].a) \/ HasEnd(s, 1, d, child[i].a)
    <2>1. HandsOver(s, j, Code(g)[s[j].a])
      BY <1>2, HandedOver
    <2>2. QED
      BY <1>1, <2>1 DEF HandsOver
  <1> HIDE DEF s
  <1>3. Fits(g, s, 1, d)
    BY <1>2 DEF Fits, s
  <1>4. QED
    BY <1>3 DEF s

\* The program is started with the terminal, and fits.
LEMMA FitsMain ==
  ASSUME NEW g \in AllPrograms
  PROVE  Fits(g, Code(g)[1], 1, [NoFds EXCEPT ![0] = Terminal, ![1] = Terminal])
  <1> DEFINE d == [NoFds EXCEPT ![0] = Terminal, ![1] = Terminal]
  <1>1. Sound(d) /\ d[0] = Terminal /\ d[1] = Terminal
    BY DEF Sound, NoFds, Fds, Terminal, Closed
  <1> HIDE DEF d
  <1>2. ASSUME NEW j \in 1..Len(Code(g)[1]), Code(g)[1][j].op = "dup2"
        PROVE  HasEnd(Code(g)[1], 1, d, Code(g)[1][j].a)
    BY <1>2, MainMakes DEF HasEnd, Makes
  <1>3. 1 \in Procs
    BY DEF Procs
  <1>4. Fits(g, Code(g)[1], 1, d)
    BY <1>1, <1>2, <1>3, FitsAtFirst
  <1>5. QED
    BY <1>4 DEF d

\* The calls of a process: what each is, and how a table of it changes.
LEMMA PlacedAt ==
  ASSUME NEW g \in AllPrograms, NEW p \in Procs, NEW k \in 1..Len(Code(g)[p])
  PROVE  /\ WellPlaced(Code(g)[p][k], k, Len(Code(g)[p]), p)
         /\ Redirects(Code(g)[p])
         /\ Len(Code(g)[p]) \in Nat \ {0}
  BY WellCode DEF Well

\* A call that closes nothing but its own argument and redirects nothing but its own
\* target brings the process to its next call.
LEMMA FitsNext ==
  ASSUME NEW g \in AllPrograms, NEW p \in Procs, NEW k \in 1..Len(Code(g)[p]), NEW d, NEW e,
         Fits(g, Code(g)[p], k, d), Sound(e),
         \A a \in 2..5 : /\ ~(Code(g)[p][k].op = "close" /\ Code(g)[p][k].a = a)
                         /\ HasEnd(Code(g)[p], k, d, a)
                         => HasEnd(Code(g)[p], k + 1, e, a),
         \A f \in 0..1 : e[f] = IF Code(g)[p][k].op = "dup2" /\ Code(g)[p][k].b = f
                                THEN Code(g)[p][k].a ELSE d[f]
  PROVE  Fits(g, Code(g)[p], k + 1, e)
  <1> DEFINE s == Code(g)[p]
  <1>1. /\ Len(s) \in Nat /\ k \in Nat
        /\ \A j \in (k + 1)..Len(s) : j \in k..Len(s) /\ j \in 1..Len(s) /\ k < j
    BY PlacedAt
  <1>2. ASSUME NEW j \in (k + 1)..Len(s), s[j].op = "dup2"
        PROVE  HasEnd(s, k + 1, e, s[j].a)
    <2>1. j \in 1..Len(s) /\ HasEnd(s, k, d, s[j].a)
      BY <1>1, <1>2 DEF Fits
    <2>2. s[j].a \in 2..5
      BY <2>1, <1>2, PlacedAt DEF WellPlaced
    <2>3. ~(s[k].op = "close" /\ s[k].a = s[j].a)
      BY <1>1, <1>2, <2>1, PlacedAt DEF Redirects
    <2>4. QED
      BY <2>1, <2>2, <2>3
  <1>3. ASSUME NEW j \in (k + 1)..Len(s), s[j].op = "fork",
               NEW i \in 1..Len(Code(g)[s[j].a]), Code(g)[s[j].a][i].op = "dup2"
        PROVE  \/ Makes(Code(g)[s[j].a], Code(g)[s[j].a][i].a)
               \/ HasEnd(s, k + 1, e, Code(g)[s[j].a][i].a)
    <2> DEFINE child == Code(g)[s[j].a]
               a == Code(g)[s[j].a][i].a
    <2>1. j \in k..Len(s) /\ j \in 1..Len(s) /\ k < j
      BY <1>1
    <2>2. s[j].a \in Procs
      BY <2>1, <1>3, PlacedAt DEF WellPlaced, Procs
    <2>3. a \in 2..5
      BY <2>2, <1>3, PlacedAt DEF WellPlaced
    <2>4. Makes(child, a) \/ HasEnd(s, k, d, a)
      BY <2>1, <1>3 DEF Fits
    <2>5. Makes(child, a) \/ Open(s, j, a)
      <3>1. HandsOver(s, j, child)
        BY <2>1, <1>3, HandedOver
      <3>2. QED
        BY <3>1, <1>3 DEF HandsOver
    <2>6. Open(s, j, a) => ~(s[k].op = "close" /\ s[k].a = a)
      BY <1>1, <2>1 DEF Open
    <2>7. QED
      BY <2>3, <2>4, <2>5, <2>6
  <1>4. ASSUME NEW f \in 0..1, NEW i \in 1 .. (k + 1) - 1, s[i].op = "dup2", s[i].b = f
        PROVE  e[f] = s[i].a
    <2>1. CASE i = k
      BY <2>1, <1>4
    <2>2. CASE i # k
      <3>1. i \in 1 .. k - 1 /\ i \in 1..Len(s)
        BY <2>2, <1>1
      <3>2. ~(s[k].op = "dup2" /\ s[k].b = f)
        BY <2>2, <3>1, <1>4, PlacedAt DEF Redirects
      <3>3. d[f] = s[i].a
        BY <3>1, <1>4 DEF Fits
      <3>4. QED
        BY <3>2, <3>3
    <2>3. QED
      BY <2>1, <2>2
  <1>5. ASSUME NEW f \in 0..1, Kept(s, k + 1, f) PROVE e[f] = Terminal
    <2>1. \A i \in 1 .. (k + 1) - 1 : s[i].op = "dup2" => s[i].b # f
      BY <1>5 DEF Kept
    <2>2. k \in 1 .. (k + 1) - 1 /\ \A i \in 1 .. k - 1 : i \in 1 .. (k + 1) - 1
      BY <1>1
    <2>3. Kept(s, k, f) /\ ~(s[k].op = "dup2" /\ s[k].b = f)
      BY <2>1, <2>2 DEF Kept
    <2>4. QED
      BY <2>3 DEF Fits
  <1> HIDE DEF s
  <1>6. Fits(g, s, k + 1, e)
    BY <1>2, <1>3, <1>4, <1>5 DEF Fits
  <1>7. QED
    BY <1>6 DEF s

\* pipe(i) is call i; it opens both ends.
LEMMA FitsPipe ==
  ASSUME NEW g \in AllPrograms, NEW p \in Procs, NEW k \in 1..Len(Code(g)[p]), NEW d,
         Fits(g, Code(g)[p], k, d), Code(g)[p][k].op = "pipe"
  PROVE  Fits(g, Code(g)[p], k + 1, [d EXCEPT ![2 * k] = ReadEnd(k), ![2 * k + 1] = WriteEnd(k)])
  <1> DEFINE s == Code(g)[p]
             e == [d EXCEPT ![2 * k] = ReadEnd(k), ![2 * k + 1] = WriteEnd(k)]
  <1>1. k \in Pipes /\ s[k].op = "pipe" /\ Len(s) \in Nat
    BY PlacedAt DEF WellPlaced
  <1>2. d \in [Fds -> 0..5] /\ \A f \in 2..5 : d[f] \in {Closed, f}
    BY DEF Fits, Sound
  <1>3. /\ e[0] = d[0] /\ e[1] = d[1] /\ e[2 * k] = 2 * k /\ e[2 * k + 1] = 2 * k + 1
        /\ \A f \in Fds \ {2 * k, 2 * k + 1} : e[f] = d[f]
        /\ Sound(e)
    BY <1>1, <1>2 DEF Pipes, Fds, ReadEnd, WriteEnd, Sound
  <1> HIDE DEF e
  <1>4. \A a \in 2..5 : HasEnd(s, k, d, a) => HasEnd(s, k + 1, e, a)
    <2> SUFFICES ASSUME NEW a \in 2..5, HasEnd(s, k, d, a) PROVE HasEnd(s, k + 1, e, a)
      OBVIOUS
    <2>1. CASE a \div 2 = k
      <3>1. a \in {2 * k, 2 * k + 1}
        BY <2>1
      <3>2. QED
        BY <3>1, <1>3 DEF HasEnd
    <2>2. CASE a \div 2 # k
      <3>1. a \notin {2 * k, 2 * k + 1} /\ a \in Fds
        BY <2>2, <1>1 DEF Pipes, Fds
      <3>2. e[a] = d[a]
        BY <3>1, <1>3
      <3>3. QED
        BY <3>2, <2>2, <1>1 DEF HasEnd
    <2>3. QED
      BY <2>1, <2>2
  <1>5. \A f \in 0..1 : e[f] = d[f]
    BY <1>3
  <1>6. Fits(g, s, k + 1, e)
    BY <1>1, <1>3, <1>4, <1>5, FitsNext
  <1>7. QED
    BY <1>6 DEF e

\* close(f) closes an end that is not redirected later.
LEMMA FitsClose ==
  ASSUME NEW g \in AllPrograms, NEW p \in Procs, NEW k \in 1..Len(Code(g)[p]), NEW d,
         Fits(g, Code(g)[p], k, d), Code(g)[p][k].op = "close"
  PROVE  Fits(g, Code(g)[p], k + 1, [d EXCEPT ![Code(g)[p][k].a] = Closed])
  <1> DEFINE s == Code(g)[p]
             c == s[k].a
             e == [d EXCEPT ![c] = Closed]
  <1>1. c \in 2..5 /\ s[k].op = "close"
    BY PlacedAt DEF WellPlaced
  <1>2. d \in [Fds -> 0..5] /\ \A f \in 2..5 : d[f] \in {Closed, f}
    BY DEF Fits, Sound
  <1> HIDE DEF c
  <1>3. Sound(e) /\ \A f \in Fds \ {c} : e[f] = d[f]
    BY <1>1, <1>2 DEF Fds, Closed, Sound
  <1> HIDE DEF e
  <1>4. \A a \in 2..5 : a # c /\ HasEnd(s, k, d, a) => HasEnd(s, k + 1, e, a)
    <2> SUFFICES ASSUME NEW a \in 2..5, a # c, HasEnd(s, k, d, a) PROVE HasEnd(s, k + 1, e, a)
      OBVIOUS
    <2>1. e[a] = d[a]
      BY <1>3 DEF Fds
    <2>2. ~(Makes(s, a) /\ k = a \div 2)
      BY <1>1 DEF Makes
    <2>3. a \div 2 \in Nat
      OBVIOUS
    <2>4. QED
      BY <2>1, <2>2, <2>3 DEF HasEnd
  <1>5. \A f \in 0..1 : e[f] = d[f]
    BY <1>1, <1>3 DEF Fds
  <1>6. Fits(g, s, k + 1, e)
    BY <1>1, <1>3, <1>4, <1>5, FitsNext DEF c
  <1>7. QED
    BY <1>6 DEF e, c

\* dup2 finds its source open and redirects standard input or output to it.
LEMMA FitsDup2 ==
  ASSUME NEW g \in AllPrograms, NEW p \in Procs, NEW k \in 1..Len(Code(g)[p]), NEW d,
         Fits(g, Code(g)[p], k, d), Code(g)[p][k].op = "dup2"
  PROVE  /\ d[Code(g)[p][k].a] = Code(g)[p][k].a
         /\ Fits(g, Code(g)[p], k + 1, [d EXCEPT ![Code(g)[p][k].b] = Code(g)[p][k].a])
  <1> DEFINE s == Code(g)[p]
             c == s[k].a
             t == s[k].b
             e == [d EXCEPT ![t] = c]
  <1>1. c \in 2..5 /\ t \in 0..1 /\ s[k].op = "dup2" /\ Len(s) \in Nat
    BY PlacedAt DEF WellPlaced
  <1>2. d \in [Fds -> 0..5] /\ \A f \in 2..5 : d[f] \in {Closed, f}
    BY DEF Fits, Sound
  <1>3. HasEnd(s, k, d, c)
    <2>1. k \in k..Len(s)
      BY <1>1
    <2>2. QED
      BY <2>1 DEF Fits
  <1>4. Makes(s, c) => c \div 2 < k
    BY PlacedAt DEF Redirects
  <1>5. d[c] = c
    BY <1>1, <1>3, <1>4 DEF HasEnd
  <1> HIDE DEF c, t
  <1>6. Sound(e) /\ e[t] = c /\ \A f \in Fds \ {t} : e[f] = d[f]
    BY <1>1, <1>2 DEF Fds, Sound
  <1> HIDE DEF e
  <1>7. \A a \in 2..5 : HasEnd(s, k, d, a) => HasEnd(s, k + 1, e, a)
    <2> SUFFICES ASSUME NEW a \in 2..5, HasEnd(s, k, d, a) PROVE HasEnd(s, k + 1, e, a)
      OBVIOUS
    <2>1. e[a] = d[a]
      BY <1>1, <1>6 DEF Fds
    <2>2. ~(Makes(s, a) /\ k = a \div 2)
      BY <1>1 DEF Makes
    <2>3. a \div 2 \in Nat
      OBVIOUS
    <2>4. QED
      BY <2>1, <2>2, <2>3 DEF HasEnd
  <1>8. \A f \in 0..1 : e[f] = IF t = f THEN c ELSE d[f]
    BY <1>1, <1>6 DEF Fds
  <1>9. Fits(g, s, k + 1, e)
    BY <1>1, <1>6, <1>7, <1>8, FitsNext DEF c, t
  <1>10. QED
    BY <1>5, <1>9 DEF e, c, t

\* Every other call leaves the table as it is.
LEMMA FitsOther ==
  ASSUME NEW g \in AllPrograms, NEW p \in Procs, NEW k \in 1..Len(Code(g)[p]), NEW d,
         Fits(g, Code(g)[p], k, d), Code(g)[p][k].op \notin {"pipe", "close", "dup2"}
  PROVE  Fits(g, Code(g)[p], k + 1, d)
  <1> DEFINE s == Code(g)[p]
  <1>1. Sound(d)
    BY DEF Fits
  <1>2. \A a \in 2..5 : HasEnd(s, k, d, a) => HasEnd(s, k + 1, d, a)
    <2> SUFFICES ASSUME NEW a \in 2..5, HasEnd(s, k, d, a) PROVE HasEnd(s, k + 1, d, a)
      OBVIOUS
    <2>1. ~(Makes(s, a) /\ k = a \div 2)
      BY DEF Makes
    <2>2. a \div 2 \in Nat
      OBVIOUS
    <2>3. QED
      BY <2>1, <2>2 DEF HasEnd
  <1>3. QED
    BY <1>1, <1>2, FitsNext

\* A child starts with its parent's table, and fits.
LEMMA FitsFork ==
  ASSUME NEW g \in AllPrograms, NEW p \in Procs, NEW k \in 1..Len(Code(g)[p]), NEW d,
         Fits(g, Code(g)[p], k, d), Code(g)[p][k].op = "fork"
  PROVE  Fits(g, Code(g)[Code(g)[p][k].a], 1, d)
  <1> DEFINE s == Code(g)[p]
             c == s[k].a
             child == Code(g)[c]
  <1>1. c \in Procs /\ Len(s) \in Nat /\ s[k].op = "fork"
    BY PlacedAt DEF WellPlaced, Procs
  <1>2. Kept(s, k, 0) /\ Kept(s, k, 1)
    <2>1. \A i \in 1 .. k - 1 : i \in 1..Len(s) /\ i < k
      BY <1>1
    <2>2. \A i \in 1 .. k - 1 : s[i].op # "dup2"
      BY <2>1, PlacedAt DEF Redirects
    <2>3. QED
      BY <2>2 DEF Kept
  <1>3. Sound(d) /\ d[0] = Terminal /\ d[1] = Terminal
    BY <1>2 DEF Fits
  <1>4. \A q, x : Makes(q, x) => HasEnd(q, 1, d, x)
    BY DEF Makes, HasEnd
  <1>5. \A x : Open(s, k, x) /\ HasEnd(s, k, d, x) => d[x] = x
    BY <1>1 DEF Open, HasEnd, Makes
  <1>6. ASSUME NEW i \in 1..Len(child), child[i].op = "dup2"
        PROVE  HasEnd(child, 1, d, child[i].a)
    <2> DEFINE a == child[i].a
    <2>1. Makes(child, a) \/ HasEnd(s, k, d, a)
      <3>1. k \in k..Len(s)
        BY <1>1
      <3>2. QED
        BY <3>1, <1>6 DEF Fits
    <2>2. Makes(child, a) \/ Open(s, k, a)
      <3>1. HandsOver(s, k, child)
        BY HandedOver
      <3>2. QED
        BY <3>1, <1>6 DEF HandsOver
    <2> HIDE DEF a, child
    <2>3. QED
      BY <1>4, <1>5, <2>1, <2>2 DEF HasEnd, a
  <1> HIDE DEF c
  <1>7. Fits(g, child, 1, d)
    BY <1>1, <1>3, <1>6, FitsAtFirst
  <1>8. QED
    BY <1>7 DEF c

\* Whoever is about to execute command k has the descriptors for it.
LEMMA FitsExec ==
  ASSUME NEW g \in AllPrograms, NEW p \in Procs, NEW k \in 1..Len(Code(g)[p]), NEW d,
         Fits(g, Code(g)[p], k, d), Code(g)[p][k].op = "exec",
         ~(g = "pipes" /\ p = 2 /\ Code(g)[p][k].a = 2)
  PROVE  LET c == Code(g)[p][k].a IN
         /\ d[0] = IF c = 1 THEN Terminal ELSE ReadEnd(c - 1)
         /\ d[1] = IF c = Commands(g) THEN Terminal ELSE WriteEnd(c)
  <1> DEFINE s == Code(g)[p]
             c == s[k].a
  <1>1. ReadyFor(s, k, c, Commands(g))
    BY ReadyToExecute
  <1> HIDE DEF s, c
  <1>2. Fits(g, s, k, d)
    BY DEF s
  <1>3. \A f \in 0..1 : \A x : Redirected(s, k, f, x) => d[f] = x
    BY <1>2 DEF Fits, Redirected
  <1>4. \A f \in 0..1 : Kept(s, k, f) => d[f] = Terminal
    BY <1>2 DEF Fits
  <1>5. /\ d[0] = IF c = 1 THEN Terminal ELSE ReadEnd(c - 1)
        /\ d[1] = IF c = Commands(g) THEN Terminal ELSE WriteEnd(c)
    BY <1>1, <1>3, <1>4 DEF ReadyFor
  <1>6. QED
    BY <1>5 DEF c, s

-----------------------------------------------------------------------------
(* Steps                                                                   *)

Act(p) == Step(p) \/ Environment(p)

Recs == [st : {"none", "runs", "over", "reaped"}, pc : Nat, parent : 0..4, pos : 0..3,
         n : 0..Items, has : BOOLEAN]

\* Types; a process inside its code that runs a command has come to its exec call.
Records ==
    /\ prog \in Programs
    /\ proc \in [Procs -> Recs]
    /\ fds \in [Procs -> [Fds -> 0..5]]
    /\ buf \in [Pipes -> {0, 1}]
    /\ \A p \in Procs :
        /\ proc[p].pc \in 1..Len(Code(prog)[p])
        /\ proc[p].pos > 0 => Op(p).op = "exec" /\ Op(p).a = proc[p].pos

\* Whoever runs has the descriptors its code wants.
Tables == \A p \in Procs : proc[p].st = "runs" => Fits(prog, Code(prog)[p], proc[p].pc, fds[p])

\* The inductive invariant for Plumbed.
IInv == Records /\ Tables

\* A call after which p goes on with the next one and nothing else changes but pipes.
Passes(p) ==
    /\ proc[p].st = "runs" /\ proc[p].pos = 0
    /\ Op(p).op \in {"fork", "exec", "wait", "write", "read"}
    /\ Op(p).op = "wait" => Children(p) = {}
    /\ proc' = Next1(p)
    /\ UNCHANGED <<prog, fds>>

Reaps(p) ==
    /\ At(p, "wait")
    /\ \E q \in Children(p) : proc[q].st = "over" /\ proc' = [Next1(p) EXCEPT ![q].st = "reaped"]
    /\ UNCHANGED <<prog, fds>>

\* A command counts what it has written, or takes or passes on an item.
Works(p) ==
    /\ Runs(p)
    /\ \/ proc[p].n < Items /\ proc' = [proc EXCEPT ![p].n = @ + 1]
       \/ \E b \in BOOLEAN : proc' = [proc EXCEPT ![p].has = b]
    /\ UNCHANGED <<prog, fds>>

Stops(p) ==
    /\ \/ At(p, "pipe") /\ prog \in {"docommand", "pipe_example", "launch_job"}
       \/ At(p, "fork") /\ Op(p).b = 1
       \/ At(p, "exit") \/ At(p, "write") \/ Runs(p)
    /\ Over(p)

\* What a step can do to the processes and their descriptors.
LEMMA Effects ==
  ASSUME NEW p \in Procs, Act(p)
  PROVE  \/ Pipe(p) \/ Close(p) \/ Dup2(p) \/ Fork(p) \/ Exec(p)
         \/ Passes(p) \/ Reaps(p) \/ Works(p) \/ Stops(p)
  <1>1. Write(p) => Passes(p) \/ Stops(p)
    BY DEF Write, WriteTo, Passes, Stops, At
  <1>2. Read(p) => Passes(p)
    BY DEF Read, ReadFrom, Passes, At
  <1>3. Wait(p) => Passes(p) \/ Reaps(p)
    BY DEF Wait, Passes, Reaps, At
  <1>4. CommandWrites(p) => Works(p) \/ Stops(p)
    BY DEF CommandWrites, HasOutput, WriteTo, Works, Stops
  <1>5. CommandReads(p) => Works(p)
    BY DEF CommandReads, WantsInput, ReadFrom, Works
  <1>6. CommandEnds(p) \/ CommandQuits(p) => Stops(p)
    BY DEF CommandEnds, CommandQuits, WantsInput, Stops
  <1>7. PipeFails(p) \/ Exit(p) => Stops(p)
    BY DEF PipeFails, Exit, Stops
  <1>8. ForkFails(p) => Passes(p) \/ Stops(p)
    BY DEF ForkFails, Passes, Stops, At
  <1>9. ExecFails(p) => Passes(p)
    BY DEF ExecFails, Passes, At
  <1>10. QED
    BY <1>1, <1>2, <1>3, <1>4, <1>5, <1>6, <1>7, <1>8, <1>9 DEF Act, Step, Environment

\* A pipe holds one item or none.
LEMMA Buffers ==
  ASSUME Records, NEW p \in Procs, Act(p)
  PROVE  buf' \in [Pipes -> {0, 1}]
  <1>1. \A next : ReadFrom(p, 0, next) => buf' \in [Pipes -> {0, 1}]
    BY DEF ReadFrom, Records
  <1>2. \A f : ReadFrom(p, f, Next1(p)) => buf' \in [Pipes -> {0, 1}]
    BY DEF ReadFrom, Records
  <1>3. \A f, next : WriteTo(p, f, next) => buf' \in [Pipes -> {0, 1}]
    BY DEF WriteTo, Over, Records
  <1>4. Read(p) \/ Write(p) => buf' \in [Pipes -> {0, 1}]
    BY <1>2, <1>3 DEF Read, Write, Records
  <1>5. CommandReads(p) \/ CommandWrites(p) => buf' \in [Pipes -> {0, 1}]
    BY <1>1, <1>3 DEF CommandReads, CommandWrites
  <1>6. \/ Read(p) \/ Write(p) \/ CommandReads(p) \/ CommandWrites(p) \/ UNCHANGED buf
    BY DEF Act, Step, Environment, Pipe, Close, Dup2, Fork, Exec, Wait, Exit, CommandEnds,
           PipeFails, ForkFails, ExecFails, CommandQuits, Over
  <1>7. QED
    BY <1>4, <1>5, <1>6 DEF Records

\* A process stands at a call of its own code.
LEMMA Standing ==
  ASSUME Records, NEW p \in Procs
  PROVE  /\ prog \in AllPrograms
         /\ proc[p] \in Recs
         /\ proc[p].pc \in 1..Len(Code(prog)[p])
         /\ WellPlaced(Op(p), proc[p].pc, Len(Code(prog)[p]), p)
         /\ Op(p).op \notin {"prompt", "exit"} => proc[p].pc + 1 \in 1..Len(Code(prog)[p])
  <1>1. /\ prog \in AllPrograms /\ proc[p] \in Recs
        /\ proc[p].pc \in 1..Len(Code(prog)[p])
    BY ProgramsAssumption DEF Records
  <1>2. /\ WellPlaced(Op(p), proc[p].pc, Len(Code(prog)[p]), p)
        /\ Len(Code(prog)[p]) \in Nat
    BY <1>1, PlacedAt DEF Op
  <1>3. QED
    BY <1>1, <1>2 DEF WellPlaced

\* The records of processes after the updates that steps make.
LEMMA Updates ==
  ASSUME NEW r \in Recs
  PROVE  /\ [r EXCEPT !.pc = @ + 1] \in Recs
         /\ [r EXCEPT !.pc = @ + 1].pc = r.pc + 1
         /\ [r EXCEPT !.pc = @ + 1].st = r.st /\ [r EXCEPT !.pc = @ + 1].pos = r.pos
         /\ [r EXCEPT !.pc = @ + 1].parent = r.parent
         /\ \A x \in {"over", "reaped"} :
                /\ [r EXCEPT !.st = x] \in Recs /\ [r EXCEPT !.st = x].st = x
                /\ [r EXCEPT !.st = x].pc = r.pc /\ [r EXCEPT !.st = x].pos = r.pos
                /\ [r EXCEPT !.st = x].parent = r.parent
         /\ r.n < Items =>
                /\ [r EXCEPT !.n = @ + 1] \in Recs /\ [r EXCEPT !.n = @ + 1].pos = r.pos
                /\ [r EXCEPT !.n = @ + 1].pc = r.pc /\ [r EXCEPT !.n = @ + 1].st = r.st
                /\ [r EXCEPT !.n = @ + 1].parent = r.parent
         /\ \A x \in 1..4 :
                /\ [Started EXCEPT !.parent = x] \in Recs
                /\ [Started EXCEPT !.parent = x].parent = x
                /\ [Started EXCEPT !.parent = x].pc = 1
                /\ [Started EXCEPT !.parent = x].pos = 0
                /\ [Started EXCEPT !.parent = x].st = "runs"
  <1> USE ItemsAssumption DEF Recs
  <1>1. /\ [r EXCEPT !.pc = @ + 1] \in Recs
        /\ [r EXCEPT !.pc = @ + 1].pc = r.pc + 1
        /\ [r EXCEPT !.pc = @ + 1].st = r.st /\ [r EXCEPT !.pc = @ + 1].pos = r.pos
        /\ [r EXCEPT !.pc = @ + 1].parent = r.parent
    OBVIOUS
  <1>2. \A x \in {"over", "reaped"} :
            /\ [r EXCEPT !.st = x] \in Recs /\ [r EXCEPT !.st = x].st = x
            /\ [r EXCEPT !.st = x].pc = r.pc /\ [r EXCEPT !.st = x].pos = r.pos
            /\ [r EXCEPT !.st = x].parent = r.parent
    OBVIOUS
  <1>3. r.n < Items =>
            /\ [r EXCEPT !.n = @ + 1] \in Recs /\ [r EXCEPT !.n = @ + 1].pos = r.pos
            /\ [r EXCEPT !.n = @ + 1].pc = r.pc /\ [r EXCEPT !.n = @ + 1].st = r.st
            /\ [r EXCEPT !.n = @ + 1].parent = r.parent
    OBVIOUS
  <1>4. \A x \in 1..4 :
            /\ [Started EXCEPT !.parent = x] \in Recs
            /\ [Started EXCEPT !.parent = x].parent = x
            /\ [Started EXCEPT !.parent = x].pc = 1
            /\ [Started EXCEPT !.parent = x].pos = 0
            /\ [Started EXCEPT !.parent = x].st = "runs"
    <2>1. /\ Started \in Recs /\ Started.pc = 1 /\ Started.pos = 0 /\ Started.st = "runs"
      BY DEF Started
    <2>2. \A q \in Recs, x \in 1..4 :
            /\ [q EXCEPT !.parent = x] \in Recs
            /\ [q EXCEPT !.parent = x].parent = x
            /\ [q EXCEPT !.parent = x].pc = q.pc
            /\ [q EXCEPT !.parent = x].pos = q.pos
            /\ [q EXCEPT !.parent = x].st = q.st
      OBVIOUS
    <2> HIDE DEF Recs
    <2>3. QED
      BY <2>1, <2>2
  <1>5. QED
    BY <1>1, <1>2, <1>3, <1>4

\* Process p goes on with its next call; its table is d.
LEMMA GoesOn ==
  ASSUME IInv, NEW p \in Procs, proc[p].st = "runs", proc[p].pos = 0,
         Op(p).op \notin {"prompt", "exit"},
         proc' = Next1(p), prog' = prog, buf' \in [Pipes -> {0, 1}],
         NEW d, fds' = [fds EXCEPT ![p] = d], Fits(prog, Code(prog)[p], proc[p].pc + 1, d)
  PROVE  IInv'
  <1>1. proc \in [Procs -> Recs] /\ proc[p] \in Recs /\ proc[p].pc + 1 \in 1..Len(Code(prog)[p])
    BY Standing DEF IInv, Records
  <1> DEFINE r == [proc[p] EXCEPT !.pc = @ + 1]
  <1>2. /\ proc' = [proc EXCEPT ![p] = r]
        /\ r \in Recs /\ r.pc = proc[p].pc + 1 /\ r.st = "runs" /\ r.pos = 0
    BY <1>1, Updates DEF Next1
  <1> HIDE DEF r
  <1>3. /\ proc' \in [Procs -> Recs]
        /\ proc'[p].pc = proc[p].pc + 1 /\ proc'[p].st = "runs" /\ proc'[p].pos = 0
        /\ \A q \in Procs \ {p} : proc'[q] = proc[q]
    BY <1>1, <1>2
  <1>4. /\ fds' \in [Procs -> [Fds -> 0..5]] /\ fds'[p] = d
        /\ \A q \in Procs \ {p} : fds'[q] = fds[q]
    BY DEF Fits, Sound, IInv, Records
  <1>5. ASSUME NEW q \in Procs
        PROVE  /\ proc'[q].pc \in 1..Len(Code(prog)[q])
               /\ proc'[q].pos > 0 => Code(prog)[q][proc'[q].pc].op = "exec"
                                       /\ Code(prog)[q][proc'[q].pc].a = proc'[q].pos
    BY <1>1, <1>3 DEF IInv, Records, Op
  <1>6. Records'
    <2>1. (\A q \in Procs :
            /\ proc[q].pc \in 1..Len(Code(prog)[q])
            /\ proc[q].pos > 0 => Op(q).op = "exec" /\ Op(q).a = proc[q].pos)'
      BY <1>5 DEF Op
    <2>2. prog' \in Programs
      BY DEF IInv, Records
    <2>3. QED
      BY <1>3, <1>4, <2>1, <2>2 DEF Records
  <1>7. Tables'
    BY <1>3, <1>4 DEF IInv, Tables
  <1>8. QED
    BY <1>6, <1>7 DEF IInv

\* A process whose table stays as it is has the one that fits.
LEMMA SameTable ==
  ASSUME IInv, NEW p \in Procs
  PROVE  /\ fds = [fds EXCEPT ![p] = fds[p]]
         /\ proc[p].st = "runs" => Fits(prog, Code(prog)[p], proc[p].pc, fds[p])
  BY DEF IInv, Records, Tables

\* The calls after which their process goes on and nothing else happens to processes.
LEMMA KeptByCalls ==
  ASSUME IInv, NEW p \in Procs, Act(p)
  PROVE  Pipe(p) \/ Close(p) \/ Dup2(p) \/ Passes(p) => IInv'
  <1> DEFINE k == proc[p].pc
             s == Code(prog)[p]
  <1>1. /\ prog \in AllPrograms /\ k \in 1..Len(s) /\ WellPlaced(s[k], k, Len(s), p)
        /\ s[k] = Op(p) /\ fds \in [Procs -> [Fds -> 0..5]]
    BY Standing DEF IInv, Records, Op
  <1>2. buf' \in [Pipes -> {0, 1}]
    BY Buffers DEF IInv
  <1>3. ASSUME Pipe(p) PROVE IInv'
    <2> DEFINE d == [fds[p] EXCEPT ![2 * k] = ReadEnd(k), ![2 * k + 1] = WriteEnd(k)]
    <2>1. /\ proc[p].st = "runs" /\ proc[p].pos = 0 /\ s[k].op = "pipe"
          /\ proc' = Next1(p) /\ prog' = prog
      BY <1>1, <1>3 DEF Pipe, At
    <2>2. s[k].a = k
      BY <1>1, <2>1 DEF WellPlaced
    <2>3. fds' = [fds EXCEPT ![p] = d]
      BY <1>1, <1>3, <2>2 DEF Pipe
    <2>4. Fits(prog, s, k, fds[p])
      BY <2>1, SameTable
    <2>5. Fits(prog, s, k + 1, d)
      BY <1>1, <2>1, <2>4, FitsPipe
    <2> HIDE DEF d
    <2>6. QED
      BY <1>1, <1>2, <2>1, <2>3, <2>5, GoesOn
  <1>4. ASSUME Close(p) PROVE IInv'
    <2> DEFINE d == [fds[p] EXCEPT ![s[k].a] = Closed]
    <2>1. /\ proc[p].st = "runs" /\ proc[p].pos = 0 /\ s[k].op = "close"
          /\ proc' = Next1(p) /\ prog' = prog
      BY <1>1, <1>4 DEF Close, At
    <2>2. fds' = [fds EXCEPT ![p] = d]
      BY <1>1, <1>4 DEF Close
    <2>3. Fits(prog, s, k + 1, d)
      BY <1>1, <2>1, SameTable, FitsClose
    <2> HIDE DEF d
    <2>4. QED
      BY <1>1, <1>2, <2>1, <2>2, <2>3, GoesOn
  <1>5. ASSUME Dup2(p) PROVE IInv'
    <2> DEFINE d == [fds[p] EXCEPT ![s[k].b] = s[k].a]
    <2>1. /\ proc[p].st = "runs" /\ proc[p].pos = 0 /\ s[k].op = "dup2"
          /\ proc' = Next1(p) /\ prog' = prog
      BY <1>1, <1>5 DEF Dup2, At
    <2>2. fds[p][s[k].a] = s[k].a /\ Fits(prog, s, k + 1, d)
      BY <1>1, <2>1, SameTable, FitsDup2
    <2>3. s[k].a # Closed
      BY <1>1, <2>1 DEF WellPlaced, Closed
    <2>4. fds' = [fds EXCEPT ![p] = d]
      BY <1>1, <1>5, <2>2, <2>3 DEF Dup2
    <2> HIDE DEF d
    <2>5. QED
      BY <1>1, <1>2, <2>1, <2>2, <2>4, GoesOn
  <1>6. ASSUME Passes(p) PROVE IInv'
    <2>1. /\ proc[p].st = "runs" /\ proc[p].pos = 0
          /\ s[k].op \in {"fork", "exec", "wait", "write", "read"}
          /\ proc' = Next1(p) /\ prog' = prog /\ fds' = fds
      BY <1>1, <1>6 DEF Passes
    <2>2. Fits(prog, s, k + 1, fds[p])
      BY <1>1, <2>1, SameTable, FitsOther
    <2>3. QED
      BY <1>1, <1>2, <2>1, <2>2, SameTable, GoesOn
  <1>7. QED
    BY <1>3, <1>4, <1>5, <1>6

\* A step is judged process by process.
LEMMA EachProcess ==
  ASSUME IInv, prog' = prog, proc' \in [Procs -> Recs], fds' \in [Procs -> [Fds -> 0..5]],
         buf' \in [Pipes -> {0, 1}],
         \A q \in Procs :
            \/ /\ proc'[q].pc = proc[q].pc /\ proc'[q].pos = proc[q].pos
               /\ proc'[q].st = "runs" => proc[q].st = "runs" /\ fds'[q] = fds[q]
            \/ /\ proc'[q].pc \in 1..Len(Code(prog)[q])
               /\ proc'[q].pos > 0 => Code(prog)[q][proc'[q].pc].op = "exec"
                                       /\ Code(prog)[q][proc'[q].pc].a = proc'[q].pos
               /\ Fits(prog, Code(prog)[q], proc'[q].pc, fds'[q])
  PROVE  IInv'
  <1>1. ASSUME NEW q \in Procs
        PROVE  /\ proc'[q].pc \in 1..Len(Code(prog)[q])
               /\ proc'[q].pos > 0 => Code(prog)[q][proc'[q].pc].op = "exec"
                                       /\ Code(prog)[q][proc'[q].pc].a = proc'[q].pos
               /\ proc'[q].st = "runs" => Fits(prog, Code(prog)[q], proc'[q].pc, fds'[q])
    BY DEF IInv, Records, Tables, Op
  <1>2. (\A q \in Procs :
           /\ proc[q].pc \in 1..Len(Code(prog)[q])
           /\ proc[q].pos > 0 => Op(q).op = "exec" /\ Op(q).a = proc[q].pos)'
    BY <1>1 DEF Op
  <1>3. Tables'
    BY <1>1 DEF Tables
  <1>4. prog' \in Programs
    BY DEF IInv, Records
  <1>5. QED
    BY <1>2, <1>3, <1>4 DEF IInv, Records

\* fork, which is the start of one process and a step of another.
LEMMA KeptByFork ==
  ASSUME IInv, NEW p \in Procs, Fork(p), buf' \in [Pipes -> {0, 1}]
  PROVE  IInv'
  <1> DEFINE k == proc[p].pc
             s == Code(prog)[p]
             c == Op(p).a
             r == [proc[p] EXCEPT !.pc = @ + 1]
             new == [Started EXCEPT !.parent = p]
  <1>1. /\ prog \in AllPrograms /\ k \in 1..Len(s) /\ WellPlaced(s[k], k, Len(s), p)
        /\ s[k] = Op(p) /\ proc[p].st = "runs" /\ s[k].op = "fork" /\ proc[p].pos = 0
        /\ proc[p] \in Recs /\ k + 1 \in 1..Len(s)
    BY Standing DEF IInv, Records, Op, Fork, At
  <1>2. c \in Procs /\ c # p
    BY <1>1 DEF WellPlaced, Procs
  <1>3. Fits(prog, s, k, fds[p])
    BY <1>1, SameTable
  <1>4. Fits(prog, Code(prog)[c], 1, fds[p]) /\ Fits(prog, s, k + 1, fds[p])
    BY <1>1, <1>3, FitsFork, FitsOther
  <1>5. /\ r \in Recs /\ r.pc = k + 1 /\ r.pos = 0
        /\ new \in Recs /\ new.pc = 1 /\ new.pos = 0
    BY <1>1, Updates DEF Procs
  <1>6. proc' = [[proc EXCEPT ![p] = r] EXCEPT ![c] = new] /\ fds' = [fds EXCEPT ![c] = fds[p]]
        /\ prog' = prog
    BY DEF Fork, Next1
  <1> HIDE DEF r, new, c
  <1>7. /\ proc \in [Procs -> Recs] /\ fds \in [Procs -> [Fds -> 0..5]]
    BY DEF IInv, Records
  <1>8. /\ proc' \in [Procs -> Recs] /\ proc'[p] = r /\ proc'[c] = new
        /\ \A q \in Procs \ {p, c} : proc'[q] = proc[q]
        /\ fds' \in [Procs -> [Fds -> 0..5]] /\ fds'[c] = fds[p]
        /\ \A q \in Procs \ {c} : fds'[q] = fds[q]
    BY <1>2, <1>5, <1>6, <1>7
  <1>9. 1 \in 1..Len(Code(prog)[c])
    BY <1>1, <1>2, WellCode DEF Well
  <1>10. QED
    BY <1>1, <1>2, <1>4, <1>5, <1>6, <1>8, <1>9, EachProcess

\* exec, a wait that reaps, the work of a command and the end of a process.
LEMMA KeptByOthers ==
  ASSUME IInv, NEW p \in Procs, Exec(p) \/ Reaps(p) \/ Works(p) \/ Stops(p),
         buf' \in [Pipes -> {0, 1}]
  PROVE  IInv'
  <1> DEFINE k == proc[p].pc
             s == Code(prog)[p]
  <1>1. /\ prog \in AllPrograms /\ k \in 1..Len(s) /\ WellPlaced(s[k], k, Len(s), p)
        /\ s[k] = Op(p)
    BY Standing DEF IInv, Records, Op
  <1>2. /\ proc \in [Procs -> Recs] /\ fds \in [Procs -> [Fds -> 0..5]] /\ proc[p] \in Recs
    BY DEF IInv, Records
  <1>3. ASSUME Exec(p) PROVE IInv'
    <2> DEFINE r == [proc[p] EXCEPT !.pos = Op(p).a]
    <2>1. s[k].op = "exec" /\ proc[p].st = "runs" /\ Op(p).a \in 1..3
      BY <1>1, <1>3 DEF Exec, At, WellPlaced
    <2>2. r \in Recs /\ r.pc = k /\ r.pos = s[k].a /\ r.st = "runs"
      <3>1. r \in Recs /\ r.pc = proc[p].pc /\ r.pos = Op(p).a /\ r.st = proc[p].st
        BY <1>2, <2>1 DEF Recs
      <3>2. QED
        BY <1>1, <2>1, <3>1
    <2>3. proc' = [proc EXCEPT ![p] = r] /\ prog' = prog /\ fds' = fds
      BY <1>3 DEF Exec
    <2> HIDE DEF r
    <2>4. /\ proc' \in [Procs -> Recs] /\ proc'[p] = r
          /\ \A q \in Procs \ {p} : proc'[q] = proc[q]
      BY <1>2, <2>2, <2>3
    <2>5. Fits(prog, s, k, fds[p])
      BY <2>1, SameTable
    <2>6. QED
      BY <1>1, <1>2, <2>1, <2>2, <2>3, <2>4, <2>5, EachProcess
  <1>4. ASSUME Works(p) PROVE IInv'
    <2>1. PICK r \in Recs : /\ proc' = [proc EXCEPT ![p] = r]
                            /\ r.pc = proc[p].pc /\ r.pos = proc[p].pos /\ r.st = proc[p].st
      <3>1. CASE proc[p].n < Items /\ proc' = [proc EXCEPT ![p].n = @ + 1]
        <4> DEFINE r == [proc[p] EXCEPT !.n = @ + 1]
        <4>1. /\ proc' = [proc EXCEPT ![p] = r]
              /\ r \in Recs /\ r.pc = proc[p].pc /\ r.pos = proc[p].pos /\ r.st = proc[p].st
          BY <1>2, <3>1, Updates
        <4> HIDE DEF r
        <4>2. QED
          BY <4>1
      <3>2. ASSUME NEW b \in BOOLEAN, proc' = [proc EXCEPT ![p].has = b]
            PROVE  \E r \in Recs : /\ proc' = [proc EXCEPT ![p] = r]
                                   /\ r.pc = proc[p].pc /\ r.pos = proc[p].pos /\ r.st = proc[p].st
        <4> DEFINE r == [proc[p] EXCEPT !.has = b]
        <4>1. r \in Recs /\ r.pc = proc[p].pc /\ r.pos = proc[p].pos /\ r.st = proc[p].st
          BY <1>2, <3>2 DEF Recs
        <4>2. proc' = [proc EXCEPT ![p] = r]
          BY <3>2
        <4> HIDE DEF r
        <4>3. QED
          BY <4>1, <4>2
      <3>3. QED
        BY <1>4, <3>1, <3>2 DEF Works
    <2>2. prog' = prog /\ fds' = fds
      BY <1>4 DEF Works
    <2>3. /\ proc' \in [Procs -> Recs] /\ proc'[p] = r
          /\ \A q \in Procs \ {p} : proc'[q] = proc[q]
      BY <1>2, <2>1
    <2>4. QED
      BY <1>2, <2>1, <2>2, <2>3, EachProcess
  <1>5. ASSUME Stops(p) PROVE IInv'
    <2> DEFINE r == [proc[p] EXCEPT !.st = "over"]
    <2>1. /\ proc' = [proc EXCEPT ![p] = r] /\ prog' = prog /\ fds' = [fds EXCEPT ![p] = NoFds]
      BY <1>5 DEF Stops, Over
    <2>2. r \in Recs /\ r.pc = proc[p].pc /\ r.pos = proc[p].pos /\ r.st = "over"
      BY <1>2, Updates
    <2> HIDE DEF r
    <2>3. /\ proc' \in [Procs -> Recs] /\ proc'[p] = r
          /\ \A q \in Procs \ {p} : proc'[q] = proc[q] /\ fds'[q] = fds[q]
      BY <1>2, <2>1, <2>2
    <2>4. NoFds \in [Fds -> 0..5]
      BY DEF NoFds, Closed
    <2>5. fds' \in [Procs -> [Fds -> 0..5]]
      BY <1>2, <2>1, <2>4
    <2>6. QED
      BY <2>1, <2>2, <2>3, <2>5, EachProcess
  <1>6. ASSUME Reaps(p) PROVE IInv'
    <2> DEFINE r == [proc[p] EXCEPT !.pc = @ + 1]
    <2>1. PICK q \in Children(p) :
              proc[q].st = "over" /\ proc' = [Next1(p) EXCEPT ![q].st = "reaped"]
      BY <1>6 DEF Reaps
    <2> DEFINE u == [proc[q] EXCEPT !.st = "reaped"]
    <2>2. /\ proc[p].st = "runs" /\ s[k].op = "wait" /\ proc[p].pos = 0
          /\ prog' = prog /\ fds' = fds /\ k + 1 \in 1..Len(s)
      BY <1>1, <1>6, Standing DEF Reaps, At, IInv
    <2>3. q \in Procs /\ q # p
      BY <2>1, <2>2 DEF Children
    <2>4. /\ r \in Recs /\ r.pc = k + 1 /\ r.pos = 0
          /\ u \in Recs /\ u.pc = proc[q].pc /\ u.pos = proc[q].pos /\ u.st = "reaped"
      BY <1>2, <2>2, <2>3, Updates
    <2>5. proc' = [[proc EXCEPT ![p] = r] EXCEPT ![q] = u]
      BY <1>2, <2>1, <2>3 DEF Next1
    <2> HIDE DEF r, u
    <2>6. /\ proc' \in [Procs -> Recs] /\ proc'[p] = r /\ proc'[q] = u
          /\ \A o \in Procs \ {p, q} : proc'[o] = proc[o]
      BY <1>2, <2>3, <2>4, <2>5
    <2>7. Fits(prog, s, k + 1, fds[p])
      BY <1>1, <2>2, SameTable, FitsOther
    <2>8. QED
      BY <1>2, <2>2, <2>3, <2>4, <2>6, <2>7, EachProcess
  <1>7. QED
    BY <1>3, <1>4, <1>5, <1>6

\* Every step keeps the invariant.
LEMMA NextIInv == IInv /\ [Next]_vars => IInv'
  <1> SUFFICES ASSUME IInv, [Next]_vars PROVE IInv'
    OBVIOUS
  <1>1. ASSUME NEW p \in Procs, Act(p) PROVE IInv'
    <2>1. buf' \in [Pipes -> {0, 1}]
      BY <1>1, Buffers DEF IInv
    <2>2. QED
      BY <1>1, <2>1, Effects, KeptByCalls, KeptByFork, KeptByOthers
  <1>2. ASSUME UNCHANGED vars PROVE IInv'
    BY <1>2 DEF vars, IInv, Records, Tables, Op
  <1>3. QED
    BY <1>1, <1>2 DEF Next, Act

\* The programs start in it.
LEMMA InitIInv == Init => IInv
  <1> SUFFICES ASSUME Init PROVE IInv
    OBVIOUS
  <1>1. prog \in Programs /\ prog \in AllPrograms
    BY ProgramsAssumption DEF Init
  <1>2. /\ proc \in [Procs -> Recs]
        /\ \A p \in Procs : proc[p].pc = 1 /\ proc[p].pos = 0 /\ (proc[p].st = "runs" => p = 1)
    <2>1. ASSUME NEW x \in {"runs", "none"}
          PROVE  /\ [Started EXCEPT !.st = x] \in Recs
                 /\ [Started EXCEPT !.st = x].pc = 1 /\ [Started EXCEPT !.st = x].pos = 0
                 /\ [Started EXCEPT !.st = x].st = x
      <3>1. Started \in Recs /\ Started.pc = 1 /\ Started.pos = 0
        BY ItemsAssumption DEF Recs, Started
      <3>2. \A r \in Recs : /\ [r EXCEPT !.st = x] \in Recs /\ [r EXCEPT !.st = x].st = x
                           /\ [r EXCEPT !.st = x].pc = r.pc /\ [r EXCEPT !.st = x].pos = r.pos
        BY DEF Recs
      <3> HIDE DEF Recs
      <3>3. QED
        BY <3>1, <3>2
    <2>2. proc = [p \in Procs |-> [Started EXCEPT !.st = IF p = 1 THEN "runs" ELSE "none"]]
      BY DEF Init
    <2>3. QED
      BY <2>1, <2>2
  <1>3. /\ fds \in [Procs -> [Fds -> 0..5]]
        /\ fds[1] = [NoFds EXCEPT ![0] = Terminal, ![1] = Terminal]
    BY DEF Init, Procs, NoFds, Fds, Terminal, Closed
  <1>4. buf \in [Pipes -> {0, 1}]
    BY DEF Init
  <1>5. \A p \in Procs : 1 \in 1..Len(Code(prog)[p])
    BY <1>1, WellCode DEF Well
  <1>6. Records
    BY <1>1, <1>2, <1>3, <1>4, <1>5 DEF Records
  <1>7. Tables
    BY <1>1, <1>2, <1>3, FitsMain DEF Tables
  <1>8. QED
    BY <1>6, <1>7 DEF IInv

\* The invariant holds of every state that is reached.
LEMMA Invariance == Spec => []IInv
  BY InitIInv, NextIInv, PTL DEF Spec

\* Type correctness of the eight programs: in particular no process, the child that
\* goes on after a failed execvp included, runs past the end of its code.
THEOREM TypeCorrect == Spec => []TypeOK
  <1>1. IInv => TypeOK
    BY DEF IInv, Records, Recs, TypeOK
  <1>2. QED
    BY <1>1, Invariance, PTL

\* Whichever calls of pipe, fork and exec fail, a command that runs reads from the pipe
\* before it and writes to the pipe after it, the first and the last use the terminal;
\* only the copy of fork_pipes that goes on in spawn_proc's child is excepted.
THEOREM PlumbedAlways == Spec => []Plumbed
  <1>1. IInv => Plumbed
    <2> SUFFICES ASSUME IInv, NEW p \in Procs, Runs(p), ~Astray(p)
                 PROVE  LET k == proc[p].pos IN
                        /\ fds[p][0] = IF k = 1 THEN Terminal ELSE ReadEnd(k - 1)
                        /\ fds[p][1] = IF k = Commands(prog) THEN Terminal ELSE WriteEnd(k)
      BY DEF Plumbed
    <2>1. /\ prog \in AllPrograms /\ proc[p].pc \in 1..Len(Code(prog)[p])
          /\ Op(p).op = "exec" /\ Op(p).a = proc[p].pos /\ proc[p].st = "runs"
      BY Standing DEF IInv, Records, Runs
    <2>2. Fits(prog, Code(prog)[p], proc[p].pc, fds[p])
      BY <2>1, SameTable
    <2>3. QED
      BY <2>1, <2>2, FitsExec DEF Op, Astray
  <1>2. QED
    BY <1>1, Invariance, PTL

-----------------------------------------------------------------------------
(* The programs that wait                                                  *)

Waiting == {"docommand", "pipe_example", "twopipes", "launch_job"}

\* Such a program g starts processes 2..Last(g), Number(g) of them unless a fork fails;
\* process Last(g), started by call LastFork(g), runs the last command of the line.  It
\* waits as many times, first in call FirstWait(g).
Number(g) == IF g = "twopipes" THEN 3 ELSE IF g = "launch_job" THEN 2 ELSE 1
FirstWait(g) == IF g = "twopipes" THEN 10 ELSE IF g = "launch_job" THEN 6 ELSE 2
LastFork(g) == IF g = "twopipes" THEN 5 ELSE IF g = "launch_job" THEN 4 ELSE 1
Last(g) == 1 + Number(g)

\* What the text of such a program says of that.
Waits(s, g) ==
    /\ Len(s) = FirstWait(g) + Number(g)
    /\ \A k \in 1..Len(s) :
        /\ k < FirstWait(g) => s[k].op \in {"pipe", "close", "fork"}
        /\ k \in LastFork(g) + 1 .. FirstWait(g) - 1 => s[k].op = "close"
        /\ k \in FirstWait(g) .. Len(s) - 1 => s[k].op = "wait"
        /\ k = Len(s) => s[k].op \in {"prompt", "exit"}
        /\ s[k].op = "fork" => s[k].a \in 2..Last(g)
        /\ s[k].op = "fork" /\ s[k].a = Last(g) => k = LastFork(g)

\* The texts of the programs that wait say so.
LEMMA WaitingCode ==
  ASSUME NEW g \in Waiting
  PROVE  Waits(Code(g)[1], g)
  <1> USE Calls, Upto DEF Waits, Number, FirstWait, LastFork, Last
  <1>1. Waits(ExecPipe, "docommand")
    BY DEF ExecPipe
  <1>2. Waits(PipeExample, "pipe_example")
    BY DEF PipeExample
  <1>3. Waits(TwoPipes, "twopipes")
    BY TwoPipesCode
  <1>4. Waits(launch_job, "launch_job")
    BY DEF launch_job
  <1> HIDE DEF Waits
  <1>5. QED
    BY <1>1, <1>2, <1>3, <1>4, CodeOf DEF Waiting

\* Nobody else starts the process of the last command, and nobody else executes it.
LEMMA LastCode ==
  ASSUME NEW g \in Waiting, NEW p \in Procs, NEW k \in 1..Len(Code(g)[p])
  PROVE  /\ Code(g)[p][k].op = "fork" /\ p # 1 => Code(g)[p][k].a # Last(g)
         /\ Code(g)[p][k].op = "exec" /\ Code(g)[p][k].a = Commands(g) => p = Last(g)
  <1> USE DEF Waiting, Procs, Commands, Last, Number
  <1>1. Code(g)[p][k].op = "fork" /\ p # 1 => Code(g)[p][k].a # Last(g)
    BY CodeOf, Forks, NeverForks DEF Never, OneFork
  <1>2. /\ Only("exec", docommand, {2}) /\ Only("exec", docommandChild, {1})
        /\ Only("exec", TwoPipesCat, {1}) /\ Only("exec", TwoPipesGrep, {2})
        /\ Only("exec", launch_process1, {1})
    <2> USE Calls, Upto DEF Only
    <2>1. Only("exec", docommand, {2})
      BY DEF docommand
    <2>2. Only("exec", docommandChild, {1})
      BY DEF docommandChild
    <2>3. Only("exec", TwoPipesCat, {1})
      BY CatCode
    <2>4. Only("exec", TwoPipesGrep, {2})
      BY GrepCode
    <2>5. Only("exec", launch_process1, {1})
      BY DEF launch_process1
    <2>6. QED
      BY <2>1, <2>2, <2>3, <2>4, <2>5
  <1>3. Code(g)[p][k].op = "exec" /\ Code(g)[p][k].a = Commands(g) => p = Last(g)
    BY <1>2, CodeOf, NeverExecs DEF Never, Only
  <1>4. QED
    BY <1>1, <1>3

\* The program is never reaped and runs no command; of the children it has to wait for,
\* there are no more than it has calls of wait left; the last one is its child, and
\* is not there before its fork and not running when the program has ended.
Awaited ==
    prog \in Waiting =>
        /\ proc[1].st \in {"runs", "over"} /\ proc[1].pos = 0 /\ proc[1].parent = 0
        /\ Children(1) \subseteq 2..Last(prog)
        /\ proc[1].pc >= FirstWait(prog) =>
              Cardinality(Children(1)) <= FirstWait(prog) + Number(prog) - proc[1].pc
        /\ proc[1].pc <= LastFork(prog) => proc[Last(prog)].st = "none"
        /\ proc[Last(prog)].st # "none" => proc[Last(prog)].parent = 1
        /\ proc[1].st = "over" => proc[Last(prog)].st # "runs"

\* Process p goes on, starts a command, works or ends: no other process changes, and
\* its parent does not.
Alone(p) ==
    /\ proc[p].st = "runs" /\ proc'[p].st \in {"runs", "over"}
    /\ proc'[p].parent = proc[p].parent
    /\ \A q \in Procs \ {p} : proc'[q] = proc[q]

\* Only fork and a wait that reaps touch two processes.
LEMMA AloneUnlessForkOrReap ==
  ASSUME Records, NEW p \in Procs, Act(p)
  PROVE  Fork(p) \/ Reaps(p) \/ Alone(p)
  <1>1. proc \in [Procs -> Recs] /\ proc[p] \in Recs
    BY DEF Records
  <1>2. ASSUME Pipe(p) \/ Close(p) \/ Dup2(p) \/ Passes(p) PROVE Alone(p)
    <2> DEFINE r == [proc[p] EXCEPT !.pc = @ + 1]
    <2>1. r.st = proc[p].st /\ r.parent = proc[p].parent
      BY <1>1, Updates
    <2>2. proc' = [proc EXCEPT ![p] = r] /\ proc[p].st = "runs"
      BY <1>2 DEF Pipe, Close, Dup2, Passes, At, Next1
    <2> HIDE DEF r
    <2>3. QED
      BY <1>1, <2>1, <2>2 DEF Alone
  <1>3. ASSUME Exec(p) PROVE Alone(p)
    <2> DEFINE r == [proc[p] EXCEPT !.pos = Op(p).a]
    <2>1. r.st = proc[p].st /\ r.parent = proc[p].parent
      BY <1>1 DEF Recs
    <2>2. proc' = [proc EXCEPT ![p] = r] /\ proc[p].st = "runs"
      BY <1>3 DEF Exec, At
    <2> HIDE DEF r
    <2>3. QED
      BY <1>1, <2>1, <2>2 DEF Alone
  <1>4. ASSUME Works(p), proc' = [proc EXCEPT ![p].n = @ + 1] PROVE Alone(p)
    <2> DEFINE r == [proc[p] EXCEPT !.n = @ + 1]
    <2>1. r.st = proc[p].st /\ r.parent = proc[p].parent
      BY <1>1 DEF Recs
    <2>2. proc' = [proc EXCEPT ![p] = r] /\ proc[p].st = "runs"
      BY <1>4 DEF Works, Runs
    <2> HIDE DEF r
    <2>3. QED
      BY <1>1, <2>1, <2>2 DEF Alone
  <1>5. ASSUME Works(p), NEW b \in BOOLEAN, proc' = [proc EXCEPT ![p].has = b] PROVE Alone(p)
    <2> DEFINE r == [proc[p] EXCEPT !.has = b]
    <2>1. r.st = proc[p].st /\ r.parent = proc[p].parent
      BY <1>1 DEF Recs
    <2>2. proc' = [proc EXCEPT ![p] = r] /\ proc[p].st = "runs"
      BY <1>5 DEF Works, Runs
    <2> HIDE DEF r
    <2>3. QED
      BY <1>1, <2>1, <2>2 DEF Alone
  <1>6. ASSUME Stops(p) PROVE Alone(p)
    <2> DEFINE r == [proc[p] EXCEPT !.st = "over"]
    <2>1. r.st = "over" /\ r.parent = proc[p].parent
      BY <1>1, Updates
    <2>2. proc' = [proc EXCEPT ![p] = r] /\ proc[p].st = "runs"
      BY <1>6 DEF Stops, Over, At, Runs
    <2> HIDE DEF r
    <2>3. QED
      BY <1>1, <2>1, <2>2 DEF Alone
  <1>7. Works(p) => Alone(p)
    BY <1>4, <1>5 DEF Works
  <1>8. QED
    BY <1>2, <1>3, <1>6, <1>7, Effects

\* fork adds a process and changes no other but the caller's place.
LEMMA ForkStarts ==
  ASSUME Records, NEW p \in Procs, Fork(p)
  PROVE  /\ proc[p].st = "runs" /\ proc[p].pos = 0 /\ Op(p).op = "fork" /\ Op(p).a \in p + 1 .. 4
         /\ proc'[p].st = "runs" /\ proc'[p].parent = proc[p].parent /\ proc'[p].pos = 0
         /\ proc'[p].pc = proc[p].pc + 1
         /\ proc'[Op(p).a].st = "runs" /\ proc'[Op(p).a].parent = p
         /\ \A q \in Procs \ {p, Op(p).a} : proc'[q] = proc[q]
  <1> DEFINE c == Op(p).a
             r == [proc[p] EXCEPT !.pc = @ + 1]
             new == [Started EXCEPT !.parent = p]
  <1>1. /\ proc[p].st = "runs" /\ proc[p].pos = 0 /\ Op(p).op = "fork"
        /\ proc \in [Procs -> Recs] /\ proc[p] \in Recs
    BY DEF Fork, At, Records
  <1>2. c \in p + 1 .. 4 /\ c \in Procs /\ c # p
    BY <1>1, Standing DEF WellPlaced, Procs
  <1>3. /\ r.pc = proc[p].pc + 1 /\ r.pos = 0 /\ r.st = "runs" /\ r.parent = proc[p].parent
        /\ new.st = "runs" /\ new.parent = p
    BY <1>1, Updates DEF Procs
  <1>4. proc' = [[proc EXCEPT ![p] = r] EXCEPT ![c] = new]
    BY DEF Fork, Next1
  <1> HIDE DEF c, r, new
  <1>5. proc'[p] = r /\ proc'[c] = new /\ \A q \in Procs \ {p, c} : proc'[q] = proc[q]
    BY <1>1, <1>2, <1>4
  <1>6. QED
    BY <1>1, <1>2, <1>3, <1>5 DEF c

\* wait takes one child away and changes no other process but the caller's place.
LEMMA WaitReaps ==
  ASSUME Records, NEW p \in Procs, Reaps(p)
  PROVE  /\ proc[p].st = "runs" /\ proc[p].pos = 0 /\ Op(p).op = "wait"
         /\ \E q \in Children(p) \ {p} :
              /\ proc'[q].st = "reaped" /\ proc'[q].parent = proc[q].parent
              /\ proc[q].st = "over"
              /\ proc'[p].st = "runs" /\ proc'[p].parent = proc[p].parent
              /\ proc'[p].pos = 0 /\ proc'[p].pc = proc[p].pc + 1
              /\ \A o \in Procs \ {p, q} : proc'[o] = proc[o]
  <1>1. /\ proc[p].st = "runs" /\ proc[p].pos = 0 /\ Op(p).op = "wait"
        /\ proc \in [Procs -> Recs] /\ proc[p] \in Recs
    BY DEF Reaps, At, Records
  <1>2. PICK q \in Children(p) : proc[q].st = "over" /\ proc' = [Next1(p) EXCEPT ![q].st = "reaped"]
    BY DEF Reaps
  <1> DEFINE r == [proc[p] EXCEPT !.pc = @ + 1]
             u == [proc[q] EXCEPT !.st = "reaped"]
  <1>3. q \in Procs /\ q # p
    BY <1>1, <1>2 DEF Children
  <1>4. /\ r.pc = proc[p].pc + 1 /\ r.pos = 0 /\ r.st = "runs" /\ r.parent = proc[p].parent
        /\ u.st = "reaped" /\ u.parent = proc[q].parent
    BY <1>1, <1>3, Updates
  <1>5. proc' = [[proc EXCEPT ![p] = r] EXCEPT ![q] = u]
    BY <1>1, <1>2, <1>3 DEF Next1
  <1> HIDE DEF r, u
  <1>6. proc'[p] = r /\ proc'[q] = u /\ \A o \in Procs \ {p, q} : proc'[o] = proc[o]
    BY <1>1, <1>3, <1>5
  <1>7. QED
    BY <1>1, <1>2, <1>3, <1>4, <1>6

\* The number of children of the program.
LEMMA Counting ==
  ASSUME NEW n \in 1..3, NEW S \in SUBSET (2 .. 1 + n)
  PROVE  /\ IsFiniteSet(S) /\ Cardinality(S) \in Nat /\ Cardinality(S) <= n
         /\ Cardinality(S) <= 0 => S = {}
         /\ \A T \in SUBSET S :
                IsFiniteSet(T) /\ Cardinality(T) \in Nat /\ Cardinality(T) <= Cardinality(S)
         /\ \A x \in S : Cardinality(S \ {x}) = Cardinality(S) - 1
  <1>1. IsFiniteSet(2 .. 1 + n) /\ Cardinality(2 .. 1 + n) = n
    BY FS_Interval
  <1>2. IsFiniteSet(S) /\ Cardinality(S) <= n
    BY <1>1, FS_Subset
  <1>3. Cardinality(S) \in Nat
    BY <1>2, FS_CardinalityType
  <1>4. Cardinality(S) <= 0 => S = {}
    BY <1>2, <1>3, FS_EmptySet
  <1>5. \A T \in SUBSET S : IsFiniteSet(T) /\ Cardinality(T) <= Cardinality(S)
    BY <1>2, FS_Subset
  <1>6. \A T \in SUBSET S : Cardinality(T) \in Nat
    BY <1>5, FS_CardinalityType
  <1>7. \A x \in S : Cardinality(S \ {x}) = Cardinality(S) - 1
    BY <1>2, FS_RemoveElement
  <1>8. QED
    BY <1>2, <1>3, <1>4, <1>5, <1>6, <1>7

\* Awaited with the program and its numbers at hand.
LEMMA WaitFacts ==
  ASSUME IInv, prog \in Waiting
  PROVE  /\ prog' = prog => Last(prog)' = Last(prog)
         /\ Number(prog) \in 1..3 /\ Last(prog) = 1 + Number(prog)
         /\ Last(prog) \in Procs \ {1} /\ 1 \in Procs
         /\ FirstWait(prog) \in Nat /\ LastFork(prog) \in Nat
         /\ LastFork(prog) < FirstWait(prog)
         /\ Waits(Code(prog)[1], prog)
         /\ prog \in AllPrograms
         /\ proc[1].pc \in 1 .. FirstWait(prog) + Number(prog)
  <1>1. Waits(Code(prog)[1], prog)
    BY WaitingCode
  <1>2. /\ Number(prog) \in 1..3 /\ Last(prog) = 1 + Number(prog)
        /\ Last(prog) \in Procs \ {1} /\ 1 \in Procs
        /\ FirstWait(prog) \in Nat /\ LastFork(prog) \in Nat
        /\ LastFork(prog) < FirstWait(prog)
    BY DEF Number, FirstWait, LastFork, Last, Procs
  <1>3. prog \in AllPrograms /\ proc[1].pc \in 1..Len(Code(prog)[1])
    BY <1>2, Standing DEF IInv
  <1>4. proc[1].pc \in 1 .. FirstWait(prog) + Number(prog)
    BY <1>1, <1>3 DEF Waits
  <1>5. prog' = prog => Last(prog)' = Last(prog)
    OBVIOUS
  <1>6. QED
    BY <1>1, <1>2, <1>3, <1>4, <1>5

\* Steps of other processes take no awaited child away unnoticed.
LEMMA AwaitedByOthers ==
  ASSUME IInv, Awaited, prog \in Waiting, NEW p \in Procs \ {1}, Act(p), prog' = prog
  PROVE  Awaited'
  <1> DEFINE l == Last(prog)
             n == Number(prog)
  <1>1. /\ proc[1].st \in {"runs", "over"} /\ proc[1].pos = 0 /\ proc[1].parent = 0
        /\ Children(1) \subseteq 2..l
        /\ proc[1].pc >= FirstWait(prog) =>
              Cardinality(Children(1)) <= FirstWait(prog) + n - proc[1].pc
        /\ proc[1].pc <= LastFork(prog) => proc[l].st = "none"
        /\ proc[l].st # "none" => proc[l].parent = 1
        /\ proc[1].st = "over" => proc[l].st # "runs"
    BY DEF Awaited
  <1>2. n \in 1..3 /\ l = 1 + n /\ l \in Procs \ {1} /\ 1 \in Procs
        /\ FirstWait(prog) \in Nat /\ proc[1].pc \in Nat
    BY WaitFacts
  <1> HIDE DEF l, n
  <1>3. /\ proc'[1] = proc[1]
        /\ \A q \in Procs : proc'[q].parent = 1 /\ proc'[q].st \in {"runs", "over"}
                            => proc[q].parent = 1 /\ proc[q].st \in {"runs", "over"}
        /\ proc[l].st = "none" => proc'[l].st = "none"
        /\ proc'[l].st # "none" => proc'[l].parent = proc[l].parent /\ proc[l].st # "none"
        /\ proc'[l].st = "runs" => proc[l].st = "runs"
    <2>1. CASE Alone(p)
      BY <1>2, <2>1 DEF Alone
    <2>2. CASE Fork(p)
      <3>1. Op(p).op = "fork" /\ Op(p).a \in p + 1 .. 4 /\ Op(p).a \in Procs \ {1, p}
        BY <2>2, ForkStarts DEF IInv, Procs
      <3>2. Op(p).a # l
        <4>1. proc[p].pc \in 1..Len(Code(prog)[p])
          BY Standing DEF IInv
        <4>2. QED
          BY <3>1, <4>1, LastCode DEF Op, l
      <3>3. QED
        BY <1>2, <2>2, <3>1, <3>2, ForkStarts DEF IInv
    <2>3. CASE Reaps(p)
      <3>1. PICK q \in Children(p) \ {p} :
              /\ proc'[q].st = "reaped" /\ proc'[q].parent = proc[q].parent
              /\ proc[q].st = "over"
              /\ proc'[p].st = "runs" /\ proc'[p].parent = proc[p].parent
              /\ proc'[p].pos = 0 /\ proc'[p].pc = proc[p].pc + 1
              /\ \A o \in Procs \ {p, q} : proc'[o] = proc[o]
        BY <2>3, WaitReaps DEF IInv
      <3>2. proc[p].st = "runs" /\ q \in Procs /\ q # 1
        BY <1>1, <2>3, WaitReaps DEF IInv, Children, Procs
      <3>3. QED
        BY <1>2, <3>1, <3>2
    <2>4. QED
      BY <2>1, <2>2, <2>3, AloneUnlessForkOrReap DEF IInv
  <1>4. Children(1)' \subseteq Children(1)
    BY <1>3 DEF Children
  <1>5. Cardinality(Children(1)') <= Cardinality(Children(1))
        /\ Cardinality(Children(1)') \in Nat /\ Cardinality(Children(1)) \in Nat
    BY <1>1, <1>2, <1>4, Counting
  <1>6. proc'[1].pc >= FirstWait(prog) =>
              Cardinality(Children(1)') <= FirstWait(prog) + n - proc'[1].pc
    BY <1>1, <1>2, <1>3, <1>5
  <1>7. QED
    BY <1>1, <1>3, <1>4, <1>6 DEF Awaited, l, n

\* Steps of the program itself: it starts the last process at its last fork, takes away
\* one child at each call of wait, and ends before that fork or behind its waits.
LEMMA AwaitedByMain ==
  ASSUME IInv, Awaited, prog \in Waiting, Act(1), prog' = prog
  PROVE  Awaited'
  <1> DEFINE l == Last(prog)
             n == Number(prog)
             w == FirstWait(prog)
             f == LastFork(prog)
             k == proc[1].pc
             s == Code(prog)[1]
  <1>1. /\ proc[1].st \in {"runs", "over"} /\ proc[1].pos = 0 /\ proc[1].parent = 0
        /\ Children(1) \subseteq 2..l
        /\ k >= w => Cardinality(Children(1)) <= w + n - k
        /\ k <= f => proc[l].st = "none"
        /\ proc[l].st # "none" => proc[l].parent = 1
    BY DEF Awaited
  <1>2. /\ n \in 1..3 /\ l = 1 + n /\ l \in Procs \ {1} /\ 1 \in Procs
        /\ w \in Nat /\ f \in Nat /\ f < w /\ k \in 1 .. w + n /\ Len(s) = w + n
    BY WaitFacts DEF Waits
  <1>3. /\ s[k] = Op(1)
        /\ k < w => s[k].op \in {"pipe", "close", "fork"}
        /\ f < k /\ k < w => s[k].op = "close"
        /\ w <= k /\ k < w + n => s[k].op = "wait"
        /\ k = w + n => s[k].op \in {"prompt", "exit"}
        /\ s[k].op = "fork" => s[k].a \in 2..l
        /\ s[k].op = "fork" /\ s[k].a = l => k = f
    <2>1. s[k] = Op(1)
      BY DEF Op
    <2>2. Waits(s, prog)
      BY WaitFacts
    <2>3. k \in 1..Len(s)
      BY <1>2
    <2>4. f < k /\ k < w => k \in f + 1 .. w - 1
      BY <1>2
    <2>5. w <= k /\ k < w + n => k \in w .. Len(s) - 1
      BY <1>2
    <2> HIDE DEF s, k
    <2>6. QED
      BY <1>2, <2>1, <2>2, <2>3, <2>4, <2>5 DEF Waits
  <1> HIDE DEF l, n, w, f, s
  <1>4. ASSUME proc'[1].st \in {"runs", "over"}, proc'[1].pos = 0, proc'[1].parent = 0,
               Children(1)' \subseteq 2..l,
               proc'[1].pc >= w => Cardinality(Children(1)') <= w + n - proc'[1].pc,
               proc'[1].pc <= f => proc'[l].st = "none",
               proc'[l].st # "none" => proc'[l].parent = 1,
               proc'[1].st = "over" => proc'[l].st # "runs"
        PROVE  Awaited'
    BY <1>4 DEF Awaited, l, n, w, f
  <1>5. ASSUME Pipe(1) \/ Close(1) \/ Dup2(1) \/ Passes(1) PROVE Awaited'
    <2>1. /\ proc' = Next1(1) /\ proc[1].st = "runs"
          /\ proc \in [Procs -> Recs] /\ proc[1] \in Recs
      BY <1>2, <1>5 DEF Pipe, Close, Dup2, Passes, At, IInv, Records
    <2> DEFINE r == [proc[1] EXCEPT !.pc = @ + 1]
    <2>2. r.st = "runs" /\ r.parent = 0 /\ r.pos = 0 /\ r.pc = k + 1
      BY <1>1, <2>1, Updates
    <2>3. proc' = [proc EXCEPT ![1] = r]
      BY <2>1 DEF Next1
    <2> HIDE DEF r
    <2>4. proc'[1] = r /\ \A q \in Procs \ {1} : proc'[q] = proc[q]
      BY <1>2, <2>1, <2>3
    <2>5. Children(1)' = Children(1)
      BY <1>1, <2>2, <2>4 DEF Children
    <2>6. Op(1).op \in {"pipe", "close", "dup2", "fork", "exec", "wait", "write", "read"}
      BY <1>5 DEF Pipe, Close, Dup2, Passes, At
    <2>7. k >= w => Children(1) = {}
      BY <1>2, <1>3, <1>5, <2>6 DEF Pipe, Close, Dup2, Passes, At
    <2>8. Cardinality(Children(1)) \in Nat /\ Cardinality(Children(1)) <= n
      BY <1>1, <1>2, Counting
    <2>9. k + 1 >= w => Cardinality(Children(1)) <= w + n - (k + 1)
      <3>1. CASE k >= w
        <4>1. k < w + n
          BY <1>2, <1>3, <2>6
        <4>2. Cardinality(Children(1)) = 0
          BY <2>7, <3>1, FS_EmptySet
        <4>3. QED
          BY <1>2, <4>1, <4>2
      <3>2. CASE k < w
        BY <1>2, <2>8, <3>2
      <3>3. QED
        BY <1>2, <3>1, <3>2
    <2>10. k + 1 <= f => k <= f
      BY <1>2
    <2>11. QED
      BY <1>1, <1>2, <1>4, <2>2, <2>4, <2>5, <2>9, <2>10
  <1>6. ASSUME Fork(1) PROVE Awaited'
    <2> DEFINE c == Op(1).a
    <2>1. /\ proc[1].st = "runs" /\ Op(1).op = "fork" /\ c \in 2..4
          /\ proc'[1].st = "runs" /\ proc'[1].parent = proc[1].parent /\ proc'[1].pos = 0
          /\ proc'[1].pc = k + 1
          /\ proc'[c].st = "runs" /\ proc'[c].parent = 1
          /\ \A q \in Procs \ {1, c} : proc'[q] = proc[q]
      BY <1>2, <1>6, ForkStarts DEF IInv
    <2>2. c \in 2..l /\ (c = l => k = f) /\ k < w
      BY <1>2, <1>3, <2>1
    <2> HIDE DEF c
    <2>3. Children(1)' \subseteq Children(1) \cup {c}
      BY <1>1, <2>1 DEF Children
    <2>4. Children(1)' \subseteq 2..l
      BY <1>1, <2>2, <2>3
    <2>5. Cardinality(Children(1)') \in Nat /\ Cardinality(Children(1)') <= n
      BY <1>2, <2>4, Counting
    <2>6. k + 1 >= w => Cardinality(Children(1)') <= w + n - (k + 1)
      BY <1>2, <2>2, <2>5
    <2>7. k + 1 <= f => c # l /\ k <= f
      BY <1>2, <2>2
    <2>8. /\ k + 1 <= f => proc'[l].st = "none"
          /\ proc'[l].st # "none" => proc'[l].parent = 1
      BY <1>1, <1>2, <2>1, <2>7
    <2>9. QED
      BY <1>1, <1>4, <2>1, <2>4, <2>6, <2>8
  <1>7. ASSUME Reaps(1) PROVE Awaited'
    <2>1. PICK q \in Children(1) \ {1} :
              /\ proc'[q].st = "reaped" /\ proc'[q].parent = proc[q].parent
              /\ proc[q].st = "over"
              /\ proc'[1].st = "runs" /\ proc'[1].parent = proc[1].parent
              /\ proc'[1].pos = 0 /\ proc'[1].pc = proc[1].pc + 1
              /\ \A o \in Procs \ {1, q} : proc'[o] = proc[o]
      BY <1>2, <1>7, WaitReaps DEF IInv
    <2>2. Op(1).op = "wait" /\ proc[1].st = "runs" /\ q \in Procs
      BY <1>2, <1>7, <2>1, WaitReaps DEF IInv, Children
    <2>3. w <= k /\ k < w + n
      BY <1>2, <1>3, <2>2
    <2>4. Children(1)' = Children(1) \ {q}
      BY <1>1, <2>1, <2>2 DEF Children
    <2>5. /\ Cardinality(Children(1)') = Cardinality(Children(1)) - 1
          /\ Cardinality(Children(1)) \in Nat
      <3>1. Children(1) \in SUBSET (2 .. 1 + n) /\ q \in Children(1)
        BY <1>1, <1>2, <2>1
      <3>2. /\ Cardinality(Children(1) \ {q}) = Cardinality(Children(1)) - 1
            /\ Cardinality(Children(1)) \in Nat
        BY <1>2, <3>1, Counting
      <3>3. QED
        BY <2>4, <3>2
    <2>6. Cardinality(Children(1)') <= w + n - (k + 1)
      <3>1. Cardinality(Children(1)) <= w + n - k
        BY <1>1, <1>2, <2>3
      <3>2. w + n - k \in Int /\ w + n - (k + 1) = (w + n - k) - 1
        BY <1>2
      <3>3. QED
        BY <2>5, <3>1, <3>2
    <2>7. ~(k + 1 <= f)
      BY <1>2, <2>3
    <2>8. proc'[l].st # "none" => proc'[l].parent = 1
      BY <1>1, <1>2, <2>1, <2>2
    <2>9. Children(1)' \subseteq 2..l
      BY <1>1, <2>4
    <2>10. QED
      BY <1>1, <1>4, <2>1, <2>6, <2>7, <2>8, <2>9
  <1>8. ASSUME Stops(1) PROVE Awaited'
    <2>1. /\ proc \in [Procs -> Recs] /\ proc[1] \in Recs
      BY <1>2 DEF IInv, Records
    <2> DEFINE r == [proc[1] EXCEPT !.st = "over"]
    <2>2. r.st = "over" /\ r.parent = 0 /\ r.pos = 0 /\ r.pc = k
      BY <1>1, <2>1, Updates
    <2>3. proc' = [proc EXCEPT ![1] = r]
      BY <1>8 DEF Stops, Over
    <2> HIDE DEF r
    <2>4. proc'[1] = r /\ \A q \in Procs \ {1} : proc'[q] = proc[q]
      BY <1>2, <2>1, <2>3
    <2>5. proc[1].st = "runs" /\ Op(1).op \in {"pipe", "fork", "exit", "write"}
      BY <1>1, <1>8 DEF Stops, At, Runs
    <2>6. Children(1)' = Children(1)
      BY <1>1, <2>2, <2>4 DEF Children
    <2>7. k <= f \/ k = w + n
      BY <1>2, <1>3, <2>5
    <2>8. ASSUME k = w + n PROVE proc[l].st # "runs"
      <3>1. Cardinality(Children(1)) <= 0
        BY <1>1, <1>2, <2>8
      <3>2. Children(1) = {}
        BY <1>1, <1>2, <3>1, Counting
      <3>3. l \notin Children(1)
        BY <3>2
      <3>4. QED
        BY <1>1, <1>2, <3>3 DEF Children
    <2>9. proc[l].st # "runs"
      BY <1>1, <2>7, <2>8
    <2>10. QED
      BY <1>1, <1>2, <1>4, <2>2, <2>4, <2>6, <2>9
  <1>9. ~Exec(1) /\ ~Works(1)
    BY <1>1, <1>2, <1>3 DEF Exec, Works, At, Runs
  <1>10. QED
    BY <1>2, <1>5, <1>6, <1>7, <1>8, <1>9, Effects

\* Every step keeps the balance of children and waits.
LEMMA AwaitedNext == IInv /\ Awaited /\ [Next]_vars => Awaited'
  <1> SUFFICES ASSUME IInv, Awaited, [Next]_vars PROVE Awaited'
    OBVIOUS
  <1>1. ASSUME NEW p \in Procs, Act(p) PROVE Awaited'
    <2>1. prog' = prog
      BY <1>1, Effects DEF Pipe, Close, Dup2, Fork, Exec, Passes, Reaps, Works, Stops, Over
    <2>2. CASE prog \in Waiting
      <3>1. CASE p = 1
        BY <1>1, <2>1, <2>2, <3>1, AwaitedByMain
      <3>2. CASE p # 1
        BY <1>1, <2>1, <2>2, <3>2, AwaitedByOthers
      <3>3. QED
        BY <3>1, <3>2
    <2>3. CASE prog \notin Waiting
      BY <2>1, <2>3 DEF Awaited
    <2>4. QED
      BY <2>2, <2>3
  <1>2. ASSUME UNCHANGED vars PROVE Awaited'
    <2>1. Children(1)' = Children(1) /\ proc' = proc /\ prog' = prog
      BY <1>2 DEF vars, Children
    <2>2. QED
      BY <2>1 DEF Awaited
  <1>3. QED
    BY <1>1, <1>2 DEF Next, Act

\* There are no children at the start.
LEMMA AwaitedInit == Init => Awaited
  <1> SUFFICES ASSUME Init, prog \in Waiting PROVE Awaited
    BY DEF Awaited
  <1>1. IInv
    BY InitIInv
  <1>2. \A p \in Procs : /\ proc[p].parent = 0 /\ proc[p].pos = 0 /\ proc[p].pc = 1
                        /\ proc[p].st = IF p = 1 THEN "runs" ELSE "none"
    BY DEF Init, Started
  <1>3. Last(prog) \in Procs \ {1} /\ 1 \in Procs
    BY <1>1, WaitFacts
  <1>4. Children(1) = {}
    BY <1>2 DEF Children
  <1>5. ~(proc[1].pc >= FirstWait(prog))
    BY <1>2, <1>3 DEF FirstWait
  <1>6. QED
    BY <1>2, <1>3, <1>4, <1>5 DEF Awaited

\* The balance holds of every state that is reached.
LEMMA AwaitedInvariance == Spec => []Awaited
  BY AwaitedInit, AwaitedNext, Invariance, PTL DEF Spec

\* execPipe and docommand, pipe_example.c, twopipes.c and launch_job do not end or come
\* to a prompt while the last command of the pipeline runs: their calls of wait, which
\* name no child, are as many as the children that can be there.
THEOREM Prompt == Spec => []PromptAfterLast
  <1>1. IInv /\ Awaited => PromptAfterLast
    <2> SUFFICES ASSUME IInv, Awaited, prog \in Waiting, Done(1), NEW p \in Procs, Runs(p),
                        proc[p].pos = Commands(prog)
                 PROVE  FALSE
      BY DEF PromptAfterLast, Waiting
    <2>1. p = Last(prog) /\ proc[p].st = "runs"
      <3>1. /\ proc[p].pc \in 1..Len(Code(prog)[p])
            /\ Op(p).op = "exec" /\ Op(p).a = proc[p].pos /\ proc[p].st = "runs"
        BY DEF IInv, Records, Runs
      <3>2. QED
        BY <3>1, LastCode DEF Op
    <2>2. proc[1].st = "runs" /\ At(1, "prompt")
      BY <2>1 DEF Awaited, Done
    <2>3. proc[1].pc = FirstWait(prog) + Number(prog)
      <3> DEFINE k == proc[1].pc
      <3>1. /\ k \in 1 .. FirstWait(prog) + Number(prog) /\ Waits(Code(prog)[1], prog)
            /\ FirstWait(prog) \in Nat /\ Number(prog) \in Nat
        BY WaitFacts
      <3>2. Code(prog)[1][k].op = "prompt"
        BY <2>2 DEF At, Op
      <3> HIDE DEF k
      <3>3. Len(Code(prog)[1]) = FirstWait(prog) + Number(prog)
        BY <3>1 DEF Waits
      <3>4. k \in 1..Len(Code(prog)[1]) /\ ~(k < FirstWait(prog))
        BY <3>1, <3>2, <3>3 DEF Waits
      <3>5. ~(k \in FirstWait(prog) .. Len(Code(prog)[1]) - 1)
        BY <3>1, <3>2, <3>4 DEF Waits
      <3>6. k = FirstWait(prog) + Number(prog)
        BY <3>1, <3>3, <3>4, <3>5
      <3>7. QED
        BY <3>6 DEF k
    <2>4. /\ Number(prog) \in 1..3 /\ Last(prog) = 1 + Number(prog) /\ FirstWait(prog) \in Nat
          /\ Children(1) \subseteq 2..Last(prog)
          /\ proc[1].pc >= FirstWait(prog) =>
                Cardinality(Children(1)) <= FirstWait(prog) + Number(prog) - proc[1].pc
          /\ proc[Last(prog)].st # "none" => proc[Last(prog)].parent = 1
      BY WaitFacts DEF Awaited
    <2>5. Cardinality(Children(1)) <= 0
      BY <2>3, <2>4
    <2>6. Children(1) = {}
      BY <2>4, <2>5, Counting
    <2>7. p \in Children(1)
      BY <2>1, <2>4 DEF Children
    <2>8. QED
      BY <2>6, <2>7
  <1>2. QED
    BY <1>1, Invariance, AwaitedInvariance, PTL

-----------------------------------------------------------------------------
(* The ends a process keeps                                                *)

\* A command that runs has no pipe ends but its own, outside the programs that are
\* said to keep some, and whoever waits for children has none at all.
OnlyOwnEnds ==
    \A p \in Procs :
        /\ At(p, "wait") => \A f \in Fds : fds[p][f] \in {Closed, Terminal}
        /\ Runs(p) => \A f \in Fds : \A i \in Pipes :
              /\ fds[p][f] = WriteEnd(i) /\ prog \notin KeepWriteEnd => proc[p].pos = i
              /\ fds[p][f] = ReadEnd(i) /\ prog \notin KeepReadEnd => proc[p].pos = i + 1

\* The ends that may be open in process p of program g when it starts.
Handed(g, p) ==
    IF p = 1 THEN {}
    ELSE IF g = "twopipes" THEN 2..5
    ELSE IF g = "launch_job" /\ p = 3 THEN {2}
    ELSE IF g \in {"docommand", "pipe_example"} /\ p = 2 THEN {}
    ELSE 2..3

\* End a may be open at call k of s: it was handed over or is made before, and no call
\* before has closed it.
MayBeOpen(s, H, k, a) ==
    /\ \A i \in 1 .. k - 1 : ~(s[i].op = "close" /\ s[i].a = a)
    /\ (Makes(s, a) /\ a \div 2 < k) \/ a \in H

\* Whoever executes command c at call k of s has no write end but its own, no read end
\* but its own.
OwnWriteEnd(s, H) ==
    \A k \in 1..Len(s) : \A a \in 2..5 :
        s[k].op = "exec" /\ MayBeOpen(s, H, k, a) => a \in {2, 4, 2 * s[k].a + 1}
OwnReadEnd(s, H) ==
    \A k \in 1..Len(s) : \A a \in 2..5 :
        s[k].op = "exec" /\ MayBeOpen(s, H, k, a) => a \in {3, 5, 2 * (s[k].a - 1)}

\* A text that waits redirects nothing and has closed every end by then; no text
\* closes an end before it makes it.
Tidy(s, H) ==
    /\ \A k \in 1..Len(s) : \A a \in 2..5 : s[k].op = "wait" => ~MayBeOpen(s, H, k, a)
    /\ \A k \in 1..Len(s) : s[k].op = "wait" => Kept(s, k, 0) /\ Kept(s, k, 1)
    /\ \A i \in 1..Len(s) : s[i].op = "close" /\ Makes(s, s[i].a) => s[i].a \div 2 < i

Closes(s, H) == Tidy(s, H) /\ OwnWriteEnd(s, H) /\ OwnReadEnd(s, H)

\* The texts are tidy, and most of them close what is not theirs.
LEMMA TidyTexts ==
  /\ \A H : Closes(None, H)
  /\ Tidy(DraftShell, {}) /\ Tidy(DraftChild, 2..3)
  /\ Closes(ExecPipe, {}) /\ Closes(PipeExample, {})
  /\ Closes(docommand, {}) /\ Closes(docommandChild, 2..3)
  /\ Closes(PipeC, {}) /\ Closes(PipeChild, 2..3)
  /\ Closes(TwoPipes, {}) /\ Closes(TwoPipesCat, 2..5)
  /\ Closes(TwoPipesGrep, 2..5) /\ Closes(TwoPipesCut, 2..5)
  /\ Tidy(fork_pipes, {}) /\ Tidy(spawn_proc, 2..3)
  /\ Closes(ExamplePipe, {}) /\ Closes(ExamplePipeChild, 2..3)
  /\ Tidy(launch_job, {}) /\ OwnWriteEnd(launch_job, {})
  /\ Tidy(launch_process1, 2..3) /\ OwnWriteEnd(launch_process1, 2..3)
  /\ Tidy(launch_process2, {2}) /\ OwnWriteEnd(launch_process2, {2})
  <1> USE Calls, Upto DEF Closes, Tidy, OwnWriteEnd, OwnReadEnd, MayBeOpen, Makes, Kept
  <1>1. \A H : Closes(None, H)
    BY DEF None
  <1>2. Tidy(DraftShell, {}) /\ Tidy(DraftChild, 2..3)
    BY DEF DraftShell, DraftChild
  <1>3. Closes(ExecPipe, {}) /\ Closes(PipeExample, {})
    BY DEF ExecPipe, PipeExample
  <1>4. Closes(docommand, {})
    BY DEF docommand
  <1>5. Closes(docommandChild, 2..3)
    BY DEF docommandChild
  <1>6. Closes(PipeC, {})
    BY DEF PipeC
  <1>7. Closes(PipeChild, 2..3)
    BY DEF PipeChild
  <1>8. Closes(TwoPipes, {})
    BY TwoPipesCode
  <1>9. Closes(TwoPipesCat, 2..5)
    BY CatCode
  <1>10. Closes(TwoPipesGrep, 2..5)
    BY GrepCode
  <1>11. Closes(TwoPipesCut, 2..5)
    BY CutCode
  <1>12. Tidy(fork_pipes, {}) /\ Tidy(spawn_proc, 2..3)
    BY DEF fork_pipes, spawn_proc
  <1>13. Closes(ExamplePipe, {}) /\ Closes(ExamplePipeChild, 2..3)
    BY DEF ExamplePipe, ExamplePipeChild
  <1>14. Tidy(launch_job, {}) /\ OwnWriteEnd(launch_job, {})
    BY DEF launch_job
  <1>15. Tidy(launch_process1, 2..3) /\ OwnWriteEnd(launch_process1, 2..3)
    BY DEF launch_process1
  <1>16. Tidy(launch_process2, {2}) /\ OwnWriteEnd(launch_process2, {2})
    BY DEF launch_process2
  <1>17. QED
    BY <1>1, <1>2, <1>3, <1>4, <1>5, <1>6, <1>7, <1>8, <1>9, <1>10, <1>11, <1>12, <1>13,
       <1>14, <1>15, <1>16

\* Every process of every program is tidy with the ends handed to it.
LEMMA TidyCode ==
  ASSUME NEW g \in AllPrograms, NEW p \in Procs
  PROVE  /\ Tidy(Code(g)[p], Handed(g, p))
         /\ g \notin KeepWriteEnd => OwnWriteEnd(Code(g)[p], Handed(g, p))
         /\ g \notin KeepReadEnd => OwnReadEnd(Code(g)[p], Handed(g, p))
  <1> USE TidyTexts, CodeOf DEF Procs, Handed, KeepWriteEnd, KeepReadEnd, Closes
  <1>1. CASE g = "draft"
    BY <1>1
  <1>2. CASE g = "docommand"
    BY <1>2
  <1>3. CASE g = "pipe_example"
    BY <1>3
  <1>4. CASE g = "pipe"
    BY <1>4
  <1>5. CASE g = "twopipes"
    BY <1>5
  <1>6. CASE g = "pipes"
    BY <1>6
  <1>7. CASE g = "examplePipe"
    BY <1>7
  <1>8. CASE g = "launch_job"
    BY <1>8
  <1>9. QED
    BY <1>1, <1>2, <1>3, <1>4, <1>5, <1>6, <1>7, <1>8 DEF AllPrograms

\* What the parents may have open when they fork.
LEMMA HandingTexts ==
  /\ \A a : ~MayBeOpen(ExecPipe, {}, 1, a) /\ ~MayBeOpen(PipeExample, {}, 1, a)
  /\ \A a \in 2..5 : MayBeOpen(DraftShell, {}, 2, a) => a \in 2..3
  /\ \A a \in 2..5 : MayBeOpen(docommand, {}, 2, a) => a \in 2..3
  /\ \A a \in 2..5 : MayBeOpen(PipeC, {}, 2, a) => a \in 2..3
  /\ \A a \in 2..5 : MayBeOpen(fork_pipes, {}, 2, a) => a \in 2..3
  /\ \A a \in 2..5 : MayBeOpen(ExamplePipe, {}, 2, a) => a \in 2..3
  /\ \A a \in 2..5 : MayBeOpen(launch_job, {}, 2, a) => a \in 2..3
  /\ \A a \in 2..5 : MayBeOpen(launch_job, {}, 4, a) => a = 2
  <1> USE Calls DEF MayBeOpen, Makes
  <1>1. \A a : ~MayBeOpen(ExecPipe, {}, 1, a) /\ ~MayBeOpen(PipeExample, {}, 1, a)
    BY DEF ExecPipe, PipeExample
  <1>2. \A a \in 2..5 : MayBeOpen(DraftShell, {}, 2, a) => a \in 2..3
    BY DEF DraftShell
  <1>3. \A a \in 2..5 : MayBeOpen(docommand, {}, 2, a) => a \in 2..3
    BY DEF docommand
  <1>4. \A a \in 2..5 : MayBeOpen(PipeC, {}, 2, a) => a \in 2..3
    BY DEF PipeC
  <1>5. \A a \in 2..5 : MayBeOpen(fork_pipes, {}, 2, a) => a \in 2..3
    BY DEF fork_pipes
  <1>6. \A a \in 2..5 : MayBeOpen(ExamplePipe, {}, 2, a) => a \in 2..3
    BY DEF ExamplePipe
  <1>7. \A a \in 2..5 : MayBeOpen(launch_job, {}, 2, a) => a \in 2..3
    BY DEF launch_job
  <1>8. \A a \in 2..5 : MayBeOpen(launch_job, {}, 4, a) => a = 2
    BY DEF launch_job
  <1>9. QED
    BY <1>1, <1>2, <1>3, <1>4, <1>5, <1>6, <1>7, <1>8

\* A child is handed no end but those of Handed.
LEMMA HandsNoMore ==
  ASSUME NEW g \in AllPrograms, NEW p \in Procs, NEW j \in 1..Len(Code(g)[p]),
         Code(g)[p][j].op = "fork", NEW a \in 2..5,
         MayBeOpen(Code(g)[p], Handed(g, p), j, a)
  PROVE  a \in Handed(g, Code(g)[p][j].a)
  <1>1. \A s : Never("fork", s) => \A i \in 1..Len(s) : s[i].op # "fork"
    BY DEF Never
  <1> USE DEF OneFork, Handed
  <1>2. CASE g = "draft"
    <2>1. p = 1 => j = 2 /\ Code(g)[p] = DraftShell /\ Code(g)[p][j].a = 2
      BY <1>2, Forks, CodeOf
    <2>2. p = 1
      BY <1>1, <1>2, NeverForks, CodeOf DEF Procs
    <2>3. MayBeOpen(DraftShell, {}, 2, a) => a \in 2..3
      BY HandingTexts
    <2>4. QED
      BY <1>2, <2>1, <2>2, <2>3
  <1>3. CASE g = "docommand"
    BY <1>1, <1>3, Forks, NeverForks, HandingTexts, CodeOf DEF Procs
  <1>4. CASE g = "pipe_example"
    BY <1>1, <1>4, Forks, NeverForks, HandingTexts, CodeOf DEF Procs
  <1>5. CASE g = "pipe"
    BY <1>1, <1>5, Forks, NeverForks, HandingTexts, CodeOf DEF Procs
  <1>6. CASE g = "twopipes"
    BY <1>1, <1>6, Forks, NeverForks, CodeOf DEF Procs
  <1>7. CASE g = "pipes"
    BY <1>1, <1>7, Forks, NeverForks, HandingTexts, CodeOf DEF Procs
  <1>8. CASE g = "examplePipe"
    BY <1>1, <1>8, Forks, NeverForks, HandingTexts, CodeOf DEF Procs
  <1>9. CASE g = "launch_job"
    BY <1>1, <1>9, Forks, NeverForks, HandingTexts, CodeOf DEF Procs
  <1>10. QED
    BY <1>2, <1>3, <1>4, <1>5, <1>6, <1>7, <1>8, <1>9 DEF AllPrograms

\* Table d of a process that has come to call k of s, with H handed over.
Within(s, H, k, d) == \A a \in 2..5 : d[a] # Closed => MayBeOpen(s, H, k, a)

\* A call opens what it makes and closes what it says.
LEMMA WithinNext ==
  ASSUME NEW g \in AllPrograms, NEW p \in Procs, NEW k \in 1..Len(Code(g)[p]), NEW d, NEW e,
         Within(Code(g)[p], Handed(g, p), k, d),
         \A a \in 2..5 : e[a] # Closed =>
            /\ ~(Code(g)[p][k].op = "close" /\ Code(g)[p][k].a = a)
            /\ d[a] # Closed \/ (Code(g)[p][k].op = "pipe" /\ a \div 2 = k)
  PROVE  Within(Code(g)[p], Handed(g, p), k + 1, e)
  <1> DEFINE s == Code(g)[p]
             H == Handed(g, p)
  <1>1. Tidy(s, H) /\ Len(s) \in Nat /\ k \in 1..Len(s)
    BY TidyCode, PlacedAt
  <1> HIDE DEF s, H
  <1>2. SUFFICES ASSUME NEW a \in 2..5, e[a] # Closed PROVE MayBeOpen(s, H, k + 1, a)
    BY DEF Within, s, H
  <1>3. ~(s[k].op = "close" /\ s[k].a = a)
    BY <1>2 DEF s
  <1>4. CASE d[a] # Closed
    <2>1. MayBeOpen(s, H, k, a)
      BY <1>4 DEF Within, s, H
    <2>2. \A i \in 1 .. (k + 1) - 1 : i \in 1 .. k - 1 \/ i = k
      BY <1>1
    <2>3. a \div 2 < k => a \div 2 < k + 1
      BY <1>1
    <2>4. QED
      BY <1>3, <2>1, <2>2, <2>3 DEF MayBeOpen
  <1>5. CASE s[k].op = "pipe" /\ a \div 2 = k
    <2>1. Makes(s, a) /\ a \div 2 < k + 1
      BY <1>1, <1>5 DEF Makes
    <2>2. ASSUME NEW i \in 1 .. (k + 1) - 1, s[i].op = "close", s[i].a = a PROVE FALSE
      <3>1. i \in 1..Len(s) /\ i <= k
        BY <1>1
      <3>2. a \div 2 < i
        BY <1>1, <2>1, <2>2, <3>1 DEF Tidy
      <3>3. QED
        BY <1>1, <1>5, <3>1, <3>2
    <2>3. QED
      BY <2>1, <2>2 DEF MayBeOpen
  <1>6. QED
    BY <1>2, <1>4, <1>5 DEF s

\* What a step does to a process that runs after it: nothing, or the next call, or its
\* start.
LEMMA Moves ==
  ASSUME IInv, NEW p \in Procs, Act(p), NEW q \in Procs, proc'[q].st = "runs"
  PROVE  /\ prog' = prog
         /\ \/ proc[q].st = "runs" /\ proc'[q].pc = proc[q].pc /\ fds'[q] = fds[q]
            \/ /\ q = p /\ proc[p].st = "runs" /\ proc'[p].pc = proc[p].pc + 1
               /\ \/ Op(p).op \notin {"close", "pipe"} /\ \A a \in 2..5 : fds'[p][a] = fds[p][a]
                  \/ /\ Op(p).op = "close" /\ fds'[p][Op(p).a] = Closed
                     /\ \A a \in 2..5 \ {Op(p).a} : fds'[p][a] = fds[p][a]
                  \/ /\ Op(p).op = "pipe"
                     /\ \A a \in 2..5 : a \div 2 # proc[p].pc => fds'[p][a] = fds[p][a]
            \/ /\ q = Op(p).a /\ proc[p].st = "runs" /\ Op(p).op = "fork"
               /\ proc'[q].pc = 1 /\ fds'[q] = fds[p]
  <1> DEFINE r == [proc[p] EXCEPT !.pc = @ + 1]
  <1>1. /\ proc \in [Procs -> Recs] /\ fds \in [Procs -> [Fds -> 0..5]] /\ proc[p] \in Recs
        /\ WellPlaced(Op(p), proc[p].pc, Len(Code(prog)[p]), p)
    BY Standing DEF IInv, Records
  <1>2. r \in Recs /\ r.pc = proc[p].pc + 1 /\ r.st = proc[p].st
    BY <1>1, Updates
  <1>3. Next1(p) = [proc EXCEPT ![p] = r]
    BY DEF Next1
  <1> HIDE DEF r
  <1>4. /\ Next1(p) \in [Procs -> Recs] /\ Next1(p)[p] = r
        /\ \A o \in Procs \ {p} : Next1(p)[o] = proc[o]
    BY <1>1, <1>2, <1>3
  <1>5. CASE Pipe(p)
    <2>1. Op(p).op = "pipe" /\ Op(p).a = proc[p].pc /\ proc[p].pc \in 1..2
      BY <1>1, <1>5 DEF Pipe, At, WellPlaced, Pipes
    <2>2. /\ prog' = prog /\ proc' = Next1(p) /\ proc[p].st = "runs"
          /\ fds' = [fds EXCEPT ![p][2 * proc[p].pc] = ReadEnd(proc[p].pc),
                                ![p][2 * proc[p].pc + 1] = WriteEnd(proc[p].pc)]
      BY <1>5, <2>1 DEF Pipe, At
    <2>3. /\ \A a \in 2..5 : a \div 2 # proc[p].pc => fds'[p][a] = fds[p][a]
          /\ \A o \in Procs \ {p} : fds'[o] = fds[o]
      BY <1>1, <2>1, <2>2 DEF Fds
    <2>4. QED
      BY <1>2, <1>4, <2>1, <2>2, <2>3
  <1>6. CASE Close(p)
    <2>1. /\ prog' = prog /\ proc' = Next1(p) /\ proc[p].st = "runs" /\ Op(p).op = "close"
          /\ fds' = [fds EXCEPT ![p][Op(p).a] = Closed] /\ Op(p).a \in 2..5
      BY <1>1, <1>6 DEF Close, At, WellPlaced
    <2>2. /\ fds'[p][Op(p).a] = Closed
          /\ \A a \in 2..5 \ {Op(p).a} : fds'[p][a] = fds[p][a]
          /\ \A o \in Procs \ {p} : fds'[o] = fds[o]
      BY <1>1, <2>1 DEF Fds
    <2>3. QED
      BY <1>2, <1>4, <2>1, <2>2
  <1>7. CASE Dup2(p)
    <2>1. /\ prog' = prog /\ proc' = Next1(p) /\ proc[p].st = "runs" /\ Op(p).op = "dup2"
          /\ Op(p).b \in 0..1
      BY <1>1, <1>7 DEF Dup2, At, WellPlaced
    <2>2. /\ \A a \in 2..5 : fds'[p][a] = fds[p][a]
          /\ \A o \in Procs \ {p} : fds'[o] = fds[o]
      BY <1>1, <1>7, <2>1 DEF Dup2, Fds
    <2>3. QED
      BY <1>2, <1>4, <2>1, <2>2
  <1>8. CASE Passes(p)
    BY <1>2, <1>4, <1>8 DEF Passes
  <1>9. CASE Reaps(p)
    <2>1. PICK o \in Children(p) :
              proc[o].st = "over" /\ proc' = [Next1(p) EXCEPT ![o].st = "reaped"]
      BY <1>9 DEF Reaps
    <2>2. /\ proc[p].st = "runs" /\ Op(p).op = "wait" /\ prog' = prog /\ fds' = fds
          /\ o \in Procs /\ o # p
      BY <1>9, <2>1 DEF Reaps, At, Children
    <2>3. proc'[p] = r /\ (\A x \in Procs \ {p, o} : proc'[x] = proc[x])
      BY <1>4, <2>1, <2>2
    <2>4. proc'[o].st = "reaped"
      <3>1. Next1(p)[o] \in Recs
        BY <1>4, <2>2
      <3>2. proc'[o] = [Next1(p)[o] EXCEPT !.st = "reaped"]
        BY <1>4, <2>1, <2>2
      <3>3. QED
        BY <3>1, <3>2, Updates
    <2>5. QED
      BY <1>2, <2>2, <2>3, <2>4
  <1>10. CASE Fork(p)
    <2> DEFINE c == Op(p).a
               new == [Started EXCEPT !.parent = p]
    <2>1. /\ prog' = prog /\ proc[p].st = "runs" /\ Op(p).op = "fork"
          /\ proc' = [Next1(p) EXCEPT ![c] = new] /\ fds' = [fds EXCEPT ![c] = fds[p]]
          /\ c \in Procs /\ c # p
      BY <1>1, <1>10 DEF Fork, At, WellPlaced, Procs
    <2>2. new.pc = 1
      BY Updates, <1>1 DEF Procs
    <2> HIDE DEF c, new
    <2>3. /\ proc'[c] = new /\ proc'[p] = r /\ fds'[c] = fds[p]
          /\ \A o \in Procs \ {c} : fds'[o] = fds[o]
          /\ \A o \in Procs \ {p, c} : proc'[o] = proc[o]
      BY <1>1, <1>4, <2>1
    <2>4. QED
      BY <1>2, <2>1, <2>2, <2>3 DEF c
  <1>11. CASE Exec(p)
    <2>1. proc' = [proc EXCEPT ![p].pos = Op(p).a] /\ fds' = fds /\ prog' = prog
      BY <1>11 DEF Exec
    <2>2. proc'[q].st = proc[q].st /\ proc'[q].pc = proc[q].pc
      BY <1>1, <2>1 DEF Recs
    <2>3. QED
      BY <2>1, <2>2
  <1>12. CASE Works(p)
    <2>1. fds' = fds /\ prog' = prog
      BY <1>12 DEF Works
    <2>2. CASE proc' = [proc EXCEPT ![p].n = @ + 1]
      <3> DEFINE u == [proc[p] EXCEPT !.n = @ + 1]
      <3>1. u.st = proc[p].st /\ u.pc = proc[p].pc
        BY <1>1 DEF Recs
      <3>2. proc' = [proc EXCEPT ![p] = u]
        BY <2>2
      <3> HIDE DEF u
      <3>3. proc'[p] = u /\ \A o \in Procs \ {p} : proc'[o] = proc[o]
        BY <1>1, <3>2
      <3>4. QED
        BY <2>1, <3>1, <3>3
    <2>3. ASSUME NEW v \in BOOLEAN, proc' = [proc EXCEPT ![p].has = v]
          PROVE  proc'[q].st = proc[q].st /\ proc'[q].pc = proc[q].pc
      <3> DEFINE u == [proc[p] EXCEPT !.has = v]
      <3>1. u.st = proc[p].st /\ u.pc = proc[p].pc
        BY <1>1 DEF Recs
      <3>2. proc' = [proc EXCEPT ![p] = u]
        BY <2>3
      <3> HIDE DEF u
      <3>3. proc'[p] = u /\ \A o \in Procs \ {p} : proc'[o] = proc[o]
        BY <1>1, <3>2
      <3>4. QED
        BY <3>1, <3>3
    <2>4. QED
      BY <1>12, <2>1, <2>2, <2>3 DEF Works
  <1>13. CASE Stops(p)
    <2>1. /\ proc' = [proc EXCEPT ![p] = [proc[p] EXCEPT !.st = "over"]] /\ prog' = prog
          /\ fds' = [fds EXCEPT ![p] = NoFds]
      BY <1>13 DEF Stops, Over
    <2>2. proc'[p].st = "over" /\ \A o \in Procs \ {p} : proc'[o] = proc[o] /\ fds'[o] = fds[o]
      BY <1>1, <2>1, Updates
    <2>3. QED
      BY <2>1, <2>2
  <1>14. QED
    BY <1>5, <1>6, <1>7, <1>8, <1>9, <1>10, <1>11, <1>12, <1>13, Effects

\* The inductive invariant for OnlyOwnEnds: no process has more open than the calls it
\* has made allow.
NoMore ==
    \A p \in Procs :
        proc[p].st = "runs" => Within(Code(prog)[p], Handed(prog, p), proc[p].pc, fds[p])

\* Every step keeps it: a call opens and closes what it says, a child starts with what
\* its parent could have open.
LEMMA NoMoreNext == IInv /\ NoMore /\ [Next]_vars => NoMore'
  <1> SUFFICES ASSUME IInv, NoMore, [Next]_vars PROVE NoMore'
    OBVIOUS
  <1>1. ASSUME UNCHANGED vars PROVE NoMore'
    BY <1>1 DEF vars, NoMore
  <1>2. ASSUME NEW p \in Procs, Act(p), NEW q \in Procs, proc'[q].st = "runs"
        PROVE  prog' = prog /\ Within(Code(prog)[q], Handed(prog, q), proc'[q].pc, fds'[q])
    <2>1. /\ prog' = prog /\ prog \in AllPrograms
          /\ proc[p].pc \in 1..Len(Code(prog)[p])
          /\ WellPlaced(Op(p), proc[p].pc, Len(Code(prog)[p]), p)
      BY <1>2, Moves, Standing DEF IInv
    <2>2. CASE proc[q].st = "runs" /\ proc'[q].pc = proc[q].pc /\ fds'[q] = fds[q]
      BY <2>1, <2>2 DEF NoMore
    <2>3. CASE /\ q = p /\ proc[p].st = "runs" /\ proc'[p].pc = proc[p].pc + 1
               /\ \/ Op(p).op \notin {"close", "pipe"} /\ \A a \in 2..5 : fds'[p][a] = fds[p][a]
                  \/ /\ Op(p).op = "close" /\ fds'[p][Op(p).a] = Closed
                     /\ \A a \in 2..5 \ {Op(p).a} : fds'[p][a] = fds[p][a]
                  \/ /\ Op(p).op = "pipe"
                     /\ \A a \in 2..5 : a \div 2 # proc[p].pc => fds'[p][a] = fds[p][a]
      <3> DEFINE s == Code(prog)[p]
                 k == proc[p].pc
                 e == fds'[p]
      <3>1. Within(s, Handed(prog, p), k, fds[p])
        BY <2>3 DEF NoMore
      <3>2. \A a \in 2..5 : e[a] # Closed =>
               /\ ~(s[k].op = "close" /\ s[k].a = a)
               /\ fds[p][a] # Closed \/ (s[k].op = "pipe" /\ a \div 2 = k)
        BY <2>3 DEF Op
      <3> HIDE DEF e
      <3>3. Within(s, Handed(prog, p), k + 1, e)
        BY <2>1, <3>1, <3>2, WithinNext
      <3>4. QED
        BY <2>1, <2>3, <3>3 DEF e
    <2>4. CASE /\ q = Op(p).a /\ proc[p].st = "runs" /\ Op(p).op = "fork"
               /\ proc'[q].pc = 1 /\ fds'[q] = fds[p]
      <3>1. Within(Code(prog)[p], Handed(prog, p), proc[p].pc, fds[p])
        BY <2>4 DEF NoMore
      <3>2. \A a \in 2..5 : fds[p][a] # Closed => a \in Handed(prog, q)
        BY <2>1, <2>4, <3>1, HandsNoMore DEF Op, Within
      <3>3. \A a : a \in Handed(prog, q) => MayBeOpen(Code(prog)[q], Handed(prog, q), 1, a)
        BY DEF MayBeOpen
      <3>4. QED
        BY <2>1, <2>4, <3>2, <3>3 DEF Within
    <2>5. QED
      BY <1>2, <2>2, <2>3, <2>4, Moves
  <1>3. ASSUME NEW p \in Procs, Act(p) PROVE NoMore'
    BY <1>2, <1>3, Moves DEF NoMore
  <1>4. QED
    BY <1>1, <1>3 DEF Next, Act

\* The program starts with the terminal alone.
LEMMA NoMoreInit == Init => NoMore
  <1> SUFFICES ASSUME Init, NEW p \in Procs, proc[p].st = "runs", NEW a \in 2..5
               PROVE  fds[p][a] = Closed
    BY DEF NoMore, Within
  <1>1. p = 1
    BY DEF Init, Started
  <1>2. QED
    BY <1>1 DEF Init, NoFds, Fds, Closed

\* No stray ends, whichever calls fail: a command has no write end but that of the pipe
\* behind it and no read end but that of the pipe before it, where the programs
\* do not keep one, and the shells that wait for their pipeline have closed all of
\* theirs.  It is what end of file and SIGPIPE, and with them the property Ends,
\* depend on.
THEOREM NoStrayEnds == Spec => []OnlyOwnEnds
  <1>1. IInv /\ NoMore => OnlyOwnEnds
    <2> SUFFICES ASSUME IInv, NoMore, NEW p \in Procs, proc[p].st = "runs"
                 PROVE  /\ At(p, "wait") => \A f \in Fds : fds[p][f] \in {Closed, Terminal}
                        /\ Runs(p) => \A f \in Fds : \A i \in Pipes :
                              /\ fds[p][f] = WriteEnd(i) /\ prog \notin KeepWriteEnd
                                    => proc[p].pos = i
                              /\ fds[p][f] = ReadEnd(i) /\ prog \notin KeepReadEnd
                                    => proc[p].pos = i + 1
      BY DEF OnlyOwnEnds, At, Runs
    <2> DEFINE s == Code(prog)[p]
               k == proc[p].pc
               H == Handed(prog, p)
               d == fds[p]
    <2>1. /\ prog \in AllPrograms /\ k \in 1..Len(s) /\ s[k] = Op(p)
          /\ Fits(prog, s, k, d) /\ Within(s, H, k, d)
          /\ proc[p].pos > 0 => s[k].op = "exec" /\ s[k].a = proc[p].pos
          /\ proc[p].pos \in 0..3
      BY Standing, SameTable DEF IInv, Records, NoMore, Op, Recs
    <2>2. /\ Tidy(s, H)
          /\ prog \notin KeepWriteEnd => OwnWriteEnd(s, H)
          /\ prog \notin KeepReadEnd => OwnReadEnd(s, H)
      BY <2>1, TidyCode
    <2>3. Runs(p) /\ ~(prog = "pipes" /\ p = 2 /\ proc[p].pos = 2) =>
              /\ d[0] = IF proc[p].pos = 1 THEN Terminal ELSE ReadEnd(proc[p].pos - 1)
              /\ d[1] = IF proc[p].pos = Commands(prog) THEN Terminal ELSE WriteEnd(proc[p].pos)
      BY <2>1, FitsExec DEF Runs
    <2> HIDE DEF s, k, H, d
    <2>4. \A a \in 2..5 : d[a] \in {Closed, a} /\ (d[a] # Closed => MayBeOpen(s, H, k, a))
      BY <2>1 DEF Fits, Sound, Within
    <2>5. \A f \in Fds : f \in {0, 1} \/ f \in 2..5
      BY DEF Fds
    <2>6. ASSUME At(p, "wait") PROVE \A f \in Fds : d[f] \in {Closed, Terminal}
      <3>1. s[k].op = "wait"
        BY <2>1, <2>6 DEF At
      <3>2. \A a \in 2..5 : d[a] = Closed
        BY <2>1, <2>2, <2>4, <3>1 DEF Tidy
      <3>3. Kept(s, k, 0) /\ Kept(s, k, 1)
        BY <2>1, <2>2, <3>1 DEF Tidy
      <3>4. d[0] = Terminal /\ d[1] = Terminal
        BY <2>1, <3>3 DEF Fits
      <3>5. QED
        BY <2>5, <3>2, <3>4
    <2>7. ASSUME Runs(p), NEW f \in Fds, NEW i \in Pipes, d[f] = WriteEnd(i),
                 prog \notin KeepWriteEnd
          PROVE  proc[p].pos = i
      <3>1. d[0] # WriteEnd(i) /\ (d[1] = WriteEnd(i) => proc[p].pos = i)
        BY <2>1, <2>3, <2>7 DEF KeepWriteEnd, WriteEnd, ReadEnd, Terminal, Pipes, Runs
      <3>2. f \in 2..5 => f \in {2, 4, 2 * proc[p].pos + 1} /\ f = WriteEnd(i)
        BY <2>1, <2>2, <2>4, <2>7 DEF OwnWriteEnd, Runs, WriteEnd, Pipes, Closed
      <3>3. f \in 2..5 => proc[p].pos = i
        BY <2>1, <3>2 DEF WriteEnd, Pipes
      <3>4. QED
        BY <2>5, <2>7, <3>1, <3>3
    <2>8. ASSUME Runs(p), NEW f \in Fds, NEW i \in Pipes, d[f] = ReadEnd(i),
                 prog \notin KeepReadEnd
          PROVE  proc[p].pos = i + 1
      <3>1. d[1] # ReadEnd(i) /\ (d[0] = ReadEnd(i) => proc[p].pos = i + 1)
        BY <2>1, <2>3, <2>8 DEF KeepReadEnd, WriteEnd, ReadEnd, Terminal, Pipes, Runs
      <3>2. f \in 2..5 => f \in {3, 5, 2 * (proc[p].pos - 1)} /\ f = ReadEnd(i)
        BY <2>1, <2>2, <2>4, <2>8 DEF OwnReadEnd, Runs, ReadEnd, Pipes, Closed
      <3>3. f \in 2..5 => proc[p].pos = i + 1
        BY <2>1, <3>2 DEF ReadEnd, Pipes
      <3>4. QED
        BY <2>5, <2>8, <3>1, <3>3
    <2>9. QED
      BY <2>6, <2>7, <2>8 DEF d
  <1>2. Spec => []NoMore
    BY Invariance, NoMoreInit, NoMoreNext, PTL DEF Spec
  <1>3. QED
    BY <1>1, <1>2, Invariance, PTL

-----------------------------------------------------------------------------
(***************************************************************************)
(* syn_thread_2 (module SynThread2), for every NumThreads.                 *)
(*                                                                         *)
(* The argument never looks at the mutex.  A thread that has passed its    *)
(* parity test and not yet stored the new shared_data is Printing; the     *)
(* parity of shared_data is then its own, and only it can change it.  So   *)
(* at most one thread prints, the other one cannot have read a stale even  *)
(* or odd value, and the length of the output is a function of shared_data *)
(* and of how far the printing thread has got.                             *)
(***************************************************************************)

Printing(t) == pc[t] \in {"display", "load", "store"} \/ (t = "ab" /\ pc[t] = "lock")

\* From the start of its loop to its store, print_cd has seen shared_data below
\* 2*NUM_THREADS, and it stays below.
CdInLoop == pc["cd"] \notin {"signal", "unlock", "while", "done"}

\* Characters thread t has written and not yet counted in shared_data.
Uncounted(t) ==
    IF pc[t] = "display" THEN chars[t]
    ELSE IF pc[t] \in {"load", "store"} THEN Len(Text(t)) ELSE 0

\* Characters that shared_data accounts for.
Counted == 5 * (shared_data \div 2) + 2 * (shared_data % 2)

Progress ==
    /\ \A t \in Threads : Printing(t) => shared_data % 2 = Parity(t)
    /\ \A t \in Threads : pc[t] = "store" => reg[t] = shared_data
    /\ \A t \in Threads : pc[t] = "display" => chars[t] < Len(Text(t))
    /\ \A t \in Threads : pc[t] # "display" => chars[t] = 0
    /\ CdInLoop => shared_data < 2 * NumThreads
    /\ \A t \in Threads : pc[t] = "done" => shared_data >= 2 * NumThreads
    /\ Len(out) = Counted + Uncounted("ab") + Uncounted("cd")

\* The inductive invariant.
PairsIInv == ThreadsTypeOK /\ Progress

-----------------------------------------------------------------------------

\* The program starts in the invariant.
LEMMA PairsStart == ThreadsInit => PairsIInv
  <1> SUFFICES ASSUME ThreadsInit PROVE PairsIInv
    OBVIOUS
  <1> USE NumThreadsAssumption DEF ThreadsInit, Threads, Start
  <1>1. ThreadsTypeOK
    <2>1. lock \in BOOLEAN /\ waiters \subseteq Threads
      OBVIOUS
    <2>2. /\ shared_data \in 0 .. 2 * NumThreads + 1
          /\ 0 \in 0 .. 2 * NumThreads + 1
      OBVIOUS
    <2>3. pc \in [Threads -> PC] /\ chars \in [Threads -> 0..2]
      BY DEF PC
    <2>4. reg \in [Threads -> 0 .. 2 * NumThreads + 1]
      BY <2>2
    <2>5. out \in Seq({"a", "b", "c", "d", "newline"})
      OBVIOUS
    <2>6. QED
      BY <2>1, <2>2, <2>3, <2>4, <2>5 DEF ThreadsTypeOK
  <1>2. /\ \A t \in Threads : ~Printing(t) /\ pc[t] \notin {"store", "display", "done"}
        /\ shared_data < 2 * NumThreads
    BY DEF Printing
  <1>3. Len(out) = Counted + Uncounted("ab") + Uncounted("cd")
    BY DEF Counted, Uncounted
  <1>4. QED
    BY <1>1, <1>2, <1>3 DEF PairsIInv, Progress

\* Every step of either thread keeps it.
LEMMA PairsPreserved == PairsIInv /\ [ThreadsNext]_threadVars => PairsIInv'
  <1> SUFFICES ASSUME PairsIInv, [ThreadsNext]_threadVars PROVE PairsIInv'
    OBVIOUS
  <1> USE NumThreadsAssumption DEF PairsIInv, ThreadsTypeOK, Threads, PC, GoTo
  <1>1. ASSUME NEW t \in Threads, Check(t) PROVE PairsIInv'
    <2>1. ThreadsTypeOK'
      BY <1>1, SMTT(60)
      DEF Check, Progress, Parity, Printing, CdInLoop, Text, Uncounted, Counted
    <2>2. Progress'
      BY <1>1, SMTT(60)
      DEF Check, Progress, Parity, Printing, CdInLoop, Text, Uncounted, Counted
    <2>3. QED
      BY <2>1, <2>2
  <1>2. ASSUME NEW t \in Threads, Lock(t) PROVE PairsIInv'
    <2>1. ThreadsTypeOK'
      BY <1>2, SMTT(60) DEF Lock, Progress, Parity, Printing, CdInLoop, Text, Uncounted, Counted
    <2>2. Progress'
      BY <1>2, SMTT(60) DEF Lock, Progress, Parity, Printing, CdInLoop, Text, Uncounted, Counted
    <2>3. QED
      BY <2>1, <2>2
  <1>3. ASSUME NEW t \in Threads, Display(t) PROVE PairsIInv'
    <2>1. ThreadsTypeOK'
      BY <1>3, SMTT(60)
      DEF Display, Progress, Parity, Printing, CdInLoop, Text, Uncounted, Counted
    <2>2. Progress'
      BY <1>3, SMTT(60)
      DEF Display, Progress, Parity, Printing, CdInLoop, Text, Uncounted, Counted
    <2>3. QED
      BY <2>1, <2>2
  <1>4. ASSUME NEW t \in Threads, Load(t) PROVE PairsIInv'
    <2>1. ThreadsTypeOK'
      BY <1>4, SMTT(60) DEF Load, Progress, Parity, Printing, CdInLoop, Text, Uncounted, Counted
    <2>2. Progress'
      BY <1>4, SMTT(60) DEF Load, Progress, Parity, Printing, CdInLoop, Text, Uncounted, Counted
    <2>3. QED
      BY <2>1, <2>2
  <1>5. ASSUME NEW t \in Threads, Store(t) PROVE PairsIInv'
    <2>1. ThreadsTypeOK'
      BY <1>5, SMTT(60)
      DEF Store, Progress, Parity, Printing, CdInLoop, Text, Uncounted, Counted
    <2>2. /\ shared_data' = shared_data + 1
          /\ shared_data % 2 = Parity(t)
          /\ \A u \in Threads \ {t} : ~Printing(u)
      BY <1>5 DEF Store, Progress, Printing, Parity
    <2>3. \A u \in Threads \ {t} : pc'[u] = pc[u] /\ ~(Printing(u)')
      BY <1>5, <2>2 DEF Store, Printing
    <2>4. pc[t] = "store" /\ pc'[t] = "signal" /\ UNCHANGED <<reg, chars, out>>
      BY <1>5 DEF Store
    <2>5. \A u \in Threads : ~(Printing(u)')
      BY <2>3, <2>4 DEF Printing
    <2>6. Counted' = Counted + Len(Text(t))
      BY <2>2 DEF Counted, Parity, Text
    <2>7. /\ \A u \in Threads : (Uncounted(u))' = 0
          /\ Uncounted("ab") + Uncounted("cd") = Len(Text(t))
      BY <2>2, <2>3, <2>4, <2>5, SMTT(30) DEF Uncounted, Printing, Text
    <2>8. (CdInLoop => shared_data < 2 * NumThreads)'
      BY <2>2, <2>3, <2>4, SMTT(30) DEF CdInLoop, Parity, Progress
    <2>9. (\A u \in Threads : pc[u] = "store" => reg[u] = shared_data)'
      BY <2>5 DEF Printing
    <2>10. (\A u \in Threads :
               /\ pc[u] = "display" => chars[u] < Len(Text(u))
               /\ pc[u] # "display" => chars[u] = 0)'
      BY <2>3, <2>4 DEF Progress, Text
    <2>11. (\A u \in Threads : pc[u] = "done" => shared_data >= 2 * NumThreads)'
      BY <2>2, <2>3, <2>4 DEF Progress
    <2>12. (Len(out) = Counted + Uncounted("ab") + Uncounted("cd"))'
      <3>1. Len(out) = Counted + (Uncounted("ab") + Uncounted("cd"))
        <4>1. /\ Counted \in Int
              /\ \A u \in Threads : Uncounted(u) \in Int
          BY DEF Counted, Uncounted, Text
        <4>2. QED
          BY <4>1 DEF Progress
      <3>2. Len(out)' = Counted' + 0 + 0
        <4>1. Counted' \in Int
          BY <2>2 DEF Counted
        <4>2. QED
          BY <3>1, <4>1, <2>4, <2>6, <2>7
      <3>3. QED
        BY <3>2, <2>7
    <2>13. (\A u \in Threads : Printing(u) => shared_data % 2 = Parity(u))'
      BY <2>5
    <2>14. Progress'
      BY <2>8, <2>9, <2>10, <2>11, <2>12, <2>13 DEF Progress
    <2>15. QED
      BY <2>1, <2>14
  <1>6. ASSUME NEW t \in Threads, Signal(t) PROVE PairsIInv'
    <2>1. ThreadsTypeOK'
      <3>1. lock' \in BOOLEAN
        BY <1>6 DEF Signal
      <3>2. waiters' \subseteq Threads
        BY <1>6 DEF Signal
      <3>3. pc' \in [Threads -> PC]
        BY <1>6 DEF Signal
      <3>4. UNCHANGED <<shared_data, reg, chars, out>>
        BY <1>6 DEF Signal
      <3>5. QED
        BY <3>1, <3>2, <3>3, <3>4
    <2>2. Progress'
      BY <1>6, SMTT(60)
      DEF Signal, Progress, Parity, Printing, CdInLoop, Text, Uncounted, Counted
    <2>3. QED
      BY <2>1, <2>2
  <1>7. ASSUME NEW t \in Threads, CondWait(t) PROVE PairsIInv'
    <2>1. ThreadsTypeOK'
      BY <1>7, SMTT(60)
      DEF CondWait, Progress, Parity, Printing, CdInLoop, Text, Uncounted, Counted
    <2>2. Progress'
      BY <1>7, SMTT(60)
      DEF CondWait, Progress, Parity, Printing, CdInLoop, Text, Uncounted, Counted
    <2>3. QED
      BY <2>1, <2>2
  <1>8. ASSUME NEW t \in Threads, Release(t) PROVE PairsIInv'
    <2>1. ThreadsTypeOK'
      <3>1. lock' \in BOOLEAN
        BY <1>8 DEF Release
      <3>2. waiters' \subseteq Threads
        BY <1>8 DEF Release
      <3>3. pc' \in [Threads -> PC]
        BY <1>8 DEF Release
      <3>4. UNCHANGED <<shared_data, reg, chars, out>>
        BY <1>8 DEF Release
      <3>5. QED
        BY <3>1, <3>2, <3>3, <3>4
    <2>2. Progress'
      BY <1>8, SMTT(60)
      DEF Release, Progress, Parity, Printing, CdInLoop, Text, Uncounted, Counted
    <2>3. QED
      BY <2>1, <2>2
  <1>9. ASSUME NEW t \in Threads, Wake(t) PROVE PairsIInv'
    <2>1. ThreadsTypeOK'
      BY <1>9, SMTT(60) DEF Wake, Progress, Parity, Printing, CdInLoop, Text, Uncounted, Counted
    <2>2. Progress'
      BY <1>9, SMTT(60) DEF Wake, Progress, Parity, Printing, CdInLoop, Text, Uncounted, Counted
    <2>3. QED
      BY <2>1, <2>2
  <1>10. ASSUME NEW t \in Threads, Spurious(t) PROVE PairsIInv'
    <2>1. ThreadsTypeOK'
      BY <1>10, SMTT(60)
      DEF Spurious, Progress, Parity, Printing, CdInLoop, Text, Uncounted, Counted
    <2>2. Progress'
      BY <1>10, SMTT(60)
      DEF Spurious, Progress, Parity, Printing, CdInLoop, Text, Uncounted, Counted
    <2>3. QED
      BY <2>1, <2>2
  <1>11. ASSUME NEW t \in Threads, Relock(t) PROVE PairsIInv'
    <2>1. ThreadsTypeOK'
      BY <1>11, SMTT(60)
      DEF Relock, Progress, Parity, Printing, CdInLoop, Text, Uncounted, Counted
    <2>2. Progress'
      BY <1>11, SMTT(60)
      DEF Relock, Progress, Parity, Printing, CdInLoop, Text, Uncounted, Counted
    <2>3. QED
      BY <2>1, <2>2
  <1>12. ASSUME NEW t \in Threads, Unlock(t) PROVE PairsIInv'
    <2>1. ThreadsTypeOK'
      <3>1. lock' \in BOOLEAN
        BY <1>12 DEF Unlock
      <3>2. waiters' \subseteq Threads
        BY <1>12 DEF Unlock
      <3>3. pc' \in [Threads -> PC]
        BY <1>12 DEF Unlock
      <3>4. UNCHANGED <<shared_data, reg, chars, out>>
        BY <1>12 DEF Unlock
      <3>5. QED
        BY <3>1, <3>2, <3>3, <3>4
    <2>2. Progress'
      BY <1>12, SMTT(60)
      DEF Unlock, Progress, Parity, Printing, CdInLoop, Text, Uncounted, Counted
    <2>3. QED
      BY <2>1, <2>2
  <1>13. ASSUME NEW t \in Threads, While(t) PROVE PairsIInv'
    <2>1. ThreadsTypeOK'
      BY <1>13, SMTT(60)
      DEF While, Start, Progress, Parity, Printing, CdInLoop, Text, Uncounted, Counted
    <2>2. Progress'
      BY <1>13, SMTT(60)
      DEF While, Start, Progress, Parity, Printing, CdInLoop, Text, Uncounted, Counted
    <2>3. QED
      BY <2>1, <2>2
  <1>14. CASE UNCHANGED threadVars
    BY <1>14 DEF threadVars, Progress, Parity, Printing, CdInLoop, Text, Uncounted, Counted
  <1>15. QED
    BY <1>1, <1>2, <1>3, <1>4, <1>5, <1>6, <1>7, <1>8, <1>9, <1>10, <1>11, <1>12,
       <1>13, <1>14 DEF ThreadsNext, ThreadStep, Finished

\* The invariant holds of every state that is reached.
LEMMA PairsInvariance == ThreadsSpec => []PairsIInv
  BY PairsStart, PairsPreserved, PTL DEF ThreadsSpec

\* Type correctness of syn_thread_2, with shared_data at most 2*NUM_THREADS + 1.
THEOREM ThreadsTypeCorrect == ThreadsSpec => []ThreadsTypeOK
  <1>1. PairsIInv => ThreadsTypeOK
    BY DEF PairsIInv
  <1>2. QED
    BY <1>1, PairsInvariance, PTL

\* When both threads of syn_thread_2 have returned, exactly NUM_THREADS lines were
\* written, or these and one "ab" more.
THEOREM AllPairs == ThreadsSpec => []AllPairsAtTheEnd
  <1>1. PairsIInv => AllPairsAtTheEnd
    BY NumThreadsAssumption, SMTT(30)
    DEF PairsIInv, Progress, ThreadsTypeOK, AllPairsAtTheEnd, BothDone, Threads, Counted, Uncounted
  <1>2. QED
    BY <1>1, PairsInvariance, PTL

-----------------------------------------------------------------------------

\* The character display writes next is the next one of the cycle.
LEMMA DisplayContinues ==
  ASSUME PairsIInv, NEW t \in Threads, Display(t)
  PROVE  Cyc!Next
  <1>1. /\ shared_data \in Nat
        /\ shared_data % 2 = Parity(t)
        /\ \A u \in Threads \ {t} : ~Printing(u)
        /\ chars[t] \in 0 .. Len(Text(t)) - 1
    BY DEF Display, PairsIInv, Progress, ThreadsTypeOK, Threads, Printing, Parity, Text
  <1>2. Len(out) = 5 * (shared_data \div 2) + IF t = "ab" THEN chars[t] ELSE 2 + chars[t]
    <2>1. Uncounted(t) = chars[t] /\ \A u \in Threads \ {t} : Uncounted(u) = 0
      BY <1>1 DEF Display, Uncounted, Printing
    <2>2. Uncounted("ab") + Uncounted("cd") = chars[t]
      BY <1>1, <2>1 DEF Threads, Text
    <2>3. Counted = 5 * (shared_data \div 2) + IF t = "ab" THEN 0 ELSE 2
      BY <1>1 DEF Counted, Parity
    <2>4. Len(out) = Counted + (Uncounted("ab") + Uncounted("cd"))
      BY <1>1, <2>1 DEF PairsIInv, Progress, Threads, Text, Counted
    <2>5. QED
      BY <1>1, <2>2, <2>3, <2>4 DEF Text
  <1>3. \A q \in Nat, k \in 0..4 : (5 * q + k) % 5 = k
    BY SMTT(30)
  <1>4. Len(out) % 5 = IF t = "ab" THEN chars[t] ELSE 2 + chars[t]
    BY <1>1, <1>2, <1>3 DEF Text, Threads
  <1>5. QED
    BY <1>1, <1>4, SMTT(60)
    DEF Display, PairsIInv, ThreadsTypeOK, Threads, Text, Cyc!Next, Cyc!NextChar

\* syn_thread_2 writes abcd lines and nothing else: it implements CyclicOutput,
\* although print_ab tests the parity and waits without holding the mutex.
THEOREM Refinement == ThreadsSpec => ImplementsCyclicOutput
  <1>1. ThreadsInit => Cyc!Init
    BY DEF ThreadsInit, Cyc!Init
  <1>2. PairsIInv /\ [ThreadsNext]_threadVars => [Cyc!Next]_out
    <2> SUFFICES ASSUME PairsIInv, ThreadsNext PROVE Cyc!Next \/ UNCHANGED out
      BY DEF threadVars
    <2>1. ASSUME NEW t \in Threads, Display(t) PROVE Cyc!Next
      BY <2>1, DisplayContinues
    <2>2. ASSUME NEW t \in Threads, ThreadStep(t) \/ Spurious(t), ~Display(t)
          PROVE  UNCHANGED out
      BY <2>2 DEF ThreadStep, Spurious, Check, Lock, Load, Store, Signal, CondWait, Release,
                  Wake, Relock, Unlock, While
    <2>3. CASE Finished
      BY <2>3 DEF Finished, threadVars
    <2>4. QED
      BY <2>1, <2>2, <2>3 DEF ThreadsNext, ThreadStep
  <1>3. QED
    BY <1>1, <1>2, PairsInvariance, PTL DEF ThreadsSpec, ImplementsCyclicOutput, Cyc!Spec
=============================================================================
