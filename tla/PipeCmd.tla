------------------------------ MODULE PipeCmd ------------------------------
(***************************************************************************)
(* execPipe and runPipeCmd of myshHeader.h: how the shell runs             *)
(* "command1 | command2".  execPipe forks a child and waits for it; the    *)
(* child (here the "reader") makes the pipe, forks a grandchild (the       *)
(* "writer"), connects the pipe to its standard input and becomes          *)
(* command2; the grandchild connects the pipe to its standard output and   *)
(* becomes command1.  There is one action per system call, and the three   *)
(* processes interleave freely.  The shell runs NumPipes such lines one    *)
(* after the other, so that a writer left over from one line can meet the  *)
(* processes of the next.                                                  *)
(*                                                                         *)
(* The programs the two children become are not part of the repository:    *)
(* the writer writes up to Produce units to its standard output, the       *)
(* reader reads its standard input until end of file, and either may end   *)
(* earlier.                                                                *)
(***************************************************************************)
EXTENDS Integers

CONSTANTS
    NumPipes,   \* bound: command lines with a bar that the user types
    Produce,    \* bound: units the first command writes
    Capacity,   \* units the kernel's pipe buffer holds
    MaxStops    \* bound: stop signals (Ctrl-Z) over a behaviour

ASSUME PipeAssumption ==
    /\ NumPipes \in Nat \ {0}
    /\ Produce \in Nat
    /\ Capacity \in Nat \ {0}
    /\ MaxStops \in Nat

VARIABLES
    shell,      \* where the shell is in execPipe
    line,       \* command lines typed so far; the pipe of line l is pipe l
    status,     \* execPipe's variable status, as the last waitpid left it
    pc,         \* pc[l][r]: where process r of line l is
    fds,        \* fds[l][r][d]: what descriptor d of that process refers to
    stopped,    \* stopped[l][r]: stopped by a signal and not yet continued
    report,     \* report[l]: the reader has a stop waitpid has not reported
    sent,       \* sent[l]: units written to pipe l
    got,        \* got[l]: units read from pipe l
    eof,        \* eof[l]: the reader saw the end of pipe l
    stops       \* stop signals so far

vars == <<shell, line, status, pc, fds, stopped, report, sent, got, eof, stops>>
procVars == <<pc, fds, stopped, report, sent, got, eof, stops>>
flowVars == <<sent, got, eof>>
sigVars == <<stopped, report, stops>>

Lines == 1..NumPipes
Roles == {"reader", "writer"}

\* A process's descriptors: 0, 1 and the variables read_fd and write_fd.
Fd == {"stdin", "stdout", "read_fd", "write_fd"}
File == {"tty", "pipe_out", "pipe_in", "closed"}

\* runPipeCmd's order: pipe and fork (the reader alone), then in each branch of
\* the switch close, dup2, close, execvp.
Setup == {"pipe", "fork", "close", "dup2", "close2", "execvp"}
Over == {"exited", "signaled"}
PC == {"none", "running", "reaped"} \cup Setup \cup Over

Alive(l, r) == pc[l][r] \in Setup \cup {"running"}
CanRun(l, r) == Alive(l, r) /\ ~stopped[l][r]

\* Some process still holds an end of pipe l open.
Holds(l, end) == \E r \in Roles, d \in Fd : fds[l][r][d] = end

InheritedFds == [d \in Fd |-> IF d \in {"stdin", "stdout"} THEN "tty" ELSE "closed"]
NoFds == [d \in Fd |-> "closed"]

Init ==
    /\ shell = "prompt"
    /\ line = 0
    /\ status = "unset"
    /\ pc = [l \in Lines |-> [r \in Roles |-> "none"]]
    /\ fds = [l \in Lines |-> [r \in Roles |-> NoFds]]
    /\ stopped = [l \in Lines |-> [r \in Roles |-> FALSE]]
    /\ report = [l \in Lines |-> FALSE]
    /\ sent = [l \in Lines |-> 0]
    /\ got = [l \in Lines |-> 0]
    /\ eof = [l \in Lines |-> FALSE]
    /\ stops = 0
-----------------------------------------------------------------------------
(* The shell: execPipe                                                     *)

\* The user types a line with a bar and fork succeeds: the child starts
\* runPipeCmd with the shell's descriptors, the shell enters its wait loop.
ExecPipe ==
    /\ shell = "prompt"
    /\ line < NumPipes
    /\ line' = line + 1
    /\ shell' = "waitpid"
    /\ status' = "unset"
    /\ pc' = [pc EXCEPT ![line + 1]["reader"] = "pipe"]
    /\ fds' = [fds EXCEPT ![line + 1]["reader"] = InheritedFds]
    /\ UNCHANGED <<flowVars, sigVars>>

\* fork fails: perror, break, return 1.
ExecPipeNoFork ==
    /\ shell = "prompt"
    /\ line < NumPipes
    /\ line' = line + 1
    /\ UNCHANGED <<shell, status, procVars>>

\* waitpid(pid, &status, WUNTRACED) reaps the child...
WaitPidEnd ==
    /\ shell = "waitpid"
    /\ pc[line]["reader"] \in Over
    /\ status' = pc[line]["reader"]
    /\ pc' = [pc EXCEPT ![line]["reader"] = "reaped"]
    /\ shell' = "test"
    /\ UNCHANGED <<line, fds, flowVars, sigVars>>

\* ... or reports, once, that it was stopped.
WaitPidStop ==
    /\ shell = "waitpid"
    /\ report[line]
    /\ status' = "stopped"
    /\ report' = [report EXCEPT ![line] = FALSE]
    /\ shell' = "test"
    /\ UNCHANGED <<line, pc, fds, stopped, flowVars, stops>>

\* Mutant: the loop ends on any change of state of the child.
LoopTestAnyChange ==
    /\ shell = "test"
    /\ shell' = "prompt"
    /\ UNCHANGED <<line, status, procVars>>

\* while (!WIFEXITED(status) && !WIFSIGNALED(status))
LoopTest ==
    /\ shell = "test"
    /\ shell' = IF status \in Over THEN "prompt" ELSE "waitpid"
    /\ UNCHANGED <<line, status, procVars>>

Shell == WaitPidEnd \/ WaitPidStop \/ LoopTest
-----------------------------------------------------------------------------
(* The children: runPipeCmd                                                *)

At(l, r, label) == CanRun(l, r) /\ pc[l][r] = label
GoTo(l, r, label) == pc' = [pc EXCEPT ![l][r] = label]

\* exit and death by a signal close every descriptor; a stop the waiting shell
\* has not collected is lost.
Terminate(l, r, how) ==
    /\ GoTo(l, r, how)
    /\ fds' = [fds EXCEPT ![l][r] = NoFds]
    /\ stopped' = [stopped EXCEPT ![l][r] = FALSE]
    /\ report' = IF r = "reader" THEN [report EXCEPT ![l] = FALSE] ELSE report
    /\ UNCHANGED <<shell, line, status, flowVars, stops>>

Pipe(l) ==
    /\ At(l, "reader", "pipe")
    /\ GoTo(l, "reader", "fork")
    /\ fds' = [fds EXCEPT ![l]["reader"] =
                  [@ EXCEPT !["read_fd"] = "pipe_out", !["write_fd"] = "pipe_in"]]
    /\ UNCHANGED <<shell, line, status, flowVars, sigVars>>

\* Mutant: no exit after the perror; read_fd is a variable nobody has set.
PipeFailsGoesOn(l) ==
    /\ At(l, "reader", "pipe")
    /\ GoTo(l, "reader", "fork")
    /\ fds' = [fds EXCEPT ![l]["reader"]["read_fd"] = "no value"]
    /\ UNCHANGED <<shell, line, status, flowVars, sigVars>>

\* pipe fails: perror, exit(127).
PipeFails(l) ==
    /\ At(l, "reader", "pipe")
    /\ Terminate(l, "reader", "exited")

\* The grandchild gets a copy of every descriptor.
Fork(l) ==
    /\ At(l, "reader", "fork")
    /\ pc' = [pc EXCEPT ![l] = [r \in Roles |-> "close"]]
    /\ fds' = [fds EXCEPT ![l]["writer"] = fds[l]["reader"]]
    /\ UNCHANGED <<shell, line, status, flowVars, sigVars>>

\* fork fails: perror, exit(EXIT_FAILURE).
ForkFails(l) ==
    /\ At(l, "reader", "fork")
    /\ Terminate(l, "reader", "exited")

\* The end of the pipe each branch of the switch closes first, and the one it
\* moves to a standard descriptor.
Unused(r) == IF r = "writer" THEN "read_fd" ELSE "write_fd"
Used(r) == IF r = "writer" THEN "write_fd" ELSE "read_fd"
Standard(r) == IF r = "writer" THEN "stdout" ELSE "stdin"

\* Mutants: one branch forgets to close the end it does not use.
CloseUnlessReader(l, r) ==
    /\ At(l, r, "close")
    /\ GoTo(l, r, "dup2")
    /\ fds' = IF r = "reader" THEN fds ELSE [fds EXCEPT ![l][r][Unused(r)] = "closed"]
    /\ UNCHANGED <<shell, line, status, flowVars, sigVars>>

CloseUnlessWriter(l, r) ==
    /\ At(l, r, "close")
    /\ GoTo(l, r, "dup2")
    /\ fds' = IF r = "writer" THEN fds ELSE [fds EXCEPT ![l][r][Unused(r)] = "closed"]
    /\ UNCHANGED <<shell, line, status, flowVars, sigVars>>

\* close(read_fd) in the grandchild, close(write_fd) in the child.
CloseUnused(l, r) ==
    /\ At(l, r, "close")
    /\ GoTo(l, r, "dup2")
    /\ fds' = [fds EXCEPT ![l][r][Unused(r)] = "closed"]
    /\ UNCHANGED <<shell, line, status, flowVars, sigVars>>

\* Mutant: the grandchild closes write_fd before dup2, which then fails.
Dup2TooLate(l, r) ==
    /\ At(l, r, "dup2")
    /\ GoTo(l, r, "close2")
    /\ fds' = IF r = "writer" THEN fds
              ELSE [fds EXCEPT ![l][r][Standard(r)] = fds[l][r][Used(r)]]
    /\ UNCHANGED <<shell, line, status, flowVars, sigVars>>

\* dup2(write_fd, 1) in the grandchild, dup2(read_fd, 0) in the child.
Dup2(l, r) ==
    /\ At(l, r, "dup2")
    /\ GoTo(l, r, "close2")
    /\ fds' = [fds EXCEPT ![l][r][Standard(r)] = fds[l][r][Used(r)]]
    /\ UNCHANGED <<shell, line, status, flowVars, sigVars>>

\* close(write_fd) in the grandchild, close(read_fd) in the child.
CloseUsed(l, r) ==
    /\ At(l, r, "close2")
    /\ GoTo(l, r, "execvp")
    /\ fds' = [fds EXCEPT ![l][r][Used(r)] = "closed"]
    /\ UNCHANGED <<shell, line, status, flowVars, sigVars>>

Execvp(l, r) ==
    /\ At(l, r, "execvp")
    /\ GoTo(l, r, "running")
    /\ UNCHANGED <<shell, line, status, fds, flowVars, sigVars>>

\* execvp returns -1: perror, exit(EXIT_FAILURE).
ExecvpFails(l, r) ==
    /\ At(l, r, "execvp")
    /\ Terminate(l, r, "exited")

RunPipeCmd(l) ==
    \/ Pipe(l) \/ PipeFails(l) \/ Fork(l) \/ ForkFails(l)
    \/ \E r \in Roles : \/ CloseUnused(l, r) \/ Dup2(l, r) \/ CloseUsed(l, r)
                        \/ Execvp(l, r) \/ ExecvpFails(l, r)
-----------------------------------------------------------------------------
(* The programs the children became, and the kernel's pipe                 *)

\* write(1): blocks while the pipe is full.
Write(l) ==
    /\ At(l, "writer", "running")
    /\ sent[l] < Produce
    /\ fds[l]["writer"]["stdout"] = "pipe_in"
    /\ Holds(l, "pipe_out")
    /\ sent[l] - got[l] < Capacity
    /\ sent' = [sent EXCEPT ![l] = @ + 1]
    /\ UNCHANGED <<shell, line, status, pc, fds, sigVars, got, eof>>

\* write(1) with no reader left: SIGPIPE.
WriteBroken(l) ==
    /\ At(l, "writer", "running")
    /\ sent[l] < Produce
    /\ fds[l]["writer"]["stdout"] = "pipe_in"
    /\ ~Holds(l, "pipe_out")
    /\ Terminate(l, "writer", "signaled")

\* Everything written.
WriterEnds(l) ==
    /\ At(l, "writer", "running")
    /\ sent[l] = Produce
    /\ Terminate(l, "writer", "exited")

\* read(0): blocks while the pipe is empty and somebody may still write.
Read(l) ==
    /\ At(l, "reader", "running")
    /\ fds[l]["reader"]["stdin"] = "pipe_out"
    /\ got[l] < sent[l]
    /\ got' = [got EXCEPT ![l] = @ + 1]
    /\ UNCHANGED <<shell, line, status, pc, fds, sigVars, sent, eof>>

\* read(0) returns 0.
ReadEof(l) ==
    /\ At(l, "reader", "running")
    /\ fds[l]["reader"]["stdin"] = "pipe_out"
    /\ ~eof[l]
    /\ got[l] = sent[l]
    /\ ~Holds(l, "pipe_in")
    /\ eof' = [eof EXCEPT ![l] = TRUE]
    /\ UNCHANGED <<shell, line, status, pc, fds, sigVars, sent, got>>

ReaderEnds(l) ==
    /\ At(l, "reader", "running")
    /\ eof[l]
    /\ Terminate(l, "reader", "exited")

\* A program may end before it has written or read everything (head does).
EndsEarly(l, r) ==
    /\ At(l, r, "running")
    /\ Terminate(l, r, "exited")

Programs(l) ==
    \/ Write(l) \/ WriteBroken(l) \/ WriterEnds(l)
    \/ Read(l) \/ ReadEof(l) \/ ReaderEnds(l)
-----------------------------------------------------------------------------
(* Signals sent from outside to one process                                *)

Kill(l, r) ==
    /\ Alive(l, r)
    /\ Terminate(l, r, "signaled")

Stop(l, r) ==
    /\ CanRun(l, r)
    /\ stops < MaxStops
    /\ stops' = stops + 1
    /\ stopped' = [stopped EXCEPT ![l][r] = TRUE]
    /\ report' = IF r = "reader" THEN [report EXCEPT ![l] = TRUE] ELSE report
    /\ UNCHANGED <<shell, line, status, pc, fds, flowVars>>

\* SIGCONT; a stop nobody has waited for by now is not reported any more.
Continue(l, r) ==
    /\ Alive(l, r)
    /\ stopped[l][r]
    /\ stopped' = [stopped EXCEPT ![l][r] = FALSE]
    /\ report' = IF r = "reader" THEN [report EXCEPT ![l] = FALSE] ELSE report
    /\ UNCHANGED <<shell, line, status, pc, fds, flowVars, stops>>

\* The user has typed every line and no process is left: nothing more happens.
AllQuiet ==
    /\ shell = "prompt"
    /\ line = NumPipes
    /\ \A l \in Lines, r \in Roles : ~Alive(l, r)
    /\ UNCHANGED vars

Next ==
    \/ ExecPipe \/ ExecPipeNoFork \/ Shell
    \/ \E l \in Lines : \/ RunPipeCmd(l) \/ Programs(l)
                        \/ \E r \in Roles : \/ EndsEarly(l, r) \/ Kill(l, r)
                                            \/ Stop(l, r) \/ Continue(l, r)
    \/ AllQuiet

Spec == Init /\ [][Next]_vars

\* The kernel schedules every process that can run: the shell, and each child
\* through its system calls and its reads and writes.  Nothing is assumed of the
\* user: no line is ever owed, and neither is a SIGCONT or an early end.
SetupStep(l, r) ==
    IF r = "reader"
    THEN \/ Pipe(l) \/ PipeFails(l) \/ Fork(l) \/ ForkFails(l) \/ CloseUnused(l, r)
         \/ Dup2(l, r) \/ CloseUsed(l, r) \/ Execvp(l, r) \/ ExecvpFails(l, r)
         \/ Read(l) \/ ReadEof(l) \/ ReaderEnds(l)
    ELSE \/ CloseUnused(l, r) \/ Dup2(l, r) \/ CloseUsed(l, r)
         \/ Execvp(l, r) \/ ExecvpFails(l, r)
         \/ Write(l) \/ WriteBroken(l) \/ WriterEnds(l)

Fairness ==
    /\ WF_vars(Shell)
    /\ \A l \in Lines, r \in Roles : WF_vars(SetupStep(l, r))

FairSpec == Spec /\ Fairness
-----------------------------------------------------------------------------
(* Properties                                                              *)

\* Type correctness; a pipe never holds more than the kernel's buffer, and
\* nothing is read that was not written.
TypeOK ==
    /\ shell \in {"prompt", "waitpid", "test"}
    /\ line \in 0..NumPipes
    /\ status \in {"unset", "stopped"} \cup Over
    /\ pc \in [Lines -> [Roles -> PC]]
    /\ fds \in [Lines -> [Roles -> [Fd -> File]]]
    /\ stopped \in [Lines -> [Roles -> BOOLEAN]]
    /\ report \in [Lines -> BOOLEAN]
    /\ sent \in [Lines -> 0..Produce]
    /\ got \in [Lines -> Nat]
    /\ \A l \in Lines : sent[l] - got[l] \in 0..Capacity
    /\ eof \in [Lines -> BOOLEAN]
    /\ stops \in 0..MaxStops

\* Whenever the shell prints a prompt, the last command of every line typed so
\* far is over and has been reaped (lines 337-345): no stop, continue or early
\* death lets the loop end before, and no zombie of the shell's is left.
PromptAfterLastCommand ==
    shell = "prompt" => \A l \in Lines : pc[l]["reader"] \in {"none", "reaped"}

\* The second command sees the end of its input only when the first command is
\* over and every unit it wrote was delivered.  It rests on every close of
\* lines 251-276: one forgotten or misplaced close moves the end of file.
EofMeansAllDelivered ==
    \A l \in Lines : eof[l] => /\ pc[l]["writer"] \in Over
                               /\ got[l] = sent[l]

\* When the two commands start, each is connected to the pipe on its own side
\* and to the terminal on the other, and holds no other end of any pipe.
Plumbed ==
    \A l \in Lines, r \in Roles :
        pc[l][r] = "running" =>
            fds[l][r] = [InheritedFds EXCEPT
                            ![Standard(r)] = IF r = "writer" THEN "pipe_in" ELSE "pipe_out"]

\* waitpid is only ever called for a child that exists and was not reaped: the
\* loop of lines 337-342 never sees ECHILD, which it could not survive.
WaitsForOwnChild ==
    shell = "waitpid" => pc[line]["reader"] \notin {"none", "reaped"}

NobodyStopped == \A l \in Lines, r \in Roles : ~stopped[l][r]

\* Unless somebody stays stopped, the shell gets back to its prompt, because the
\* second command always reaches the end of its input and the wait loop ends; and
\* no first command outlives the second for ever: with no reader left it gets
\* SIGPIPE instead of blocking on a full pipe.
PipelineEnds ==
    <>[]NobodyStopped =>
        /\ shell # "prompt" ~> shell = "prompt"
        /\ \A l \in Lines : pc[l]["reader"] \in Over \cup {"reaped"}
                                ~> ~Alive(l, "writer")

\* execPipe keeps the promise of Foreground for the last command of the line.
Fg == INSTANCE Foreground WITH
    shell <- IF shell = "prompt" THEN "ready" ELSE "waiting",
    command <- IF shell = "prompt" THEN "none"
               ELSE IF pc[line]["reader"] \in Over \cup {"reaped"} THEN "over"
               ELSE "running"

ImplementsForeground == Fg!Spec
=============================================================================
