---------------------------- MODULE PipePrograms ----------------------------
(***************************************************************************)
(* The other programs of the repository that connect commands by pipes:    *)
(* the two drafts of execPipe in twoPipes.c, the second of which is        *)
(* pipe_example.c and untitled.c as well, pipe.c, twopipes.c, pipes.c,     *)
(* examplePipe.c and launch_job of example_shell.c.  Each process of such  *)
(* a program is a straight line of system calls, which is written down as  *)
(* a sequence; there is one action per kind of call.  The commands, pipes  *)
(* and descriptor tables are the environment's.                            *)
(***************************************************************************)
EXTENDS Integers, Sequences

CONSTANTS
    Programs,   \* the programs to run
    Items       \* bound: what the first command of a line writes

ASSUME ItemsAssumption == Items \in Nat \ {0}

VARIABLES
    prog,       \* the program
    proc,       \* proc[p]: [st, pc, parent, pos (command it runs, or 0), n (items
                \* written), has (an item to pass on)]
    fds,        \* fds[p][f]: what descriptor f of process p is
    buf         \* buf[i]: items in pipe i

vars == <<prog, proc, fds, buf>>

Procs == 1..4       \* 1 is the program as it is started
Pipes == 1..2
Fds == 0..5         \* 0, 1: standard input and output; 2 to 5: the pipe arrays

\* What a descriptor can be; the read end of pipe i is 2 * i, its write end 2 * i + 1.
Closed == 0
Terminal == 1
ReadEnd(i) == 2 * i
WriteEnd(i) == 2 * i + 1

\* The calls.  fork(c) starts process c; when it fails, the program exits or
\* goes on as the parent does.
call(op, a, b) == [op |-> op, a |-> a, b |-> b]
pipe(i) == call("pipe", i, 0)
close(f) == call("close", f, 0)
dup2(f, g) == call("dup2", f, g)
forkOrExit(c) == call("fork", c, 1)
fork(c) == call("fork", c, 0)
exec(k) == call("exec", k, 0)
wait == call("wait", 0, 0)
write(f) == call("write", f, 0)
read(f) == call("read", f, 0)
prompt == call("prompt", 0, 0)
exit == call("exit", 0, 0)

None == <<exit>>
-----------------------------------------------------------------------------
(* The programs                                                            *)

\* twoPipes.c, first draft of execPipe: the shell itself becomes the first command.
DraftShell == <<pipe(1), forkOrExit(2), dup2(3, 1), close(3), exec(1), prompt>>
DraftChild == <<dup2(2, 0), close(2), exec(2), exit>>

\* The second draft, execPipe and docommand of twoPipes.c, comes from
\* pipe_example.c, whose main does what execPipe does and returns.  A fork that
\* fails takes execPipe to the prompt past its wait, which would find no child.
ExecPipe == <<fork(2), wait, prompt>>
PipeExample == <<forkOrExit(2), wait, exit>>

\* Mutant of docommand: the comment's "if we didn't have the close(pipefd[1])".
docommandKeeps ==
    <<pipe(1), forkOrExit(3), dup2(2, 0), close(2), exec(2), exit>>

docommand ==
    <<pipe(1), forkOrExit(3), close(3), dup2(2, 0), close(2), exec(2), exit>>

\* Mutant of its child: execl is not followed by exit.
docommandChildReturns == <<close(2), dup2(3, 1), close(3), exec(1)>>

docommandChild == <<close(2), dup2(3, 1), close(3), exec(1), exit>>

\* The same two lines, with the commands of the line for ls and tr.
DraftDocommand == docommand
DraftDocommandChild == docommandChild

\* pipe.c: the program becomes the first command.
PipeC == <<pipe(1), fork(2), dup2(3, 1), close(2), exec(1), exit>>
PipeChild == <<dup2(2, 0), close(3), exec(2), exit>>

\* twopipes.c: two pipes, three children, no error handling.
CloseAll == <<close(2), close(3), close(4), close(5)>>

\* Mutant: it waits for two of its three children.
TwoPipesTwoWaits ==
    <<pipe(1), pipe(2), fork(2), fork(3), fork(4)>> \o CloseAll \o <<wait, wait, exit>>

TwoPipes ==
    <<pipe(1), pipe(2), fork(2), fork(3), fork(4)>> \o CloseAll \o <<wait, wait, wait, exit>>
TwoPipesCat == <<dup2(3, 1)>> \o CloseAll \o <<exec(1), exit>>

\* Mutant: grep reads from the pipe it writes to.
TwoPipesGrepOwn == <<dup2(4, 0), dup2(5, 1)>> \o CloseAll \o <<exec(2), exit>>

TwoPipesGrep == <<dup2(2, 0), dup2(5, 1)>> \o CloseAll \o <<exec(2), exit>>
TwoPipesCut == <<dup2(4, 0)>> \o CloseAll \o <<exec(3), exit>>

\* pipes.c: fork_pipes becomes the last command.  When execvp fails in the child,
\* spawn_proc returns there as well, and the child goes on as its parent does.
fork_pipes == <<pipe(1), fork(2), close(3), dup2(2, 0), exec(2), exit>>
spawn_proc == <<dup2(3, 1), close(3), exec(1), close(3), dup2(2, 0), exec(2), exit>>

\* examplePipe.c: the child writes to the parent.
ExamplePipe == <<pipe(1), forkOrExit(2), close(3), read(2), exit>>
ExamplePipeChild == <<close(2), write(3), exit>>

\* example_shell.c, launch_job with two processes, without job control.
launch_job ==
    <<pipe(1), forkOrExit(2), close(3), forkOrExit(3), close(2), wait, wait, prompt>>
launch_process1 == <<dup2(3, 1), close(3), exec(1), exit>>
launch_process2 == <<dup2(2, 0), close(2), exec(2), exit>>

Code(g) ==
    CASE g = "draft" -> <<DraftShell, DraftChild, None, None>>
      [] g = "docommand" -> <<ExecPipe, DraftDocommand, DraftDocommandChild, None>>
      [] g = "pipe_example" -> <<PipeExample, docommand, docommandChild, None>>
      [] g = "pipe" -> <<PipeC, PipeChild, None, None>>
      [] g = "twopipes" -> <<TwoPipes, TwoPipesCat, TwoPipesGrep, TwoPipesCut>>
      [] g = "pipes" -> <<fork_pipes, spawn_proc, None, None>>
      [] g = "examplePipe" -> <<ExamplePipe, ExamplePipeChild, None, None>>
      [] g = "launch_job" -> <<launch_job, launch_process1, launch_process2, None>>

AllPrograms ==
    {"draft", "docommand", "pipe_example", "pipe", "twopipes", "pipes", "examplePipe",
     "launch_job"}

ASSUME ProgramsAssumption == Programs \subseteq AllPrograms

\* Number of commands of the line.
Commands(g) == IF g = "examplePipe" THEN 0 ELSE IF g = "twopipes" THEN 3 ELSE 2
-----------------------------------------------------------------------------
NoFds == [f \in Fds |-> Closed]
Started == [st |-> "runs", pc |-> 1, parent |-> 0, pos |-> 0, n |-> 0, has |-> FALSE]

Init ==
    /\ prog \in Programs
    /\ proc = [p \in Procs |-> [Started EXCEPT !.st = IF p = 1 THEN "runs" ELSE "none"]]
    /\ fds = [p \in Procs |-> IF p = 1 THEN [NoFds EXCEPT ![0] = Terminal, ![1] = Terminal]
                                       ELSE NoFds]
    /\ buf = [i \in Pipes |-> 0]

Next1(p) == [proc EXCEPT ![p].pc = @ + 1]
Op(p) == Code(prog)[p][proc[p].pc]

\* p runs the program's own code and its next call is op.
At(p, op) == proc[p].st = "runs" /\ proc[p].pos = 0 /\ Op(p).op = op

Held(e) == \E p \in Procs : proc[p].st = "runs" /\ \E f \in Fds : fds[p][f] = e
Children(p) == {q \in Procs : proc[q].parent = p /\ proc[q].st \in {"runs", "over"}}

\* p ends and its descriptors are closed.
Over(p) ==
    /\ proc' = [proc EXCEPT ![p].st = "over"]
    /\ fds' = [fds EXCEPT ![p] = NoFds]
    /\ UNCHANGED <<prog, buf>>

Pipe(p) ==
    /\ At(p, "pipe")
    /\ fds' = [fds EXCEPT ![p][2 * Op(p).a] = ReadEnd(Op(p).a),
                          ![p][2 * Op(p).a + 1] = WriteEnd(Op(p).a)]
    /\ proc' = Next1(p)
    /\ UNCHANGED <<prog, buf>>

\* docommand and launch_job test what pipe returns, and exit.
PipeFails(p) ==
    /\ At(p, "pipe")
    /\ prog \in {"docommand", "pipe_example", "launch_job"}
    /\ Over(p)

Close(p) ==
    /\ At(p, "close")
    /\ fds' = [fds EXCEPT ![p][Op(p).a] = Closed]
    /\ proc' = Next1(p)
    /\ UNCHANGED <<prog, buf>>

\* A closed descriptor is not copied.
Dup2(p) ==
    /\ At(p, "dup2")
    /\ fds' = [fds EXCEPT ![p][Op(p).b] = IF fds[p][Op(p).a] = Closed THEN @
                                          ELSE fds[p][Op(p).a]]
    /\ proc' = Next1(p)
    /\ UNCHANGED <<prog, buf>>

Fork(p) ==
    /\ At(p, "fork")
    /\ proc' = [Next1(p) EXCEPT ![Op(p).a] = [Started EXCEPT !.parent = p]]
    /\ fds' = [fds EXCEPT ![Op(p).a] = fds[p]]
    /\ UNCHANGED <<prog, buf>>

\* The program exits, or takes -1 for the pid of a child.
ForkFails(p) ==
    /\ At(p, "fork")
    /\ IF Op(p).b = 1 THEN Over(p)
                      ELSE proc' = Next1(p) /\ UNCHANGED <<prog, fds, buf>>

Exec(p) ==
    /\ At(p, "exec")
    /\ proc' = [proc EXCEPT ![p].pos = Op(p).a]
    /\ UNCHANGED <<prog, fds, buf>>

ExecFails(p) ==
    /\ At(p, "exec")
    /\ proc' = Next1(p)
    /\ UNCHANGED <<prog, fds, buf>>

\* wait returns for a child that has ended, or at once when there is none.
Wait(p) ==
    /\ At(p, "wait")
    /\ \/ /\ Children(p) = {}
          /\ proc' = Next1(p)
       \/ \E q \in Children(p) :
            /\ proc[q].st = "over"
            /\ proc' = [Next1(p) EXCEPT ![q].st = "reaped"]
    /\ UNCHANGED <<prog, fds, buf>>

Exit(p) == At(p, "exit") /\ Over(p)
-----------------------------------------------------------------------------
(* Pipes and commands                                                      *)

\* p writes an item to what descriptor f is; a pipe holds one item, and a write
\* to a pipe nobody can read is answered by SIGPIPE.
WriteTo(p, f, next) ==
    LET e == fds[p][f] IN
    IF e \in {Closed, Terminal} THEN proc' = next /\ UNCHANGED <<prog, fds, buf>>
    ELSE LET i == e \div 2 IN
         IF ~Held(ReadEnd(i)) THEN Over(p)
         ELSE /\ buf[i] = 0
              /\ buf' = [buf EXCEPT ![i] = 1]
              /\ proc' = next
              /\ UNCHANGED <<prog, fds>>

\* An item can be read from descriptor f, or there will never be one.
Available(p, f) == fds[p][f] > 1 /\ buf[fds[p][f] \div 2] > 0
AtEof(p, f) == fds[p][f] > 1 => LET i == fds[p][f] \div 2 IN
                                    buf[i] = 0 /\ ~Held(WriteEnd(i))

ReadFrom(p, f, next) ==
    /\ Available(p, f)
    /\ buf' = [buf EXCEPT ![fds[p][f] \div 2] = 0]
    /\ proc' = next
    /\ UNCHANGED <<prog, fds>>

\* examplePipe.c itself writes and reads.
Write(p) == At(p, "write") /\ WriteTo(p, Op(p).a, Next1(p))
Read(p) ==
    /\ At(p, "read")
    /\ \/ ReadFrom(p, Op(p).a, Next1(p))
       \/ AtEof(p, Op(p).a) /\ proc' = Next1(p) /\ UNCHANGED <<prog, fds, buf>>

Runs(p) == proc[p].st = "runs" /\ proc[p].pos > 0
HasOutput(p) == Runs(p) /\ IF proc[p].pos = 1 THEN proc[p].n < Items ELSE proc[p].has
WantsInput(p) == Runs(p) /\ proc[p].pos > 1 /\ ~proc[p].has

\* The first command writes Items items; the others pass on what they read.
CommandWrites(p) ==
    /\ HasOutput(p)
    /\ WriteTo(p, 1, IF proc[p].pos = 1 THEN [proc EXCEPT ![p].n = @ + 1]
                                        ELSE [proc EXCEPT ![p].has = FALSE])

CommandReads(p) ==
    /\ WantsInput(p)
    /\ ReadFrom(p, 0, [proc EXCEPT ![p].has = TRUE])

\* The first command has written everything; another one reads end of file.
CommandEnds(p) ==
    /\ Runs(p) /\ ~HasOutput(p)
    /\ proc[p].pos > 1 => AtEof(p, 0)
    /\ Over(p)

\* A command that does not read to the end, like head.
CommandQuits(p) == WantsInput(p) /\ Over(p)
-----------------------------------------------------------------------------
Step(p) ==
    \/ Pipe(p) \/ Close(p) \/ Dup2(p) \/ Fork(p) \/ Exec(p) \/ Wait(p) \/ Exit(p)
    \/ Write(p) \/ Read(p)
    \/ CommandWrites(p) \/ CommandReads(p) \/ CommandEnds(p)

Environment(p) == PipeFails(p) \/ ForkFails(p) \/ ExecFails(p) \/ CommandQuits(p)

Next == \E p \in Procs : Step(p) \/ Environment(p)

Spec == Init /\ [][Next]_vars

FairSpec == Spec /\ \A p \in Procs : WF_vars(Step(p))
-----------------------------------------------------------------------------
(* Properties                                                              *)

\* Type correctness; no process runs past the end of its code.
TypeOK ==
    /\ prog \in Programs
    /\ \A p \in Procs :
        /\ proc[p] \in [st : {"none", "runs", "over", "reaped"}, pc : Nat, parent : 0..4,
                        pos : 0..3, n : 0..Items, has : BOOLEAN]
        /\ proc[p].pc \in 1..Len(Code(prog)[p])
    /\ fds \in [Procs -> [Fds -> 0..5]]
    /\ buf \in [Pipes -> {0, 1}]

\* The copy of fork_pipes that runs on in the child after a failed execvp.
Astray(p) == prog = "pipes" /\ p = 2 /\ proc[p].pos = 2

\* Whichever calls fail, a command that runs reads from the pipe before it and
\* writes to the pipe after it, the first and the last use the terminal.
Plumbed ==
    \A p \in Procs :
        Runs(p) /\ ~Astray(p) =>
            LET k == proc[p].pos IN
            /\ fds[p][0] = IF k = 1 THEN Terminal ELSE ReadEnd(k - 1)
            /\ fds[p][1] = IF k = Commands(prog) THEN Terminal ELSE WriteEnd(k)

Done(p) == proc[p].st # "runs" \/ At(p, "prompt")

\* "The shell should not loop and print the next prompt, etc, until the LAST
\* process in the pipeline terminates" (pipe_example.c:107), nor should
\* twopipes.c end or wait_for_job return before.
PromptAfterLast ==
    (/\ prog \in {"docommand", "pipe_example", "twopipes", "launch_job"}
     /\ Done(1))
    => \A p \in Procs : ~(Runs(p) /\ proc[p].pos = Commands(prog))

\* Programs in which a reader's side keeps a write end, so that end of file does
\* not come, and in which a writer's side keeps a read end, so that SIGPIPE does
\* not come.
KeepWriteEnd == {"draft", "pipes"}
KeepReadEnd == {"draft", "pipes", "launch_job"}

Excused(p) ==
    \/ WantsInput(p) /\ prog \in KeepWriteEnd
    \/ HasOutput(p) /\ prog \in KeepReadEnd
    \/ At(p, "wait") /\ \E q \in Children(p) : HasOutput(q) /\ prog \in KeepReadEnd

\* Every process of docommand, pipe_example.c, pipe.c, twopipes.c and examplePipe.c
\* ends, whatever fails and whoever stops reading: each closes the ends it does
\* not use.  The other programs may leave a reader without end of file or a writer without
\* SIGPIPE, and nothing else.
Ends == <>[](\A p \in Procs : Done(p) \/ Excused(p))
=============================================================================
