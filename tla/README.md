# Leitourgika 2015 in TLA+

The repository holds two operating-systems assignments. The first is a small shell
(`src/project source code/paradotea/`: `mysh1.c` to `mysh4.c` and `myshHeader.h`), the second a
set of programs in which processes or threads share semaphores, mutexes, a condition variable or
memory (`src/exercise2/`). Beside them stand drafts of the shell, the shell it grew out of
(`main.c`, lsh), sample programs for pipes and a job-control sample. These modules model the
deliverables and their relatives at the level of system calls, check them with TLC and prove the
main results with TLAPS.

## 1. Inventory

| Component (code) | State it keeps | Operations | Interacts with | What is hard | What makes it correct |
|---|---|---|---|---|---|
| Pipelines: `execPipe`, `runPipeCmd` (`myshHeader.h` 214-345) | wait status; four descriptors in each of two children; the pipe | fork, wait loop, pipe, fork, close/dup2/close, execvp, each with its error path | the shell's main loop; the kernel; the two commands | three processes and signals in any order; the first command is a grandchild nobody waits for; one descriptor left open blocks everything | end of file exactly when the first command is over; the prompt after the last command and not before; nobody blocked for ever |
| Main loops: `main` of `mysh1`..`mysh4`, `executeCommand`, `myExit`; lsh (`main.c`) | line buffer, `status` (uninitialised in the four), stdio's buffer of stdin and the file offset shared with children | read a line, take it apart, dispatch, fork, wait | pipelines, cd, children | status left from before; children that move the offset; odd lines | ends for `exit` only; every command line executed once, in full |
| cd: `myCd`, `getHomePath` | paths built in malloc'ed memory that is never cleared; what `cd ~/...` frees of it | getenv USER, strcat, chdir | main loop, which takes and returns a block per line | freed memory that comes back | the directory the user asked for |
| `syn_thread_2.c` | `shared_data`, mutex, condition variable | `print_ab`, `print_cd` | `display` | the mutex is not held at test and wait of `print_ab` | abcd lines, NUM_THREADS of them, and an end |
| `syn_process_1.c`, `sp1!!!!!!!!.c`, `syn_process_2.c`, `shmem.c`, `syn_thread_1.c` | one or two semaphores (or a mutex), a loop counter per writer, a turn flag in shared memory (`shmem.c`) | look at the flag, acquire, display, set the flag, release, wait, remove | `display` | removal of a semaphore in use; keys without a value; a flag tested outside the semaphore | whole messages, all of them, and an end |
| `ab_ex.c` | four semaphores | straight-line bodies of two threads | - | crossing waits | ABCDACBD repeated |
| `sem_ex1.cpp` | one semaphore with undo adjustments | parent, child1, child2, grandchild | - | a removed semaphore, forks that fail, who takes the semaphore first | whoever holds the semaphore prints undisturbed; all end |
| `deadlock.c`, `mutex.c`, `mutex1.c`, `join1.c`, `hello.c`, `ex_pthread1.c`, `ex_pthread2.c`, `oddevev.c` | a mutex or two, a counter | a few calls each | - | lock order; a mutex unlocked by others than its owner; a counter without a lock | no lost increment, lines in pairs, all output before the end |
| `sys_sem_ex2.c` | array in shared memory, two semaphores, a maximum and a sum per process | fork, read, write under semaphore 1, raise `array[0]` under semaphore 0, wait, print | its processes | maximum and sum are computed without a lock and stale when used | no element ahead of the writes; `array[0]` keeps the largest sum; the final array is printed; an end |
| `proc1.c`, `basic_sem.c` | one semaphore used upside down (zero is free), known to both programs by its key and never removed; the kernel's undo adjustments | take, display, give, all with SEM_UNDO | each other; later runs | a process that dies while it has the track | one process on the track; whole messages; nobody waits for a dead one |
| Job control: `example_shell.c` | list of jobs; per process `completed` and `stopped`; per job process group, `notified`, terminal modes; the terminal's foreground group and modes | init, launch in foreground or background, continue, wait, notify | the terminal; children that set their own group and take the terminal as well | parent and child race to form the group and to hand over the terminal; stops at any time; SIGCHLD is ignored | the terminal belongs to whom it should; the records are true; the prompt comes back |
| Pipe drafts and samples: `twoPipes.c`, `pipes.c`, `examplePipe.c`, `examples/pipe_example.c`, `examples/untitled.c`, `examples/pipe.c`, `examples/twopipes.c`; `launch_job` | descriptors of each process | pipe, fork, dup2, close, execvp, wait, with the error paths each program has | the commands | ends kept open; children that go on after a failed execvp | as for the pipelines |
| `sys_sem_ex.c`, `diaf_sem_ex.c` | - | - | - | the first exits behind its first call; the second is one thread and waits for nothing | - |
| `mysh3.c~`, `myshHeader.h~`, `syn_process_2.c~` | - | - | - | editor backups of the files above | - |

`PROJECT.json` lists the same components with their status, and under "hazards" each place where
this code can go wrong in a way that a test hardly reaches.

## 2. Modules

| Module | Models | Depends on |
|---|---|---|
| `Foreground` | abstract: one external command at a time, the shell goes on after it | |
| `PipeCmd` | `execPipe`, `runPipeCmd`, the two commands, the kernel's pipe, signals | INSTANCE `Foreground` |
| `CommandLine` | pure: mysh1's read loop, `strtok` as called, the two commands of `execPipe` | |
| `Mysh` | five main loops, `executeCommand`, `lsh_execute`, cd, exit, stdio's buffer | EXTENDS `CommandLine`, INSTANCE `Foreground` |
| `PipePrograms` | the eight other programs that connect processes by pipes | |
| `JobControl` | `example_shell.c` | |
| `CyclicOutput` | abstract: an output that repeats one text | |
| `SynThread2` | `syn_thread_2.c` | INSTANCE `CyclicOutput` |
| `ThreadPrograms` | `ab_ex.c`, `sem_ex1.cpp` and the small pthread programs | INSTANCE `CyclicOutput` |
| `SemPrinters` | `syn_process_1.c`, `sp1!!!!!!!!.c`, `syn_process_2.c`, `shmem.c`, `syn_thread_1.c` | |
| `ProcTrack` | `proc1.c`, `basic_sem.c` | |
| `SharedArray` | `sys_sem_ex2.c` | |
| `MCMysh`, `MCJobControl` | inputs for TLC | the module each is named after |
| `PipeCmd_proofs`, `PipesAndThreads_proofs`, `Mysh_proofs`, `JobControl_proofs`, `SemPrinters_proofs`, `ProcTrack_proofs`, `SharedArray_proofs`, `ThreadPrograms_proofs` | proofs | EXTENDS the module each is named after, `PipesAndThreads_proofs` both `PipePrograms` and `SynThread2` (whose names are kept apart for that) |

### PipeCmd

A line with a bar makes three processes: the shell in `execPipe`, its child (the *reader*, which
becomes the second command) and the grandchild (the *writer*, the first command). `pc[l][r]` is the
next system call of process `r` of line `l`, `fds[l][r]` what its descriptors 0 and 1 and its
variables `read_fd` and `write_fd` refer to. Every system call is an action and so is each failure
the code handles. The commands are external: they write and read units through descriptors 1 and 0,
and may end early; the pipe blocks, delivers end of file and raises SIGPIPE according to the
descriptors that are open. `Kill`, `Stop` and `Continue` are signals from outside at any time;
`waitpid` with WUNTRACED reports a stop once. Several lines follow each other, because the writer of
one line may live into the next.

### CommandLine and Mysh

A line is a sequence of members of `Symbols`: spaces, bars and words. `Strtok` is the scan of the
C library's `strtok`, character by character. The shells look into no word, except that
`execPipe` drops the first character of the second command, whatever it is (`Remainder`), and `myCd`
looks for `~/`. `Mysh` runs one of the five shells on a script; they differ in the read loop
(`StoredLine`), in what main does with a line (`Callee...`, `AfterReading`) and in the builtins.
`pos` and `hi` delimit stdio's buffer, `off` is the file offset the shell shares with its children.
A child that leaves by `exit` gives the unread part of its copy of the buffer back by moving that
offset, if the file is seekable (`GiveBack`); this is the C library's behaviour, seen from the
`getchar` and `exit` calls. `status` starts with any value, since none of the four initialises it.

`myCd` and `getHomePath` append to memory that `malloc` did not clear. A block that is new from the
kernel is zero; one that was freed before may hold anything. `recycled` counts the freed blocks that
`malloc` hands out before new ones: each line takes one for `programName` and returns it, `cd ~/...`
takes three and frees two of them. `path` is what `chdir` gets; built in a recycled block, it may
begin with something else than `/home/`. `chdir` may fail, which the code reports with `perror`, as it
does a failed fork and an `exit` with an argument. The C library may open a stream for that message, in a
block of its own, and free it: `failed` is the first line that gave a message, and from then on the block
behind the recycled ones may be a used one as well (`Used`). Where `myCd` does not look at what `chdir`
returns (without an argument), nothing is said. `lsh_cd` allocates nothing, and a failure changes nothing.

### PipePrograms and ThreadPrograms

Each process or thread of these programs is a line of calls with few jumps. It is written down as a
sequence (`docommand`, `TwoPipesGrep`, `BodyA`, `child1`, ...) in the order of the source, and there is
one action per kind of call, with one more for each failure the program handles in its own way.
In `PipePrograms` the commands, the pipes and the descriptor tables are the environment; a command
writes, reads to the end of file or stops reading. A fork that fails ends the program where the code
says so (`forkOrExit`); `execPipe` of `twoPipes.c` goes back to its prompt. In `ThreadPrograms` a creation
fails where the program tests it: `hello.c` and `ex_pthread1.c` end, `mutex1.c` prints a message and goes on
to join an id that was never set, which may return, end the process or wait for ever (`JoinNobody`, without
fairness). An increment is a load and a
store, and the calls of `sem_ex1.cpp` on its semaphore follow SEM_UNDO and fail once it is removed.

### JobControl

`active` are the jobs in the shell's list. A process is `<<j, k>>`, the k-th of job j, and stands for its own pid; groups are written by the job's
number. `proc` is what the kernel knows of it (its group, whether it is stopped, whether that stop
was reported), `rec` what the shell has recorded. The steps of `launch_process` in the child (`setpgid`,
`tcsetpgrp`, `execvp`) run against those of `launch_job` in the shell. SIGCHLD is ignored by an
interactive shell, so its children leave no zombie. The file leaves the command loop out: `Launch`,
`ContinueJob` and `Quit` stand for the calls its comments describe, between one
`do_job_notification` and the next.

### SynThread2, SemPrinters

`display` is one action per character (it calls `write` for each). In `SynThread2`
`shared_data++` is a load and a store, `pthread_cond_wait` is registration, release, wake-up and
relock. The mutex is a default one; the code unlocks it while the other thread holds it, which POSIX
leaves undefined, and the model takes what the C library does (a store). In `SemPrinters` a record per
program tells which semaphore each writer uses, what follows its loop and whether it looks at the turn
flag of `shmem.c` before it takes the semaphore.

### ProcTrack, SharedArray

`ProcTrack` runs both programs at once, since both ask for key 1234: up to four processes on one
semaphore. A semop of two operations is one step, as the kernel does it; `adj` is the kernel's undo
adjustment, applied by `Undo` whenever a process ends. A semop that takes the track may fail (`TakeFails`):
a message, and the next round. `Kill` may end any process anywhere. A
message is a number of characters, and `last` the last one written. In `SharedArray` each read and
each write of the shared array is a step of its own, and so are the test and the assignment of
`array[0]`; the random place is any place.

## 3. Runs

| Run | Instance | Shows |
|---|---|---|
| `pipe` | 2 lines, 2 units, buffer of 1, 1 stop | plumbing, end of file, wait loop, no stranded process, refinement of `Foreground` |
| `mysh` | 5 shells; every line of up to 3 of 5 symbols, 9 longer scripts; pipe or terminal as stdin; 1 stop | tokens and the two commands, where cd goes, end for `exit` only, script served, refinement of `Foreground` |
| `pipe_programs` | 8 programs, 2 items, a pipe holds one | plumbing whichever calls fail, prompt after the last command, who hangs is who keeps an end |
| `job_control` | a pipeline of 2 and a job of 1, 3 commands | terminal and groups, true records, the prompt comes back |
| `syn_thread_2` | NUM_THREADS = 10, as in the code | abcd lines, number of lines, end unless a wait lasts for ever |
| `thread_programs` | 10 programs; 10 rounds of `ab_ex.c`, 3 threads, 2 pairs, loops to 4 | ABCDACBD, the outcome each program is there to show, an end for all but `deadlock.c` and a main of `mutex1.c` without its threads |
| `sem_printers` | 5 programs (keys of `syn_process_2` and `shmem` equal and different), 3 rounds | whole messages, alternation by the flag, removal, number of messages, end |
| `proc_track` | both programs, 3 rounds as in the code, 2 characters, 2 kills | one on the track, whole messages, an end in spite of kills |
| `shared_array` | array of 3, 2 processes, 3 iterations | elements bounded by the writes, no sum lost, the final array printed, an end |
| `mysh_reread`, `syn_thread_2_ends`, `sem_ex1_parent` | as the runs above; stdin from a file in the first, `sem_ex1.cpp` alone in the last | each a statement of a comment or the assignment that the code does not keep (section 6) |

Why the bounds suffice. In `pipe` two lines let a writer outlive its line; two units and a buffer
of one make the writer block, be woken and be cut off; one stop with its continue passes the wait
loop once more, and every further one repeats it. In `mysh` three symbols place spaces and bars at
the start, the end and side by side, and the longer scripts carry `status`, the buffer, a writer
and freed memory from line to line: four lines let `cd ~/...` free blocks and two more lines use them
up. A second grandchild is not created while one is still before its `execvp` (`RunPipeCmd`). In
`pipe_programs` two items fill a pipe of one and leave one to wait for, and each call may fail. In
`job_control` three commands launch a job, launch or continue another and continue the first; a pipeline of
two lets its members stop, end and join their group one without the other. `NumThreads` has the
program's own value. `NLOOPS` is 100000 in `ab_ex.c`; after each round the semaphores and both threads are
where they were, so ten rounds show what any number does (the proof is for every number). The loops of
`oddevev.c` and `ex_pthread1.c` repeat themselves after one turn of each parity. In `proc_track` four processes meet, so one can die on the track while
another waits and a third has ended; after two kills two are left. In `shared_array` three iterations
let a stale maximum be written after the other process has been through its own loop more than once;
the code has 3 processes, 10 iterations and an array of 10 (an instance of 3 processes and 2
iterations has 2.9 million states and keeps the properties too, in about four minutes).

Deadlock is not checked in `job_control`, `pipe_programs` and `thread_programs`: these programs end, and
some of them hang by design or by mistake. `PromptReturns` and the two `Ends` say exactly where they
may, and TLC finds no other place.

## 4. Fairness

Weak fairness stands for the kernel's scheduler: a process or thread that can go on does. The
shell and the children before their `execvp` get it, and so do the reads and writes of the commands.
Nothing is assumed of the user: lines, signals and continues need not come, and `PipelineEnds`
speaks of behaviours in which nobody stays stopped. `ScriptServed` assumes that
commands end, in the property and not in the specification. In `JobControl` the shell's own steps, the
steps of a child before its program and the end of each program that is not stopped are fair; commands,
stops, changes of the modes and failures are not owed. In `PipePrograms` and `ThreadPrograms` each process
or thread is weakly fair; failing calls and commands that stop reading are not owed. Where threads
of these programs compete for a mutex or semaphore their loops are finite, except in `oddevev.c`, whose
threads lock once, so weak fairness is enough. In `SynThread2` taking the mutex is
strongly fair (a thread that finds it free again and again gets it); spurious wake-ups are possible
and never owed. In `ProcTrack`, `SharedArray` and `SemPrinters` every process that can run does, and nobody has to
be killed; loops are finite, so no process can be overtaken for ever and weak fairness is enough
for the semaphores.

## 5. Proofs

The modules of proofs hold for every value of the constants that the named assumptions allow, and
are checked by `tlapm` without a gap. The inductive invariants were checked with TLC on the
instances of section 3 before they were proved.

`PipeCmd_proofs` (`PipeAssumption`): `TypeCorrect`, `Prompt`, `NoEchild` (waitpid is never called
without a child, `WaitsForOwnChild`), `PlumbedAlways`, `EofIsTheEnd`, and `Refinement` (the safety part
of `Foreground`). None of the properties is inductive
alone; the invariant is `TypeOK` with three parts, preserved one after the other.

- `ShellInv`: the shell waits for the reader of the current line, and all earlier readers are
  reaped. It carries the wait loop through stops: at the loop test the child is reaped and the
  status an end, or it is there and the status a stop.
- `FdsInv`: what a process has open is a function of its place in the program text, whatever the
  others do. It gives the plumbing at `execvp`.
- `FlowInv`: a reader past its fork has a writer; end of file was seen only after the writer ended
  and all units were read. It follows from `FdsInv`: while the writer lives it has the write end
  open, and a reader that runs has closed its own.

`PipesAndThreads_proofs` (`ItemsAssumption`, `ProgramsAssumption`), of `PipePrograms`: `TypeCorrect`, `PlumbedAlways` (`Plumbed`), `Prompt`
(`PromptAfterLast`) and `NoStrayEnds` (`OnlyOwnEnds`), for any number of items and with every failure. The texts of the programs are fixed, so
what they say is settled first, text by text: `WellCode` (a call refers to what there is), `HandedOver` (a child
finds the ends it redirects, because its parent made them before the fork and had not closed them), `ReadyToExecute`
(who executes a command has redirected what it needs) and `WaitingCode`. The invariants use these facts and no text.

- `Records`: types, and a process that runs a command stands at the `exec` of that command.
- `Tables`: the descriptors of a process that runs fit its place (`Fits`): 0 and 1 are what the calls before have
  made of them, and each end that a later `dup2` of this process or of a child it still starts wants is open or still to be
  made. `FitsPipe`, `FitsClose`, `FitsDup2`, `FitsOther` and `FitsFork` take it from call to call, and `FitsExec` reads
  the plumbing off it. The `PipeCmd` proof could describe the table by the place alone; here `Fits` must
  look forward, because the same closing of an end is harmless before one call and fatal before another.
- `Awaited`: these programs call `wait`, which takes any child, so it is the number of children not yet reaped that
  has to be bounded by the calls of `wait` left. The last command's process is one of them from its fork on;
  when no call is left there are none, so it is over.
- `NoMore`: a process has only ends open that were handed to it (`Handed`) or that it has made, and that no call
  before has closed; `TidyCode` settles by the texts what is closed before an `exec` and a `wait`, and
  `HandsNoMore` that a child is handed no more than its text closes. `NoStrayEnds` follows: a running command
  has no end of a pipe but its own, and a shell that waits has none. The exceptions are those of `Ends`: `draft` and
  `pipes` keep both ends, `launch_job` leaves the read end with the first command. It is the safety core of
  `Ends`, which only TLC can check: a pipe that somebody keeps open never reports end of file or SIGPIPE.

The same module (`NumThreadsAssumption`), of `SynThread2`: `ThreadsTypeCorrect`, `AllPairs` (`AllPairsAtTheEnd`) and `Refinement`
(`ImplementsCyclicOutput`). The invariant is `ThreadsTypeOK /\ Progress`. `Progress` ties the place of each thread and
the text written so far to the parity of `shared_data`. It does not mention the mutex: the mutex protects nothing
here, because it is released by a thread that does not hold it, and the parity alone keeps the texts apart. That is
why the order of the output can be proved although the program may hang.

`Mysh_proofs` (`MyshAssumption`, `ScriptsAssumption`): what the five shells do with scripts of any number of lines of any length.

- `StrtokListsRuns` is about the pure part: for every line and delimiter, the scan returns the
  maximal runs without the delimiter, all of them and from left to right. It is proved by induction over the
  line: `Scanned` says of the first k characters what the theorem says of the whole, with a last run
  that may still be open. (The library's induction theorem takes an operator; `Induction` states it for
  the subset of `0..n` where a fact holds, and `ScanEquation` shows that the recursive function of `Scan`
  is the one its equation describes.) `LinesTakenApart` (`TakenApart`) follows, with `PipelineTakenApart`
  for a line with one bar: the two commands of `execPipe` are what stands before and behind it.
- `TypeCorrect`, `Ends` (`EndsOnlyByExit`) and `Refinement` (the safety part of `Foreground`) rest on
  `IInv`: `LineInv` ties the line being worked on to the script, `WaitInv` the call that waits to the child
  it waits for, and `StatusInv` the variable `status` to the last line that set it - which
  is why a shell that ends for no `exit` must be on a first line that is empty. `CrashInv` and
  `ReturnInv` say what a line was when main passes NULL to `strcmp` and what a return is.
- `CdGoes` (`CdGoesThere`) and `LinesExecutedOnce` (`EachLineOnce`) assume `~Seekable`, a pipe or terminal as standard
  input: with a file lines are read again (finding `mysh_reread`). `RecycledInv` bounds the freed blocks that `malloc`
  may hand out by the `cd ~/...` lines before, `FailedInv` puts the error messages on earlier lines, so a path is
built in clean memory unless there was one or the other, and that of `cd ~/...` unless there were both.

`JobControl_proofs` (`JobsAssumption`, `SizeAssumption`): `TypeCorrect`, `RecordsAreTrue` (`RecordsTrue`) and `TerminalIsRight`
(`TerminalAndGroups`), for any jobs, pipelines of any length and any number of commands. The shell and
its children both call `setpgid` and `tcsetpgrp`, in any order, so the invariant has to say what is settled when.

- `LaunchInv`: the processes of a job are forked in order, and which ones are there follows from the
  place of the shell in `launch_job`.
- `GroupInv`: every process whose parent is past `setpgid` is in the group of its job, or the group was `Closed` when
  either tried: its leader is over and nobody is left in it, and nobody will be.
- `ForegroundInv`: a child that may still take the terminal belongs to the job the shell launches or
  waits for. Without it a late `tcsetpgrp` could steal the terminal after the shell took it back.
- `DoneInv`: the shell leaves a foreground job when each of its processes is over or stopped.
- `TermInv` and `ModesInv` give the owner of the terminal and its modes at each place of the shell, the
  latter unless a process has strayed from its group (`Strays`), which may then change the modes from outside.
- `RecordInv`: what the shell has recorded is true, and it has forgotten the stops of a job it is about
  to continue.

`SemPrinters_proofs` (`NumProcAssumption`, `ProgramsAssumption`): `TypeCorrect`, `MessagesStayWhole` (`WholeMessages`) and
`EverythingIsPrinted` (`AllPrinted`). `Locks` is mutual exclusion by a semaphore that exists; `Removals`
says who has left its loop when one is removed, and `Turns` that the flag keeps the writers of `shmem.c`
apart even where their keys give them two semaphores. `Text` and `Alternation` then follow the
last character of the output, and `Counted` the number of characters of each writer.

`ProcTrack_proofs` (`TrackAssumption`): `TypeCorrect`, `MutualExclusion` and `Messages`. A kill
hands the semaphore to the kernel, so mutual exclusion needs to know what the kernel will undo:
`Owes` says that a process owes one decrement exactly while it has the track. `Writing` adds that
whoever is in the middle of a message wrote the last character, unless it was killed there; with
mutual exclusion, a process that begins a message finds the last one complete or its writer dead.

`SharedArray_proofs` (`ArrayAssumption`): `TypeCorrect`, `ZeroGrows` (`IndexZeroGrows`: no sum is lost) and
`StaleMaximaAreSafe` (`ElementsBounded`). `Locks` is mutual exclusion by each semaphore, `Raising` that
between the test and the assignment nobody else has raised `array[0]`. The maxima are read without
a lock and may be stale; `Bounded` says that they and the elements stay below the number of writes so
far, which only grows.

`ThreadPrograms_proofs` (`BoundsAssumption`, `ProgramsAssumption`): `AbExInTurn` (`ImplementsCyclicOutput`), `TypeCorrect` and
`OutcomeShown` (`Outcome`), for any number of rounds, threads and pairs and any limit. `Kinds` and `WellFormed` let a step be read off
the program text: the call a thread is at decides what it does, and every call refers to threads, mutexes and
places the program has.

- `AbExCounts`: each semaphore of `ab_ex.c` is what it was at first, and the posts the two threads have behind
  them without the waits, and the output is as long as they have prints behind them. No semaphore is below zero;
  that alone leaves 29 places of a round in which the threads can be together (`Meetings`), and in each of them
  at most one character can come next. It also keeps them from counting above one (`AtMostOne`).
- `Family`: main starts its threads one by one, and whom it has joined has ended. `Excl`: one thread at
  a time is between `pthread_mutex_lock` and `pthread_mutex_unlock`, and then the mutex is locked.
- `MutexInv`, `Mutex1Inv`, `Join1Inv`, `IncInv`, `HelloInv`, `MessageInv`: the lines that are out and the
  increments that are done are the threads behind the call in question (`Ahead`), and a thread between load
  and store has loaded what is still there. With `Family`, main prints or exits when all are behind it.
- `OddInv` does without the mutex, which excludes nobody in `oddevev.c`: a thread that is about to increment
  found its parity, the other one cannot find the other parity until it has, and what it found was
  not beyond the limit.
- `KinInv` of `sem_ex1.cpp`: `KinSem` is the semaphore with what the kernel owes each process, `KinPlaces` who is
  forked and who has ended, and `KinLines` that behind the grandchild's line at most the parent's comes
  before child1's.

Out of the provers' reach, and so model-checked only: liveness (`PipelineEnds`, `PromptReturns`,
`ScriptServed`, `Ends`, `AllEnd`, `EndsUnlessWaiting`, the fairness part of the refinements). Every
invariant, action property and safety part of a refinement that a run checks is proved.

## 6. Findings

Each is a run that ends with a counterexample.

- `mysh_reread`: with standard input from a file, a command that cannot be executed makes the shell
  read lines of the script again.
- `syn_thread_2_ends`: a lost wake-up hangs `syn_thread_2`.
- `sem_ex1_parent`: the comments of `sem_ex1.cpp` (99-104, 150) have child2 wait for child1, and the parent for
  both. child2 may take the semaphore first, and the parent waits for child2 only: both print before
  child1 and the grandchild do.

Seen while modelling, and written into the properties as the exceptions they name:

- `status` has no value before the first line that is not empty, so an empty first line may end
  mysh1 to mysh4; a line of spaces passes NULL to `strcmp` (`EndsOnlyByExit`; `mysh2.c` 16,
  `myshHeader.h` 153).
- After a `cd ~/...` a later `cd` without an argument may be sent to a wrong path, and stays where
  it is without a word, because `getHomePath` appends to memory the first one freed (`CdGoesThere`;
  `myshHeader.h` 38). An error message before has the same effect where the C library's `perror` allocates and
  frees a block of that size, and with both even `cd ~/...` may go astray.
- `mysh4` hands lines with several bars to `execPipe`, which runs the first and the last command.
- Nothing makes `ab` come first in `syn_process_2`; the flag of `shmem.c` does.
- The first draft in `twoPipes.c`, `pipes.c` and `launch_job` keep pipe ends they do not use: a reader may miss
  its end of file or a writer its SIGPIPE (`KeepWriteEnd`, `KeepReadEnd`). In `pipes.c` a child whose
  `execvp` fails goes on as its parent does (`Astray`).
- What the semaphore of `sem_ex1.cpp` does give is in `SectionsApart`: child2's line is before the grandchild's
  or behind child1's, and before the parent's.
- `mutex1.c` goes on after a failed `pthread_create` and joins an id that was never set; `Ends` and `Outcome`
  name that case.
- `example_shell.c` ignores SIGCHLD (line 110), so the end of a process is never reported to it. When one process
  of a pipeline is over and the other one is stopped, the shell does not take the terminal back, as the
  comment at line 262 wants; `PromptReturns` says when it does.
- It restores terminal modes that were never saved when it continues in the foreground a job it launched in the
  background (line 283; the comment at line 459 speaks of saved ones). How jobs are initialised is left
  out of the file.
- The threads of `oddevev.c` unlock a mutex they do not hold; the parity of the counter alone keeps
  their output in order.

## 7. Assumptions and limits

- Input lines are shorter than INPUT_SIZE and INPUT_SIZE is large enough for all tokens; USER is set.
- `tokenize` returns memory it has freed; the model keeps the two outcomes that matter, an `execvp`
  that works and one that fails. lsh prints tokens it has not assigned yet; that changes nothing.
- In `mysh_reread` the script fits in stdio's buffer and its lines have equal length; the programs
  it starts do not read standard input.
- The prompt waits for the second command of a pipeline only; the first may still run. That is what
  the code does, and `PromptAfterLastCommand` says no more.
- End of file does not end the shells: they prompt for ever. No document promises otherwise.
- The failure of `semget`, `semctl` and `shmget`, before anything else happens, is left out, and so is that of
  the second `pthread_create` of `syn_thread_1.c`, which ends the program with what its first thread has
  printed by then (`syn_thread_2.c` compares with -1, which `pthread_create` never returns). The other tested
  failures of `pthread_create` and `pipe` are modelled; in programs that do not test them the call works. `y` in `ex_pthread1.c` belongs to main alone and is left out.
- The semaphore of `proc1.c` and `basic_sem.c` starts at zero, which is what the kernel gives a new
  one; the programs never set it. Nobody else removes or changes it.
- `rc` in `syn_thread_2.c` is set and never read, and is left out.
- In `JobControl` stops come from the terminal (SIGTSTP, SIGTTIN) and continues from the shell; kills of stopped
  processes, SIGSTOP and SIGCONT from elsewhere, and stops under a shell that is not interactive are
  left out. Two weaknesses of the sample remain in its properties as the exceptions `Strays` (a process that
  finds its group gone, because the leader was reaped by the kernel) and the modes -1 (a job started
  in the background and then continued in the foreground gets modes that were never saved, line 283).

Not modelled, and why:

- `sys_sem_ex.c` is a fragment: it exits right behind its first call, so that nothing after it runs, and the
  rest uses names it never declares. There is nothing to model. (`example_shell.c`
  does not compile as it stands either: line 473 names a type that is not there, and the prototypes at 501-510
  lack their semicolons. But its functions are complete and it is clear what they do, so they are
  modelled.) `diaf_sem_ex.c` runs one thread through
  calls none of which can wait or be interfered with.
- `find_job` of `example_shell.c` and `runpipe` of `twoPipes.c` are called by nothing. The read loop and the
  splitting in `twoPipes.c` are those of `mysh4` (module `Mysh`).
- The editor backups repeat files that are modelled.

## 8. Plan

Every part of the repository that synchronises, forks or shares something is modelled, and every
safety property that a passing run checks is proved for all values of the constants. Liveness stays with TLC
(section 5). What could be added is named in section 7: the failures of calls the programs do not test, and stops and
kills from outside the job-control shell.
