-------------------------------- MODULE Mysh --------------------------------
(***************************************************************************)
(* The main loop of the four shells mysh1.c to mysh4.c with the functions  *)
(* of myshHeader.h they call, and of the shell they grew out of, main.c    *)
(* (lsh), fed from a script.  The shell reads a line, dispatches it to     *)
(* executeCommand, execPipe or lsh_execute, waits for the child and tests  *)
(* its variable status, which the four never initialise.                   *)
(*                                                                         *)
(* Standard input is read through stdio: getchar takes characters from a   *)
(* buffer that read(2) refills from the file offset, an offset the shell   *)
(* shares with its children.  A child inherits a copy of the buffer, and   *)
(* exit(3) in a child gives the characters it did not read back by moving  *)
(* the offset, when the file has one (Seekable).  That part is the C       *)
(* library's, seen from the getchar and exit calls of the shells.          *)
(*                                                                         *)
(* The inside of execPipe's child is module PipeCmd; here a pipeline is    *)
(* the child the shell waits for and a second process of which only the    *)
(* time before its execvp matters.                                         *)
(***************************************************************************)
EXTENDS CommandLine

CONSTANTS
    Shells,     \* the programs to run, among "mysh1" .. "mysh4" and "lsh"
    Symbols,    \* what lines are made of: the space, the bar and words
    Scripts,    \* the inputs: sequences of lines, each a sequence of symbols
    Seekable,   \* standard input is a regular file (else a pipe or terminal)
    MaxStops    \* bound: stop signals over a behaviour

ASSUME ScriptsAssumption == Scripts \subseteq Seq(Seq(Symbols))
ASSUME MyshAssumption ==
    /\ Shells \subseteq {"mysh1", "mysh2", "mysh3", "mysh4", "lsh"}
    /\ Seekable \in BOOLEAN
    /\ MaxStops \in Nat

VARIABLES
    prog,       \* the shell that runs
    script,     \* its input
    pc,         \* where main or the function it called is
    path,       \* what chdir was last called with, as a sequence of its parts
    recycled,   \* blocks of INPUT_SIZE that cd has freed and malloc returns first
    failed,     \* the first line for which the shell called perror, or 0
    status,     \* main's variable status
    wstatus,    \* the variable status of the function that waits
    input,      \* programName, line: the line being executed
    pos,        \* the next line in the stdio buffer...
    hi,         \* ... which holds the lines pos .. hi - 1
    off,        \* lines of the script before the file offset
    eof,        \* stdio has seen the end of the input
    child,      \* the child the shell forked
    stopped,    \* that child is stopped
    report,     \* ... and waitpid has not reported it yet
    writer,     \* lines in the buffer copy of a grandchild before its execvp
    stops       \* stop signals so far

directory == <<path, recycled, failed>>
vars == <<prog, script, directory, pc, status, wstatus, input, pos, hi, off, eof,
          child, stopped, report, writer, stops>>
stdin == <<pos, hi, off, eof>>
procs == <<child, stopped, report, writer, stops>>

NoWriter == -1
Over == {"exited", "signaled"}

\* main does not initialise status: any value may be there.  lsh assigns it in
\* every round before it tests it, and one value stands for all.
Init ==
    /\ prog \in Shells
    /\ script \in Scripts
    /\ pc = "getchar"
    /\ path = <<>>
    /\ recycled = 0
    /\ failed = 0
    /\ status \in IF prog = "lsh" THEN {1} ELSE {0, 1}
    /\ wstatus = "unset"
    /\ input = <<>>
    /\ pos = 1
    /\ hi = 1
    /\ off = 0
    /\ eof = FALSE
    /\ child = "none"
    /\ stopped = FALSE
    /\ report = FALSE
    /\ writer = NoWriter
    /\ stops = 0
-----------------------------------------------------------------------------
(* Reading a line                                                          *)

\* The buffer is empty and the file is not: read(2) fetches the whole file, or
\* what a pipe or a terminal has to offer.
Fill ==
    /\ pc = "getchar"
    /\ pos = hi
    /\ ~eof
    /\ off < Len(script)
    /\ off' \in IF Seekable THEN {Len(script)} ELSE off + 1 .. Len(script)
    /\ pos' = off + 1
    /\ hi' = off' + 1
    /\ UNCHANGED <<prog, script, directory, pc, status, wstatus, input, eof, procs>>

\* The line read up to '\n', as the read loop of each shell stores it.  An empty
\* programName is not executed, and leaves status as it is; lsh executes it.
AfterReading(line) == IF line = <<>> /\ prog # "lsh" THEN "while" ELSE "dispatch"

StoredLine(line) == IF prog = "mysh1" THEN DropSpaces(line) ELSE KeepAll(line)

ReadLine ==
    /\ pc = "getchar"
    /\ pos < hi
    /\ input' = StoredLine(script[pos])
    /\ pos' = pos + 1
    /\ pc' = AfterReading(input')
    /\ UNCHANGED <<prog, script, directory, status, wstatus, hi, off, eof, procs>>

\* getchar returns EOF, now and whenever it is called again: an empty line.
ReadEof ==
    /\ pc = "getchar"
    /\ pos = hi
    /\ eof \/ off >= Len(script)
    /\ eof' = TRUE
    /\ input' = <<>>
    /\ pc' = AfterReading(<<>>)
    /\ UNCHANGED <<prog, script, directory, status, wstatus, pos, hi, off, procs>>

\* while (status)
While ==
    /\ pc = "while"
    /\ pc' = IF status = 0 THEN "returned" ELSE "getchar"
    /\ UNCHANGED <<prog, script, directory, status, wstatus, input, stdin, procs>>
-----------------------------------------------------------------------------
(* Dispatching it                                                          *)

\* What main calls for a line that is not empty.
CalleeMysh12(line) == "executeCommand"

CalleeMysh3(line) ==
    IF ~HasBar(line) THEN "executeCommand"
    ELSE IF BarCount(line) < 2 THEN "execPipe" ELSE "ignore"

CalleeMysh4(line) == IF HasBar(line) THEN "execPipe" ELSE "executeCommand"

\* lsh splits every line and hands it on; a bar is a character like others.  Its
\* prints of tokens not yet assigned are of memory that was never used or held
\* the tokens of an earlier line, and change nothing.
CalleeLsh(line) == "lsh_execute"

Callee(line) ==
    CASE prog \in {"mysh1", "mysh2"} -> CalleeMysh12(line)
      [] prog = "mysh3"              -> CalleeMysh3(line)
      [] prog = "mysh4"              -> CalleeMysh4(line)
      [] prog = "lsh"                -> CalleeLsh(line)

Call(f) == pc = "dispatch" /\ Callee(input) = f

\* mysh3 with two bars or more: status = 1.
TooManyBars ==
    /\ Call("ignore")
    /\ status' = 1
    /\ pc' = "while"
    /\ UNCHANGED <<prog, script, directory, wstatus, input, stdin, procs>>

\* strcmp(tokenisedArgs[0], "cd") with tokenisedArgs[0] = NULL, or
\* strcpy(firstCmd, token) with token = NULL.
Crash ==
    /\ \/ Call("executeCommand") /\ Args(input) = <<>>
       \/ Call("execPipe") /\ Strtok(input, Bar) = <<>>
    /\ pc' = "crashed"
    /\ UNCHANGED <<prog, script, directory, status, wstatus, input, stdin, procs>>

Command(name) == Args(input) # <<>> /\ Args(input)[1] = <<name>>

Builtin(name) ==
    /\ Call("executeCommand") \/ Call("lsh_execute")
    /\ Command(name)

\* executeCommand and lsh_execute compare the first token with these.
Builtins == IF prog = "lsh" THEN {"cd", "help", "exit"} ELSE {"cd", "exit"}

External == Args(input) # <<>> /\ \A name \in Builtins : ~Command(name)

\* An error message for the line.  perror may open a stream of its own and free it
\* with its buffer, in a block malloc had given to nobody else.
Perror == failed' = IF failed = 0 THEN pos - 1 ELSE failed

\* chdir with one of these paths, which may fail.
Chdir(paths) == path' \in paths /\ (UNCHANGED failed \/ Perror)

\* malloc hands the blocks that were freed out before new ones, so that programName
\* is always the block of the line before.
Taken(n) == IF recycled > n THEN recycled - n ELSE 0

\* The block malloc returns after n others was used: freed by cd, or by perror.
Used(n) == recycled > n \/ (recycled = n /\ failed # 0)

\* getHomePath appends to a block that is zero when it is new; a used one may
\* begin with anything.
Home == <<"/home/USER/">>
HomePaths(n) == {Home} \cup (IF Used(n) THEN {<<"garbage">> \o Home} ELSE {})

InHome(arg) == Head(arg) = HomeDir

\* Mutant: myCd also frees what getHomePath returned.
CdInHomeFreesAll(arg) ==
    /\ Chdir({home \o <<InDir>> \o Tail(arg) : home \in HomePaths(2)})
    /\ recycled' = Taken(3) + 3

\* "~/...": relativePath, realPath and newPath are allocated, the first two freed.
CdInHome(arg) ==
    /\ Chdir({home \o <<InDir>> \o Tail(arg) : home \in HomePaths(2)})
    /\ recycled' = Taken(3) + 2

\* No argument, where nobody looks whether chdir failed, an argument in "~/", or any
\* other, for which relativePath is allocated all the same.
MyCd(args) ==
    IF Len(args) = 1 THEN path' \in HomePaths(0) /\ recycled' = Taken(1) /\ UNCHANGED failed
    ELSE IF InHome(args[2]) THEN CdInHome(args[2])
    ELSE Chdir({args[2]}) /\ recycled' = Taken(1)

LshCd(args) ==
    /\ IF Len(args) = 1 THEN UNCHANGED <<path, failed>> ELSE Chdir({args[2]})
    /\ UNCHANGED recycled

\* Mutant: cd returns what chdir returns.
CdReturnsChdir ==
    /\ Builtin("cd")
    /\ status' \in {0, -1}
    /\ pc' = "while"
    /\ UNCHANGED <<prog, script, directory, wstatus, input, stdin, procs>>

\* myCd and lsh_cd return 1 in every case.
Cd ==
    /\ Builtin("cd")
    /\ IF prog = "lsh" THEN LshCd(Args(input)) ELSE MyCd(Args(input))
    /\ status' = 1
    /\ pc' = "while"
    /\ UNCHANGED <<prog, script, wstatus, input, stdin, procs>>

\* Mutant: exit looks at no argument.
ExitAlways ==
    /\ Builtin("exit")
    /\ status' = 0
    /\ pc' = "while"
    /\ UNCHANGED <<prog, script, directory, wstatus, input, stdin, procs>>

\* myExit returns 0, or an error message and 1 for an argument; lsh_exit returns 0.
Exit ==
    /\ Builtin("exit")
    /\ IF Len(Args(input)) > 1 /\ prog # "lsh"
       THEN status' = 1 /\ Perror
       ELSE status' = 0 /\ UNCHANGED failed
    /\ pc' = "while"
    /\ UNCHANGED <<prog, script, path, recycled, wstatus, input, stdin, procs>>

\* lsh_help, and lsh_execute with an empty command: return 1.
HelpOrEmpty ==
    /\ Call("lsh_execute")
    /\ Args(input) = <<>> \/ Command("help")
    /\ status' = 1
    /\ pc' = "while"
    /\ UNCHANGED <<prog, script, directory, wstatus, input, stdin, procs>>

\* fork: the child of executeCommand or lsh_launch goes straight to
\* execvp, the child of execPipe to runPipeCmd.
Fork(f, start) ==
    /\ Call(f)
    /\ child' = start
    /\ wstatus' = "unset"
    /\ pc' = "waitpid"
    /\ UNCHANGED <<prog, script, directory, status, input, stdin, stopped, report, writer, stops>>

ExecuteCommand ==
    /\ Fork("executeCommand", "execvp") \/ Fork("lsh_execute", "execvp")
    /\ External

ExecPipe ==
    /\ Fork("execPipe", "runPipeCmd")
    /\ Strtok(input, Bar) # <<>>

\* fork fails: an error message, and the functions return 1.
ForkFails ==
    /\ \/ /\ Call("executeCommand") \/ Call("lsh_execute")
          /\ External
       \/ /\ Call("execPipe")
          /\ Strtok(input, Bar) # <<>>
    /\ Perror
    /\ status' = 1
    /\ pc' = "while"
    /\ UNCHANGED <<prog, script, path, recycled, wstatus, input, stdin, procs>>

\* waitpid(pid, &status, WUNTRACED): the child is over, or was stopped.
WaitPid ==
    /\ pc = "waitpid"
    /\ \/ /\ child \in Over
          /\ wstatus' = child
          /\ child' = "reaped"
          /\ UNCHANGED report
       \/ /\ report
          /\ wstatus' = "stopped"
          /\ report' = FALSE
          /\ UNCHANGED child
    /\ pc' = "test"
    /\ UNCHANGED <<prog, script, directory, status, input, stdin, stopped, writer, stops>>

\* Mutants: the loop ends on any change of state, or on a normal exit alone.
LoopTestAnyChange ==
    /\ pc = "test"
    /\ pc' = "while"
    /\ status' = 1
    /\ child' = "none"
    /\ UNCHANGED <<prog, script, directory, wstatus, input, stdin, stopped, report, writer, stops>>

LoopTestNotSignaled ==
    /\ pc = "test"
    /\ IF wstatus = "exited"
       THEN pc' = "while" /\ status' = 1 /\ child' = "none"
       ELSE pc' = "waitpid" /\ UNCHANGED <<status, child>>
    /\ UNCHANGED <<prog, script, directory, wstatus, input, stdin, stopped, report, writer, stops>>

\* while (!WIFEXITED(status) && !WIFSIGNALED(status)), then return 1.
LoopTest ==
    /\ pc = "test"
    /\ IF wstatus \in Over
       THEN pc' = "while" /\ status' = 1 /\ child' = "none"
       ELSE pc' = "waitpid" /\ UNCHANGED <<status, child>>
    /\ UNCHANGED <<prog, script, directory, wstatus, input, stdin, stopped, report, writer, stops>>
-----------------------------------------------------------------------------
(* The children                                                            *)

\* exit flushes stdio: n unread lines of the process's copy of the buffer are
\* given back, if the offset can be moved and does not become negative.
GiveBack(n) == off' = IF Seekable /\ n <= off THEN off - n ELSE off

ChildOver(how) ==
    /\ child' = how
    /\ stopped' = FALSE
    /\ report' = FALSE

CanRun == ~stopped

\* runPipeCmd forks: from here on the grandchild runs by itself.  Bound: the
\* grandchild of an earlier line has left its set-up by then.
RunPipeCmd ==
    /\ child = "runPipeCmd" /\ CanRun
    /\ writer = NoWriter
    /\ child' = "execvp"
    /\ writer' = hi - pos
    /\ UNCHANGED <<prog, script, directory, pc, status, wstatus, input, stdin, stopped, report, stops>>

\* pipe or fork fails in runPipeCmd, or execvp in either function: exit.
ChildExits ==
    /\ child \in {"runPipeCmd", "execvp"} /\ CanRun
    /\ ChildOver("exited")
    /\ GiveBack(hi - pos)
    /\ UNCHANGED <<prog, script, directory, pc, status, wstatus, input, pos, hi, eof, writer, stops>>

Execvp ==
    /\ child = "execvp" /\ CanRun
    /\ child' = "running"
    /\ UNCHANGED <<prog, script, directory, pc, status, wstatus, input, stdin, stopped, report, writer, stops>>

\* The program ends.  Programs are assumed not to read the script.
ProgramEnds ==
    /\ child = "running" /\ CanRun
    /\ ChildOver("exited")
    /\ UNCHANGED <<prog, script, directory, pc, status, wstatus, input, stdin, writer, stops>>

\* The grandchild's execvp replaces the buffer copy, or fails and exits.
WriterExecvp ==
    /\ writer # NoWriter
    /\ writer' = NoWriter
    /\ off' = off \/ GiveBack(writer)
    /\ UNCHANGED <<prog, script, directory, pc, status, wstatus, input, pos, hi, eof,
                   child, stopped, report, stops>>

ChildAlive == child \in {"runPipeCmd", "execvp", "running"}

Kill ==
    /\ ChildAlive
    /\ ChildOver("signaled")
    /\ UNCHANGED <<prog, script, directory, pc, status, wstatus, input, stdin, writer, stops>>

Stop ==
    /\ ChildAlive /\ CanRun
    /\ stops < MaxStops
    /\ stops' = stops + 1
    /\ stopped' = TRUE
    /\ report' = TRUE
    /\ UNCHANGED <<prog, script, directory, pc, status, wstatus, input, stdin, child, writer>>

Continue ==
    /\ ChildAlive /\ stopped
    /\ stopped' = FALSE
    /\ report' = FALSE
    /\ UNCHANGED <<prog, script, directory, pc, status, wstatus, input, stdin, child, writer, stops>>

\* The shell is over, by itself or by a crash, and so are its children.
ShellOver ==
    /\ pc \in {"returned", "crashed"}
    /\ writer = NoWriter
    /\ UNCHANGED vars

Shell ==
    \/ Fill \/ ReadLine \/ ReadEof \/ While \/ TooManyBars \/ Crash \/ Cd \/ Exit \/ HelpOrEmpty
    \/ ExecuteCommand \/ ExecPipe \/ ForkFails \/ WaitPid \/ LoopTest

SetUp == RunPipeCmd \/ ChildExits \/ Execvp

Next ==
    \/ Shell \/ SetUp \/ ProgramEnds \/ WriterExecvp
    \/ Kill \/ Stop \/ Continue \/ ShellOver

\* The kernel schedules the shell and the children it has just forked; programs
\* and the user owe nothing.
Spec ==
    /\ Init /\ [][Next]_vars
    /\ WF_vars(Shell) /\ WF_vars(SetUp) /\ WF_vars(WriterExecvp)
-----------------------------------------------------------------------------
(* Properties                                                              *)

\* The parts of a path that no line holds.
PathParts == {"/home/USER/", "garbage", InDir}

\* Type correctness; the buffer is a window of the script.
TypeOK ==
    /\ prog \in Shells
    /\ script \in Scripts
    /\ pc \in {"getchar", "dispatch", "waitpid", "test", "while", "returned", "crashed"}
    /\ path \in Seq(Symbols \cup PathParts)
    /\ recycled \in 0..2
    /\ failed \in 0..Len(script)
    /\ status \in {0, 1}
    /\ wstatus \in {"unset", "stopped"} \cup Over
    /\ pos \in 1..hi
    /\ hi \in 1 .. Len(script) + 1
    /\ off \in 0..Len(script)
    /\ eof \in BOOLEAN
    /\ child \in {"none", "runPipeCmd", "execvp", "running", "reaped"} \cup Over
    /\ stopped \in BOOLEAN
    /\ report \in BOOLEAN
    /\ writer \in NoWriter..Len(script)
    /\ stops \in 0..MaxStops

\* The words of a command are the maximal runs of other characters between
\* spaces, and the commands of a pipeline those between bars, whatever spaces
\* and bars stand next to each other or at the ends of the line (lines 142-150,
\* 315-324).  execPipe keeps what stands before the first bar and, if it begins
\* with a space, what stands behind the last one: the character it drops (line
\* 322) is that space and no other.
TakenApart ==
    pc = "dispatch" =>
        /\ ListsRuns(Args(input), input, Space)
        /\ ListsRuns(Strtok(input, Bar), input, Bar)
        /\ \A k \in 2 .. Len(input) - 1 :
             input[k] = Bar /\ input[k + 1] = Space =>
               LET before == SubSeq(input, 1, k - 1)
                   behind == SubSeq(input, k + 1, Len(input))
               IN /\ ~HasBar(before) => FirstCmd(input) = before
                  /\ ~HasBar(behind) => Args(SecondCmd(input)) = Args(behind)

\* The only word of the line is exit.
ExitAlone(line) ==
    \E i \in 1..Len(line) :
        line[i] = "exit" /\ \A j \in 1..Len(line) : j # i => line[j] = Space

\* The shell returns from main for an exit without arguments only (lsh for any
\* exit), never because its input ends, unless every line so far was empty, when
\* the status of mysh1 to mysh4 still has no value; and these four crash for no
\* other lines than those of spaces and bars, lsh never.
EndsOnlyByExit ==
    /\ pc = "returned" =>
          \/ ExitAlone(input)
          \/ prog = "lsh" /\ Command("exit")
          \/ /\ prog # "lsh" /\ input = <<>>
             /\ \A i \in 1 .. pos - 1 : StoredLine(script[i]) = <<>>
    /\ pc = "crashed" =>
          prog # "lsh" /\ \A i \in 1..Len(input) : input[i] \in {Space, Bar}

\* "cd ~/..." stands among the first n lines.
CdInBefore(n) ==
    \E i \in 1..n :
        LET earlier == Args(StoredLine(script[i])) IN
        Len(earlier) > 1 /\ earlier[1] = <<"cd">> /\ InHome(earlier[2])

\* cd in mysh1 to mysh4 goes where it says.  Home without an argument ("change to
\* the $HOME directory", line 55), as long as neither a "cd ~/..." nor an error
\* message has left used memory behind; below home for "~/...", as long as not
\* both did, because the blocks one cd frees are not those the next builds the
\* path in; and to any other argument whatever lines came before.
CdGoesThere ==
    pc = "while" /\ Command("cd") /\ Callee(input) = "executeCommand" =>
        LET args == Args(input)
            failedBefore == failed \in 1 .. pos - 2
        IN /\ Len(args) = 1 => path = Home \/ CdInBefore(pos - 2) \/ failedBefore
           /\ Len(args) > 1 =>
                 IF InHome(args[2])
                 THEN \/ path = Home \o <<InDir>> \o Tail(args[2])
                      \/ CdInBefore(pos - 2) /\ failedBefore
                 ELSE path = args[2]

\* The shell executes each line once: its place in the script only advances,
\* whatever its children do to the file offset it shares with them.
EachLineOnce == [][pos' >= pos]_vars

CommandsEnd == []<>(child \notin {"runPipeCmd", "execvp", "running"})

\* If every command comes to an end, so does the script: stopped, killed and
\* failing commands leave the shell able to read on.
ScriptServed == CommandsEnd => <>(eof \/ pc \in {"returned", "crashed"})

\* executeCommand, execPipe and lsh_launch keep the promise of Foreground.
Fg == INSTANCE Foreground WITH
    shell <- IF pc \in {"waitpid", "test"} THEN "waiting" ELSE "ready",
    command <- CASE child = "none" -> "none"
                 [] child \in Over \cup {"reaped"} -> "over"
                 [] OTHER -> "running"

ImplementsForeground == Fg!Spec
=============================================================================
