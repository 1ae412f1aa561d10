----------------------------- MODULE JobControl -----------------------------
(***************************************************************************)
(* The job-control sample, example_shell.c: the shell starts pipelines in  *)
(* the foreground or background, hands the terminal to them and takes it   *)
(* back, records what waitpid reports and continues stopped jobs.  The     *)
(* command loop, which links a job into the list and calls these           *)
(* functions, is not in the file; it is the environment here, as are the   *)
(* programs the jobs run and the kernel's terminal and process groups.     *)
(*                                                                         *)
(* A process is <<j, k>>, the k-th of job j's pipeline, and stands for its *)
(* own pid.  The process group of job j is written j (its leader is        *)
(* <<j, 1>>), the shell's own group 0.                                     *)
(***************************************************************************)
EXTENDS Integers

CONSTANTS
    Jobs,           \* the jobs the user may start
    Size,           \* Size[j]: processes in job j's pipeline
    MaxCommands     \* bound: commands the user gives

ASSUME JobsAssumption == Jobs \subseteq Nat \ {0}
ASSUME SizeAssumption == Size \in [Jobs -> Nat \ {0}]
ASSUME MaxCommandsAssumption == MaxCommands \in Nat

VARIABLES
    interactive,    \* shell_is_interactive
    pc,             \* where the shell is
    cmd,            \* the job it works on, and how: [job, k, foreground, cont]
    active,         \* the jobs in the list first_job; no function looks at their order
    rec,            \* rec[p]: the shell's record, [completed, stopped]
    pgid,           \* pgid[j]: 0 until the first process is forked
    notified,       \* notified[j]
    tmodes,         \* tmodes[j]: saved terminal modes
    proc,           \* proc[p]: the process itself, [state, group, foreground, unreported]
    term,           \* foreground process group of the terminal
    modes,          \* terminal modes: 0 the shell's, j as job j set them
    commands        \* commands given so far

shell == <<pc, cmd>>
records == <<active, rec, pgid, notified, tmodes>>
terminal == <<term, modes>>
vars == <<interactive, shell, records, proc, terminal, commands>>

Procs == UNION {{j} \X (1..Size[j]) : j \in Jobs}
ProcsOf(j) == {p \in Procs : p[1] = j}

Shell == 0          \* shell_pgid, shell_tmodes
Outside == -1       \* the group that owns the terminal when the shell is
                    \* started in the background; modes never saved

Alive(p) == proc[p].state \in {"forked", "grouped", "owner", "running", "stopped"}
Child(p) == Alive(p) \/ proc[p].state = "zombie"
Over(p) == proc[p].state \in {"zombie", "over"}
GroupExists(g) == g = Shell \/ \E p \in Procs : Child(p) /\ proc[p].group = g

Init ==
    /\ interactive \in BOOLEAN
    /\ pc = "init"
    /\ cmd = [job |-> 0, k |-> 0, foreground |-> FALSE, cont |-> FALSE]
    /\ active = {}
    /\ rec = [p \in Procs |-> [completed |-> FALSE, stopped |-> FALSE]]
    /\ pgid = [j \in Jobs |-> 0]
    /\ notified = [j \in Jobs |-> FALSE]
    /\ tmodes = [j \in Jobs |-> Outside]
    /\ proc = [p \in Procs |-> [state |-> "none", group |-> Shell,
                                foreground |-> FALSE, unreported |-> FALSE]]
    /\ term \in {Shell, Outside}
    /\ modes = Shell
    /\ commands = 0
-----------------------------------------------------------------------------
(* init_shell                                                              *)

\* tcgetpgrp differs from getpgrp: the shell stops itself with SIGTTIN until
\* whoever started it gives it the terminal.
BroughtToForeground ==
    /\ pc = "init"
    /\ term = Outside
    /\ term' = Shell
    /\ UNCHANGED <<interactive, shell, records, proc, modes, commands>>

\* Signals ignored, an own group, the terminal taken, its modes saved.
InitShell ==
    /\ pc = "init"
    /\ interactive => term = Shell
    /\ pc' = "notify"
    /\ UNCHANGED <<interactive, cmd, records, proc, terminal, commands>>

\* setpgid refuses: the shell leads a session.
InitFails ==
    /\ pc = "init"
    /\ interactive /\ term = Shell
    /\ pc' = "exited"
    /\ UNCHANGED <<interactive, cmd, records, proc, terminal, commands>>
-----------------------------------------------------------------------------
(* Waiting: mark_process_status, update_status, wait_for_job               *)

job_is_stopped(r, j) == \A p \in ProcsOf(j) : r[p].completed \/ r[p].stopped
job_is_completed(r, j) == \A p \in ProcsOf(j) : r[p].completed

Reportable == {p \in Procs : proc[p].state = "zombie" \/ proc[p].unreported}
NoChild == \A p \in Procs : ~Child(p)

\* waitpid returns p: a zombie is reaped, a stop is reported once.
Waited(p) ==
    proc' = [proc EXCEPT ![p].state = IF @ = "zombie" THEN "over" ELSE @,
                         ![p].unreported = FALSE]

\* The record of p, which is in the list, after waitpid has returned it.
mark_process_status(p) ==
    IF proc[p].unreported THEN [rec EXCEPT ![p].stopped = TRUE]
                          ELSE [rec EXCEPT ![p].completed = TRUE]

\* The job is linked in the list: mark_process_status finds its processes.
Listed(p) == p[1] \in active

\* One turn of update_status: waitpid with WNOHANG has something to report.
UpdateStatus(p) ==
    /\ pc = "notify"
    /\ p \in Reportable
    /\ Waited(p)
    /\ rec' = IF Listed(p) THEN mark_process_status(p) ELSE rec
    /\ pc' = IF Listed(p) THEN pc ELSE "tell"
    /\ UNCHANGED <<interactive, cmd, active, pgid, notified, tmodes, terminal, commands>>

\* waitpid with WNOHANG returns 0 or ECHILD.
UpdateStatusEnds ==
    /\ pc = "notify"
    /\ Reportable = {}
    /\ pc' = "tell"
    /\ UNCHANGED <<interactive, cmd, records, proc, terminal, commands>>

\* The rest of do_job_notification: completed jobs leave the list, stopped ones
\* are told of.
Notify ==
    /\ pc = "tell"
    /\ active' = {j \in active : ~job_is_completed(rec, j)}
    /\ notified' = [j \in Jobs |-> notified[j] \/ (j \in active' /\ job_is_stopped(rec, j))]
    /\ pc' = "read"
    /\ UNCHANGED <<interactive, cmd, rec, pgid, tmodes, proc, terminal, commands>>

AfterWait == IF interactive THEN "regain" ELSE "notify"

\* One turn of wait_for_job: waitpid returns p.
WaitForJob(p) ==
    /\ pc = "wait"
    /\ p \in Reportable
    /\ Waited(p)
    /\ rec' = IF Listed(p) THEN mark_process_status(p) ELSE rec
    /\ pc' = IF ~Listed(p) \/ job_is_stopped(rec', cmd.job)
             THEN AfterWait ELSE pc
    /\ UNCHANGED <<interactive, cmd, active, pgid, notified, tmodes, terminal, commands>>

\* Mutant: only waitpid's 0 ends the loop.
WaitGoesOn == pc' = pc

\* waitpid fails with ECHILD and mark_process_status returns -1.
WaitEnds == pc' = AfterWait

WaitNoChild ==
    /\ pc = "wait"
    /\ NoChild
    /\ WaitEnds
    /\ UNCHANGED <<interactive, cmd, records, proc, terminal, commands>>
-----------------------------------------------------------------------------
(* The commands of the user, as the missing command loop would pass them on *)

\* A new job is linked into the list and launch_job called.
Launch(j, fg) ==
    /\ pc = "read"
    /\ commands < MaxCommands
    /\ proc[<<j, 1>>].state = "none"
    /\ active' = active \cup {j}
    /\ cmd' = [job |-> j, k |-> 1, foreground |-> fg, cont |-> FALSE]
    /\ pc' = "fork"
    /\ commands' = commands + 1
    /\ UNCHANGED <<interactive, rec, pgid, notified, tmodes, proc, terminal>>

\* Mutant: the processes keep the mark of their stop.
MarkNotRunning(j) == rec

mark_job_as_running(j) ==
    [p \in Procs |-> IF p \in ProcsOf(j) THEN [rec[p] EXCEPT !.stopped = FALSE] ELSE rec[p]]

\* continue_job: mark_job_as_running, then put_job_in_foreground or
\* put_job_in_background.
ContinueJob(j, fg) ==
    /\ pc = "read"
    /\ interactive
    /\ commands < MaxCommands
    /\ j \in active
    /\ rec' = mark_job_as_running(j)
    /\ notified' = [notified EXCEPT ![j] = FALSE]
    /\ cmd' = [job |-> j, k |-> 0, foreground |-> fg, cont |-> TRUE]
    /\ pc' = IF fg THEN "give" ELSE "continue"
    /\ commands' = commands + 1
    /\ UNCHANGED <<interactive, active, pgid, tmodes, proc, terminal>>

\* End of input.
Quit ==
    /\ pc = "read"
    /\ pc' = "exited"
    /\ UNCHANGED <<interactive, cmd, records, proc, terminal, commands>>
-----------------------------------------------------------------------------
(* launch_job                                                              *)

\* setpgid(p, g), refused when g is neither p's own nor an existing group.
Setpgid(p, g) ==
    IF <<g, 1>> = p \/ GroupExists(g) THEN [proc[p] EXCEPT !.group = g] ELSE proc[p]

AfterLaunch ==
    IF ~interactive THEN "wait"
    ELSE IF cmd.foreground THEN "give" ELSE "notify"

\* The pipeline goes on, or the job is launched.
NextProcess ==
    /\ pc' = IF cmd.k < Size[cmd.job] THEN "fork" ELSE AfterLaunch
    /\ cmd' = [cmd EXCEPT !.k = @ + 1]

\* fork; in the parent, p->pid and the group of the first process.
Fork ==
    /\ pc = "fork"
    /\ LET p == <<cmd.job, cmd.k>> IN
       proc' = [proc EXCEPT ![p].state = "forked", ![p].foreground = cmd.foreground]
    /\ IF interactive
       THEN /\ pgid' = [pgid EXCEPT ![cmd.job] = cmd.job]
            /\ pc' = "setpgid"
            /\ UNCHANGED cmd
       ELSE /\ NextProcess
            /\ UNCHANGED pgid
    /\ UNCHANGED <<interactive, active, rec, notified, tmodes, terminal, commands>>

\* pipe or fork fails: exit(1).
ForkFails ==
    /\ pc = "fork"
    /\ pc' = "exited"
    /\ UNCHANGED <<interactive, cmd, records, proc, terminal, commands>>

\* The parent's setpgid; EACCES once the child has executed its program.
ParentSetpgid ==
    /\ pc = "setpgid"
    /\ LET p == <<cmd.job, cmd.k>> IN
       proc' = IF proc[p].state \in {"forked", "grouped", "owner"}
               THEN [proc EXCEPT ![p] = Setpgid(p, pgid[cmd.job])] ELSE proc
    /\ NextProcess
    /\ UNCHANGED <<interactive, records, terminal, commands>>
-----------------------------------------------------------------------------
(* put_job_in_foreground, put_job_in_background                            *)

\* tcsetpgrp by a process that ignores SIGTTOU; refused for an empty group.
Tcsetpgrp(g) == term' = IF GroupExists(g) THEN g ELSE term

GiveTerminal ==
    /\ pc = "give"
    /\ Tcsetpgrp(pgid[cmd.job])
    /\ pc' = IF cmd.cont THEN "setmodes" ELSE "wait"
    /\ UNCHANGED <<interactive, cmd, records, proc, modes, commands>>

\* tcsetattr with the modes saved when the job was last in the foreground.
SetJobModes ==
    /\ pc = "setmodes"
    /\ modes' = tmodes[cmd.job]
    /\ pc' = "continue"
    /\ UNCHANGED <<interactive, cmd, records, proc, term, commands>>

\* kill(-pgid, SIGCONT): the group runs, and a stop not yet reported is forgotten.
SendContinue ==
    /\ pc = "continue"
    /\ proc' = [p \in Procs |->
                  IF proc[p].group = pgid[cmd.job] /\ proc[p].state = "stopped"
                  THEN [proc[p] EXCEPT !.state = "running", !.unreported = FALSE]
                  ELSE proc[p]]
    /\ pc' = IF cmd.foreground THEN "wait" ELSE "notify"
    /\ UNCHANGED <<interactive, cmd, records, terminal, commands>>

RegainTerminal ==
    /\ pc = "regain"
    /\ Tcsetpgrp(Shell)
    /\ pc' = "restore"
    /\ UNCHANGED <<interactive, cmd, records, proc, modes, commands>>

\* tcgetattr into the job, tcsetattr from the shell.
RestoreModes ==
    /\ pc = "restore"
    /\ tmodes' = [tmodes EXCEPT ![cmd.job] = modes]
    /\ modes' = Shell
    /\ pc' = "notify"
    /\ UNCHANGED <<interactive, cmd, active, rec, pgid, notified, proc, term, commands>>
-----------------------------------------------------------------------------
(* launch_process, in the child                                            *)

\* Mutant: grouping is left to the parent.
ChildGroupNot(p) == proc[p]

\* setpgid(getpid(), pgid)
ChildGroup(p) == Setpgid(p, pgid[p[1]])

ChildSetpgid(p) ==
    /\ interactive
    /\ proc[p].state = "forked"
    /\ proc' = [proc EXCEPT ![p] = [ChildGroup(p) EXCEPT !.state = "grouped"]]
    /\ UNCHANGED <<interactive, shell, records, terminal, commands>>

ChildTcsetpgrp(p) ==
    /\ proc[p].state = "grouped"
    /\ proc[p].foreground
    /\ Tcsetpgrp(pgid[p[1]])
    /\ proc' = [proc EXCEPT ![p].state = "owner"]
    /\ UNCHANGED <<interactive, shell, records, modes, commands>>

\* Default signal handling, the pipes in place, the program executed.
Execvp(p) ==
    /\ proc[p].state = IF ~interactive THEN "forked"
                       ELSE IF proc[p].foreground THEN "owner" ELSE "grouped"
    /\ proc' = [proc EXCEPT ![p].state = "running"]
    /\ UNCHANGED <<interactive, shell, records, terminal, commands>>

\* Mutant: the children of an interactive shell wait to be reaped, too.
EndedZombie == "zombie"

\* SIGCHLD is ignored by an interactive shell: its children leave no zombie.
Ended == IF interactive THEN "over" ELSE "zombie"

\* execvp fails: exit(1).
ExecvpFails(p) ==
    /\ proc[p].state = IF ~interactive THEN "forked"
                       ELSE IF proc[p].foreground THEN "owner" ELSE "grouped"
    /\ proc' = [proc EXCEPT ![p].state = Ended]
    /\ UNCHANGED <<interactive, shell, records, terminal, commands>>
-----------------------------------------------------------------------------
(* The programs and the terminal                                           *)

Exit(p) ==
    /\ proc[p].state = "running"
    /\ proc' = [proc EXCEPT ![p].state = Ended]
    /\ UNCHANGED <<interactive, shell, records, terminal, commands>>

\* SIGTSTP typed at the terminal, or SIGTTIN for a member of a background group
\* that reads from it: the whole group gets the signal, and those that have not
\* yet given up the shell's signal handling ignore it.
StopGroup(g) ==
    /\ interactive /\ pc # "exited"
    /\ \E p \in Procs : proc[p].state = "running" /\ proc[p].group = g
    /\ proc' = [p \in Procs |->
                  IF proc[p].state = "running" /\ proc[p].group = g
                  THEN [proc[p] EXCEPT !.state = "stopped", !.unreported = TRUE]
                  ELSE proc[p]]
    /\ UNCHANGED <<interactive, shell, records, terminal, commands>>

\* A program of the foreground group changes the terminal modes.
ChangeModes(p) ==
    /\ interactive
    /\ proc[p].state = "running"
    /\ proc[p].group = term
    /\ modes' = p[1]
    /\ UNCHANGED <<interactive, shell, records, proc, term, commands>>
-----------------------------------------------------------------------------
InitStep == BroughtToForeground \/ InitShell \/ InitFails

\* What the shell does by itself, once a command is given.
ShellStep ==
    \/ UpdateStatusEnds \/ Notify \/ WaitNoChild
    \/ Fork \/ ParentSetpgid
    \/ GiveTerminal \/ SetJobModes \/ SendContinue \/ RegainTerminal \/ RestoreModes
    \/ \E p \in Procs : UpdateStatus(p) \/ WaitForJob(p)

Command ==
    \/ Quit
    \/ \E j \in Jobs, fg \in BOOLEAN : Launch(j, fg) \/ ContinueJob(j, fg)

ChildStep(p) == ChildSetpgid(p) \/ ChildTcsetpgrp(p) \/ Execvp(p)

Environment ==
    \/ ForkFails
    \/ \E p \in Procs : ExecvpFails(p) \/ ChangeModes(p)
    \/ \E g \in Jobs \cup {Shell} : StopGroup(g)

Next ==
    \/ InitStep \/ ShellStep \/ Command \/ Environment
    \/ \E p \in Procs : ChildStep(p) \/ Exit(p)

Spec == Init /\ [][Next]_vars

FairSpec ==
    /\ Spec
    /\ WF_vars(ShellStep)
    /\ \A p \in Procs : WF_vars(ChildStep(p)) /\ WF_vars(Exit(p))
-----------------------------------------------------------------------------
(* Properties                                                              *)

\* Type correctness; an interactive shell never has a zombie to reap.
TypeOK ==
    /\ interactive \in BOOLEAN
    /\ pc \in {"init", "notify", "tell", "read", "fork", "setpgid", "give", "setmodes",
               "continue", "wait", "regain", "restore", "exited"}
    /\ cmd \in [job : Jobs \cup {0}, k : Nat, foreground : BOOLEAN, cont : BOOLEAN]
    /\ active \subseteq Jobs
    /\ rec \in [Procs -> [completed : BOOLEAN, stopped : BOOLEAN]]
    /\ pgid \in [Jobs -> Jobs \cup {0}] /\ \A j \in Jobs : pgid[j] \in {0, j}
    /\ notified \in [Jobs -> BOOLEAN]
    /\ tmodes \in [Jobs -> Jobs \cup {Shell, Outside}]
    /\ proc \in [Procs -> [state : {"none", "forked", "grouped", "owner", "running",
                                   "stopped", "zombie", "over"},
                           group : Jobs \cup {Shell}, foreground : BOOLEAN,
                           unreported : BOOLEAN]]
    /\ interactive => \A p \in Procs : proc[p].state # "zombie"
    /\ term \in Jobs \cup {Shell, Outside}
    /\ modes \in Jobs \cup {Shell, Outside}
    /\ commands \in 0..MaxCommands

\* Processes that did not get into the group of their job.
Strays == {p \in Procs : /\ interactive
                         /\ proc[p].state \notin {"none", "forked"}
                         /\ proc[p].group = Shell}

\* The shell prompts only when the job it last had in the foreground is over or
\* stopped, and then the terminal and its modes are the shell's again, in
\* whatever order the children of the job joined its group, took the terminal
\* and stopped; only a stray may have changed the modes behind its back.
AtPrompt ==
    /\ cmd.foreground \/ ~interactive =>
         \A p \in ProcsOf(cmd.job) : Over(p) \/ proc[p].state = "stopped"
    /\ interactive => term = Shell /\ (modes = Shell \/ Strays # {})

\* A program runs in the group of its job from its first instruction on, before
\* or after the shell's own setpgid, unless its leader was over, and gone, before
\* it could join.
InItsGroup(p) == proc[p].group = p[1] \/ (p \in Strays /\ Over(<<p[1], 1>>))

\* Each program of the job in the foreground has the terminal, if it is in its
\* group, and never the modes another job left.
JobHasTerminal ==
    /\ \A p \in ProcsOf(cmd.job) :
         proc[p].state = "running" /\ p \notin Strays => term = cmd.job
    /\ modes \in {Shell, cmd.job} \/ (cmd.cont /\ modes = Outside) \/ Strays # {}

Launching == cmd.foreground /\ ~cmd.cont /\ pc \in {"fork", "setpgid", "give"}

\* The terminal belongs to the shell at its prompt, to the job in the foreground
\* while the shell launches it or waits for it, and signals from the terminal
\* reach whole jobs (example_shell.c 98-131, 144-156, 266-312).
TerminalAndGroups ==
    /\ pc = "read" => AtPrompt
    /\ interactive /\ (Launching \/ pc = "wait") => JobHasTerminal
    /\ interactive => \A p \in Procs :
         proc[p].state \in {"running", "stopped"} => InItsGroup(p)

\* What the shell believes is true: a process it holds for completed is over, one
\* it holds for stopped has not run since.
RecordsTrue ==
    \A p \in Procs :
        /\ rec[p].completed => proc[p].state = "over"
        /\ rec[p].stopped => proc[p].state \in {"stopped", "over"}

Suspended(j) == \A p \in ProcsOf(j) : proc[p].state = "stopped"

\* The shell comes back from a foreground job that is suspended as a whole, or
\* when no child of it is left; a shell without job control comes back when the
\* job is over.
PromptReturns ==
    (/\ pc = "wait"
     /\ \/ Suspended(cmd.job)
        \/ \A p \in Procs : proc[p].state \in {"none", "over"}
        \/ ~interactive /\ \A p \in ProcsOf(cmd.job) : Over(p))
    ~> pc = "read"
=============================================================================
