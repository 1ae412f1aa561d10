------------------------- MODULE JobControl_proofs -------------------------
(***************************************************************************)
(* Proofs about module JobControl, for every number of jobs, pipelines of  *)
(* every length and every number of commands.                              *)
(*                                                                         *)
(* A pipeline is put together by the shell and its children at once.  The  *)
(* invariant says how far that is: which processes are forked              *)
(* (LaunchInv), which are in the group of their job and why the others     *)
(* will never be (GroupInv: the leader is gone and nobody is left in the   *)
(* group), and which children may still take the terminal (ForegroundInv). *)
(* From these follow the owner of the terminal (TermInv), its modes        *)
(* (ModesInv) and the truth of the shell's records (RecordInv).            *)
(***************************************************************************)
EXTENDS JobControl, TLAPS

leader(p) == <<p[1], 1>>

Jobless == {"init", "notify", "tell", "read", "exited"}
AtHome == {"notify", "tell", "read"}

\* The command the shell works on.
CmdInv ==
    /\ pc \notin Jobless => cmd.job \in active
    /\ pc = "init" => cmd.job = 0 /\ ~cmd.foreground /\ active = {}
    /\ pc \in {"fork", "setpgid"} => ~cmd.cont /\ cmd.k \in 1..Size[cmd.job]
    /\ pc = "setpgid" => interactive
    /\ pc \in {"give", "setmodes", "regain", "restore"} \/ (interactive /\ pc = "wait") =>
          interactive /\ cmd.foreground
    /\ pc \in {"setmodes", "continue"} => interactive /\ cmd.cont

UnderLaunch(j) == pc \in {"fork", "setpgid"} /\ j = cmd.job

\* The processes of a job are forked in order, its leader first, by one command;
\* a process that is there belongs to a job in the list.
LeaderFirst == \A p \in Procs : proc[leader(p)].state = "none" => proc[p].state = "none"
AllThere ==
    pc # "exited" => \A p \in Procs :
        p[1] \in active /\ ~UnderLaunch(p[1]) => proc[p].state # "none"
ForkedUpTo ==
    /\ pc = "fork" => \A p \in ProcsOf(cmd.job) : proc[p].state # "none" <=> p[2] < cmd.k
    /\ pc = "setpgid" => \A p \in ProcsOf(cmd.job) : proc[p].state # "none" <=> p[2] <= cmd.k
Known == \A p \in Procs : proc[p].state \notin {"none", "over"} => p[1] \in active

LaunchInv == LeaderFirst /\ AllThere /\ ForkedUpTo /\ Known

\* Shell and child have both not yet called setpgid for p.
Pending(p) == proc[p].state = "forked" /\ pc = "setpgid" /\ p = <<cmd.job, cmd.k>>
Settled(p) == proc[p].state # "none" /\ ~Pending(p)

\* No process joins the group of job j any more.
Closed(j) == proc[<<j, 1>>].state = "over" /\ ~GroupExists(j)

\* Every process is in the group of its job or too late for it.
GroupInv ==
    /\ \A p \in Procs : proc[p].group \in {Shell, p[1]}
    /\ \A p \in Procs : proc[p].state = "none" => proc[p].group = Shell
    /\ interactive => \A p \in Procs :
          /\ proc[p].state # "none" => pgid[p[1]] = p[1]
          /\ Settled(p) => proc[p].group = p[1] \/ (p # leader(p) /\ Closed(p[1]))

\* A child that may still take the terminal belongs to the job the shell launches
\* or waits for.
ForegroundInv ==
    /\ interactive => \A p \in Procs :
         proc[p].state \in {"forked", "grouped"} /\ proc[p].foreground =>
            /\ p[1] = cmd.job /\ cmd.foreground /\ ~cmd.cont
            /\ pc \in {"fork", "setpgid", "give", "wait", "exited"}
    /\ interactive /\ Launching => \A p \in ProcsOf(cmd.job) :
         proc[p].state # "none" => proc[p].foreground

\* A job in the foreground is over or stopped when the shell leaves it.
DoneInv ==
    pc \in {"regain", "restore"} \cup AtHome /\ (cmd.foreground \/ ~interactive) =>
        \A p \in ProcsOf(cmd.job) : Over(p) \/ proc[p].state = "stopped"

\* Processes of a foreground job that have been at the terminal, or been refused.
InForce(p) == proc[p].state \in {"owner", "running", "stopped"} /\ proc[p].group = p[1]

JobGroup == GroupExists(cmd.job)

\* Who has the terminal.
TermInv ==
    interactive /\ pc \notin {"init", "exited"} =>
        /\ ~cmd.foreground \/ pc \in {"restore"} \cup AtHome => term = Shell
        /\ term \in {Shell, cmd.job}
        /\ Launching => \A p \in ProcsOf(cmd.job) : InForce(p) => term = cmd.job
        /\ pc \in {"setmodes", "continue", "wait"} /\ cmd.foreground =>
             (JobGroup => term = cmd.job)

\* Whose modes it has.
ModesInv ==
    interactive /\ pc # "exited" /\ Strays = {} =>
        /\ ~cmd.foreground \/ pc \in AtHome => modes = Shell
        /\ modes \in {Shell, cmd.job} \/ (cmd.cont /\ modes = Outside)
        /\ \A j \in Jobs : tmodes[j] \in {Shell, j, Outside}

\* What the shell believes is true; it has forgotten the stops of a job it is about
\* to continue.
RecordInv ==
    /\ RecordsTrue
    /\ \A p \in Procs : proc[p].unreported => proc[p].state = "stopped"
    /\ cmd.cont /\ pc \in {"give", "setmodes", "continue"} =>
          \A p \in ProcsOf(cmd.job) : ~rec[p].stopped

IInv ==
    /\ TypeOK /\ CmdInv /\ LaunchInv /\ GroupInv /\ ForegroundInv
    /\ DoneInv /\ TermInv /\ ModesInv /\ RecordInv
-----------------------------------------------------------------------------
(* Processes and steps                                                     *)

LEMMA ProcFacts ==
  /\ \A j \in Jobs : j \in Nat \ {0} /\ Size[j] \in Nat \ {0} /\ <<j, 1>> \in Procs
  /\ \A j, k : <<j, k>> \in Procs <=> j \in Jobs /\ k \in 1..Size[j]
  /\ \A p \in Procs : /\ p[1] \in Jobs /\ p[2] \in 1..Size[p[1]] /\ p = <<p[1], p[2]>>
                      /\ leader(p) \in Procs /\ leader(p)[1] = p[1]
                      /\ leader(leader(p)) = leader(p)
  <1>1. \A j \in Jobs : j \in Nat \ {0} /\ Size[j] \in Nat \ {0}
    BY JobsAssumption, SizeAssumption
  <1>2. \A j, k : <<j, k>> \in Procs <=> j \in Jobs /\ k \in 1..Size[j]
    BY DEF Procs
  <1>3. \A j \in Jobs : 1 \in 1..Size[j]
    <2>1. \A n \in Nat \ {0} : 1 \in 1..n
      OBVIOUS
    <2>2. QED
      BY <1>1, <2>1
  <1>4. ASSUME NEW p \in Procs
        PROVE  p[1] \in Jobs /\ p[2] \in 1..Size[p[1]] /\ p = <<p[1], p[2]>>
    BY DEF Procs
  <1>5. QED
    BY <1>1, <1>2, <1>3, <1>4 DEF leader

\* The steps of the shell that leave the processes alone, the others, and those of
\* the processes.
Alone ==
    \/ BroughtToForeground \/ InitShell \/ InitFails \/ UpdateStatusEnds \/ Notify \/ WaitNoChild
    \/ Quit \/ ForkFails \/ GiveTerminal \/ SetJobModes \/ RegainTerminal \/ RestoreModes
    \/ \E j \in Jobs, fg \in BOOLEAN : Launch(j, fg) \/ ContinueJob(j, fg)

Waits == \E p \in Procs : UpdateStatus(p) \/ WaitForJob(p)

Children ==
    \/ \E p \in Procs : \/ ChildSetpgid(p) \/ ChildTcsetpgrp(p) \/ Execvp(p) \/ ExecvpFails(p)
                        \/ Exit(p) \/ ChangeModes(p)
    \/ \E g \in Jobs \cup {Shell} : StopGroup(g)

LEMMA Cases ==
  [Next]_vars => \/ Alone \/ Waits \/ Fork \/ ParentSetpgid \/ SendContinue \/ Children
                 \/ UNCHANGED vars
  BY DEF Next, InitStep, ShellStep, Command, Environment, ChildStep, Alone, Waits, Children

Rest == <<interactive, pc, cmd, active, rec, pgid, notified, tmodes, commands>>

LEMMA ChildrenRest == ASSUME Children PROVE UNCHANGED Rest
  BY DEF Children, ChildSetpgid, ChildTcsetpgrp, Execvp, ExecvpFails, Exit, ChangeModes, StopGroup,
         Rest, shell, records

LEMMA AloneProc == ASSUME Alone PROVE proc' = proc
  BY DEF Alone, BroughtToForeground, InitShell, InitFails, UpdateStatusEnds, Notify, WaitNoChild,
         Quit, ForkFails, GiveTerminal, SetJobModes, RegainTerminal, RestoreModes, Launch, ContinueJob

\* The types, variable by variable.
States == {"none", "forked", "grouped", "owner", "running", "stopped", "zombie", "over"}
Process == [state : States, group : Jobs \cup {Shell}, foreground : BOOLEAN, unreported : BOOLEAN]

ShellType == /\ interactive \in BOOLEAN
             /\ pc \in {"init", "notify", "tell", "read", "fork", "setpgid", "give", "setmodes",
                        "continue", "wait", "regain", "restore", "exited"}
             /\ cmd \in [job : Jobs \cup {0}, k : Nat, foreground : BOOLEAN, cont : BOOLEAN]
             /\ commands \in 0..MaxCommands
RecordsType == /\ active \subseteq Jobs
               /\ rec \in [Procs -> [completed : BOOLEAN, stopped : BOOLEAN]]
               /\ notified \in [Jobs -> BOOLEAN]
GroupsType == pgid \in [Jobs -> Jobs \cup {0}] /\ \A j \in Jobs : pgid[j] \in {0, j}
ProcType == /\ proc \in [Procs -> Process]
            /\ interactive => \A p \in Procs : proc[p].state # "zombie"
TermType == /\ tmodes \in [Jobs -> Jobs \cup {Shell, Outside}]
            /\ term \in Jobs \cup {Shell, Outside}
            /\ modes \in Jobs \cup {Shell, Outside}

LEMMA Types == TypeOK <=> ShellType /\ RecordsType /\ GroupsType /\ ProcType /\ TermType
  BY DEF TypeOK, ShellType, RecordsType, GroupsType, ProcType, TermType, Process, States

\* What a step does to one process.
EndedState == IF interactive THEN "over" ELSE "zombie"
BeforeExec(q) == IF ~interactive THEN "forked" ELSE IF proc[q].foreground THEN "owner" ELSE "grouped"

Forked(q) == /\ Fork /\ pc = "fork" /\ q = <<cmd.job, cmd.k>> /\ proc[q].state = "none"
             /\ proc'[q] = [proc[q] EXCEPT !.state = "forked", !.foreground = cmd.foreground]
Joined(q) == /\ interactive
             /\ \/ /\ proc[q].state \in {"forked", "grouped", "owner"}
                   /\ ParentSetpgid /\ pc = "setpgid" /\ q = <<cmd.job, cmd.k>>
                   /\ proc'[q] = Setpgid(q, pgid[q[1]])
                \/ /\ proc[q].state = "forked" /\ UNCHANGED Rest
                   /\ proc'[q] = [Setpgid(q, pgid[q[1]]) EXCEPT !.state = "grouped"]
Took(q) == /\ ChildTcsetpgrp(q) /\ UNCHANGED Rest /\ proc[q].state = "grouped" /\ proc[q].foreground /\ Tcsetpgrp(pgid[q[1]])
           /\ proc'[q] = [proc[q] EXCEPT !.state = "owner"]
Ran(q) == /\ UNCHANGED Rest
          /\ \/ proc[q].state = BeforeExec(q)
             \/ proc[q].state = "running"
          /\ \E s \in {"running", EndedState} : proc'[q] = [proc[q] EXCEPT !.state = s]
Stopped(q) == /\ UNCHANGED Rest /\ interactive /\ proc[q].state = "running"
              /\ proc'[q] = [proc[q] EXCEPT !.state = "stopped", !.unreported = TRUE]
Continued(q) == /\ SendContinue /\ pc = "continue" /\ proc[q].state = "stopped" /\ proc[q].group = pgid[cmd.job]
                /\ proc'[q] = [proc[q] EXCEPT !.state = "running", !.unreported = FALSE]
Collected(q) == /\ Waits /\ pc \in {"notify", "wait"}
                /\ \/ proc'[q] = [proc[q] EXCEPT !.unreported = FALSE]
                   \/ /\ proc[q].state = "zombie"
                      /\ proc'[q] = [proc[q] EXCEPT !.state = "over", !.unreported = FALSE]

Moved(q) == \/ proc'[q] = proc[q]
            \/ Forked(q) \/ Joined(q) \/ Took(q) \/ Ran(q) \/ Stopped(q) \/ Continued(q) \/ Collected(q)

LEMMA Update ==
  ASSUME NEW f \in [Procs -> Process], NEW p \in Procs, NEW b
  PROVE  /\ [f EXCEPT ![p] = b][p] = b
         /\ \A q \in Procs : q # p => [f EXCEPT ![p] = b][q] = f[q]
  OBVIOUS

LEMMA Moves ==
  ASSUME TypeOK, CmdInv, LaunchInv, [Next]_vars, NEW q \in Procs
  PROVE  Moved(q)
  <1>1. proc \in [Procs -> Process] /\ cmd.k \in Nat
    BY Types DEF ProcType, ShellType
  <1>2. CASE Alone \/ UNCHANGED vars
    BY <1>2, AloneProc DEF vars, Moved
  <1>3. CASE Waits
    <2>1. PICK p \in Procs : pc \in {"notify", "wait"} /\ Waited(p)
      BY <1>3 DEF Waits, UpdateStatus, WaitForJob
    <2>2. proc' = [proc EXCEPT ![p] = [proc[p] EXCEPT
                      !.state = IF proc[p].state = "zombie" THEN "over" ELSE proc[p].state,
                      !.unreported = FALSE]]
      BY <1>1, <2>1 DEF Waited
    <2>3. CASE q # p
      BY <1>1, <2>2, <2>3 DEF Moved
    <2>4. CASE q = p
      BY <1>1, <1>3, <2>1, <2>2, <2>4 DEF Moved, Collected, Process
    <2>5. QED
      BY <2>3, <2>4
  <1>4. CASE Fork
    <2> DEFINE p == <<cmd.job, cmd.k>>
    <2>1. pc = "fork" /\ cmd.job \in Jobs /\ cmd.k \in 1..Size[cmd.job]
      BY <1>4, Types DEF Fork, CmdInv, Jobless, RecordsType
    <2>2. p \in Procs /\ p[1] = cmd.job /\ p[2] = cmd.k
      BY <2>1, ProcFacts
    <2>3. proc[p].state = "none"
      BY <1>1, <2>1, <2>2 DEF LaunchInv, ForkedUpTo, ProcsOf
    <2>4. proc' = [proc EXCEPT ![p] = [proc[p] EXCEPT !.state = "forked", !.foreground = cmd.foreground]]
      BY <1>1, <1>4, <2>2 DEF Fork
    <2> HIDE DEF p
    <2>5. CASE q # p
      BY <1>1, <2>2, <2>4, <2>5 DEF Moved
    <2>6. CASE q = p
      BY <1>1, <1>4, <2>1, <2>2, <2>3, <2>4, <2>6 DEF Moved, Forked, p
    <2>7. QED
      BY <2>5, <2>6
  <1>5. CASE ParentSetpgid
    <2> DEFINE p == <<cmd.job, cmd.k>>
    <2>1. pc = "setpgid" /\ interactive /\ cmd.job \in Jobs /\ cmd.k \in 1..Size[cmd.job]
      BY <1>5, Types DEF ParentSetpgid, CmdInv, Jobless, RecordsType
    <2>2. p \in Procs /\ p[1] = cmd.job
      BY <2>1, ProcFacts
    <2>3. \/ proc' = proc
          \/ proc[p].state \in {"forked", "grouped", "owner"}
             /\ proc' = [proc EXCEPT ![p] = Setpgid(p, pgid[p[1]])]
      BY <1>5, <2>2 DEF ParentSetpgid
    <2> HIDE DEF p
    <2>4. CASE q # p \/ proc' = proc
      BY <1>1, <2>2, <2>3, <2>4 DEF Moved
    <2>5. CASE q = p /\ proc' # proc
      BY <1>1, <1>5, <2>1, <2>2, <2>3, <2>5 DEF Moved, Joined, p
    <2>6. QED
      BY <2>4, <2>5
  <1>6. CASE SendContinue
    <2>1. pc = "continue" /\ proc' = [p \in Procs |->
                  IF proc[p].group = pgid[cmd.job] /\ proc[p].state = "stopped"
                  THEN [proc[p] EXCEPT !.state = "running", !.unreported = FALSE]
                  ELSE proc[p]]
      BY <1>6, Zenon DEF SendContinue
    <2>2. QED
      BY <1>6, <2>1 DEF Moved, Continued
  <1>7. CASE Children
    <2>1. UNCHANGED Rest
      BY <1>7, ChildrenRest
    <2>2. ASSUME NEW p \in Procs, ChildSetpgid(p) PROVE Moved(q)
      <3>1. /\ interactive /\ proc[p].state = "forked"
            /\ proc' = [proc EXCEPT ![p] = [Setpgid(p, pgid[p[1]]) EXCEPT !.state = "grouped"]]
        BY <2>2 DEF ChildSetpgid, ChildGroup
      <3>2. QED
        BY <1>1, <2>1, <3>1 DEF Moved, Joined
    <2>3. ASSUME NEW p \in Procs, ChildTcsetpgrp(p) PROVE Moved(q)
      <3>1. /\ proc[p].state = "grouped" /\ proc[p].foreground /\ Tcsetpgrp(pgid[p[1]])
            /\ proc' = [proc EXCEPT ![p] = [proc[p] EXCEPT !.state = "owner"]]
        BY <1>1, <2>3 DEF ChildTcsetpgrp
      <3>2. QED
        BY <1>1, <2>1, <2>3, <3>1 DEF Moved, Took
    <2>4. ASSUME NEW p \in Procs, Execvp(p) \/ ExecvpFails(p) \/ Exit(p) PROVE Moved(q)
      <3>1. PICK s \in {"running", EndedState} :
              /\ proc[p].state = BeforeExec(p) \/ proc[p].state = "running"
              /\ proc' = [proc EXCEPT ![p] = [proc[p] EXCEPT !.state = s]]
        BY <1>1, <2>4 DEF Execvp, ExecvpFails, Exit, Ended, EndedState, BeforeExec
      <3>2. QED
        BY <1>1, <2>1, <3>1 DEF Moved, Ran
    <2>5. ASSUME NEW p \in Procs, ChangeModes(p) PROVE Moved(q)
      BY <2>5 DEF ChangeModes, Moved
    <2>6. ASSUME NEW g, StopGroup(g) PROVE Moved(q)
      <3>1. interactive /\ proc' = [p \in Procs |->
                  IF proc[p].state = "running" /\ proc[p].group = g
                  THEN [proc[p] EXCEPT !.state = "stopped", !.unreported = TRUE]
                  ELSE proc[p]]
        BY <2>6, Zenon DEF StopGroup
      <3>2. QED
        BY <2>1, <3>1 DEF Moved, Stopped
    <2>7. QED
      BY <1>7, <2>2, <2>3, <2>4, <2>5, <2>6 DEF Children
  <1>8. QED
    BY <1>2, <1>3, <1>4, <1>5, <1>6, <1>7, Cases

\* A process is forked once and never comes back; it changes its group by setpgid
\* alone, and may take the terminal only before it has run.
LEMMA MovedFields ==
  ASSUME TypeOK, NEW q \in Procs, Moved(q)
  PROVE  /\ proc'[q] \in Process /\ (interactive => proc'[q].state # "zombie")
         /\ proc'[q].state = "none" => proc[q].state = "none"
         /\ proc[q].state = "none" => proc'[q].state = "none" \/ Forked(q)
         /\ proc[q].state = "over" => proc'[q].state = "over"
         /\ proc[q].state = "zombie" => proc'[q].state \in {"zombie", "over"}
         /\ proc'[q].group = proc[q].group \/ Joined(q)
         /\ proc'[q].foreground = proc[q].foreground \/ Forked(q)
         /\ proc'[q].state \in {"forked", "grouped"} =>
               Forked(q) \/ (proc[q].state \in {"forked", "grouped"})
         /\ proc'[q].unreported => proc'[q].state = "stopped" \/ (proc[q].unreported /\ proc[q].state # "stopped")
         /\ proc[q].state = "stopped" => proc'[q].state = "stopped" \/ Continued(q)
         /\ proc'[q].state = "zombie" => proc[q].state = "zombie" \/ Ran(q)
  <1>1. /\ proc[q] \in Process /\ (interactive => proc[q].state # "zombie")
        /\ cmd.foreground \in BOOLEAN /\ q[1] \in Jobs /\ pgid[q[1]] \in Jobs \cup {Shell}
        /\ interactive \in BOOLEAN
    BY Types, ProcFacts DEF ProcType, ShellType, GroupsType, Shell
  <1>2. CASE proc'[q] = proc[q]
    BY <1>1, <1>2 DEF Process, States
  <1>3. CASE Forked(q)
    BY <1>1, <1>3 DEF Forked, Process, States
  <1>4. CASE Joined(q)
    BY <1>1, <1>4 DEF Joined, Setpgid, Process, States
  <1>5. CASE Took(q)
    BY <1>1, <1>5 DEF Took, Process, States
  <1>6. CASE Ran(q)
    BY <1>1, <1>6 DEF Ran, BeforeExec, EndedState, Process, States
  <1>7. CASE Stopped(q)
    BY <1>1, <1>7 DEF Stopped, Process, States
  <1>8. CASE Continued(q)
    BY <1>1, <1>8 DEF Continued, Process, States
  <1>9. CASE Collected(q)
    <2>1. CASE proc'[q] = [proc[q] EXCEPT !.unreported = FALSE]
      <3>1. /\ proc'[q] \in Process /\ proc'[q].unreported = FALSE
            /\ proc'[q].state = proc[q].state /\ proc'[q].group = proc[q].group
            /\ proc'[q].foreground = proc[q].foreground
        BY <1>1, <2>1 DEF Process
      <3>2. ~proc'[q].unreported
        BY <3>1
      <3>3. QED
        BY <1>1, <3>1, <3>2
    <2>2. CASE proc[q].state = "zombie" /\ proc'[q] = [proc[q] EXCEPT !.state = "over", !.unreported = FALSE]
      BY <1>1, <2>2 DEF Process, States
    <2>3. QED
      BY <1>9, <2>1, <2>2 DEF Collected
  <1>10. QED
    BY <1>2, <1>3, <1>4, <1>5, <1>6, <1>7, <1>8, <1>9 DEF Moved

LEMMA ProcFunction ==
  ASSUME TypeOK, [Next]_vars
  PROVE  proc' = [q \in Procs |-> proc'[q]]
  <1>1. proc = [q \in Procs |-> proc[q]]
    BY Types DEF ProcType
  <1>2. ASSUME NEW p, NEW b, proc' = [proc EXCEPT ![p] = b]
        PROVE  proc' = [q \in Procs |-> proc'[q]]
    BY <1>1, <1>2
  <1>3. CASE Alone \/ UNCHANGED vars
    BY <1>1, <1>3, AloneProc DEF vars
  <1>4. CASE Waits
    <2>1. PICK p \in Procs : Waited(p)
      BY <1>4 DEF Waits, UpdateStatus, WaitForJob
    <2>2. QED
      BY <1>1, <2>1 DEF Waited
  <1>5. CASE Fork
    BY <1>1, <1>5 DEF Fork
  <1>6. CASE ParentSetpgid
    BY <1>1, <1>6 DEF ParentSetpgid
  <1>7. CASE SendContinue
    BY <1>7, Zenon DEF SendContinue
  <1>8. CASE Children
    <2>1. ASSUME NEW p \in Procs, \/ ChildSetpgid(p) \/ ChildTcsetpgrp(p) \/ Execvp(p)
                                  \/ ExecvpFails(p) \/ Exit(p) \/ ChangeModes(p)
          PROVE  proc' = [q \in Procs |-> proc'[q]]
      BY <1>1, <2>1 DEF ChildSetpgid, ChildTcsetpgrp, Execvp, ExecvpFails, Exit, ChangeModes
    <2>2. ASSUME NEW g, StopGroup(g)
          PROVE  proc' = [q \in Procs |-> proc'[q]]
      BY <2>2, Zenon DEF StopGroup
    <2>3. QED
      BY <1>8, <2>1, <2>2 DEF Children
  <1>9. QED
    BY <1>3, <1>4, <1>5, <1>6, <1>7, <1>8, Cases

LEMMA Continuing ==
  ASSUME SendContinue
  PROVE  /\ pc = "continue" /\ pc' = IF cmd.foreground THEN "wait" ELSE "notify"
         /\ UNCHANGED <<interactive, cmd, active, rec, pgid, notified, tmodes, term, modes, commands>>
  <1>1. UNCHANGED <<interactive, cmd, records, terminal, commands>>
    BY Zenon DEF SendContinue
  <1>2. pc = "continue" /\ pc' = IF cmd.foreground THEN "wait" ELSE "notify"
    BY Zenon DEF SendContinue
  <1>3. QED
    BY <1>1, <1>2 DEF records, terminal

LEMMA InteractiveSame == [Next]_vars => interactive' = interactive
  <1>1. Alone => interactive' = interactive
    BY DEF Alone, BroughtToForeground, InitShell, InitFails, UpdateStatusEnds, Notify, WaitNoChild,
        Quit, ForkFails, GiveTerminal, SetJobModes, RegainTerminal, RestoreModes, Launch, ContinueJob
  <1>2. Waits \/ Fork \/ ParentSetpgid \/ UNCHANGED vars => interactive' = interactive
    BY DEF Waits, UpdateStatus, WaitForJob, Fork, ParentSetpgid, vars
  <1>3. QED
    BY <1>1, <1>2, Cases, ChildrenRest, Continuing DEF Rest

LEMMA PgidSteps ==
  [Next]_vars => pgid' = pgid \/ (Fork /\ pgid' = [pgid EXCEPT ![cmd.job] = cmd.job])
  <1>1. Alone => pgid' = pgid
    BY DEF Alone, BroughtToForeground, InitShell, InitFails, UpdateStatusEnds, Notify, WaitNoChild,
        Quit, ForkFails, GiveTerminal, SetJobModes, RegainTerminal, RestoreModes, Launch,
        ContinueJob, records
  <1>2. Waits \/ ParentSetpgid \/ UNCHANGED vars => pgid' = pgid
    BY DEF Waits, UpdateStatus, WaitForJob, ParentSetpgid, vars, records
  <1>3. Fork => pgid' = pgid \/ pgid' = [pgid EXCEPT ![cmd.job] = cmd.job]
    BY DEF Fork
  <1>4. QED
    BY <1>1, <1>2, <1>3, Cases, ChildrenRest, Continuing DEF Rest

LEMMA TypeNext ==
  ASSUME TypeOK, CmdInv, LaunchInv, [Next]_vars
  PROVE  TypeOK'
  <1>1. ShellType /\ RecordsType /\ GroupsType /\ ProcType /\ TermType
    BY Types
  <1>2. interactive' = interactive
    BY InteractiveSame
  <1>3. ProcType'
    <2>1. proc' = [q \in Procs |-> proc'[q]]
      BY ProcFunction
    <2>2. \A q \in Procs : proc'[q] \in Process /\ (interactive => proc'[q].state # "zombie")
      BY Moves, MovedFields
    <2>3. proc' \in [Procs -> Process]
      BY <2>1, <2>2
    <2>4. QED
      BY <1>2, <2>2, <2>3 DEF ProcType
  <1>4. ASSUME UNCHANGED <<interactive, pc, cmd, commands>> PROVE ShellType'
    BY <1>1, <1>4 DEF ShellType
  <1>5. ASSUME UNCHANGED <<active, rec, notified>> PROVE RecordsType'
    BY <1>1, <1>5 DEF RecordsType
  <1>6. ASSUME UNCHANGED pgid PROVE GroupsType'
    BY <1>1, <1>6 DEF GroupsType
  <1>7. ASSUME UNCHANGED <<tmodes, term, modes>> PROVE TermType'
    BY <1>1, <1>7 DEF TermType
  <1>8. CASE UNCHANGED vars
    BY <1>3, <1>4, <1>5, <1>6, <1>7, <1>8 DEF vars, shell, records, terminal,
        TypeOK, ShellType, RecordsType, GroupsType, ProcType, TermType, Process, States
  <1>9. CASE Alone
    <2>1. ShellType'
      <3>1. /\ interactive \in BOOLEAN /\ MaxCommands \in Nat /\ commands \in 0..MaxCommands
            /\ cmd \in [job : Jobs \cup {0}, k : Nat, foreground : BOOLEAN, cont : BOOLEAN]
        BY <1>1, MaxCommandsAssumption DEF ShellType
      <3>2. ASSUME NEW j \in Jobs, NEW fg \in BOOLEAN, Launch(j, fg) PROVE ShellType'
        <4>1. commands' \in 0..MaxCommands
          BY <3>1, <3>2 DEF Launch
        <4>2. cmd' \in [job : Jobs \cup {0}, k : Nat, foreground : BOOLEAN, cont : BOOLEAN]
          BY <3>2 DEF Launch
        <4>3. QED
          BY <1>1, <3>2, <4>1, <4>2 DEF Launch, ShellType
      <3>3. ASSUME NEW j \in Jobs, NEW fg \in BOOLEAN, ContinueJob(j, fg) PROVE ShellType'
        <4>1. commands' \in 0..MaxCommands
          BY <3>1, <3>3 DEF ContinueJob
        <4>2. cmd' \in [job : Jobs \cup {0}, k : Nat, foreground : BOOLEAN, cont : BOOLEAN]
          BY <3>3 DEF ContinueJob
        <4>3. pc' \in {"give", "continue"} /\ interactive' = interactive
          BY <3>3 DEF ContinueJob
        <4>4. QED
          BY <1>1, <4>1, <4>2, <4>3 DEF ShellType
      <3>4. ASSUME \/ BroughtToForeground \/ InitShell \/ InitFails \/ UpdateStatusEnds \/ Notify
                   \/ WaitNoChild \/ Quit \/ ForkFails \/ GiveTerminal \/ SetJobModes
                   \/ RegainTerminal \/ RestoreModes
            PROVE  ShellType'
        <4>1. UNCHANGED <<interactive, cmd, commands>> /\ pc' \in {pc, "init", "notify", "tell",
                 "read", "exited", "setmodes", "wait", "continue", "regain", "restore"}
          BY <3>4 DEF BroughtToForeground, InitShell, InitFails, UpdateStatusEnds, Notify, WaitNoChild,
             Quit, ForkFails, GiveTerminal, SetJobModes, RegainTerminal, RestoreModes, WaitEnds,
             AfterWait, shell
        <4>2. QED
          BY <1>1, <4>1 DEF ShellType
      <3>5. QED
        BY <1>9, <3>2, <3>3, <3>4 DEF Alone
    <2>2. RecordsType'
      <3>1. CASE Notify
        <4>1. UNCHANGED rec /\ active' \subseteq Jobs /\ notified' \in [Jobs -> BOOLEAN]
          BY <1>1, <3>1 DEF Notify, RecordsType
        <4>2. QED
          BY <1>1, <4>1 DEF RecordsType
      <3>2. ASSUME NEW j \in Jobs, NEW fg \in BOOLEAN, Launch(j, fg) PROVE RecordsType'
        BY <1>1, <3>2 DEF Launch, RecordsType
      <3>3. ASSUME NEW j \in Jobs, NEW fg \in BOOLEAN, ContinueJob(j, fg) PROVE RecordsType'
        <4>1. rec' \in [Procs -> [completed : BOOLEAN, stopped : BOOLEAN]]
          BY <1>1, <3>3 DEF ContinueJob, mark_job_as_running, RecordsType
        <4>2. active' = active /\ notified' \in [Jobs -> BOOLEAN]
          BY <1>1, <3>3 DEF ContinueJob, RecordsType
        <4>3. QED
          BY <1>1, <4>1, <4>2 DEF RecordsType
      <3>4. QED
        BY <1>5, <1>9, <3>1, <3>2, <3>3
        DEF Alone, BroughtToForeground, InitShell, InitFails, UpdateStatusEnds, WaitNoChild, Quit,
            ForkFails, GiveTerminal, SetJobModes, RegainTerminal, RestoreModes, records
    <2>3. GroupsType'
      BY <1>6, <1>9
      DEF Alone, BroughtToForeground, InitShell, InitFails, UpdateStatusEnds, WaitNoChild, Quit, Notify,
          ForkFails, GiveTerminal, SetJobModes, RegainTerminal, RestoreModes, Launch, ContinueJob, records
    <2>4. TermType'
      <3>1. CASE BroughtToForeground
        BY <1>1, <3>1 DEF BroughtToForeground, TermType, records
      <3>2. CASE GiveTerminal
        <4>1. cmd.job \in Jobs
          BY <1>1, <3>2 DEF GiveTerminal, CmdInv, Jobless, RecordsType
        <4>2. pgid[cmd.job] \in Jobs \cup {Shell}
          BY <1>1, <4>1 DEF GroupsType, Shell
        <4>3. QED
          BY <1>1, <3>2, <4>2 DEF GiveTerminal, Tcsetpgrp, TermType, records
      <3>3. CASE SetJobModes
        <4>1. cmd.job \in Jobs
          BY <1>1, <3>3 DEF SetJobModes, CmdInv, Jobless, RecordsType
        <4>2. QED
          BY <1>1, <3>3, <4>1 DEF SetJobModes, TermType, records
      <3>4. CASE RegainTerminal
        BY <1>1, <3>4 DEF RegainTerminal, Tcsetpgrp, TermType, records
      <3>5. CASE RestoreModes
        <4>1. cmd.job \in Jobs
          BY <1>1, <3>5 DEF RestoreModes, CmdInv, Jobless, RecordsType
        <4>2. QED
          BY <1>1, <3>5, <4>1 DEF RestoreModes, TermType
      <3>6. QED
        BY <1>7, <1>9, <3>1, <3>2, <3>3, <3>4, <3>5
        DEF Alone, InitShell, InitFails, UpdateStatusEnds, WaitNoChild, Quit, Notify, ForkFails,
            Launch, ContinueJob, records, terminal
    <2>5. QED
      BY <1>3, <2>1, <2>2, <2>3, <2>4
      DEF TypeOK, ShellType, RecordsType, GroupsType, ProcType, TermType, Process, States
  <1>10. CASE Waits
    <2>1. PICK p \in Procs : UpdateStatus(p) \/ WaitForJob(p)
      BY <1>10 DEF Waits
    <2>2. /\ UNCHANGED <<interactive, cmd, active, pgid, notified, tmodes, term, modes, commands>>
          /\ pc' \in {pc, "tell", "regain", "notify"}
          /\ rec' = rec \/ rec' = mark_process_status(p)
      BY <2>1 DEF UpdateStatus, WaitForJob, AfterWait, terminal
    <2>3. mark_process_status(p) \in [Procs -> [completed : BOOLEAN, stopped : BOOLEAN]]
      BY <1>1 DEF mark_process_status, RecordsType
    <2>4. ShellType' /\ RecordsType' /\ GroupsType' /\ TermType'
      BY <1>1, <2>2, <2>3 DEF ShellType, RecordsType, GroupsType, TermType
    <2>5. QED
      BY <1>3, <2>4
      DEF TypeOK, ShellType, RecordsType, GroupsType, ProcType, TermType, Process, States
  <1>11. CASE Fork \/ ParentSetpgid
    <2>1. /\ UNCHANGED <<interactive, active, rec, notified, tmodes, term, modes, commands>>
          /\ cmd' = cmd \/ cmd' = [cmd EXCEPT !.k = cmd.k + 1]
          /\ pc' \in {"setpgid", "fork", "wait", "give", "notify"}
          /\ pgid' = pgid \/ pgid' = [pgid EXCEPT ![cmd.job] = cmd.job]
      BY <1>1, <1>11 DEF Fork, ParentSetpgid, NextProcess, AfterLaunch, records, terminal, ShellType
    <2>2. cmd.job \in Jobs
      BY <1>1, <1>11 DEF Fork, ParentSetpgid, CmdInv, Jobless, RecordsType
    <2>3. [cmd EXCEPT !.k = cmd.k + 1] \in
             [job : Jobs \cup {0}, k : Nat, foreground : BOOLEAN, cont : BOOLEAN]
      BY <1>1 DEF ShellType
    <2>4. ShellType'
      BY <1>1, <2>1, <2>3 DEF ShellType
    <2>5. GroupsType'
      BY <1>1, <2>1, <2>2 DEF GroupsType
    <2>6. RecordsType' /\ TermType'
      BY <1>5, <1>7, <2>1
    <2>7. QED
      BY <1>3, <2>4, <2>5, <2>6
      DEF TypeOK, ShellType, RecordsType, GroupsType, ProcType, TermType, Process, States
  <1>12. CASE SendContinue
    <2>1. ShellType'
      BY <1>1, <1>12, Continuing DEF ShellType
    <2>2. RecordsType' /\ GroupsType' /\ TermType'
      BY <1>5, <1>6, <1>7, <1>12, Continuing
    <2>3. QED
      BY <1>3, <2>1, <2>2
      DEF TypeOK, ShellType, RecordsType, GroupsType, ProcType, TermType, Process, States
  <1>13. CASE Children
    <2>1. UNCHANGED Rest
      BY <1>13, ChildrenRest
    <2>2. ShellType' /\ RecordsType' /\ GroupsType'
      BY <1>4, <1>5, <1>6, <2>1 DEF Rest
    <2>3. TermType'
      <3>1. ASSUME NEW p \in Procs, ChildTcsetpgrp(p) PROVE TermType'
        <4>1. pgid[p[1]] \in Jobs \cup {Shell}
          BY <1>1, ProcFacts DEF GroupsType, Shell
        <4>2. QED
          BY <1>1, <2>1, <3>1, <4>1 DEF ChildTcsetpgrp, Tcsetpgrp, TermType, Rest
      <3>2. ASSUME NEW p \in Procs, ChangeModes(p) PROVE TermType'
        BY <1>1, <2>1, <3>2, ProcFacts DEF ChangeModes, TermType, Rest
      <3>3. ASSUME NEW p \in Procs, ChildSetpgid(p) \/ Execvp(p) \/ ExecvpFails(p) \/ Exit(p)
            PROVE  TermType'
        BY <1>7, <2>1, <3>3 DEF ChildSetpgid, Execvp, ExecvpFails, Exit, terminal, Rest
      <3>4. ASSUME NEW g, StopGroup(g) PROVE TermType'
        <4>1. UNCHANGED <<interactive, shell, records, terminal, commands>>
          BY <3>4, Zenon DEF StopGroup
        <4>2. QED
          BY <1>7, <4>1 DEF records, terminal
      <3>5. QED
        BY <1>13, <3>1, <3>2, <3>3, <3>4 DEF Children
    <2>4. QED
      BY <1>3, <2>2, <2>3
      DEF TypeOK, ShellType, RecordsType, GroupsType, ProcType, TermType, Process, States
  <1>14. QED
    BY <1>8, <1>9, <1>10, <1>11, <1>12, <1>13, Cases

-----------------------------------------------------------------------------
(* The command and the launch of a pipeline                                *)

\* The next process of a pipeline, or the end of the launch.
LEMMA Advance ==
  ASSUME TypeOK, CmdInv, pc \in {"fork", "setpgid"}, NextProcess
  PROVE  /\ cmd' = [cmd EXCEPT !.k = cmd.k + 1] /\ cmd.k \in 1..Size[cmd.job] /\ cmd.k \in Nat
         /\ Size[cmd.job] \in Nat /\ cmd.job \in Jobs /\ ~cmd.cont
         /\ cmd'.job = cmd.job /\ cmd'.foreground = cmd.foreground /\ cmd'.cont = cmd.cont
         /\ cmd'.k = cmd.k + 1
         /\ \/ pc' = "fork" /\ cmd.k < Size[cmd.job] /\ cmd'.k \in 1..Size[cmd.job]
            \/ /\ cmd.k = Size[cmd.job]
               /\ pc' = IF ~interactive THEN "wait" ELSE IF cmd.foreground THEN "give" ELSE "notify"
  <1>1. cmd.k \in 1..Size[cmd.job] /\ cmd.job \in Jobs /\ ~cmd.cont /\ cmd.k \in Nat
        /\ cmd \in [job : Jobs \cup {0}, k : Nat, foreground : BOOLEAN, cont : BOOLEAN]
    BY Types DEF CmdInv, Jobless, ShellType, RecordsType
  <1>2. Size[cmd.job] \in Nat \ {0}
    BY <1>1, SizeAssumption
  <1>3. cmd' = [cmd EXCEPT !.k = cmd.k + 1]
        /\ pc' = IF cmd.k < Size[cmd.job] THEN "fork" ELSE AfterLaunch
    BY <1>1 DEF NextProcess
  <1>4. cmd'.job = cmd.job /\ cmd'.foreground = cmd.foreground /\ cmd'.cont = cmd.cont
        /\ cmd'.k = cmd.k + 1
    BY <1>1, <1>3
  <1> DEFINE n == Size[cmd.job]
             k == cmd.k
  <1>5. n \in Nat /\ k \in 1..n /\ k \in Nat
    BY <1>1, <1>2
  <1> HIDE DEF n, k
  <1>6. k < n => k + 1 \in 1..n
    BY <1>5
  <1>7. ~(k < n) => k = n
    BY <1>5
  <1>8. QED
    BY <1>1, <1>2, <1>3, <1>4, <1>6, <1>7 DEF AfterLaunch, n, k

LEMMA CmdNext ==
  ASSUME TypeOK, CmdInv, [Next]_vars
  PROVE  CmdInv'
  <1>1. ASSUME UNCHANGED <<interactive, pc, cmd, active>> PROVE CmdInv'
    BY <1>1 DEF CmdInv
  <1>2. ASSUME UNCHANGED <<interactive, cmd>>, pc' \in {"notify", "tell", "read", "exited"}
        PROVE  CmdInv'
    BY <1>2 DEF CmdInv, Jobless
  <1>3. CASE UNCHANGED vars
    BY <1>1, <1>3 DEF vars, shell, records
  <1>4. CASE Alone
    <2>1. CASE BroughtToForeground
      BY <1>1, <2>1 DEF BroughtToForeground, shell, records
    <2>2. CASE InitShell \/ InitFails \/ UpdateStatusEnds \/ Notify \/ Quit \/ ForkFails \/ RestoreModes
      BY <1>2, <2>2 DEF InitShell, InitFails, UpdateStatusEnds, Notify, Quit, ForkFails, RestoreModes
    <2>3. CASE WaitNoChild
      BY <2>3 DEF WaitNoChild, WaitEnds, AfterWait, CmdInv, Jobless, records
    <2>4. CASE GiveTerminal \/ SetJobModes \/ RegainTerminal
      BY <2>4 DEF GiveTerminal, SetJobModes, RegainTerminal, CmdInv, Jobless, records
    <2>5. ASSUME NEW j \in Jobs, NEW fg \in BOOLEAN, Launch(j, fg) PROVE CmdInv'
      BY <2>5, SizeAssumption DEF Launch, CmdInv, Jobless
    <2>6. ASSUME NEW j \in Jobs, NEW fg \in BOOLEAN, ContinueJob(j, fg) PROVE CmdInv'
      BY <2>6 DEF ContinueJob, CmdInv, Jobless
    <2>7. QED
      BY <1>4, <2>1, <2>2, <2>3, <2>4, <2>5, <2>6 DEF Alone
  <1>5. CASE Waits
    <2>1. UNCHANGED <<interactive, cmd, active>>
          /\ (pc' = pc \/ pc' = "tell" \/ (pc = "wait" /\ pc' = AfterWait))
      BY <1>5 DEF Waits, UpdateStatus, WaitForJob
    <2>2. QED
      BY <1>1, <1>2, <2>1 DEF AfterWait, CmdInv, Jobless
  <1>6. CASE Fork
    <2>1. CASE interactive
      BY <1>6, <2>1 DEF Fork, CmdInv, Jobless
    <2>2. CASE ~interactive
      BY <1>6, <2>2, Advance DEF Fork, CmdInv, Jobless
    <2>3. QED
      BY <2>1, <2>2
  <1>7. CASE ParentSetpgid
    BY <1>7, Advance DEF ParentSetpgid, CmdInv, Jobless, records
  <1>8. CASE SendContinue
    BY <1>8, Continuing DEF CmdInv, Jobless
  <1>9. CASE Children
    BY <1>1, <1>9, ChildrenRest DEF Rest
  <1>10. QED
    BY <1>3, <1>4, <1>5, <1>6, <1>7, <1>8, <1>9, Cases

\* Fork is a step of its own.
LEMMA ForkMoves ==
  ASSUME TypeOK, CmdInv, Fork
  PROVE  /\ pc = "fork" /\ UNCHANGED <<active, rec, interactive, term, modes, tmodes>>
         /\ cmd'.job = cmd.job /\ cmd'.foreground = cmd.foreground /\ cmd'.cont = cmd.cont
         /\ \/ pc' = "setpgid" /\ cmd' = cmd /\ interactive
            \/ /\ cmd'.k = cmd.k + 1 /\ ~interactive
               /\ \/ pc' = "fork"
                  \/ pc' = "wait" /\ cmd.k = Size[cmd.job]
  <1>1. pc = "fork" /\ UNCHANGED <<active, rec, interactive, term, modes, tmodes>>
    BY DEF Fork, terminal
  <1>2. CASE interactive
    BY <1>1, <1>2 DEF Fork
  <1>3. CASE ~interactive
    BY <1>1, <1>3, Advance DEF Fork
  <1>4. QED
    BY <1>1, <1>2, <1>3

LEMMA ParentMoves ==
  ASSUME TypeOK, CmdInv, ParentSetpgid
  PROVE  /\ pc = "setpgid" /\ interactive
         /\ UNCHANGED <<active, rec, interactive, pgid, term, modes, tmodes>>
         /\ cmd'.job = cmd.job /\ cmd'.foreground = cmd.foreground /\ cmd'.cont = cmd.cont
         /\ cmd'.k = cmd.k + 1
         /\ \/ pc' = "fork"
            \/ cmd.k = Size[cmd.job] /\ pc' = IF cmd.foreground THEN "give" ELSE "notify"
  BY Advance DEF ParentSetpgid, records, terminal, CmdInv

\* No other step forks.
LEMMA ForkOnly ==
  ASSUME TypeOK, CmdInv, NEW q \in Procs, Forked(q)
  PROVE  ~(Alone \/ Waits \/ ParentSetpgid \/ SendContinue \/ Children) \/ proc' = proc
  <1>1. pc = "fork" /\ (pc' # pc \/ cmd'.k = cmd.k + 1) /\ cmd.k \in Nat
    BY ForkMoves, Types DEF Forked, ShellType
  <1>2. cmd' = cmd => pc' # pc
    BY <1>1
  <1>3. ~(Waits \/ ParentSetpgid \/ SendContinue)
    BY <1>1, Continuing DEF Waits, UpdateStatus, WaitForJob, ParentSetpgid
  <1>4. ~Children
    BY <1>2, ChildrenRest DEF Rest
  <1>5. QED
    BY <1>3, <1>4, AloneProc

\* Whether a process is there, before and after a step.
LEMMA There ==
  ASSUME TypeOK, CmdInv, LaunchInv, [Next]_vars, NEW q \in Procs
  PROVE  /\ proc'[q].state = "none" => proc[q].state = "none"
         /\ ~Fork => (proc'[q].state = "none" <=> proc[q].state = "none")
         /\ q # <<cmd.job, cmd.k>> => (proc'[q].state = "none" <=> proc[q].state = "none")
         /\ proc'[q].state \notin {"none", "over"} =>
              proc[q].state \notin {"none", "over"} \/ (pc = "fork" /\ q = <<cmd.job, cmd.k>>)
  <1>1. Moved(q)
    BY Moves
  <1>2. Forked(q) => Fork /\ pc = "fork" /\ q = <<cmd.job, cmd.k>>
    BY Zenon DEF Forked
  <1>3. QED
    BY <1>1, <1>2, MovedFields

\* The processes of the pipeline under launch; a process of the job at position n.
LEMMA InPipeline ==
  ASSUME TypeOK, CmdInv, LaunchInv, pc = "fork" \/ pc = "setpgid"
  PROVE  /\ cmd.job \in Jobs /\ cmd.job \in active /\ cmd.k \in 1..Size[cmd.job] /\ cmd.k \in Nat
         /\ Size[cmd.job] \in Nat
         /\ \A p \in Procs : p[1] = cmd.job => p \in ProcsOf(cmd.job) /\ p[2] \in Nat
                                  /\ p[2] <= Size[cmd.job] /\ (p[2] = cmd.k <=> p = <<cmd.job, cmd.k>>)
         /\ <<cmd.job, cmd.k>> \in Procs
  <1>1. cmd.job \in active /\ cmd.job \in Jobs /\ cmd.k \in 1..Size[cmd.job]
    BY Types DEF CmdInv, Jobless, RecordsType
  <1>2. Size[cmd.job] \in Nat
    BY <1>1, SizeAssumption
  <1>3. ASSUME NEW p \in Procs, p[1] = cmd.job
        PROVE  p \in ProcsOf(cmd.job) /\ p[2] \in Nat /\ p[2] <= Size[cmd.job]
               /\ (p[2] = cmd.k <=> p = <<cmd.job, cmd.k>>)
    BY <1>2, <1>3, ProcFacts DEF ProcsOf
  <1>4. QED
    BY <1>1, <1>2, <1>3, ProcFacts

\* Only Launch and Notify change the list.
LEMMA ActiveGrows ==
  ASSUME [Next]_vars, ~Notify
  PROVE  active \subseteq active'
  <1>1. Alone => active \subseteq active'
    BY DEF Alone, BroughtToForeground, InitShell, InitFails, UpdateStatusEnds, Notify, WaitNoChild,
        Quit, ForkFails, GiveTerminal, SetJobModes, RegainTerminal, RestoreModes, Launch,
        ContinueJob, records
  <1>2. Waits \/ Fork \/ ParentSetpgid \/ UNCHANGED vars => active' = active
    BY DEF Waits, UpdateStatus, WaitForJob, Fork, ParentSetpgid, vars, records
  <1>3. QED
    BY <1>1, <1>2, Cases, ChildrenRest, Continuing DEF Rest

LEMMA LeaderFirstNext ==
  ASSUME TypeOK, CmdInv, LaunchInv, [Next]_vars
  PROVE  LeaderFirst'
  <1> SUFFICES ASSUME NEW p \in Procs, proc'[leader(p)].state = "none", proc'[p].state # "none"
               PROVE  FALSE
    BY DEF LeaderFirst, leader
  <1>1. leader(p) \in Procs /\ leader(p) = <<p[1], 1>> /\ leader(p)[2] = 1 /\ leader(p)[1] = p[1]
    BY ProcFacts DEF leader
  <1>2. proc[p].state = "none"
    BY <1>1, There DEF LaunchInv, LeaderFirst
  <1>3. p = <<cmd.job, cmd.k>> /\ Fork /\ pc = "fork"
    BY <1>2, There DEF Fork
  <1>4. p[1] = cmd.job /\ cmd.k \in 1..Size[cmd.job] /\ cmd.k \in Nat /\ Size[cmd.job] \in Nat
    BY <1>3, InPipeline
  <1>5. leader(p) \in ProcsOf(cmd.job)
    BY <1>1, <1>4 DEF ProcsOf
  <1>6. ~(1 < cmd.k)
    BY <1>1, <1>3, <1>5, There DEF LaunchInv, ForkedUpTo
  <1>7. cmd.k = 1
    BY <1>4, <1>6
  <1>8. proc'[p].state = "none"
    BY <1>1, <1>3, <1>4, <1>7
  <1>9. QED
    BY <1>8

LEMMA KnownNext ==
  ASSUME TypeOK, CmdInv, LaunchInv, RecordsTrue, [Next]_vars
  PROVE  Known'
  <1> SUFFICES ASSUME NEW p \in Procs, proc'[p].state \notin {"none", "over"}
               PROVE  p[1] \in active'
    BY DEF Known
  <1>1. p[1] \in active
    <2>1. CASE proc[p].state \notin {"none", "over"}
      BY <2>1 DEF LaunchInv, Known
    <2>2. CASE pc = "fork" /\ p = <<cmd.job, cmd.k>>
      BY <2>2, InPipeline
    <2>3. QED
      BY <2>1, <2>2, There
  <1>2. CASE Notify
    <2>1. pc = "tell" /\ active' = {j \in active : ~job_is_completed(rec, j)} /\ proc' = proc
      BY <1>2, AloneProc DEF Notify, Alone
    <2>2. ~rec[p].completed
      BY <2>1 DEF RecordsTrue
    <2>3. ~job_is_completed(rec, p[1])
      BY <2>2 DEF job_is_completed, ProcsOf
    <2>4. QED
      BY <1>1, <2>1, <2>3
  <1>3. CASE ~Notify
    <2>1. active \subseteq active'
      BY <1>3, ActiveGrows
    <2>2. QED
      BY <1>1, <2>1
  <1>4. QED
    BY <1>2, <1>3

\* How the shell comes into a launch, through it and out of it.
LEMMA LaunchSteps ==
  ASSUME TypeOK, CmdInv, [Next]_vars
  PROVE  /\ pc = "exited" => pc' = "exited"
         /\ \A j \in active' : j \notin active => pc' = "fork" /\ cmd'.job = j
         /\ pc \in {"fork", "setpgid"} =>
              (pc = "fork" /\ pc' = "exited") \/ Fork \/ ParentSetpgid \/ (UNCHANGED <<pc, cmd>> /\ ~Fork)
         /\ pc' \in {"fork", "setpgid"} /\ pc \notin {"fork", "setpgid"} =>
              /\ pc' = "fork" /\ cmd'.k = 1 /\ proc' = proc /\ proc[<<cmd'.job, 1>>].state = "none"
              /\ ~Fork
  <1>1. Fork => pc = "fork"
    BY DEF Fork
  <1>2. ASSUME UNCHANGED <<pc, cmd>> PROVE ~Fork
    <2>1. Fork => pc' # pc \/ cmd'.k = cmd.k + 1
      BY ForkMoves
    <2>2. cmd.k \in Nat
      BY Types DEF ShellType
    <2>3. QED
      BY <1>2, <2>1, <2>2
  <1>3. CASE Alone
    <2>1. proc' = proc
      BY <1>3, AloneProc
    <2>2. CASE ForkFails \/ BroughtToForeground
      BY <1>2, <2>2 DEF ForkFails, BroughtToForeground, shell, records
    <2>3. CASE \/ InitShell \/ InitFails \/ UpdateStatusEnds \/ Notify \/ WaitNoChild \/ Quit
               \/ GiveTerminal \/ SetJobModes \/ RegainTerminal \/ RestoreModes
      BY <2>3 DEF InitShell, InitFails, UpdateStatusEnds, Notify, WaitNoChild, Quit, GiveTerminal,
          SetJobModes, RegainTerminal, RestoreModes, WaitEnds, AfterWait, records
    <2>4. ASSUME NEW j \in Jobs, NEW fg \in BOOLEAN, Launch(j, fg)
          PROVE  /\ pc = "read" /\ pc' = "fork" /\ cmd'.k = 1 /\ cmd'.job = j /\ active' = active \cup {j}
                 /\ proc[<<j, 1>>].state = "none"
      BY <2>4 DEF Launch
    <2>5. ASSUME NEW j \in Jobs, NEW fg \in BOOLEAN, ContinueJob(j, fg)
          PROVE  pc = "read" /\ pc' \in {"give", "continue"} /\ active' = active
      BY <2>5 DEF ContinueJob
    <2>6. QED
      BY <1>1, <1>3, <2>1, <2>2, <2>3, <2>4, <2>5 DEF Alone
  <1>4. CASE Waits
    <2>1. UNCHANGED active /\ pc \in {"notify", "wait"} /\ pc' \in {"notify", "wait", "tell", "regain"}
      BY <1>4 DEF Waits, UpdateStatus, WaitForJob, AfterWait
    <2>2. QED
      BY <2>1
  <1>5. CASE Fork
    BY <1>1, <1>5, ForkMoves
  <1>6. CASE ParentSetpgid
    BY <1>6, ParentMoves
  <1>7. CASE SendContinue
    BY <1>7, Continuing
  <1>8. CASE Children \/ UNCHANGED vars
    <2>1. UNCHANGED <<pc, cmd, active>>
      BY <1>8, ChildrenRest DEF Rest, vars, shell, records
    <2>2. QED
      BY <1>2, <2>1
  <1>9. QED
    BY <1>3, <1>4, <1>5, <1>6, <1>7, <1>8, Cases

LEMMA AllThereNext ==
  ASSUME TypeOK, CmdInv, LaunchInv, [Next]_vars
  PROVE  AllThere'
  <1> SUFFICES ASSUME NEW p \in Procs, pc' # "exited", p[1] \in active', proc'[p].state = "none",
                      ~(pc' \in {"fork", "setpgid"} /\ p[1] = cmd'.job)
               PROVE  FALSE
    BY DEF AllThere, UnderLaunch
  <1>1. proc[p].state = "none"
    BY There
  <1>2. pc # "exited" /\ p[1] \in active
    BY LaunchSteps
  <1>3. pc \in {"fork", "setpgid"} /\ p[1] = cmd.job
    BY <1>1, <1>2 DEF LaunchInv, AllThere, UnderLaunch
  <1>4. Fork \/ ParentSetpgid
    BY <1>3, LaunchSteps
  <1>5. cmd.k = Size[cmd.job] /\ cmd.k \in Nat /\ p \in ProcsOf(cmd.job) /\ p[2] \in Nat /\ p[2] <= cmd.k
        /\ (p[2] = cmd.k <=> p = <<cmd.job, cmd.k>>)
    BY <1>3, <1>4, ForkMoves, ParentMoves, InPipeline
  <1>6. CASE Fork
    <2>1. pc = "fork" /\ ~(p[2] < cmd.k)
      BY <1>1, <1>5, <1>6, ForkMoves DEF LaunchInv, ForkedUpTo
    <2>2. p = <<cmd.job, cmd.k>>
      BY <1>5, <2>1
    <2>3. proc'[p].state = "forked"
      BY <1>6, <2>2, Types DEF Fork, ProcType, Process
    <2>4. QED
      BY <2>3
  <1>7. CASE ParentSetpgid
    BY <1>1, <1>5, <1>7, ParentMoves DEF LaunchInv, ForkedUpTo
  <1>8. QED
    BY <1>4, <1>6, <1>7

LEMMA ForkedUpToNext ==
  ASSUME TypeOK, CmdInv, LaunchInv, [Next]_vars
  PROVE  ForkedUpTo'
  <1> SUFFICES ASSUME NEW p \in Procs, pc' \in {"fork", "setpgid"}, p[1] = cmd'.job
               PROVE  /\ pc' = "fork" => (proc'[p].state # "none" <=> p[2] < cmd'.k)
                      /\ pc' = "setpgid" => (proc'[p].state # "none" <=> p[2] <= cmd'.k)
    BY DEF ForkedUpTo, ProcsOf
  <1>1. p[2] \in Nat /\ 1 <= p[2]
    BY ProcFacts, SizeAssumption
  <1>2. CASE pc \notin {"fork", "setpgid"}
    <2>1. pc' = "fork" /\ cmd'.k = 1 /\ proc' = proc /\ proc[<<cmd'.job, 1>>].state = "none"
      BY <1>2, LaunchSteps
    <2>2. proc[p].state = "none"
      BY <2>1 DEF LaunchInv, LeaderFirst, leader
    <2>3. QED
      BY <1>1, <2>1, <2>2
  <1>3. CASE pc \in {"fork", "setpgid"} /\ UNCHANGED <<pc, cmd>> /\ ~Fork
    <2>1. p \in ProcsOf(cmd.job)
      BY <1>3 DEF ProcsOf
    <2>2. QED
      BY <1>3, <2>1, There DEF LaunchInv, ForkedUpTo
  <1>4. CASE Fork
    <2>1. /\ pc = "fork" /\ cmd'.job = cmd.job
          /\ (pc' = "setpgid" /\ cmd' = cmd) \/ (pc' = "fork" /\ cmd'.k = cmd.k + 1)
      BY <1>4, ForkMoves
    <2>2. p \in ProcsOf(cmd.job) /\ cmd.k \in Nat /\ (p[2] = cmd.k <=> p = <<cmd.job, cmd.k>>)
          /\ <<cmd.job, cmd.k>> \in Procs
      BY <2>1, InPipeline
    <2>3. p = <<cmd.job, cmd.k>> => proc'[p].state = "forked"
      BY <1>4, <2>2, Types DEF Fork, ProcType, Process
    <2>4. proc'[p].state # "none" <=> p[2] < cmd.k \/ p[2] = cmd.k
      BY <2>1, <2>2, <2>3, There DEF LaunchInv, ForkedUpTo
    <2>5. \A m, k \in Nat : /\ (m < k \/ m = k) <=> m <= k
                          /\ (m < k \/ m = k) <=> m < k + 1
      OBVIOUS
    <2>6. QED
      BY <1>1, <2>1, <2>2, <2>4, <2>5
  <1>5. CASE ParentSetpgid
    <2>1. pc = "setpgid" /\ pc' = "fork" /\ cmd'.job = cmd.job /\ cmd'.k = cmd.k + 1
      BY <1>5, ParentMoves
    <2>2. p \in ProcsOf(cmd.job) /\ cmd.k \in Nat
      BY <2>1, InPipeline
    <2>3. ~Fork
      BY <2>1 DEF Fork
    <2>4. proc'[p].state # "none" <=> p[2] <= cmd.k
      BY <2>1, <2>2, <2>3, There DEF LaunchInv, ForkedUpTo
    <2>5. \A m, k \in Nat : m <= k <=> m < k + 1
      OBVIOUS
    <2>6. QED
      BY <1>1, <2>1, <2>2, <2>4, <2>5
  <1>6. QED
    BY <1>2, <1>3, <1>4, <1>5, LaunchSteps

LEMMA LaunchNext ==
  ASSUME TypeOK, CmdInv, LaunchInv, RecordsTrue, [Next]_vars
  PROVE  LaunchInv'
  BY LeaderFirstNext, KnownNext, AllThereNext, ForkedUpToNext DEF LaunchInv

-----------------------------------------------------------------------------
(* The groups of the processes                                             *)

\* setpgid puts a process into the group it names, or leaves it where it is.
LEMMA SetpgidEffect ==
  ASSUME TypeOK, NEW q \in Procs, NEW g \in Jobs \cup {Shell}
  PROVE  /\ Setpgid(q, g) \in Process /\ Setpgid(q, g).state = proc[q].state
         /\ Setpgid(q, g).foreground = proc[q].foreground
         /\ \/ Setpgid(q, g).group = g /\ (<<g, 1>> = q \/ GroupExists(g))
            \/ Setpgid(q, g) = proc[q] /\ <<g, 1>> # q /\ ~GroupExists(g)
  BY Types DEF Setpgid, ProcType, Process

LEMMA GroupSteps ==
  ASSUME TypeOK, CmdInv, LaunchInv, GroupInv, [Next]_vars, NEW q \in Procs
  PROVE  /\ proc'[q].group # proc[q].group =>
              /\ interactive /\ proc[q].state \in {"forked", "grouped", "owner"}
              /\ proc'[q].group = q[1] /\ pgid[q[1]] = q[1] /\ (q = leader(q) \/ GroupExists(q[1]))
         /\ proc[q].state = "none" /\ proc'[q].state # "none" =>
              Fork /\ pc = "fork" /\ q = <<cmd.job, cmd.k>> /\ proc'[q].state = "forked"
  <1>1. Moved(q) /\ q[1] \in Jobs /\ leader(q) = <<q[1], 1>>
    BY Moves, ProcFacts DEF leader
  <1>2. Forked(q) => Fork /\ pc = "fork" /\ q = <<cmd.job, cmd.k>>
    BY Zenon DEF Forked
  <1>3. Forked(q) => proc'[q].state = "forked"
    BY Types DEF Forked, ProcType, Process
  <1>4. ASSUME Joined(q), proc'[q].group # proc[q].group
        PROVE  /\ interactive /\ proc[q].state \in {"forked", "grouped", "owner"}
               /\ proc'[q].group = q[1] /\ pgid[q[1]] = q[1] /\ (q = leader(q) \/ GroupExists(q[1]))
    <2>1. interactive /\ proc[q].state \in {"forked", "grouped", "owner"}
      BY <1>4 DEF Joined
    <2>2. pgid[q[1]] = q[1]
      BY <2>1 DEF GroupInv
    <2>3. proc'[q].group = Setpgid(q, q[1]).group
      BY <1>1, <1>4, <2>2, SetpgidEffect DEF Joined, Process
    <2>4. QED
      BY <1>1, <1>4, <2>1, <2>2, <2>3, SetpgidEffect
  <1>5. QED
    BY <1>1, <1>2, <1>3, <1>4, MovedFields

\* A group that nobody is left in, and whose leader is gone, stays empty.
LEMMA ClosedStays ==
  ASSUME TypeOK, CmdInv, LaunchInv, GroupInv, [Next]_vars, NEW j \in Jobs, Closed(j)
  PROVE  Closed(j)'
  <1>1. <<j, 1>> \in Procs /\ j # Shell
    BY ProcFacts DEF Shell
  <1>2. proc'[<<j, 1>>].state = "over"
    BY <1>1, Moves, MovedFields DEF Closed
  <1>3. ASSUME NEW q \in Procs, Child(q)', proc'[q].group = j PROVE FALSE
    <2>1. CASE proc'[q].group = proc[q].group
      <3>1. proc[q].state # "none"
        BY <1>1, <1>3, <2>1 DEF GroupInv
      <3>2. proc[q].state # "over"
        BY <1>3, Moves, MovedFields DEF Child, Alive
      <3>3. Child(q)
        BY <3>1, <3>2, Types DEF ProcType, Process, States, Child, Alive
      <3>4. QED
        BY <1>3, <2>1, <3>3 DEF Closed, GroupExists
    <2>2. CASE proc'[q].group # proc[q].group
      <3>1. proc[q].state # "over" /\ q[1] = j /\ (q = leader(q) \/ GroupExists(j))
        BY <1>3, <2>2, GroupSteps
      <3>2. q = <<j, 1>>
        BY <3>1 DEF Closed, leader
      <3>3. QED
        BY <3>1, <3>2 DEF Closed
    <2>3. QED
      BY <2>1, <2>2
  <1>4. ~GroupExists(j)'
    BY <1>1, <1>3 DEF GroupExists
  <1>5. QED
    BY <1>2, <1>4 DEF Closed

\* The leader of a pipeline is in its group when the next process is forked; when
\* that group is empty, it is gone.
LEMMA RefusedClosed ==
  ASSUME TypeOK, LaunchInv, GroupInv, interactive, NEW p \in Procs, Pending(p),
         p # leader(p), ~GroupExists(p[1])
  PROVE  Closed(p[1])
  <1>1. leader(p) \in Procs /\ leader(p)[1] = p[1] /\ leader(leader(p)) = leader(p)
        /\ leader(p) = <<p[1], 1>>
    BY ProcFacts DEF leader
  <1>2. proc[leader(p)].state # "none"
    BY DEF Pending, LaunchInv, LeaderFirst
  <1>3. Settled(leader(p))
    BY <1>2 DEF Settled, Pending
  <1>4. proc[leader(p)].group = p[1]
    BY <1>1, <1>3 DEF GroupInv
  <1>5. ~Child(leader(p))
    BY <1>1, <1>4 DEF GroupExists
  <1>6. proc[leader(p)].state = "over"
    BY <1>1, <1>2, <1>5, Types DEF Child, Alive, ProcType, Process, States
  <1>7. QED
    BY <1>1, <1>6 DEF Closed

LEMMA GroupNext ==
  ASSUME TypeOK, CmdInv, LaunchInv, GroupInv, [Next]_vars
  PROVE  GroupInv'
  <1>1. interactive' = interactive
    BY InteractiveSame
  <1>2. ASSUME NEW p \in Procs PROVE proc'[p].group \in {Shell, p[1]}
    BY GroupSteps DEF GroupInv
  <1>3. ASSUME NEW p \in Procs, proc'[p].state = "none" PROVE proc'[p].group = Shell
    <2>1. proc[p].state = "none"
      BY <1>3, There
    <2>2. QED
      BY <2>1, GroupSteps DEF GroupInv
  <1>4. ASSUME interactive, NEW p \in Procs, proc'[p].state # "none" PROVE pgid'[p[1]] = p[1]
    <2>1. pgid' = pgid \/ (Fork /\ pgid' = [pgid EXCEPT ![cmd.job] = cmd.job])
      BY PgidSteps
    <2>2. pgid \in [Jobs -> Jobs \cup {0}] /\ p[1] \in Jobs
      BY Types, ProcFacts DEF GroupsType
    <2>3. CASE proc[p].state # "none"
      BY <1>4, <2>1, <2>2, <2>3 DEF GroupInv
    <2>4. CASE proc[p].state = "none"
      <3>1. Fork /\ p = <<cmd.job, cmd.k>>
        BY <1>4, <2>4, GroupSteps
      <3>2. pgid' = [pgid EXCEPT ![p[1]] = p[1]]
        BY <1>4, <3>1 DEF Fork
      <3>3. QED
        BY <2>2, <3>2
    <2>5. QED
      BY <2>3, <2>4
  <1>5. ASSUME interactive, NEW p \in Procs, Settled(p)'
        PROVE  proc'[p].group = p[1] \/ (p # leader(p) /\ Closed(p[1])')
    <2>1. p[1] \in Jobs /\ leader(p) = <<p[1], 1>> /\ proc'[p].state # "none"
      BY <1>5, ProcFacts DEF Settled, leader
    <2>2. CASE Settled(p)
      <3>1. proc[p].group = p[1] \/ (p # leader(p) /\ Closed(p[1]))
        BY <1>5, <2>2 DEF GroupInv
      <3>2. QED
        BY <2>1, <3>1, ClosedStays, GroupSteps
    <2>3. CASE proc[p].state = "none"
      <3>1. Fork /\ p = <<cmd.job, cmd.k>> /\ proc'[p].state = "forked"
        BY <2>1, <2>3, GroupSteps
      <3>2. pc' = "setpgid" /\ cmd' = cmd
        BY <1>5, <3>1, ForkMoves
      <3>3. QED
        BY <1>5, <3>1, <3>2 DEF Settled, Pending
    <2>4. CASE Pending(p)
      <3>1. pc = "setpgid" /\ p = <<cmd.job, cmd.k>> /\ proc[p].state = "forked" /\ pgid[p[1]] = p[1]
        BY <1>5, <2>4 DEF Pending, GroupInv
      <3>2. proc'[p].group = Setpgid(p, p[1]).group
        <4>1. CASE ParentSetpgid
          <5>1. proc' = [proc EXCEPT ![p] = Setpgid(p, p[1])]
            BY <3>1, <4>1 DEF ParentSetpgid
          <5>2. QED
            BY <5>1, Types DEF ProcType
        <4>2. CASE UNCHANGED <<pc, cmd>>
          <5>1. proc'[p].state # "forked"
            BY <1>5, <3>1, <4>2 DEF Settled, Pending
          <5>2. Joined(p)
            <6>1. Moved(p)
              BY Moves
            <6>2. ~Took(p) /\ ~Stopped(p)
              BY <3>1 DEF Took, Stopped
            <6>3. ~Ran(p)
              BY <1>5, <3>1 DEF Ran, BeforeExec
            <6>4. ~Forked(p) /\ ~Continued(p) /\ ~Collected(p)
              BY <3>1, Zenon DEF Forked, Continued, Collected
            <6>5. QED
              BY <3>1, <5>1, <6>1, <6>2, <6>3, <6>4 DEF Moved
          <5>3. QED
            BY <2>1, <3>1, <5>2, SetpgidEffect DEF Joined, Process
        <4>3. QED
          <5>1. ~Fork
            BY <3>1 DEF Fork
          <5>2. QED
            BY <3>1, <4>1, <4>2, <5>1, LaunchSteps
      <3>3. CASE proc'[p].group = p[1]
        BY <3>3
      <3>4. CASE <<p[1], 1>> # p /\ ~GroupExists(p[1])
        BY <1>5, <2>1, <2>4, <3>4, RefusedClosed, ClosedStays
      <3>5. QED
        BY <2>1, <3>2, <3>3, <3>4, SetpgidEffect
    <2>5. QED
      BY <2>2, <2>3, <2>4 DEF Settled
  <1>6. QED
    BY <1>1, <1>2, <1>3, <1>4, <1>5 DEF GroupInv, leader

-----------------------------------------------------------------------------
(* The records of the shell                                                *)

\* A job that is worked on, and is not under launch, has all its processes and, in an
\* interactive shell, its group number.
LEMMA JobIsThere ==
  ASSUME TypeOK, CmdInv, LaunchInv, GroupInv, pc \notin Jobless \cup {"fork", "setpgid"}
  PROVE  /\ cmd.job \in Jobs /\ cmd.job \in active
         /\ \A p \in ProcsOf(cmd.job) : proc[p].state # "none"
         /\ interactive => pgid[cmd.job] = cmd.job
  <1>1. cmd.job \in Jobs /\ cmd.job \in active /\ pc # "exited"
    BY Types DEF CmdInv, Jobless, RecordsType
  <1>2. ASSUME NEW p \in Procs, p[1] = cmd.job PROVE proc[p].state # "none"
    BY <1>1, <1>2 DEF LaunchInv, AllThere, UnderLaunch
  <1>3. <<cmd.job, 1>> \in Procs /\ <<cmd.job, 1>>[1] = cmd.job
    BY <1>1, ProcFacts
  <1>4. interactive => pgid[cmd.job] = cmd.job
    BY <1>2, <1>3 DEF GroupInv
  <1>5. QED
    BY <1>1, <1>2, <1>4 DEF ProcsOf

\* kill(-pgid, SIGCONT) reaches processes of the job alone.
LEMMA ContinuedOwn ==
  ASSUME TypeOK, CmdInv, LaunchInv, GroupInv, NEW q \in Procs, Continued(q)
  PROVE  /\ pc = "continue" /\ SendContinue /\ q \in ProcsOf(cmd.job)
         /\ proc[q].group = cmd.job /\ proc[q].state = "stopped" /\ interactive /\ cmd.cont
  <1>1. pc = "continue" /\ SendContinue /\ proc[q].state = "stopped" /\ proc[q].group = pgid[cmd.job]
    BY Zenon DEF Continued
  <1>2. interactive /\ cmd.cont
    BY <1>1 DEF CmdInv
  <1>3. pgid[cmd.job] = cmd.job /\ cmd.job \in Jobs
    BY <1>1, <1>2, JobIsThere DEF Jobless
  <1>4. cmd.job # Shell
    BY <1>3, ProcFacts DEF Shell
  <1>5. q[1] = cmd.job
    BY <1>1, <1>3, <1>4 DEF GroupInv
  <1>6. QED
    BY <1>1, <1>2, <1>3, <1>5 DEF ProcsOf

LEMMA RecSteps ==
  ASSUME [Next]_vars
  PROVE  /\ rec' = rec \/ Waits \/ \E j \in Jobs, fg \in BOOLEAN : ContinueJob(j, fg)
         /\ cmd'.cont /\ pc' \in {"give", "setmodes", "continue"} =>
              \/ UNCHANGED <<cmd, rec>> /\ pc \in {"give", "setmodes", "continue"}
              \/ ParentSetpgid \/ \E j \in Jobs, fg \in BOOLEAN : ContinueJob(j, fg)
  <1>1. CASE Waits
    <2>1. pc' \in {"notify", "wait", "tell", "regain"}
      BY <1>1 DEF Waits, UpdateStatus, WaitForJob, AfterWait
    <2>2. QED
      BY <1>1, <2>1
  <1>2. CASE Fork
    <2>1. rec' = rec /\ (interactive => pc' = "setpgid") /\ (~interactive => pc' \in {"fork", "wait"})
      BY <1>2 DEF Fork, NextProcess, AfterLaunch
    <2>2. QED
      BY <2>1
  <1>3. CASE ParentSetpgid
    BY <1>3 DEF ParentSetpgid, records
  <1>4. CASE SendContinue
    BY <1>4, Continuing
  <1>5. CASE Children \/ UNCHANGED vars
    <2>1. UNCHANGED <<pc, cmd, rec>>
      BY <1>5, ChildrenRest DEF Rest, vars, shell, records
    <2>2. QED
      BY <2>1
  <1>6. CASE Alone
    <2>1. ASSUME NEW j \in Jobs, NEW fg \in BOOLEAN, Launch(j, fg) PROVE rec' = rec /\ pc' = "fork"
      BY <2>1 DEF Launch
    <2>2. ASSUME \/ BroughtToForeground \/ InitShell \/ InitFails \/ UpdateStatusEnds \/ Notify
                 \/ WaitNoChild \/ Quit \/ ForkFails \/ RegainTerminal \/ RestoreModes
          PROVE  rec' = rec /\ pc' \notin {"give", "setmodes", "continue"}
      BY <2>2 DEF BroughtToForeground, InitShell, InitFails, UpdateStatusEnds, Notify, WaitNoChild, Quit,
         ForkFails, RegainTerminal, RestoreModes, WaitEnds, AfterWait, shell, records
    <2>3. ASSUME GiveTerminal \/ SetJobModes
          PROVE  UNCHANGED <<cmd, rec>> /\ pc \in {"give", "setmodes", "continue"}
      BY <2>3 DEF GiveTerminal, SetJobModes, records
    <2>4. QED
      BY <1>6, <2>1, <2>2, <2>3 DEF Alone
  <1>7. QED
    BY <1>1, <1>2, <1>3, <1>4, <1>5, <1>6, Cases

LEMMA RecordNext ==
  ASSUME TypeOK, CmdInv, LaunchInv, GroupInv, RecordInv, [Next]_vars
  PROVE  RecordInv'
  <1>1. rec \in [Procs -> [completed : BOOLEAN, stopped : BOOLEAN]]
        /\ proc \in [Procs -> Process]
    BY Types DEF RecordsType, ProcType
  <1>2. ASSUME NEW p \in Procs, proc'[p].unreported PROVE proc'[p].state = "stopped"
    BY <1>2, Moves, MovedFields DEF RecordInv
  <1>3. ASSUME NEW p \in Procs, NEW j \in Jobs, NEW fg \in BOOLEAN, ContinueJob(j, fg)
        PROVE  /\ rec'[p].completed = rec[p].completed /\ (rec'[p].stopped => rec[p].stopped)
               /\ cmd'.job = j /\ (p \in ProcsOf(j) => ~rec'[p].stopped)
    <2>1. rec' = [q \in Procs |-> IF q \in ProcsOf(j) THEN [rec[q] EXCEPT !.stopped = FALSE] ELSE rec[q]]
          /\ cmd'.job = j
      BY <1>3 DEF ContinueJob, mark_job_as_running
    <2>2. QED
      BY <1>1, <2>1
  <1>4. ASSUME NEW p \in Procs
        PROVE  /\ rec'[p].completed => proc'[p].state = "over"
               /\ rec'[p].stopped => proc'[p].state \in {"stopped", "over"}
    <2>1. /\ rec[p].completed => proc'[p].state = "over"
          /\ rec[p].stopped => proc'[p].state \in {"stopped", "over"}
      <3>1. ASSUME rec[p].completed PROVE proc'[p].state = "over"
        BY <3>1, Moves, MovedFields DEF RecordInv, RecordsTrue
      <3>2. ASSUME rec[p].stopped, proc[p].state = "stopped" PROVE proc'[p].state = "stopped"
        <4>1. ~Continued(p)
          <5>1. Continued(p) => pc = "continue" /\ cmd.cont /\ p \in ProcsOf(cmd.job)
            BY ContinuedOwn
          <5>2. QED
            BY <3>2, <5>1 DEF RecordInv
        <4>2. QED
          BY <3>2, <4>1, Moves, MovedFields
      <3>3. ASSUME rec[p].stopped, proc[p].state = "over" PROVE proc'[p].state = "over"
        BY <3>3, Moves, MovedFields
      <3>4. QED
        BY <3>1, <3>2, <3>3 DEF RecordInv, RecordsTrue
    <2>2. CASE Waits
      <3>1. PICK q \in Procs : UpdateStatus(q) \/ WaitForJob(q)
        BY <2>2 DEF Waits
      <3>2. /\ q \in Reportable /\ Waited(q)
            /\ rec' = rec \/ rec' = mark_process_status(q)
        BY <3>1 DEF UpdateStatus, WaitForJob
      <3>3. CASE q # p \/ rec' = rec
        <4>1. rec'[p] = rec[p]
          BY <1>1, <3>2, <3>3 DEF mark_process_status
        <4>2. QED
          BY <2>1, <4>1
      <3>4. CASE q = p /\ rec' = mark_process_status(p)
        <4>1. proc'[p].state = IF proc[p].state = "zombie" THEN "over" ELSE proc[p].state
          BY <1>1, <3>2, <3>4 DEF Waited, Process
        <4>2. CASE proc[p].unreported
          <5>1. proc[p].state = "stopped"
            BY <4>2 DEF RecordInv
          <5>2. rec'[p].completed = rec[p].completed
            BY <1>1, <3>4, <4>2 DEF mark_process_status
          <5>3. proc'[p].state = "stopped"
            BY <4>1, <5>1
          <5>4. QED
            BY <2>1, <5>2, <5>3
        <4>3. CASE ~proc[p].unreported
          <5>1. proc[p].state = "zombie"
            BY <3>2, <3>4, <4>3 DEF Reportable
          <5>2. QED
            BY <4>1, <5>1
        <4>4. QED
          BY <4>2, <4>3
      <3>5. QED
        BY <3>2, <3>3, <3>4
    <2>3. QED
      BY <1>3, <2>1, <2>2, RecSteps
  <1>5. ASSUME cmd'.cont, pc' \in {"give", "setmodes", "continue"}, NEW p \in ProcsOf(cmd'.job)
        PROVE  ~rec'[p].stopped
    <2>1. p \in Procs
      BY DEF ProcsOf
    <2>2. CASE UNCHANGED <<cmd, rec>> /\ pc \in {"give", "setmodes", "continue"}
      BY <1>5, <2>2 DEF RecordInv
    <2>3. ~ParentSetpgid
      BY <1>5, ParentMoves DEF CmdInv
    <2>4. QED
      BY <1>3, <1>5, <2>1, <2>2, <2>3, RecSteps
  <1>6. QED
    BY <1>2, <1>4, <1>5 DEF RecordInv, RecordsTrue, ProcsOf

-----------------------------------------------------------------------------
(* The foreground                                                          *)

\* A turn of the shell that leaves it where it is, and every other step.
Stay == UNCHANGED <<pc, cmd>> /\ (Children \/ BroughtToForeground \/ Waits \/ UNCHANGED vars)
Leave == WaitNoChild \/ (Waits /\ pc' # pc)

LEMMA Control ==
  ASSUME [Next]_vars
  PROVE  \/ Stay \/ Leave
         \/ InitShell \/ InitFails \/ UpdateStatusEnds \/ Notify \/ Quit \/ ForkFails
         \/ Fork \/ ParentSetpgid
         \/ GiveTerminal \/ SetJobModes \/ SendContinue \/ RegainTerminal \/ RestoreModes
         \/ \E j \in Jobs, fg \in BOOLEAN : Launch(j, fg) \/ ContinueJob(j, fg)
  <1>1. Children \/ UNCHANGED vars \/ BroughtToForeground => Stay
    <2>1. Children \/ UNCHANGED vars => UNCHANGED <<pc, cmd>>
      BY ChildrenRest DEF Rest, vars, shell
    <2>2. BroughtToForeground => UNCHANGED <<pc, cmd>>
      BY DEF BroughtToForeground, shell
    <2>3. QED
      BY <2>1, <2>2 DEF Stay
  <1>2. Waits => Stay \/ Leave
    <2>1. Waits => cmd' = cmd
      BY DEF Waits, UpdateStatus, WaitForJob
    <2>2. QED
      BY <2>1 DEF Stay, Leave
  <1>3. QED
    BY <1>1, <1>2, Cases DEF Alone, Leave

\* When the shell leaves its wait for a job, the job is over or stopped.
LEMMA LeaveDone ==
  ASSUME TypeOK, CmdInv, LaunchInv, GroupInv, RecordInv, [Next]_vars, Leave
  PROVE  /\ UNCHANGED <<interactive, cmd, active, tmodes, term, modes>>
         /\ \/ pc = "notify" /\ pc' = "tell"
            \/ /\ pc = "wait" /\ pc' = AfterWait
               /\ \A p \in ProcsOf(cmd.job) : Over(p)' \/ proc'[p].state = "stopped"
  <1>1. CASE WaitNoChild
    <2>1. /\ UNCHANGED <<interactive, cmd, active, tmodes, term, modes, proc>>
          /\ pc = "wait" /\ pc' = AfterWait /\ NoChild
      BY <1>1 DEF WaitNoChild, WaitEnds, records, terminal
    <2>2. ASSUME NEW p \in ProcsOf(cmd.job) PROVE Over(p)'
      <3>1. p \in Procs /\ proc[p].state # "none"
        BY <2>1, JobIsThere DEF ProcsOf, Jobless
      <3>2. ~Child(p)
        BY <2>1, <3>1 DEF NoChild
      <3>3. Over(p)
        BY <3>1, <3>2, Types DEF ProcType, Process, States, Over, Child, Alive
      <3>4. QED
        BY <2>1, <3>3 DEF Over
    <2>3. QED
      BY <2>1, <2>2
  <1>2. CASE Waits /\ pc' # pc
    <2>1. PICK q \in Procs : UpdateStatus(q) \/ WaitForJob(q)
      BY <1>2 DEF Waits
    <2>2. /\ UNCHANGED <<interactive, cmd, active, tmodes, term, modes>>
          /\ \/ pc = "notify" /\ pc' = "tell"
             \/ pc = "wait" /\ pc' = AfterWait /\ (~Listed(q) \/ job_is_stopped(rec', cmd.job))
          /\ q \in Reportable
      BY <1>2, <2>1 DEF UpdateStatus, WaitForJob, terminal
    <2>3. Listed(q)
      BY <2>2 DEF Reportable, RecordInv, LaunchInv, Known, Listed
    <2>4. RecordsTrue'
      BY RecordNext DEF RecordInv
    <2>5. ASSUME job_is_stopped(rec', cmd.job), NEW p \in ProcsOf(cmd.job)
          PROVE  Over(p)' \/ proc'[p].state = "stopped"
      BY <2>4, <2>5 DEF job_is_stopped, RecordsTrue, ProcsOf, Over
    <2>6. QED
      BY <2>2, <2>3, <2>5
  <1>3. QED
    BY <1>1, <1>2 DEF Leave

\* The launch of a foreground job, seen from its next moment.
LEMMA LaunchingSteps ==
  ASSUME TypeOK, CmdInv, LaunchInv, [Next]_vars, Launching', NEW p \in Procs,
         p[1] = cmd'.job, proc'[p].state # "none"
  PROVE  Launching /\ cmd.job = cmd'.job
  <1>1. CASE pc' \in {"fork", "setpgid"} /\ pc \notin {"fork", "setpgid"}
    <2>1. proc' = proc /\ proc[<<p[1], 1>>].state = "none"
      BY <1>1, LaunchSteps
    <2>2. QED
      BY <2>1 DEF LaunchInv, LeaderFirst, leader
  <1>2. CASE Stay
    BY <1>2 DEF Stay, Launching
  <1>3. CASE Fork \/ ParentSetpgid
    BY <1>3, ForkMoves, ParentMoves DEF Launching
  <1>4. CASE pc' = "give" /\ ~Stay /\ ~Fork /\ ~ParentSetpgid
    <2>1. ~Leave
      <3>1. Waits \/ WaitNoChild => pc' \in {"notify", "wait", "tell", "regain"}
        BY DEF Waits, UpdateStatus, WaitForJob, WaitNoChild, WaitEnds, AfterWait
      <3>2. QED
        BY <1>4, <3>1 DEF Leave
    <2>2. ~SendContinue
      BY <1>4, Continuing
    <2>3. \A j \in Jobs, fg \in BOOLEAN : ~Launch(j, fg) /\ ~ContinueJob(j, fg)
      BY <1>4 DEF Launch, ContinueJob, Launching
    <2>4. QED
      BY <1>4, <2>1, <2>2, <2>3, Control
      DEF InitShell, InitFails, UpdateStatusEnds, Notify, Quit, ForkFails, GiveTerminal, SetJobModes,
          RegainTerminal, RestoreModes
  <1>5. CASE pc' \in {"fork", "setpgid"} /\ pc \in {"fork", "setpgid"}
    BY <1>3, <1>5, LaunchSteps DEF Launching
  <1>6. QED
    BY <1>1, <1>2, <1>3, <1>4, <1>5 DEF Launching

LEMMA ForegroundNext ==
  ASSUME TypeOK, CmdInv, LaunchInv, GroupInv, RecordInv, ForegroundInv, [Next]_vars
  PROVE  ForegroundInv'
  <1>1. interactive' = interactive
    BY InteractiveSame
  <1>2. ASSUME interactive, NEW p \in Procs, proc'[p].state \in {"forked", "grouped"}, proc'[p].foreground
        PROVE  /\ p[1] = cmd'.job /\ cmd'.foreground /\ ~cmd'.cont
               /\ pc' \in {"fork", "setpgid", "give", "wait", "exited"}
    <2>1. Moved(p)
      BY Moves
    <2>2. CASE Forked(p)
      <3>1. Fork /\ pc = "fork" /\ p = <<cmd.job, cmd.k>>
        BY <2>2, Zenon DEF Forked
      <3>2. proc'[p].foreground = cmd.foreground
        BY <2>2, Types DEF Forked, ProcType, Process
      <3>3. QED
        BY <1>2, <3>1, <3>2, ForkMoves DEF CmdInv
    <2>3. CASE ~Forked(p)
      <3>1. proc[p].state \in {"forked", "grouped"} /\ proc[p].foreground
        BY <1>2, <2>1, <2>3, MovedFields
      <3>2. /\ p[1] = cmd.job /\ cmd.foreground /\ ~cmd.cont
            /\ pc \in {"fork", "setpgid", "give", "wait", "exited"}
        BY <1>2, <3>1 DEF ForegroundInv
      <3>3. CASE Stay
        BY <3>2, <3>3 DEF Stay
      <3>4. CASE Leave
        <4>1. p \in ProcsOf(cmd.job)
          BY <3>2 DEF ProcsOf
        <4>2. QED
          BY <1>2, <3>2, <3>4, <4>1, LeaveDone DEF Over
      <3>5. CASE Fork \/ ParentSetpgid
        BY <1>2, <3>2, <3>5, ForkMoves, ParentMoves
      <3>6. CASE GiveTerminal \/ ForkFails
        BY <3>2, <3>6 DEF GiveTerminal, ForkFails
      <3>7. CASE \/ InitShell \/ InitFails \/ UpdateStatusEnds \/ Notify \/ Quit \/ SetJobModes
                 \/ SendContinue \/ RegainTerminal \/ RestoreModes
                 \/ \E j \in Jobs, fg \in BOOLEAN : Launch(j, fg) \/ ContinueJob(j, fg)
        <4>1. pc \in {"init", "notify", "tell", "read", "setmodes", "continue", "regain", "restore"}
          BY <3>7, Continuing DEF InitShell, InitFails, UpdateStatusEnds, Notify, Quit, SetJobModes,
             RegainTerminal, RestoreModes, Launch, ContinueJob
        <4>2. QED
          BY <3>2, <4>1
      <3>8. QED
        BY <3>3, <3>4, <3>5, <3>6, <3>7, Control
    <2>4. QED
      BY <2>2, <2>3
  <1>3. ASSUME interactive, Launching', NEW p \in ProcsOf(cmd'.job), proc'[p].state # "none"
        PROVE  proc'[p].foreground
    <2>1. p \in Procs /\ p[1] = cmd'.job /\ Moved(p)
      BY Moves DEF ProcsOf
    <2>2. Launching /\ cmd.job = cmd'.job
      BY <1>3, <2>1, LaunchingSteps
    <2>3. CASE proc[p].state # "none"
      <3>1. proc[p].foreground
        BY <1>3, <2>1, <2>2, <2>3 DEF ForegroundInv, ProcsOf
      <3>2. ~Forked(p)
        BY <2>3, Zenon DEF Forked
      <3>3. QED
        BY <2>1, <3>1, <3>2, MovedFields
    <2>4. CASE proc[p].state = "none"
      <3>1. Forked(p)
        BY <1>3, <2>1, <2>4, MovedFields
      <3>2. proc'[p].foreground = cmd.foreground
        BY <2>1, <3>1, Types DEF Forked, ProcType, Process
      <3>3. QED
        BY <2>2, <3>2 DEF Launching
    <2>5. QED
      BY <2>3, <2>4
  <1>4. QED
    BY <1>1, <1>2, <1>3 DEF ForegroundInv

LEMMA DoneNext ==
  ASSUME TypeOK, CmdInv, LaunchInv, GroupInv, RecordInv, DoneInv, [Next]_vars
  PROVE  DoneInv'
  <1> SUFFICES ASSUME pc' \in {"regain", "restore"} \cup AtHome, cmd'.foreground \/ ~interactive,
                      NEW p \in Procs, p[1] = cmd'.job
               PROVE  Over(p)' \/ proc'[p].state = "stopped"
    BY InteractiveSame DEF DoneInv, ProcsOf, AtHome
  <1>1. ASSUME cmd' = cmd, pc \in {"regain", "restore"} \cup AtHome
        PROVE  Over(p)' \/ proc'[p].state = "stopped"
    <2>1. Over(p) \/ proc[p].state = "stopped"
      BY <1>1 DEF DoneInv, ProcsOf
    <2>2. ~Continued(p)
      BY <1>1, ContinuedOwn DEF AtHome
    <2>3. QED
      BY <2>1, <2>2, Moves, MovedFields DEF Over
  <1>2. CASE Stay
    BY <1>1, <1>2 DEF Stay
  <1>3. CASE Leave
    <2>1. p \in ProcsOf(cmd.job) \/ cmd' # cmd
      BY DEF ProcsOf
    <2>2. QED
      BY <1>1, <1>3, <2>1, LeaveDone DEF AtHome
  <1>4. CASE InitShell
    <2>1. cmd'.job = 0
      BY <1>4 DEF InitShell, CmdInv
    <2>2. QED
      BY <2>1, ProcFacts
  <1>5. CASE UpdateStatusEnds \/ Notify \/ RegainTerminal \/ RestoreModes
    BY <1>1, <1>5 DEF UpdateStatusEnds, Notify, RegainTerminal, RestoreModes, AtHome
  <1>6. CASE InitFails \/ Quit \/ ForkFails \/ GiveTerminal \/ SetJobModes
             \/ \E j \in Jobs, fg \in BOOLEAN : Launch(j, fg) \/ ContinueJob(j, fg)
    BY <1>6 DEF InitFails, Quit, ForkFails, GiveTerminal, SetJobModes, Launch, ContinueJob, AtHome
  <1>7. CASE Fork \/ ParentSetpgid
    BY <1>7, ForkMoves, ParentMoves DEF AtHome
  <1>8. CASE SendContinue
    BY <1>8, Continuing DEF AtHome, CmdInv
  <1>9. QED
    BY <1>2, <1>3, <1>4, <1>5, <1>6, <1>7, <1>8, Control

-----------------------------------------------------------------------------
(* The terminal and its modes                                              *)

LEMMA TermSteps ==
  ASSUME [Next]_vars
  PROVE  \/ term' = term
         \/ BroughtToForeground \/ GiveTerminal \/ RegainTerminal
         \/ \E p \in Procs : ChildTcsetpgrp(p)
  <1>1. Waits \/ Fork \/ ParentSetpgid \/ SendContinue \/ UNCHANGED vars => term' = term
    BY Continuing DEF Waits, UpdateStatus, WaitForJob, Fork, ParentSetpgid, vars, terminal
  <1>2. Alone => \/ term' = term
                 \/ BroughtToForeground \/ GiveTerminal \/ RegainTerminal
    BY DEF Alone, InitShell, InitFails, UpdateStatusEnds, Notify, WaitNoChild, Quit, ForkFails,
        SetJobModes, RestoreModes, Launch, ContinueJob, terminal
  <1>3. Children => term' = term \/ \E p \in Procs : ChildTcsetpgrp(p)
    <2>1. ASSUME NEW g, StopGroup(g) PROVE term' = term
      <3>1. UNCHANGED terminal
        BY <2>1, Zenon DEF StopGroup
      <3>2. QED
        BY <3>1 DEF terminal
    <2>2. QED
      BY <2>1 DEF Children, ChildSetpgid, Execvp, ExecvpFails, Exit, ChangeModes, terminal
  <1>4. QED
    BY <1>1, <1>2, <1>3, Cases

\* A group comes into being only when the leader joins it.
LEMMA GroupBorn ==
  ASSUME TypeOK, CmdInv, LaunchInv, GroupInv, [Next]_vars, interactive, pc # "setpgid",
         NEW j \in Jobs, NEW q \in Procs, Child(q)', proc'[q].group = j
  PROVE  GroupExists(j)
  <1>1. j # Shell
    BY ProcFacts DEF Shell
  <1>2. proc'[q].state # "none" /\ proc'[q].state # "over"
    BY DEF Child, Alive
  <1>3. proc[q].state # "none"
    <2>1. CASE proc[q].state = "none"
      <3>1. proc[q].group = Shell
        BY <2>1 DEF GroupInv
      <3>2. QED
        BY <1>1, <2>1, <3>1, GroupSteps
    <2>2. QED
      BY <2>1
  <1>4. proc[q].state # "over"
    BY <1>2, Moves, MovedFields
  <1>5. Child(q)
    BY <1>3, <1>4, Types DEF ProcType, Process, States, Child, Alive
  <1>6. CASE proc'[q].group = proc[q].group
    BY <1>5, <1>6 DEF GroupExists
  <1>7. CASE proc'[q].group # proc[q].group
    <2>1. q[1] = j /\ (q = leader(q) \/ GroupExists(j))
      BY <1>7, GroupSteps
    <2>2. Settled(q)
      BY <1>3 DEF Settled, Pending
    <2>3. proc[q].group = j \/ q # leader(q)
      BY <2>1, <2>2 DEF GroupInv
    <2>4. QED
      BY <1>7, <2>1, <2>3
  <1>8. QED
    BY <1>6, <1>7

LEMMA JobGroupBorn ==
  ASSUME TypeOK, CmdInv, LaunchInv, GroupInv, [Next]_vars, interactive, pc # "setpgid",
         cmd.job \in Jobs, cmd' = cmd, JobGroup'
  PROVE  JobGroup
  <1>1. PICK q \in Procs : Child(q)' /\ proc'[q].group = cmd.job
    BY ProcFacts DEF JobGroup, GroupExists, Shell
  <1>2. QED
    BY <1>1, GroupBorn DEF JobGroup

\* While the job is launched, a process has been at the terminal before its group
\* and state say so.
LEMMA ForceStays ==
  ASSUME TypeOK, CmdInv, LaunchInv, GroupInv, ForegroundInv, [Next]_vars, interactive, Launching,
         NEW p \in Procs, p[1] = cmd.job, InForce(p)'
  PROVE  InForce(p) \/ ChildTcsetpgrp(p)
  <1>1. proc'[p].state \in {"owner", "running", "stopped"} /\ proc'[p].group = p[1] /\ Moved(p)
    BY Moves DEF InForce
  <1>2. proc[p].state # "none"
    BY <1>1, GroupSteps
  <1>3. proc[p].foreground
    BY <1>2 DEF ForegroundInv, ProcsOf
  <1>4. CASE proc[p].state \in {"owner", "running", "stopped"}
    <2>1. Settled(p)
      BY <1>4 DEF Settled, Pending
    <2>2. proc[p].group = p[1] \/ (p # leader(p) /\ ~GroupExists(p[1]))
      BY <2>1 DEF GroupInv, Closed
    <2>3. proc[p].group = p[1]
      BY <1>1, <2>2, GroupSteps
    <2>4. QED
      BY <1>4, <2>3 DEF InForce
  <1>5. CASE proc[p].state \notin {"owner", "running", "stopped"}
    <2>1. Took(p)
      <3>1. ~Joined(p)
        <4>1. p[1] \in Jobs /\ pgid[p[1]] \in Jobs \cup {Shell}
          BY Types, ProcFacts DEF GroupsType, Shell
        <4>2. Joined(p) => proc'[p].state \in {"grouped", proc[p].state}
          BY <4>1, SetpgidEffect DEF Joined, Process
        <4>3. QED
          BY <1>1, <1>5, <4>2
      <3>2. ~Forked(p)
        BY <1>2, Zenon DEF Forked
      <3>3. ~Ran(p)
        BY <1>3, <1>5 DEF Ran, BeforeExec
      <3>4. ~Stopped(p) /\ ~Continued(p)
        BY <1>5, Zenon DEF Stopped, Continued
      <3>5. ~Collected(p)
        <4>1. Collected(p) => pc \in {"notify", "wait"}
          BY Zenon DEF Collected
        <4>2. QED
          BY <4>1 DEF Launching
      <3>6. proc'[p] # proc[p]
        BY <1>1, <1>5
      <3>7. QED
        BY <1>1, <3>1, <3>2, <3>3, <3>4, <3>5, <3>6 DEF Moved
    <2>2. QED
      BY <2>1 DEF Took
  <1>6. QED
    BY <1>4, <1>5

LEMMA TermNext ==
  ASSUME IInv, [Next]_vars
  PROVE  TermInv'
  <1> SUFFICES ASSUME interactive, pc' \notin {"init", "exited"}
               PROVE  /\ ~cmd'.foreground \/ pc' \in {"restore"} \cup AtHome => term' = Shell
                      /\ term' \in {Shell, cmd'.job}
                      /\ Launching' => \A p \in Procs :
                           p[1] = cmd'.job /\ InForce(p)' => term' = cmd'.job
                      /\ pc' \in {"setmodes", "continue", "wait"} /\ cmd'.foreground =>
                           (JobGroup' => term' = cmd'.job)
    BY InteractiveSame DEF TermInv, ProcsOf, AtHome
  <1> USE DEF IInv
  <1>1. /\ ~cmd.foreground \/ pc \in {"restore"} \cup AtHome => term = Shell
        /\ term \in {Shell, cmd.job}
        /\ Launching => \A p \in Procs : p[1] = cmd.job /\ InForce(p) => term = cmd.job
        /\ pc \in {"setmodes", "continue", "wait"} /\ cmd.foreground =>
             (JobGroup => term = cmd.job)
        \/ pc \in {"init", "exited"}
    BY DEF TermInv, ProcsOf
  <1>2. pc # "exited"
    BY LaunchSteps
  <1>3. CASE Stay
    <2>1. pc' = pc /\ cmd' = cmd /\ pc # "init"
      BY <1>3 DEF Stay
    <2>2. ASSUME NEW p \in Procs, ChildTcsetpgrp(p)
          PROVE  /\ cmd.foreground /\ pc \in {"fork", "setpgid", "give", "wait"}
                 /\ (JobGroup /\ term' = cmd.job) \/ (~JobGroup /\ term' = term)
                 /\ p[1] = cmd.job
      <3>1. proc[p].state = "grouped" /\ proc[p].foreground
        BY <2>2 DEF ChildTcsetpgrp
      <3>2. /\ cmd.foreground /\ pc \in {"fork", "setpgid", "give", "wait"} /\ p[1] = cmd.job
        BY <1>2, <3>1 DEF ForegroundInv
      <3>3. pgid[p[1]] = p[1]
        BY <3>1 DEF GroupInv
      <3>4. QED
        BY <2>2, <3>2, <3>3 DEF ChildTcsetpgrp, Tcsetpgrp, JobGroup
    <2>3. ASSUME Launching, NEW p \in Procs, p[1] = cmd.job, InForce(p)' PROVE term' = cmd.job
      <3>1. CASE ChildTcsetpgrp(p)
        <4>1. proc[p].state = "grouped" /\ proc[p].group = p[1]
          <5>1. proc[p].state = "grouped"
            BY <3>1 DEF ChildTcsetpgrp
          <5>2. proc'[p].group = proc[p].group
            BY <3>1, Types DEF ChildTcsetpgrp, ProcType, Process
          <5>3. QED
            BY <2>3, <5>1, <5>2 DEF InForce
        <4>2. JobGroup
          BY <2>3, <4>1 DEF JobGroup, GroupExists, Child, Alive
        <4>3. QED
          BY <2>2, <3>1, <4>2
      <3>2. CASE InForce(p)
        <4>1. term = cmd.job
          BY <1>1, <1>2, <2>1, <2>3, <3>2
        <4>2. term' = term \/ \E q \in Procs : ChildTcsetpgrp(q)
          BY <2>1, TermSteps DEF BroughtToForeground, GiveTerminal, RegainTerminal
        <4>3. QED
          BY <2>2, <4>1, <4>2
      <3>3. QED
        BY <2>3, <3>1, <3>2, ForceStays
    <2>4. term' = term \/ \E q \in Procs : ChildTcsetpgrp(q)
      BY <2>1, TermSteps DEF BroughtToForeground, GiveTerminal, RegainTerminal
    <2>5. ASSUME pc \in {"setmodes", "continue", "wait"}, cmd.foreground, JobGroup'
          PROVE  term' = cmd.job
      <3>1. cmd.job \in Jobs
        BY <2>5, JobIsThere DEF Jobless
      <3>2. JobGroup
        BY <2>1, <2>5, <3>1, JobGroupBorn
      <3>3. term = cmd.job
        BY <1>1, <2>1, <2>5, <3>2
      <3>4. QED
        BY <2>2, <2>4, <3>2, <3>3
    <2>6. Launching' => Launching
      BY <2>1 DEF Launching
    <2>7. /\ ~cmd.foreground \/ pc \in {"restore"} \cup AtHome => term' = Shell
          /\ term' \in {Shell, cmd.job}
      BY <1>1, <1>2, <2>1, <2>2, <2>4 DEF AtHome
    <2>8. QED
      BY <2>1, <2>3, <2>5, <2>6, <2>7
  <1>4. CASE Leave
    <2>1. UNCHANGED <<cmd, term>> /\ pc' \in {"tell", "regain"} /\ (pc = "notify" \/ pc' = "regain")
          /\ pc \in {"notify", "wait"}
      BY <1>4, LeaveDone DEF AfterWait
    <2>2. pc = "wait" => cmd.foreground
      BY DEF CmdInv
    <2>3. QED
      BY <1>1, <2>1, <2>2 DEF Launching, AtHome
  <1>5. CASE InitShell
    <2>1. pc = "init" /\ pc' = "notify" /\ UNCHANGED <<cmd, term>> /\ term = Shell
      BY <1>5 DEF InitShell, terminal
    <2>2. QED
      BY <2>1 DEF Launching, AtHome
  <1>6. CASE UpdateStatusEnds \/ Notify
    <2>1. pc \in AtHome /\ pc' \in {"tell", "read"} /\ UNCHANGED <<cmd, term>>
      BY <1>6 DEF UpdateStatusEnds, Notify, AtHome, terminal
    <2>2. QED
      BY <1>1, <2>1 DEF Launching, AtHome
  <1>7. CASE Fork
    <2>1. /\ pc = "fork" /\ pc' = "setpgid" /\ cmd' = cmd /\ term' = term
      BY <1>7, ForkMoves
    <2>2. ASSUME Launching, NEW p \in Procs, p[1] = cmd.job, InForce(p)' PROVE term = cmd.job
      <3>1. ~ChildTcsetpgrp(p)
        BY <2>1 DEF ChildTcsetpgrp, shell
      <3>2. QED
        BY <1>1, <2>1, <2>2, <3>1, ForceStays
    <2>3. QED
      BY <1>1, <2>1, <2>2 DEF Launching, AtHome
  <1>8. CASE ParentSetpgid
    <2>1. /\ pc = "setpgid" /\ term' = term /\ cmd'.job = cmd.job /\ cmd'.foreground = cmd.foreground
          /\ cmd'.cont = cmd.cont /\ cmd'.k = cmd.k + 1 /\ cmd.k \in Nat
          /\ pc' = "fork" \/ pc' = IF cmd.foreground THEN "give" ELSE "notify"
      BY <1>8, ParentMoves, Types DEF ShellType
    <2>2. ASSUME Launching, NEW p \in Procs, p[1] = cmd.job, InForce(p)' PROVE term = cmd.job
      <3>1. ~ChildTcsetpgrp(p)
        <4>1. cmd' # cmd
          BY <2>1
        <4>2. QED
          BY <4>1 DEF ChildTcsetpgrp, shell
      <3>2. QED
        BY <1>1, <2>1, <2>2, <3>1, ForceStays
    <2>3. QED
      BY <1>1, <2>1, <2>2 DEF Launching, AtHome
  <1>9. CASE GiveTerminal
    <2>1. /\ pc = "give" /\ UNCHANGED <<cmd, proc>> /\ Tcsetpgrp(pgid[cmd.job])
          /\ pc' \in {"setmodes", "wait"} /\ cmd.foreground
      BY <1>9 DEF GiveTerminal, CmdInv
    <2>2. pgid[cmd.job] = cmd.job
      BY <2>1, JobIsThere DEF Jobless
    <2>3. JobGroup' = JobGroup
      BY <2>1 DEF JobGroup, GroupExists, Child, Alive
    <2>4. QED
      BY <1>1, <2>1, <2>2, <2>3 DEF Tcsetpgrp, JobGroup, Launching, AtHome
  <1>10. CASE SetJobModes
    <2>1. /\ pc = "setmodes" /\ UNCHANGED <<cmd, proc, term>> /\ pc' = "continue" /\ cmd.foreground
      BY <1>10 DEF SetJobModes, CmdInv
    <2>2. JobGroup' = JobGroup
      BY <2>1 DEF JobGroup, GroupExists, Child, Alive
    <2>3. QED
      BY <1>1, <2>1, <2>2 DEF Launching, AtHome
  <1>11. CASE SendContinue
    <2>1. /\ pc = "continue" /\ UNCHANGED <<cmd, term>>
          /\ pc' = IF cmd.foreground THEN "wait" ELSE "notify"
      BY <1>11, Continuing
    <2>2. cmd.job \in Jobs
      BY <2>1, JobIsThere DEF Jobless
    <2>3. JobGroup' => JobGroup
      BY <2>1, <2>2, JobGroupBorn
    <2>4. QED
      BY <1>1, <2>1, <2>3 DEF Launching, AtHome
  <1>12. CASE RegainTerminal
    <2>1. UNCHANGED cmd /\ pc' = "restore" /\ term' = Shell
      BY <1>12 DEF RegainTerminal, Tcsetpgrp, GroupExists
    <2>2. QED
      BY <2>1 DEF Launching, AtHome
  <1>13. CASE RestoreModes
    <2>1. pc = "restore" /\ UNCHANGED <<cmd, term>> /\ pc' = "notify"
      BY <1>13 DEF RestoreModes
    <2>2. QED
      BY <1>1, <2>1 DEF Launching, AtHome
  <1>14. ASSUME NEW j \in Jobs, NEW fg \in BOOLEAN, Launch(j, fg) PROVE TermInv'
    <2>1. /\ pc = "read" /\ pc' = "fork" /\ UNCHANGED <<proc, term>> /\ cmd'.job = j
          /\ proc[<<j, 1>>].state = "none"
      BY <1>14 DEF Launch, terminal
    <2>2. ASSUME NEW p \in ProcsOf(cmd'.job) PROVE ~InForce(p)'
      <3>1. p \in Procs /\ p[1] = j
        BY <2>1 DEF ProcsOf
      <3>2. proc[p].state = "none"
        BY <2>1, <3>1 DEF LaunchInv, LeaderFirst, leader
      <3>3. QED
        BY <2>1, <3>2 DEF InForce
    <2>3. term = Shell
      BY <1>1, <2>1 DEF AtHome
    <2>4. QED
      BY <2>1, <2>2, <2>3 DEF TermInv, AtHome, ProcsOf
  <1>15. ASSUME NEW j \in Jobs, NEW fg \in BOOLEAN, ContinueJob(j, fg) PROVE TermInv'
    <2>1. /\ pc = "read" /\ pc' = (IF fg THEN "give" ELSE "continue") /\ term' = term
          /\ cmd'.cont = TRUE /\ cmd'.foreground = fg
      BY <1>15 DEF ContinueJob, terminal
    <2>2. term = Shell
      BY <1>1, <2>1 DEF AtHome
    <2>3. QED
      BY <2>1, <2>2 DEF TermInv, Launching, AtHome
  <1>16. ~(InitFails \/ Quit \/ ForkFails)
    BY DEF InitFails, Quit, ForkFails
  <1>17. (\E j \in Jobs, fg \in BOOLEAN : Launch(j, fg) \/ ContinueJob(j, fg)) => TermInv'
    BY <1>14, <1>15
  <1>18. TermInv' => /\ ~cmd'.foreground \/ pc' \in {"restore"} \cup AtHome => term' = Shell
                     /\ term' \in {Shell, cmd'.job}
                     /\ Launching' => \A p \in Procs :
                          p[1] = cmd'.job /\ InForce(p)' => term' = cmd'.job
                     /\ pc' \in {"setmodes", "continue", "wait"} /\ cmd'.foreground =>
                          (JobGroup' => term' = cmd'.job)
    BY InteractiveSame DEF TermInv, ProcsOf, AtHome
  <1>19. QED
    BY <1>3, <1>4, <1>5, <1>6, <1>7, <1>8, <1>9, <1>10, <1>11, <1>12, <1>13, <1>16, <1>17, <1>18, Control

\* A process that is not in the group of its job never gets there.
LEMMA StraysGrow ==
  ASSUME TypeOK, CmdInv, LaunchInv, GroupInv, [Next]_vars
  PROVE  Strays \subseteq Strays'
  <1> SUFFICES ASSUME NEW p \in Procs, interactive, proc[p].state \notin {"none", "forked"},
                      proc[p].group = Shell
               PROVE  proc'[p].state \notin {"none", "forked"} /\ proc'[p].group = Shell
    BY InteractiveSame DEF Strays
  <1>1. proc'[p].state \notin {"none", "forked"}
    <2>1. Moved(p)
      BY Moves
    <2>2. ~Forked(p)
      BY Zenon DEF Forked
    <2>3. ~Joined(p) \/ proc'[p].state \in {proc[p].state, "grouped"}
      <3>1. pgid[p[1]] \in Jobs \cup {Shell}
        BY Types, ProcFacts DEF GroupsType, Shell
      <3>2. QED
        BY <3>1, SetpgidEffect DEF Joined, Process
    <2>4. proc'[p].state # "none"
      BY <2>1, MovedFields
    <2>5. ~(Took(p) \/ Ran(p) \/ Stopped(p) \/ Continued(p) \/ Collected(p)) \/ proc'[p].state # "forked"
      <3>1. proc[p] \in Process
        BY Types DEF ProcType
      <3>2. Took(p) \/ Ran(p) \/ Stopped(p) => proc'[p].state # "forked"
        BY <3>1 DEF Took, Ran, Stopped, EndedState, Process
      <3>3. Continued(p) => proc'[p].state # "forked"
        BY <3>1 DEF Continued, Process
      <3>4. Collected(p) => proc'[p].state # "forked"
        BY <3>1 DEF Collected, Process
      <3>5. QED
        BY <3>2, <3>3, <3>4
    <2>6. QED
      BY <2>1, <2>2, <2>3, <2>4, <2>5 DEF Moved
  <1>2. proc'[p].group = Shell
    <2>1. Settled(p)
      BY DEF Settled, Pending
    <2>2. p[1] # Shell
      BY ProcFacts DEF Shell
    <2>3. p # leader(p) /\ ~GroupExists(p[1])
      BY <2>1, <2>2 DEF GroupInv, Closed
    <2>4. QED
      BY <2>3, GroupSteps
  <1>3. QED
    BY <1>1, <1>2

LEMMA ModesSteps ==
  ASSUME [Next]_vars
  PROVE  \/ UNCHANGED <<modes, tmodes>>
         \/ SetJobModes \/ RestoreModes \/ \E p \in Procs : ChangeModes(p)
  <1>1. Waits \/ Fork \/ ParentSetpgid \/ SendContinue \/ UNCHANGED vars => UNCHANGED <<modes, tmodes>>
    BY Continuing DEF Waits, UpdateStatus, WaitForJob, Fork, ParentSetpgid, vars, terminal, records
  <1>2. Alone => UNCHANGED <<modes, tmodes>> \/ SetJobModes \/ RestoreModes
    BY DEF Alone, BroughtToForeground, InitShell, InitFails, UpdateStatusEnds, Notify, WaitNoChild,
        Quit, ForkFails, GiveTerminal, RegainTerminal, Launch, ContinueJob, terminal, records
  <1>3. Children => UNCHANGED <<modes, tmodes>> \/ \E p \in Procs : ChangeModes(p)
    <2>1. ASSUME NEW g, StopGroup(g) PROVE UNCHANGED <<modes, tmodes>>
      <3>1. UNCHANGED <<terminal, records>>
        BY <2>1, Zenon DEF StopGroup
      <3>2. QED
        BY <3>1 DEF terminal, records
    <2>2. QED
      BY <2>1 DEF Children, ChildSetpgid, ChildTcsetpgrp, Execvp, ExecvpFails, Exit, terminal, records
  <1>4. QED
    BY <1>1, <1>2, <1>3, Cases

LEMMA ModesNext ==
  ASSUME IInv, [Next]_vars
  PROVE  ModesInv'
  <1> USE DEF IInv
  <1> SUFFICES ASSUME interactive, pc' # "exited", Strays' = {}
               PROVE  /\ ~cmd'.foreground \/ pc' \in AtHome => modes' = Shell
                      /\ modes' \in {Shell, cmd'.job} \/ (cmd'.cont /\ modes' = Outside)
                      /\ \A j \in Jobs : tmodes'[j] \in {Shell, j, Outside}
    BY InteractiveSame DEF ModesInv, AtHome
  <1>1. /\ ~cmd.foreground \/ pc \in AtHome => modes = Shell
        /\ modes \in {Shell, cmd.job} \/ (cmd.cont /\ modes = Outside)
        /\ \A j \in Jobs : tmodes[j] \in {Shell, j, Outside}
        /\ Strays = {} /\ pc # "exited"
    <2>1. Strays = {} /\ pc # "exited"
      BY StraysGrow, LaunchSteps
    <2>2. QED
      BY <2>1 DEF ModesInv
  <1>2. tmodes \in [Jobs -> Jobs \cup {Shell, Outside}]
    BY Types DEF TermType
  <1>3. ASSUME NEW p \in Procs, ChangeModes(p)
        PROVE  cmd.foreground /\ pc \notin AtHome /\ modes' = cmd.job /\ tmodes' = tmodes /\ UNCHANGED <<pc, cmd>>
    <2>1. proc[p].state = "running" /\ proc[p].group = term /\ modes' = p[1] /\ tmodes' = tmodes
          /\ UNCHANGED <<pc, cmd>>
      BY <1>3 DEF ChangeModes, records, shell
    <2>2. p[1] # Shell
      BY ProcFacts DEF Shell
    <2>3. term = p[1] /\ term # Shell
      BY <1>1, <2>1, <2>2 DEF GroupInv, Strays
    <2>4. pc # "init"
      BY <2>1 DEF CmdInv, LaunchInv, Known
    <2>5. QED
      BY <1>1, <2>1, <2>3, <2>4 DEF TermInv
  <1>4. CASE SetJobModes
    <2>1. cmd.job \in Jobs /\ pc = "setmodes" /\ cmd.foreground /\ cmd.cont
      <3>1. pc = "setmodes"
        BY <1>4 DEF SetJobModes
      <3>2. QED
        BY <3>1, JobIsThere DEF Jobless, CmdInv
    <2>2. modes' = tmodes[cmd.job] /\ UNCHANGED <<cmd, tmodes>> /\ pc' = "continue"
      BY <1>4 DEF SetJobModes, records
    <2>3. QED
      BY <1>1, <2>1, <2>2 DEF AtHome
  <1>5. CASE RestoreModes
    <2>1. /\ tmodes' = [tmodes EXCEPT ![cmd.job] = modes] /\ modes' = Shell /\ cmd' = cmd
      BY <1>5 DEF RestoreModes
    <2>2. QED
      BY <1>1, <1>2, <2>1
  <1>6. CASE UNCHANGED <<modes, tmodes>>
    <2>2. CASE Stay
      BY <1>1, <1>6, <2>2 DEF Stay
    <2>3. CASE Leave
      BY <1>1, <1>6, <2>3, LeaveDone DEF AfterWait, AtHome
    <2>4. CASE InitShell \/ UpdateStatusEnds \/ Notify \/ GiveTerminal \/ RegainTerminal
      <3>1. cmd' = cmd /\ (pc' \in AtHome => pc \in AtHome \cup {"init"})
        BY <2>4 DEF InitShell, UpdateStatusEnds, Notify, GiveTerminal, RegainTerminal, AtHome
      <3>2. pc = "init" => ~cmd.foreground
        BY DEF CmdInv
      <3>3. QED
        BY <1>1, <1>6, <3>1, <3>2
    <2>5. CASE Fork
      <3>1. cmd' = cmd /\ pc' = "setpgid"
        BY <2>5, ForkMoves
      <3>2. QED
        BY <1>1, <1>6, <3>1 DEF AtHome
    <2>6. CASE ParentSetpgid
      <3>1. /\ cmd'.job = cmd.job /\ cmd'.foreground = cmd.foreground /\ cmd'.cont = cmd.cont
            /\ pc' = "fork" \/ pc' = IF cmd.foreground THEN "give" ELSE "notify"
        BY <2>6, ParentMoves
      <3>2. QED
        BY <1>1, <1>6, <3>1 DEF AtHome
    <2>7. CASE SendContinue
      <3>1. cmd' = cmd /\ pc' = IF cmd.foreground THEN "wait" ELSE "notify"
        BY <2>7, Continuing
      <3>2. QED
        BY <1>1, <1>6, <3>1 DEF AtHome
    <2>8. CASE \E j \in Jobs, fg \in BOOLEAN : Launch(j, fg) \/ ContinueJob(j, fg)
      <3>1. pc = "read"
        BY <2>8 DEF Launch, ContinueJob
      <3>2. modes = Shell
        BY <1>1, <3>1 DEF AtHome
      <3>3. QED
        BY <1>1, <1>6, <3>2
    <2>9. ~(InitFails \/ Quit \/ ForkFails)
      BY DEF InitFails, Quit, ForkFails
    <2>10. CASE SetJobModes \/ RestoreModes
      BY <1>4, <1>5, <2>10
    <2>11. QED
      BY <2>2, <2>3, <2>4, <2>5, <2>6, <2>7, <2>8, <2>9, <2>10, Control
  <1>7. CASE \E p \in Procs : ChangeModes(p)
    BY <1>1, <1>3, <1>7
  <1>8. QED
    BY <1>4, <1>5, <1>6, <1>7, ModesSteps
-----------------------------------------------------------------------------
(* Theorems                                                                *)

LEMMA Initially == Init => IInv
  <1> SUFFICES ASSUME Init PROVE IInv
    OBVIOUS
  <1>1. /\ pc = "init" /\ cmd.job = 0 /\ ~cmd.foreground /\ ~cmd.cont /\ active = {} /\ modes = Shell
        /\ cmd = [job |-> 0, k |-> 0, foreground |-> FALSE, cont |-> FALSE]
        /\ tmodes = [j \in Jobs |-> Outside] /\ term \in {Shell, Outside} /\ interactive \in BOOLEAN
        /\ pgid = [j \in Jobs |-> 0] /\ notified = [j \in Jobs |-> FALSE] /\ commands = 0
    BY DEF Init
  <1>2. \A p \in Procs : /\ proc[p].state = "none" /\ proc[p].group = Shell
                         /\ ~proc[p].unreported /\ ~rec[p].completed /\ ~rec[p].stopped
    BY DEF Init
  <1>3. TypeOK
    <2>1. proc \in [Procs -> Process]
      BY DEF Init, Process, States
    <2>2. RecordsType
      BY <1>1 DEF Init, RecordsType
    <2>3. 0 \in 0..MaxCommands
      BY MaxCommandsAssumption
    <2>4. cmd \in [job : Jobs \cup {0}, k : Nat, foreground : BOOLEAN, cont : BOOLEAN]
      BY <1>1
    <2>5. ShellType
      BY <1>1, <2>3, <2>4 DEF ShellType
    <2>6. GroupsType /\ TermType
      BY <1>1 DEF GroupsType, TermType
    <2>7. QED
      BY <1>2, <2>1, <2>2, <2>5, <2>6, Types DEF ProcType
  <1>4. CmdInv
    BY <1>1 DEF CmdInv, Jobless
  <1>5. LaunchInv
    BY <1>1, <1>2 DEF LaunchInv, LeaderFirst, AllThere, ForkedUpTo, Known
  <1>6. GroupInv
    BY <1>2 DEF GroupInv, Settled
  <1>7. ForegroundInv
    BY <1>1, <1>2 DEF ForegroundInv, Launching
  <1>8. DoneInv /\ TermInv
    BY <1>1 DEF DoneInv, TermInv, AtHome
  <1>9. ModesInv
    BY <1>1 DEF ModesInv, AtHome
  <1>10. RecordInv
    BY <1>1, <1>2 DEF RecordInv, RecordsTrue
  <1>11. QED
    BY <1>3, <1>4, <1>5, <1>6, <1>7, <1>8, <1>9, <1>10 DEF IInv

LEMMA Inductive == IInv /\ [Next]_vars => IInv'
  <1> SUFFICES ASSUME IInv, [Next]_vars PROVE IInv'
    OBVIOUS
  <1>1. TypeOK /\ CmdInv /\ LaunchInv /\ GroupInv /\ ForegroundInv /\ DoneInv /\ RecordInv
    BY DEF IInv
  <1>2. RecordsTrue
    BY <1>1 DEF RecordInv
  <1>3. TypeOK' /\ CmdInv' /\ LaunchInv' /\ GroupInv'
    BY <1>1, <1>2, TypeNext, CmdNext, LaunchNext, GroupNext
  <1>4. ForegroundInv' /\ DoneInv' /\ RecordInv'
    BY <1>1, ForegroundNext, DoneNext, RecordNext
  <1>5. TermInv' /\ ModesInv'
    BY TermNext, ModesNext
  <1>6. QED
    BY <1>3, <1>4, <1>5 DEF IInv

LEMMA Invariance == Spec => []IInv
  BY Initially, Inductive, PTL DEF Spec

\* The shell and the processes of its jobs have the fields and values TypeOK gives
\* them; SIGCHLD ignored, an interactive shell has no zombies (example_shell.c 60-65).
THEOREM TypeCorrect == Spec => []TypeOK
  <1>1. IInv => TypeOK
    BY DEF IInv
  <1>2. QED
    BY <1>1, Invariance, PTL

\* What mark_process_status and mark_job_as_running leave in the records is true of
\* the processes, whatever they have done since (example_shell.c 192-229, 345-356).
THEOREM RecordsAreTrue == Spec => []RecordsTrue
  <1>1. IInv => RecordsTrue
    BY DEF IInv, RecordInv
  <1>2. QED
    BY <1>1, Invariance, PTL

\* The invariant puts the terminal, its modes and the groups where they belong.
LEMMA TerminalFacts == IInv => TerminalAndGroups
  <1> SUFFICES ASSUME IInv PROVE TerminalAndGroups
    OBVIOUS
  <1> USE DEF IInv
  <1>1. ASSUME pc = "read" PROVE AtPrompt
    <2>1. cmd.foreground \/ ~interactive =>
             \A p \in ProcsOf(cmd.job) : Over(p) \/ proc[p].state = "stopped"
      BY <1>1 DEF DoneInv, AtHome
    <2>2. interactive => term = Shell /\ (modes = Shell \/ Strays # {})
      BY <1>1 DEF TermInv, ModesInv, AtHome
    <2>3. QED
      BY <2>1, <2>2 DEF AtPrompt
  <1>2. ASSUME interactive, NEW p \in Procs, proc[p].state \in {"running", "stopped"}
        PROVE  InItsGroup(p)
    <2>1. Settled(p)
      BY <1>2 DEF Settled, Pending
    <2>2. proc[p].group = p[1] \/ (proc[p].group = Shell /\ Closed(p[1]))
      BY <1>2, <2>1 DEF GroupInv
    <2>3. QED
      BY <1>2, <2>2 DEF InItsGroup, Strays, Closed, Over
  <1>3. ASSUME interactive, Launching \/ pc = "wait" PROVE JobHasTerminal
    <2>1. pc \notin {"init", "exited"}
      BY <1>3 DEF Launching
    <2>2. ASSUME NEW p \in ProcsOf(cmd.job), proc[p].state = "running", p \notin Strays
          PROVE  term = cmd.job
      <3>1. p \in Procs /\ p[1] = cmd.job
        BY DEF ProcsOf
      <3>2. proc[p].group = p[1]
        BY <1>3, <2>2, <3>1 DEF Strays, GroupInv
      <3>3. CASE Launching
        BY <1>3, <2>1, <2>2, <3>2, <3>3 DEF TermInv, InForce
      <3>4. CASE pc = "wait"
        <4>1. JobGroup
          BY <2>2, <3>1, <3>2 DEF JobGroup, GroupExists, Child, Alive
        <4>2. cmd.foreground
          BY <1>3, <3>4 DEF CmdInv
        <4>3. QED
          BY <1>3, <3>4, <4>1, <4>2 DEF TermInv
      <3>5. QED
        BY <1>3, <3>3, <3>4
    <2>3. modes \in {Shell, cmd.job} \/ (cmd.cont /\ modes = Outside) \/ Strays # {}
      BY <1>3, <2>1 DEF ModesInv
    <2>4. QED
      BY <2>2, <2>3 DEF JobHasTerminal
  <1>4. QED
    BY <1>1, <1>2, <1>3 DEF TerminalAndGroups

\* The terminal and its modes are the shell's at the prompt and the job's while it is
\* launched or waited for in the foreground, and each program runs in the group of
\* its job, in whatever order shell and children call setpgid and tcsetpgrp
\* (example_shell.c 98-131, 144-156, 266-312).
THEOREM TerminalIsRight == Spec => []TerminalAndGroups
  BY Invariance, TerminalFacts, PTL
=============================================================================
