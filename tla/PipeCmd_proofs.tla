--------------------------- MODULE PipeCmd_proofs ---------------------------
(***************************************************************************)
(* Proofs about module PipeCmd, for every number of lines, every amount of *)
(* data, every size of the kernel's buffer and every number of stops.      *)
(*                                                                         *)
(* The invariant has three parts besides the types.  ShellInv says which   *)
(* child the shell may be waiting for.  FdsInv says that what a process    *)
(* has open is a function of its place in the program text, whatever the   *)
(* other processes do.  FlowInv follows from it: the reader can only see   *)
(* the end of the pipe when the writer has no descriptor left, and no      *)
(* writer that has none ever writes again.                                 *)
(***************************************************************************)
EXTENDS PipeCmd, TLAPS

\* The shell waits for the reader of the current line and for no other, and a
\* stop it has not collected is one of a process that is alive.
ShellInv ==
    /\ \A l \in Lines : l # line => pc[l]["reader"] \in {"none", "reaped"}
    /\ \A l \in Lines : l > line => pc[l]["reader"] = "none"
    /\ \A l \in Lines : report[l] => Alive(l, "reader")
    /\ shell # "prompt" => line \in Lines
    /\ shell = "prompt" => \A l \in Lines : pc[l]["reader"] \in {"none", "reaped"}
    /\ shell = "waitpid" => pc[line]["reader"] \notin {"none", "reaped"}
    /\ shell = "test" => \/ status \in Over /\ pc[line]["reader"] = "reaped"
                         \/ status = "stopped" /\ pc[line]["reader"] \notin {"none", "reaped"}

BothEnds == [InheritedFds EXCEPT !["read_fd"] = "pipe_out", !["write_fd"] = "pipe_in"]
UsedEnd(r) == [BothEnds EXCEPT ![Unused(r)] = "closed"]
Duplicated(r) == [UsedEnd(r) EXCEPT ![Standard(r)] = BothEnds[Used(r)]]
Plugged(r) == [Duplicated(r) EXCEPT ![Used(r)] = "closed"]

\* What process r has open when it is about to do the step label.
FdsAt(r, label) ==
    CASE label = "pipe" -> InheritedFds
      [] label \in {"fork", "close"} -> BothEnds
      [] label = "dup2" -> UsedEnd(r)
      [] label = "close2" -> Duplicated(r)
      [] label \in {"execvp", "running"} -> Plugged(r)
      [] OTHER -> NoFds

FdsInv == \A l \in Lines, r \in Roles : fds[l][r] = FdsAt(r, pc[l][r])

\* The writer is forked by a reader that has the pipe; nothing of a line happens
\* before the line.
FlowInv ==
    /\ \A l \in Lines : pc[l]["writer"] \notin {"pipe", "fork", "reaped"}
    /\ \A l \in Lines : pc[l]["reader"] \in {"close", "dup2", "close2", "execvp", "running"}
                            => pc[l]["writer"] # "none"
    /\ \A l \in Lines : pc[l]["reader"] \in {"none", "pipe", "fork"} => ~eof[l]
    /\ \A l \in Lines : eof[l] => pc[l]["writer"] \in Over /\ got[l] = sent[l]

\* The types, variable by variable.
ShellType == /\ shell \in {"prompt", "waitpid", "test"}
             /\ line \in 0..NumPipes
             /\ status \in {"unset", "stopped"} \cup Over
             /\ stops \in 0..MaxStops
PcType == pc \in [Lines -> [Roles -> PC]]
FdsType == fds \in [Lines -> [Roles -> [Fd -> File]]]
FlagsType == /\ stopped \in [Lines -> [Roles -> BOOLEAN]]
             /\ report \in [Lines -> BOOLEAN]
             /\ eof \in [Lines -> BOOLEAN]
FlowType == /\ sent \in [Lines -> 0..Produce]
            /\ got \in [Lines -> Nat]
            /\ \A l \in Lines : sent[l] - got[l] \in 0..Capacity

\* The inductive invariant.
IInv == TypeOK /\ ShellInv /\ FdsInv /\ FlowInv

-----------------------------------------------------------------------------

\* An action by which process r of line l ends, whatever the cause.
Ends(l, r) == Alive(l, r) /\ \E how \in Over : Terminate(l, r, how)

\* The steps of the shell, of the processes and of the world outside.
LEMMA Cases ==
  ASSUME Next
  PROVE  \/ ExecPipe \/ ExecPipeNoFork \/ WaitPidEnd \/ WaitPidStop \/ LoopTest
         \/ \E l \in Lines : Pipe(l) \/ Fork(l) \/ Write(l) \/ Read(l) \/ ReadEof(l)
         \/ \E l \in Lines, r \in Roles :
                \/ CloseUnused(l, r) \/ Dup2(l, r) \/ CloseUsed(l, r) \/ Execvp(l, r)
                \/ Stop(l, r) \/ Continue(l, r) \/ Ends(l, r)
         \/ UNCHANGED vars
  <1>1. ASSUME NEW l \in Lines,
               PipeFails(l) \/ ForkFails(l) \/ WriteBroken(l) \/ WriterEnds(l) \/ ReaderEnds(l)
        PROVE  \E r \in Roles : Ends(l, r)
    BY <1>1 DEF PipeFails, ForkFails, WriteBroken, WriterEnds, ReaderEnds, Ends, Over,
                Roles, At, CanRun
  <1>2. ASSUME NEW l \in Lines, NEW r \in Roles,
               ExecvpFails(l, r) \/ EndsEarly(l, r) \/ Kill(l, r)
        PROVE  Ends(l, r)
    BY <1>2 DEF ExecvpFails, EndsEarly, Kill, Ends, Over, At, CanRun
  <1>3. QED
    BY <1>1, <1>2 DEF Next, Shell, RunPipeCmd, Programs, AllQuiet

\* The shell's own variables keep their types.
LEMMA NextShellType ==
  ASSUME TypeOK, ShellInv, [Next]_vars
  PROVE  ShellType'
  <1>1. ASSUME ExecPipe PROVE ShellType'
    BY <1>1, PipeAssumption DEF ExecPipe, sigVars, ShellType, TypeOK, ShellInv, Lines,
                                Over
  <1>2. ASSUME ExecPipeNoFork PROVE ShellType'
    BY <1>2, PipeAssumption DEF ExecPipeNoFork, procVars, ShellType, TypeOK, ShellInv,
                                Lines, Over
  <1>3. ASSUME WaitPidEnd PROVE ShellType'
    BY <1>3, PipeAssumption DEF WaitPidEnd, sigVars, ShellType, TypeOK, ShellInv, Lines,
                                Over
  <1>4. ASSUME WaitPidStop PROVE ShellType'
    BY <1>4, PipeAssumption DEF WaitPidStop, ShellType, TypeOK, ShellInv, Lines, Over
  <1>5. ASSUME LoopTest PROVE ShellType'
    BY <1>5, PipeAssumption DEF LoopTest, procVars, ShellType, TypeOK, ShellInv, Lines,
                                Over
  <1>6. ASSUME NEW l \in Lines, NEW r \in Roles, Stop(l, r) PROVE ShellType'
    BY <1>6, PipeAssumption DEF Stop, CanRun, Alive, ShellType, TypeOK, ShellInv, Lines,
                                Over
  <1>7. ASSUME \/ \E l \in Lines : Pipe(l) \/ Fork(l) \/ Write(l) \/ Read(l) \/ ReadEof(l)
               \/ \E l \in Lines, r \in Roles :
                      \/ CloseUnused(l, r) \/ Dup2(l, r) \/ CloseUsed(l, r)
                      \/ Execvp(l, r) \/ Continue(l, r) \/ Ends(l, r)
               \/ UNCHANGED vars
        PROVE  ShellType'
    <2>1. UNCHANGED <<shell, line, status, stops>>
      BY <1>7 DEF Pipe, Fork, Write, Read, ReadEof, CloseUnused, Dup2, CloseUsed,
                  Execvp, Continue, Ends, Terminate, vars, sigVars
    <2>2. QED
      BY <2>1 DEF ShellType, TypeOK
  <1>8. QED
    BY <1>1, <1>2, <1>3, <1>4, <1>5, <1>6, <1>7, Cases, ZenonT(60)

\* Every process stays in the program text.
LEMMA NextPcType ==
  ASSUME TypeOK, ShellInv, [Next]_vars
  PROVE  PcType'
  <1>1. ASSUME ExecPipe PROVE PcType'
    BY <1>1, PipeAssumption DEF ExecPipe, PcType, TypeOK, ShellInv, Lines, Roles, PC,
                                Setup, Over
  <1>2. ASSUME WaitPidEnd PROVE PcType'
    BY <1>2, PipeAssumption DEF WaitPidEnd, PcType, TypeOK, ShellInv, Lines, Roles, PC,
                                Setup, Over
  <1>3. ASSUME NEW l \in Lines, Pipe(l) PROVE PcType'
    BY <1>3, PipeAssumption DEF Pipe, At, CanRun, Alive, GoTo, PcType, TypeOK, ShellInv,
                                Lines, Roles, PC, Setup, Over
  <1>4. ASSUME NEW l \in Lines, Fork(l) PROVE PcType'
    BY <1>4, PipeAssumption DEF Fork, At, CanRun, Alive, PcType, TypeOK, ShellInv,
                                Lines, Roles, PC, Setup, Over
  <1>5. ASSUME NEW l \in Lines, NEW r \in Roles, CloseUnused(l, r) PROVE PcType'
    BY <1>5, PipeAssumption DEF CloseUnused, At, CanRun, Alive, GoTo, PcType, TypeOK,
                                ShellInv, Lines, Roles, PC, Setup, Over
  <1>6. ASSUME NEW l \in Lines, NEW r \in Roles, Dup2(l, r) PROVE PcType'
    BY <1>6, PipeAssumption DEF Dup2, At, CanRun, Alive, GoTo, PcType, TypeOK, ShellInv,
                                Lines, Roles, PC, Setup, Over
  <1>7. ASSUME NEW l \in Lines, NEW r \in Roles, CloseUsed(l, r) PROVE PcType'
    BY <1>7, PipeAssumption DEF CloseUsed, At, CanRun, Alive, GoTo, PcType, TypeOK,
                                ShellInv, Lines, Roles, PC, Setup, Over
  <1>8. ASSUME NEW l \in Lines, NEW r \in Roles, Execvp(l, r) PROVE PcType'
    BY <1>8, PipeAssumption DEF Execvp, At, CanRun, Alive, GoTo, PcType, TypeOK,
                                ShellInv, Lines, Roles, PC, Setup, Over
  <1>9. ASSUME NEW l \in Lines, NEW r \in Roles, Ends(l, r) PROVE PcType'
    <2>1. PICK how \in Over : Alive(l, r) /\ Terminate(l, r, how)
      BY <1>9 DEF Ends
    <2>2. QED
      BY <2>1 DEF Terminate, GoTo, PcType, TypeOK, PC, Setup, Over
  <1>10. ASSUME \/ ExecPipeNoFork \/ WaitPidStop \/ LoopTest
               \/ \E l \in Lines : Write(l) \/ Read(l) \/ ReadEof(l)
               \/ \E k \in Lines, r \in Roles : Stop(k, r) \/ Continue(k, r)
               \/ UNCHANGED vars
        PROVE  PcType'
    <2>1. UNCHANGED pc
      BY <1>10 DEF ExecPipeNoFork, WaitPidStop, LoopTest, Write, Read, ReadEof, Stop,
                   Continue, vars, procVars
    <2>2. QED
      BY <2>1 DEF PcType, TypeOK
  <1>11. QED
    <2>1. CASE ExecPipe \/ ExecPipeNoFork \/ WaitPidEnd \/ WaitPidStop \/ LoopTest
      BY <2>1, <1>1, <1>2, <1>3, <1>4, <1>5, <1>6, <1>7, <1>8, <1>9, <1>10
    <2>2. ASSUME NEW l \in Lines, Pipe(l) \/ Fork(l) \/ Write(l) \/ Read(l) \/ ReadEof(l)
          PROVE  PcType'
      BY <2>2, <1>1, <1>2, <1>3, <1>4, <1>5, <1>6, <1>7, <1>8, <1>9, <1>10
    <2>3. ASSUME NEW l \in Lines, NEW r \in Roles,
                 \/ CloseUnused(l, r) \/ Dup2(l, r) \/ CloseUsed(l, r) \/ Execvp(l, r)
                 \/ Stop(l, r) \/ Continue(l, r) \/ Ends(l, r)
          PROVE  PcType'
      BY <2>3, <1>1, <1>2, <1>3, <1>4, <1>5, <1>6, <1>7, <1>8, <1>9, <1>10
    <2>4. CASE UNCHANGED vars
      BY <2>4 DEF vars, PcType, TypeOK
    <2>5. QED
      BY <2>1, <2>2, <2>3, <2>4, Cases

\* Descriptors refer to the files of the model.
LEMMA NextFdsType ==
  ASSUME TypeOK, ShellInv, [Next]_vars
  PROVE  FdsType'
  <1>1. ASSUME ExecPipe PROVE FdsType'
    BY <1>1, PipeAssumption DEF ExecPipe, FdsType, TypeOK, ShellInv, Lines, Roles, Fd,
                                File, InheritedFds, NoFds, Unused, Used, Standard
  <1>2. ASSUME NEW l \in Lines, Pipe(l) PROVE FdsType'
    <2>1. fds' = [fds EXCEPT ![l]["reader"] =
                        [fds[l]["reader"] EXCEPT !["read_fd"] = "pipe_out",
                                                 !["write_fd"] = "pipe_in"]]
      BY <1>2 DEF Pipe
    <2>2. /\ fds[l]["reader"] \in [Fd -> File]
          /\ {"pipe_in", "pipe_out"} \subseteq File
      BY DEF TypeOK, Roles, File
    <2>3. [fds[l]["reader"] EXCEPT !["read_fd"] = "pipe_out",
                                   !["write_fd"] = "pipe_in"] \in [Fd -> File]
      BY <2>2
    <2>4. QED
      BY <2>1, <2>3 DEF FdsType, TypeOK, Roles
  <1>3. ASSUME NEW l \in Lines, Fork(l) PROVE FdsType'
    BY <1>3, PipeAssumption DEF Fork, At, CanRun, Alive, FdsType, TypeOK, ShellInv,
                                Lines, Roles, Fd, File, InheritedFds, NoFds, Unused,
                                Used, Standard
  <1>4. ASSUME NEW l \in Lines, NEW r \in Roles, CloseUnused(l, r) PROVE FdsType'
    <2>1. fds' = [fds EXCEPT ![l][r][Unused(r)] = "closed"]
      BY <1>4 DEF CloseUnused
    <2>2. QED
      BY <2>1 DEF FdsType, TypeOK, Fd, File, Unused
  <1>5. ASSUME NEW l \in Lines, NEW r \in Roles, Dup2(l, r) PROVE FdsType'
    BY <1>5, PipeAssumption DEF Dup2, At, CanRun, Alive, GoTo, FdsType, TypeOK,
                                ShellInv, Lines, Roles, Fd, File, InheritedFds, NoFds,
                                Unused, Used, Standard
  <1>6. ASSUME NEW l \in Lines, NEW r \in Roles, CloseUsed(l, r) PROVE FdsType'
    <2>1. fds' = [fds EXCEPT ![l][r][Used(r)] = "closed"]
      BY <1>6 DEF CloseUsed
    <2>2. QED
      BY <2>1 DEF FdsType, TypeOK, Fd, File, Used
  <1>7. ASSUME NEW l \in Lines, NEW r \in Roles, Ends(l, r) PROVE FdsType'
    <2>1. PICK how \in Over : Alive(l, r) /\ Terminate(l, r, how)
      BY <1>7 DEF Ends
    <2>2. QED
      BY <2>1 DEF Terminate, GoTo, FdsType, TypeOK, NoFds, Fd, File
  <1>8. ASSUME \/ ExecPipeNoFork \/ WaitPidEnd \/ WaitPidStop \/ LoopTest
               \/ \E l \in Lines : Write(l) \/ Read(l) \/ ReadEof(l)
               \/ \E l \in Lines, r \in Roles :
                      \/ Execvp(l, r) \/ Stop(l, r) \/ Continue(l, r)
               \/ UNCHANGED vars
        PROVE  FdsType'
    <2>1. UNCHANGED fds
      BY <1>8 DEF ExecPipeNoFork, WaitPidEnd, WaitPidStop, LoopTest, Write, Read,
                  ReadEof, Execvp, Stop, Continue, vars, procVars
    <2>2. QED
      BY <2>1 DEF FdsType, TypeOK
  <1>9. QED
    BY <1>1, <1>2, <1>3, <1>4, <1>5, <1>6, <1>7, <1>8, Cases, ZenonT(60)

\* The Boolean variables stay Boolean.
LEMMA NextFlagsType ==
  ASSUME TypeOK, ShellInv, [Next]_vars
  PROVE  FlagsType'
  <1>1. ASSUME WaitPidStop PROVE FlagsType'
    BY <1>1, PipeAssumption DEF WaitPidStop, flowVars, FlagsType, TypeOK, ShellInv,
                                Lines, Roles
  <1>2. ASSUME NEW l \in Lines, ReadEof(l) PROVE FlagsType'
    BY <1>2, PipeAssumption DEF ReadEof, At, sigVars, FlagsType, TypeOK, ShellInv,
                                Lines, Roles
  <1>3. ASSUME NEW l \in Lines, NEW r \in Roles, Stop(l, r) PROVE FlagsType'
    BY <1>3, PipeAssumption DEF Stop, CanRun, Alive, flowVars, FlagsType, TypeOK,
                                ShellInv, Lines, Roles
  <1>4. ASSUME NEW l \in Lines, NEW r \in Roles, Continue(l, r) PROVE FlagsType'
    BY <1>4, PipeAssumption DEF Continue, Alive, flowVars, FlagsType, TypeOK, ShellInv,
                                Lines, Roles
  <1>5. ASSUME NEW l \in Lines, NEW r \in Roles, Ends(l, r) PROVE FlagsType'
    <2>1. /\ stopped' = [stopped EXCEPT ![l][r] = FALSE]
          /\ report' = report \/ report' = [report EXCEPT ![l] = FALSE]
          /\ UNCHANGED eof
      BY <1>5 DEF Ends, Terminate, flowVars
    <2>2. QED
      BY <2>1 DEF FlagsType, TypeOK
  <1>6. ASSUME \/ ExecPipe \/ ExecPipeNoFork \/ WaitPidEnd \/ LoopTest
               \/ \E l \in Lines : Pipe(l) \/ Fork(l) \/ Write(l) \/ Read(l)
               \/ \E l \in Lines, r \in Roles :
                      \/ CloseUnused(l, r) \/ Dup2(l, r) \/ CloseUsed(l, r)
                      \/ Execvp(l, r)
               \/ UNCHANGED vars
        PROVE  FlagsType'
    <2>1. UNCHANGED <<stopped, report, eof>>
      BY <1>6 DEF ExecPipe, ExecPipeNoFork, WaitPidEnd, LoopTest, Pipe, Fork, Write,
                  Read, CloseUnused, Dup2, CloseUsed, Execvp, vars, flowVars, sigVars,
                  procVars
    <2>2. QED
      BY <2>1 DEF FlagsType, TypeOK
  <1>7. QED
    BY <1>1, <1>2, <1>3, <1>4, <1>5, <1>6, Cases, ZenonT(60)

\* The pipe holds no more than the kernel's buffer.
LEMMA NextFlowType ==
  ASSUME TypeOK, [Next]_vars
  PROVE  FlowType'
  <1>1. ASSUME NEW l \in Lines, Write(l) PROVE FlowType'
    <2>1. /\ sent[l] < Produce /\ sent[l] - got[l] < Capacity
          /\ sent' = [sent EXCEPT ![l] = @ + 1] /\ UNCHANGED got
      BY <1>1 DEF Write
    <2>2. /\ sent \in [Lines -> 0..Produce] /\ got \in [Lines -> Nat]
          /\ \A k \in Lines : sent[k] - got[k] \in 0..Capacity
      BY DEF TypeOK
    <2>3. sent[l] + 1 \in 0..Produce /\ (sent[l] + 1) - got[l] \in 0..Capacity
      BY <2>1, <2>2, PipeAssumption
    <2>4. QED
      BY <2>1, <2>2, <2>3 DEF FlowType
  <1>2. ASSUME NEW l \in Lines, Read(l) PROVE FlowType'
    <2>1. /\ got[l] < sent[l]
          /\ got' = [got EXCEPT ![l] = @ + 1] /\ UNCHANGED sent
      BY <1>2 DEF Read
    <2>2. /\ sent \in [Lines -> 0..Produce] /\ got \in [Lines -> Nat]
          /\ \A k \in Lines : sent[k] - got[k] \in 0..Capacity
      BY DEF TypeOK
    <2>3. got[l] + 1 \in Nat /\ sent[l] - (got[l] + 1) \in 0..Capacity
      BY <2>1, <2>2, PipeAssumption
    <2>4. QED
      BY <2>1, <2>2, <2>3 DEF FlowType
  <1>3. ASSUME \/ ExecPipe \/ ExecPipeNoFork \/ WaitPidEnd \/ WaitPidStop
               \/ LoopTest
               \/ \E l \in Lines : Pipe(l) \/ Fork(l) \/ ReadEof(l)
               \/ \E l \in Lines, r \in Roles :
                      \/ CloseUnused(l, r) \/ Dup2(l, r) \/ CloseUsed(l, r)
                      \/ Execvp(l, r) \/ Stop(l, r) \/ Continue(l, r) \/ Ends(l, r)
               \/ UNCHANGED vars
        PROVE  FlowType'
    <2>1. UNCHANGED <<sent, got>>
      BY <1>3 DEF ExecPipe, ExecPipeNoFork, WaitPidEnd, WaitPidStop, LoopTest, Pipe,
                  Fork, ReadEof, CloseUnused, Dup2, CloseUsed, Execvp, Stop, Continue,
                  Ends, Terminate, vars, flowVars, procVars
    <2>2. QED
      BY <2>1 DEF FlowType, TypeOK
  <1>4. QED
    BY <1>1, <1>2, <1>3, Cases, ZenonT(60)

\* Every step keeps the types.
LEMMA NextTypeOK ==
  ASSUME TypeOK, ShellInv, [Next]_vars
  PROVE  TypeOK'
  <1>1. ShellType' /\ PcType' /\ FdsType' /\ FlagsType' /\ FlowType'
    BY NextShellType, NextPcType, NextFdsType, NextFlagsType, NextFlowType
  <1>2. QED
    BY <1>1 DEF TypeOK, ShellType, PcType, FdsType, FlagsType, FlowType

\* Every step keeps what the shell knows about its child.
LEMMA NextShellInv ==
  ASSUME TypeOK, ShellInv, [Next]_vars
  PROVE  ShellInv'
  <1>1. ASSUME ExecPipe PROVE ShellInv'
    BY <1>1, PipeAssumption, SMTT(30) DEF ExecPipe, sigVars, TypeOK, ShellInv, Alive,
       Lines, Roles, PC, Setup, Over
  <1>2. ASSUME ExecPipeNoFork PROVE ShellInv'
    BY <1>2, PipeAssumption, SMTT(30) DEF ExecPipeNoFork, procVars, TypeOK, ShellInv,
       Alive, Lines, Roles, PC, Setup, Over
  <1>3. ASSUME WaitPidEnd PROVE ShellInv'
    BY <1>3, PipeAssumption, SMTT(30) DEF WaitPidEnd, sigVars, TypeOK, ShellInv, Alive,
       Lines, Roles, PC, Setup, Over
  <1>4. ASSUME WaitPidStop PROVE ShellInv'
    BY <1>4, PipeAssumption, SMTT(30) DEF WaitPidStop, TypeOK, ShellInv, Alive, Lines,
       Roles, PC, Setup, Over
  <1>5. ASSUME LoopTest PROVE ShellInv'
    BY <1>5, PipeAssumption, SMTT(30) DEF LoopTest, procVars, TypeOK, ShellInv, Alive,
       Lines, Roles, PC, Setup, Over
  <1>6. ASSUME NEW l \in Lines, Pipe(l) PROVE ShellInv'
    BY <1>6, PipeAssumption, SMTT(30) DEF Pipe, At, CanRun, Alive, GoTo, sigVars,
       TypeOK, ShellInv, Lines, Roles, PC, Setup, Over
  <1>7. ASSUME NEW l \in Lines, Fork(l) PROVE ShellInv'
    BY <1>7, PipeAssumption, SMTT(30) DEF Fork, At, CanRun, Alive, sigVars, TypeOK,
       ShellInv, Lines, Roles, PC, Setup, Over
  <1>8. ASSUME NEW l \in Lines, NEW r \in Roles, CloseUnused(l, r) PROVE ShellInv'
    BY <1>8, PipeAssumption, SMTT(30) DEF CloseUnused, At, CanRun, Alive, GoTo, sigVars,
       TypeOK, ShellInv, Lines, Roles, PC, Setup, Over
  <1>9. ASSUME NEW l \in Lines, NEW r \in Roles, Dup2(l, r) PROVE ShellInv'
    BY <1>9, PipeAssumption, SMTT(30) DEF Dup2, At, CanRun, Alive, GoTo, sigVars,
       TypeOK, ShellInv, Lines, Roles, PC, Setup, Over
  <1>10. ASSUME NEW l \in Lines, NEW r \in Roles, CloseUsed(l, r) PROVE ShellInv'
    BY <1>10, PipeAssumption, SMTT(30) DEF CloseUsed, At, CanRun, Alive, GoTo, sigVars,
       TypeOK, ShellInv, Lines, Roles, PC, Setup, Over
  <1>11. ASSUME NEW l \in Lines, NEW r \in Roles, Execvp(l, r) PROVE ShellInv'
    BY <1>11, PipeAssumption, SMTT(30) DEF Execvp, At, CanRun, Alive, GoTo, sigVars,
       TypeOK, ShellInv, Lines, Roles, PC, Setup, Over
  <1>12. ASSUME NEW l \in Lines, NEW r \in Roles, Stop(l, r) PROVE ShellInv'
    BY <1>12, PipeAssumption, SMTT(30) DEF Stop, CanRun, Alive, TypeOK, ShellInv, Lines,
       Roles, PC, Setup, Over
  <1>13. ASSUME NEW l \in Lines, NEW r \in Roles, Continue(l, r) PROVE ShellInv'
    BY <1>13, PipeAssumption, SMTT(30) DEF Continue, Alive, TypeOK, ShellInv, Lines,
       Roles, PC, Setup, Over
  <1>14. ASSUME NEW l \in Lines, NEW r \in Roles, Ends(l, r) PROVE ShellInv'
    <2>1. PICK how \in Over : Alive(l, r) /\ Terminate(l, r, how)
      BY <1>14 DEF Ends
    <2>2. /\ pc' = [pc EXCEPT ![l][r] = how]
          /\ report' = IF r = "reader" THEN [report EXCEPT ![l] = FALSE] ELSE report
          /\ UNCHANGED <<shell, line, status>>
      BY <2>1 DEF Terminate, GoTo
    <2>3. pc[l][r] \notin {"none", "reaped"} \cup Over
      BY <2>1 DEF Alive, Setup, Over
    <2>4. QED
      BY <2>1, <2>2, <2>3, SMTT(60) DEF TypeOK, ShellInv, Alive, Lines, Roles, PC,
                                        Setup, Over
  <1>15. ASSUME \/ \E l \in Lines : Write(l) \/ Read(l) \/ ReadEof(l)
               \/ UNCHANGED vars
        PROVE  ShellInv'
    <2>1. UNCHANGED <<shell, line, status, pc, report>>
      BY <1>15 DEF Write, Read, ReadEof, vars, sigVars
    <2>2. QED
      BY <2>1 DEF ShellInv, Alive
  <1>16. QED
    <2>1. CASE ExecPipe \/ ExecPipeNoFork \/ WaitPidEnd \/ WaitPidStop \/ LoopTest
      BY <2>1, <1>1, <1>2, <1>3, <1>4, <1>5, <1>6, <1>7, <1>8, <1>9, <1>10, <1>11,
         <1>12, <1>13, <1>14, <1>15
    <2>2. ASSUME NEW l \in Lines, Pipe(l) \/ Fork(l) \/ Write(l) \/ Read(l) \/ ReadEof(l)
          PROVE  ShellInv'
      BY <2>2, <1>1, <1>2, <1>3, <1>4, <1>5, <1>6, <1>7, <1>8, <1>9, <1>10, <1>11,
         <1>12, <1>13, <1>14, <1>15
    <2>3. ASSUME NEW l \in Lines, NEW r \in Roles,
                 \/ CloseUnused(l, r) \/ Dup2(l, r) \/ CloseUsed(l, r) \/ Execvp(l, r)
                 \/ Stop(l, r) \/ Continue(l, r) \/ Ends(l, r)
          PROVE  ShellInv'
      BY <2>3, <1>1, <1>2, <1>3, <1>4, <1>5, <1>6, <1>7, <1>8, <1>9, <1>10, <1>11,
         <1>12, <1>13, <1>14, <1>15
    <2>4. CASE UNCHANGED vars
      BY <2>4 DEF vars, ShellInv, Alive
    <2>5. QED
      BY <2>1, <2>2, <2>3, <2>4, Cases

-----------------------------------------------------------------------------

\* The value of FdsAt for each place.
LEMMA FdsAtLabel ==
  /\ FdsAt("reader", "pipe") = InheritedFds
  /\ \A r \in Roles :
        /\ FdsAt(r, "fork") = BothEnds /\ FdsAt(r, "close") = BothEnds
        /\ FdsAt(r, "dup2") = UsedEnd(r)
        /\ FdsAt(r, "close2") = Duplicated(r)
        /\ FdsAt(r, "execvp") = Plugged(r) /\ FdsAt(r, "running") = Plugged(r)
        /\ \A label \in {"none", "reaped"} \cup Over : FdsAt(r, label) = NoFds
  BY DEF FdsAt, Over

\* A step of one process that leaves it with the descriptors of its new place.
LEMMA OneProcess ==
  ASSUME TypeOK, FdsInv, NEW l \in Lines, NEW r \in Roles, NEW label,
         pc' = [pc EXCEPT ![l][r] = label],
         \/ UNCHANGED fds /\ FdsAt(r, label) = FdsAt(r, pc[l][r])
         \/ fds' = [fds EXCEPT ![l][r] = FdsAt(r, label)]
  PROVE  FdsInv'
  BY DEF FdsInv, TypeOK

\* Every step leaves a process with the descriptors of its place.
LEMMA NextFdsInv ==
  ASSUME TypeOK, ShellInv, FdsInv, [Next]_vars
  PROVE  FdsInv'
  <1>1. ASSUME ExecPipe PROVE FdsInv'
    <2>1. line + 1 \in Lines
      BY <1>1, PipeAssumption DEF ExecPipe, TypeOK, Lines
    <2>2. /\ pc' = [pc EXCEPT ![line + 1]["reader"] = "pipe"]
          /\ fds' = [fds EXCEPT ![line + 1]["reader"] = FdsAt("reader", "pipe")]
      BY <1>1, FdsAtLabel DEF ExecPipe
    <2>3. QED
      BY <2>1, <2>2, OneProcess DEF Roles
  <1>2. ASSUME WaitPidEnd PROVE FdsInv'
    <2>1. /\ line \in Lines /\ pc[line]["reader"] \in Over
          /\ pc' = [pc EXCEPT ![line]["reader"] = "reaped"] /\ UNCHANGED fds
      BY <1>2 DEF WaitPidEnd, ShellInv
    <2>2. FdsAt("reader", "reaped") = FdsAt("reader", pc[line]["reader"])
      BY <2>1, FdsAtLabel DEF Roles
    <2>3. QED
      BY <2>1, <2>2, OneProcess DEF Roles
  <1>3. ASSUME NEW l \in Lines, Pipe(l) PROVE FdsInv'
    <2>1. pc' = [pc EXCEPT ![l]["reader"] = "fork"] /\ pc[l]["reader"] = "pipe"
      BY <1>3 DEF Pipe, At, GoTo
    <2>2. fds[l]["reader"] = InheritedFds
      BY <2>1, FdsAtLabel DEF FdsInv, Roles
    <2>3. fds' = [fds EXCEPT ![l]["reader"] =
                        [fds[l]["reader"] EXCEPT !["read_fd"] = "pipe_out",
                                                 !["write_fd"] = "pipe_in"]]
      BY <1>3 DEF Pipe
    <2>4. fds' = [fds EXCEPT ![l]["reader"] = BothEnds]
      BY <2>2, <2>3 DEF BothEnds
    <2>5. QED
      BY <2>1, <2>4, FdsAtLabel, OneProcess DEF Roles
  <1>4. ASSUME NEW l \in Lines, Fork(l) PROVE FdsInv'
    <2>1. /\ pc[l]["reader"] = "fork"
          /\ pc' = [pc EXCEPT ![l] = [r \in Roles |-> "close"]]
          /\ fds' = [fds EXCEPT ![l]["writer"] = fds[l]["reader"]]
      BY <1>4 DEF Fork, At
    <2>2. fds[l]["reader"] = BothEnds
      BY <2>1, FdsAtLabel DEF FdsInv, Roles
    <2>3. \A r \in Roles : fds'[l][r] = BothEnds /\ pc'[l][r] = "close"
      BY <2>1, <2>2 DEF TypeOK, Roles
    <2>4. \A k \in Lines \ {l} : fds'[k] = fds[k] /\ pc'[k] = pc[k]
      BY <2>1 DEF TypeOK
    <2>5. QED
      BY <2>3, <2>4, FdsAtLabel DEF FdsInv
  <1>5. ASSUME NEW l \in Lines, NEW r \in Roles, CloseUnused(l, r) PROVE FdsInv'
    <2>1. pc' = [pc EXCEPT ![l][r] = "dup2"] /\ pc[l][r] = "close"
      BY <1>5 DEF CloseUnused, At, GoTo
    <2>2. fds[l][r] = BothEnds
      BY <2>1, FdsAtLabel DEF FdsInv
    <2>3. fds' = [fds EXCEPT ![l][r] = UsedEnd(r)]
      BY <1>5, <2>2 DEF CloseUnused, UsedEnd, TypeOK
    <2>4. QED
      BY <2>1, <2>3, FdsAtLabel, OneProcess
  <1>6. ASSUME NEW l \in Lines, NEW r \in Roles, Dup2(l, r) PROVE FdsInv'
    <2>1. pc' = [pc EXCEPT ![l][r] = "close2"] /\ pc[l][r] = "dup2"
      BY <1>6 DEF Dup2, At, GoTo
    <2>2. fds[l][r] = UsedEnd(r)
      BY <2>1, FdsAtLabel DEF FdsInv
    <2>3. fds' = [fds EXCEPT ![l][r] = Duplicated(r)]
      BY <1>6, <2>2 DEF Dup2, Duplicated, UsedEnd, TypeOK, BothEnds, Used, Unused,
                        Roles, InheritedFds, Fd
    <2>4. QED
      BY <2>1, <2>3, FdsAtLabel, OneProcess
  <1>7. ASSUME NEW l \in Lines, NEW r \in Roles, CloseUsed(l, r) PROVE FdsInv'
    <2>1. pc' = [pc EXCEPT ![l][r] = "execvp"] /\ pc[l][r] = "close2"
      BY <1>7 DEF CloseUsed, At, GoTo
    <2>2. fds[l][r] = Duplicated(r)
      BY <2>1, FdsAtLabel DEF FdsInv
    <2>3. fds' = [fds EXCEPT ![l][r] = Plugged(r)]
      BY <1>7, <2>2 DEF CloseUsed, Plugged, TypeOK
    <2>4. QED
      BY <2>1, <2>3, FdsAtLabel, OneProcess
  <1>8. ASSUME NEW l \in Lines, NEW r \in Roles, Execvp(l, r) PROVE FdsInv'
    <2>1. /\ pc' = [pc EXCEPT ![l][r] = "running"] /\ pc[l][r] = "execvp"
          /\ UNCHANGED fds
      BY <1>8 DEF Execvp, At, GoTo
    <2>2. QED
      BY <2>1, FdsAtLabel, OneProcess
  <1>9. ASSUME NEW l \in Lines, NEW r \in Roles, Ends(l, r) PROVE FdsInv'
    <2>1. PICK how \in Over : /\ pc' = [pc EXCEPT ![l][r] = how]
                              /\ fds' = [fds EXCEPT ![l][r] = NoFds]
      BY <1>9 DEF Ends, Terminate, GoTo
    <2>2. QED
      BY <2>1, FdsAtLabel, OneProcess
  <1>10. ASSUME \/ ExecPipeNoFork \/ WaitPidStop \/ LoopTest
               \/ \E l \in Lines : Write(l) \/ Read(l) \/ ReadEof(l)
               \/ \E k \in Lines, r \in Roles : Stop(k, r) \/ Continue(k, r)
               \/ UNCHANGED vars
        PROVE  FdsInv'
    <2>1. UNCHANGED <<pc, fds>>
      BY <1>10 DEF ExecPipeNoFork, WaitPidStop, LoopTest, Write, Read, ReadEof, Stop,
                   Continue, vars, procVars
    <2>2. QED
      BY <2>1 DEF FdsInv
  <1>11. QED
    <2>1. CASE ExecPipe \/ ExecPipeNoFork \/ WaitPidEnd \/ WaitPidStop \/ LoopTest
      BY <2>1, <1>1, <1>2, <1>3, <1>4, <1>5, <1>6, <1>7, <1>8, <1>9, <1>10
    <2>2. ASSUME NEW l \in Lines, Pipe(l) \/ Fork(l) \/ Write(l) \/ Read(l) \/ ReadEof(l)
          PROVE  FdsInv'
      BY <2>2, <1>1, <1>2, <1>3, <1>4, <1>5, <1>6, <1>7, <1>8, <1>9, <1>10
    <2>3. ASSUME NEW l \in Lines, NEW r \in Roles,
                 \/ CloseUnused(l, r) \/ Dup2(l, r) \/ CloseUsed(l, r) \/ Execvp(l, r)
                 \/ Stop(l, r) \/ Continue(l, r) \/ Ends(l, r)
          PROVE  FdsInv'
      BY <2>3, <1>1, <1>2, <1>3, <1>4, <1>5, <1>6, <1>7, <1>8, <1>9, <1>10
    <2>4. CASE UNCHANGED vars
      BY <2>4 DEF vars, FdsInv
    <2>5. QED
      BY <2>1, <2>2, <2>3, <2>4, Cases

-----------------------------------------------------------------------------

\* As long as the writer can still write, it holds an end of the pipe to write to.
LEMMA WriterHoldsPipe ==
  ASSUME FdsInv, NEW l \in Lines,
         pc[l]["writer"] \in {"close", "dup2", "close2", "execvp", "running"}
  PROVE  \E d \in Fd : fds[l]["writer"][d] = "pipe_in"
  <1>1. fds[l]["writer"] \in {BothEnds, UsedEnd("writer"), Duplicated("writer"), Plugged("writer")}
    BY FdsAtLabel DEF FdsInv, Roles
  <1>2. /\ BothEnds["write_fd"] = "pipe_in"
        /\ UsedEnd("writer")["write_fd"] = "pipe_in"
        /\ Duplicated("writer")["stdout"] = "pipe_in"
        /\ Plugged("writer")["stdout"] = "pipe_in"
    BY DEF BothEnds, UsedEnd, Duplicated, Plugged, InheritedFds, Fd, Unused, Used,
           Standard
  <1>3. QED
    BY <1>1, <1>2 DEF Fd

\* Every step keeps the relation of end of file and writer.
LEMMA NextFlowInv ==
  ASSUME TypeOK, ShellInv, FdsInv, FlowInv, [Next]_vars
  PROVE  FlowInv'
  <1>1. ASSUME ExecPipe PROVE FlowInv'
    BY <1>1, PipeAssumption, SMTT(30) DEF ExecPipe, flowVars, TypeOK, ShellInv, FlowInv,
       Lines, Roles, PC, Setup, Over
  <1>2. ASSUME WaitPidEnd PROVE FlowInv'
    BY <1>2, PipeAssumption, SMTT(30) DEF WaitPidEnd, flowVars, TypeOK, ShellInv,
       FlowInv, Lines, Roles, PC, Setup, Over
  <1>3. ASSUME NEW l \in Lines, Pipe(l) PROVE FlowInv'
    BY <1>3, PipeAssumption, SMTT(30) DEF Pipe, At, CanRun, Alive, GoTo, flowVars,
       TypeOK, ShellInv, FlowInv, Lines, Roles, PC, Setup, Over
  <1>4. ASSUME NEW l \in Lines, Fork(l) PROVE FlowInv'
    BY <1>4, PipeAssumption, SMTT(30) DEF Fork, At, CanRun, Alive, flowVars, TypeOK,
       ShellInv, FlowInv, Lines, Roles, PC, Setup, Over
  <1>5. ASSUME NEW l \in Lines, Write(l) PROVE FlowInv'
    BY <1>5, PipeAssumption, SMTT(30) DEF Write, At, TypeOK, ShellInv, FlowInv, Lines,
       Roles, PC, Setup, Over
  <1>6. ASSUME NEW l \in Lines, Read(l) PROVE FlowInv'
    BY <1>6, PipeAssumption, SMTT(30) DEF Read, At, TypeOK, ShellInv, FlowInv, Lines,
       Roles, PC, Setup, Over
  <1>7. ASSUME NEW l \in Lines, ReadEof(l) PROVE FlowInv'
    <2>1. /\ pc[l]["reader"] = "running" /\ ~Holds(l, "pipe_in")
          /\ got[l] = sent[l]
          /\ eof' = [eof EXCEPT ![l] = TRUE] /\ UNCHANGED <<pc, got, sent>>
      BY <1>7 DEF ReadEof, At
    <2>2. \A d \in Fd : fds[l]["writer"][d] # "pipe_in"
      BY <2>1 DEF Holds, Roles
    <2>3. pc[l]["writer"] \in {"close", "dup2", "close2", "execvp", "running"}
             => \E d \in Fd : fds[l]["writer"][d] = "pipe_in"
      BY WriterHoldsPipe
    <2>4. pc[l]["writer"] \in Over
      BY <2>1, <2>2, <2>3 DEF TypeOK, FlowInv, Roles, PC, Setup, Over
    <2>5. QED
      BY <2>1, <2>4 DEF TypeOK, FlowInv, Lines, Roles, PC, Setup, Over
  <1>8. ASSUME NEW l \in Lines, NEW r \in Roles, CloseUnused(l, r) PROVE FlowInv'
    BY <1>8, PipeAssumption, SMTT(30) DEF CloseUnused, At, CanRun, Alive, GoTo,
       flowVars, TypeOK, ShellInv, FlowInv, Lines, Roles, PC, Setup, Over
  <1>9. ASSUME NEW l \in Lines, NEW r \in Roles, Dup2(l, r) PROVE FlowInv'
    BY <1>9, PipeAssumption, SMTT(30) DEF Dup2, At, CanRun, Alive, GoTo, flowVars,
       TypeOK, ShellInv, FlowInv, Lines, Roles, PC, Setup, Over
  <1>10. ASSUME NEW l \in Lines, NEW r \in Roles, CloseUsed(l, r) PROVE FlowInv'
    BY <1>10, PipeAssumption, SMTT(30) DEF CloseUsed, At, CanRun, Alive, GoTo, flowVars,
       TypeOK, ShellInv, FlowInv, Lines, Roles, PC, Setup, Over
  <1>11. ASSUME NEW l \in Lines, NEW r \in Roles, Execvp(l, r) PROVE FlowInv'
    <2>1. /\ pc[l][r] = "execvp" /\ pc' = [pc EXCEPT ![l][r] = "running"]
          /\ UNCHANGED <<eof, got, sent>>
      BY <1>11 DEF Execvp, At, GoTo, flowVars
    <2>2. QED
      BY <2>1, SMTT(60) DEF TypeOK, FlowInv, Lines, Roles, PC, Setup, Over
  <1>12. ASSUME NEW l \in Lines, NEW r \in Roles, Ends(l, r) PROVE FlowInv'
    BY <1>12, PipeAssumption, SMTT(30) DEF Ends, Alive, Terminate, GoTo, flowVars,
       TypeOK, ShellInv, FlowInv, Lines, Roles, PC, Setup, Over
  <1>13. ASSUME \/ ExecPipeNoFork \/ WaitPidStop \/ LoopTest
               \/ \E k \in Lines, r \in Roles : Stop(k, r) \/ Continue(k, r)
               \/ UNCHANGED vars
        PROVE  FlowInv'
    <2>1. UNCHANGED <<pc, sent, got, eof>>
      BY <1>13 DEF ExecPipeNoFork, WaitPidStop, LoopTest, Stop, Continue, vars,
                   flowVars, procVars
    <2>2. QED
      BY <2>1 DEF FlowInv
  <1>14. QED
    <2>1. CASE ExecPipe \/ ExecPipeNoFork \/ WaitPidEnd \/ WaitPidStop \/ LoopTest
      BY <2>1, <1>1, <1>2, <1>3, <1>4, <1>5, <1>6, <1>7, <1>8, <1>9, <1>10, <1>11,
         <1>12, <1>13
    <2>2. ASSUME NEW l \in Lines, Pipe(l) \/ Fork(l) \/ Write(l) \/ Read(l) \/ ReadEof(l)
          PROVE  FlowInv'
      BY <2>2, <1>1, <1>2, <1>3, <1>4, <1>5, <1>6, <1>7, <1>8, <1>9, <1>10, <1>11,
         <1>12, <1>13
    <2>3. ASSUME NEW l \in Lines, NEW r \in Roles,
                 \/ CloseUnused(l, r) \/ Dup2(l, r) \/ CloseUsed(l, r) \/ Execvp(l, r)
                 \/ Stop(l, r) \/ Continue(l, r) \/ Ends(l, r)
          PROVE  FlowInv'
      BY <2>3, <1>1, <1>2, <1>3, <1>4, <1>5, <1>6, <1>7, <1>8, <1>9, <1>10, <1>11,
         <1>12, <1>13
    <2>4. CASE UNCHANGED vars
      BY <2>4 DEF vars, FlowInv
    <2>5. QED
      BY <2>1, <2>2, <2>3, <2>4, Cases

-----------------------------------------------------------------------------

\* The invariant holds at the start.
LEMMA InitIInv == Init => IInv
  <1> SUFFICES ASSUME Init PROVE IInv
    OBVIOUS
  <1>1. ShellType /\ PcType /\ FdsType
    BY PipeAssumption DEF Init, ShellType, PcType, FdsType, PC, Fd, File, NoFds
  <1>2. FlagsType
    BY DEF Init, FlagsType
  <1>3. FlowType
    BY PipeAssumption DEF Init, FlowType
  <1>4. ShellInv
    BY DEF Init, ShellInv, Roles
  <1>5. FdsInv
    BY FdsAtLabel DEF Init, FdsInv
  <1>6. FlowInv
    BY DEF Init, FlowInv, Roles
  <1>7. QED
    BY <1>1, <1>2, <1>3, <1>4, <1>5, <1>6
    DEF IInv, TypeOK, ShellType, PcType, FdsType, FlagsType, FlowType

\* ... and in every state that is reached.
LEMMA Invariance == Spec => []IInv
  <1>1. IInv /\ [Next]_vars => IInv'
    BY NextTypeOK, NextShellInv, NextFdsInv, NextFlowInv DEF IInv
  <1>2. QED
    BY InitIInv, <1>1, PTL DEF Spec

-----------------------------------------------------------------------------

\* Type correctness of execPipe and runPipeCmd with the pipe between their children.
THEOREM TypeCorrect == Spec => []TypeOK
  <1>1. IInv => TypeOK
    BY DEF IInv
  <1>2. QED
    BY <1>1, Invariance, PTL

\* However children stop, continue and die, the shell prompts only when the last
\* command of every line is over and reaped.
THEOREM Prompt == Spec => []PromptAfterLastCommand
  <1>1. IInv => PromptAfterLastCommand
    BY DEF IInv, ShellInv, PromptAfterLastCommand
  <1>2. QED
    BY <1>1, Invariance, PTL

\* execPipe never calls waitpid for a child that is not there.
THEOREM NoEchild == Spec => []WaitsForOwnChild
  <1>1. IInv => WaitsForOwnChild
    BY DEF IInv, ShellInv, WaitsForOwnChild
  <1>2. QED
    BY <1>1, Invariance, PTL

\* Both commands start with the pipe on their own side and nothing else open.
THEOREM PlumbedAlways == Spec => []Plumbed
  <1>1. ASSUME IInv, NEW l \in Lines, NEW r \in Roles, pc[l][r] = "running"
        PROVE  fds[l][r] = [InheritedFds EXCEPT
                   ![Standard(r)] = IF r = "writer" THEN "pipe_in" ELSE "pipe_out"]
    <2>1. fds[l][r] = Plugged(r)
      BY <1>1, FdsAtLabel DEF IInv, FdsInv
    <2>2. Plugged(r) = [InheritedFds EXCEPT
              ![Standard(r)] = IF r = "writer" THEN "pipe_in" ELSE "pipe_out"]
      BY DEF Plugged, Duplicated, UsedEnd, BothEnds, InheritedFds, Standard, Used,
             Unused,
             Roles, Fd
    <2>3. QED
      BY <2>1, <2>2
  <1>2. IInv => Plumbed
    BY <1>1 DEF Plumbed
  <1>3. QED
    BY <1>2, Invariance, PTL

\* The second command sees the end of its input only after the first command is
\* over and everything it wrote was read.
THEOREM EofIsTheEnd == Spec => []EofMeansAllDelivered
  <1>1. IInv => EofMeansAllDelivered
    BY DEF IInv, FlowInv, EofMeansAllDelivered
  <1>2. QED
    BY <1>1, Invariance, PTL

-----------------------------------------------------------------------------
(* The refinement of Foreground                                            *)

Command == IF shell = "prompt" THEN "none"
           ELSE IF pc[line]["reader"] \in Over \cup {"reaped"} THEN "over"
           ELSE "running"

\* A step of a process, not of the shell, ends the current command or nothing.
LEMMA ProcessStep ==
  ASSUME IInv, UNCHANGED <<shell, line>>,
         NEW l \in Lines, NEW r \in Roles,
         \/ UNCHANGED pc
         \/ \E label \in Setup \cup Over \cup {"running"} :
                Alive(l, r) /\ pc' = [pc EXCEPT ![l][r] = label]
  PROVE  Fg!Finish \/ UNCHANGED Fg!fgVars
  <1>1. CASE UNCHANGED pc \/ shell = "prompt"
    BY <1>1 DEF Fg!fgVars
  <1>2. ASSUME NEW label \in Setup \cup Over \cup {"running"}, shell # "prompt",
               Alive(l, r), pc' = [pc EXCEPT ![l][r] = label]
        PROVE  Fg!Finish \/ UNCHANGED Fg!fgVars
    <2>1. line \in Lines
      BY <1>2 DEF IInv, ShellInv
    <2>2. CASE l = line /\ r = "reader"
      <3>1. pc[line]["reader"] \notin Over \cup {"reaped"} /\ pc'[line]["reader"] = label
        BY <1>2, <2>1, <2>2 DEF Alive, IInv, TypeOK, Setup, Over
      <3>2. Command = "running" /\ Command' = IF label \in Over THEN "over" ELSE "running"
        BY <1>2, <3>1 DEF Command, Setup, Over
      <3>3. QED
        BY <1>2, <3>2 DEF Fg!Finish, Fg!fgVars, Command
    <2>3. CASE ~(l = line /\ r = "reader")
      <3>1. pc'[line]["reader"] = pc[line]["reader"]
        BY <1>2, <2>1, <2>3 DEF IInv, TypeOK, Roles
      <3>2. QED
        BY <3>1 DEF Fg!fgVars
    <2>4. QED
      BY <2>2, <2>3
  <1>3. QED
    BY <1>1, <1>2

\* execPipe keeps the safety part of the promise of Foreground: one command at a
\* time, and back at the prompt only when it is over.
THEOREM Refinement == Spec => Fg!Safety
  <1>1. Init => Fg!Init
    BY DEF Init, Fg!Init
  <1>2. IInv /\ [Next]_vars => [Fg!Next]_(Fg!fgVars)
    <2> SUFFICES ASSUME IInv, [Next]_vars
                 PROVE  Fg!Next \/ UNCHANGED Fg!fgVars
      OBVIOUS
    <2>1. CASE ExecPipe
      <3>1. line + 1 \in Lines
        BY <2>1, PipeAssumption DEF ExecPipe, IInv, TypeOK, Lines
      <3>2. /\ shell = "prompt" /\ shell' = "waitpid" /\ line' = line + 1
            /\ pc'[line + 1]["reader"] = "pipe"
        BY <2>1, <3>1 DEF ExecPipe, IInv, TypeOK, Roles
      <3>3. QED
        BY <3>2 DEF Fg!Next, Fg!Launch, Over
    <2>2. CASE ExecPipeNoFork
      BY <2>2 DEF ExecPipeNoFork, Fg!fgVars
    <2>3. CASE WaitPidEnd
      <3>1. line \in Lines /\ pc[line]["reader"] \in Over /\ shell = "waitpid"
            /\ shell' = "test" /\ line' = line
            /\ pc'[line]["reader"] = "reaped"
        BY <2>3 DEF WaitPidEnd, IInv, ShellInv, TypeOK, Roles
      <3>2. QED
        BY <3>1 DEF Fg!fgVars
    <2>4. CASE WaitPidStop
      BY <2>4 DEF WaitPidStop, Fg!fgVars
    <2>5. CASE LoopTest
      <3>1. CASE status \in Over
        BY <2>5, <3>1 DEF LoopTest, procVars, IInv, ShellInv, Over, Fg!Next, Fg!Return
      <3>2. CASE status \notin Over
        BY <2>5, <3>2 DEF LoopTest, procVars, Fg!fgVars
      <3>3. QED
        BY <3>1, <3>2
    <2>6. ASSUME NEW l \in Lines, Pipe(l) \/ Write(l) \/ Read(l) \/ ReadEof(l)
          PROVE  Fg!Next \/ UNCHANGED Fg!fgVars
      <3>1. /\ UNCHANGED <<shell, line>>
            /\ \/ UNCHANGED pc
               \/ Alive(l, "reader") /\ pc' = [pc EXCEPT ![l]["reader"] = "fork"]
        BY <2>6 DEF Pipe, Write, Read, ReadEof, At, CanRun, GoTo
      <3>2. QED
        BY <3>1, ProcessStep DEF Fg!Next, Setup, Roles
    <2>7. ASSUME NEW l \in Lines, Fork(l)
          PROVE  UNCHANGED Fg!fgVars
      <3>1. /\ UNCHANGED <<shell, line>>
            /\ pc[l]["reader"] = "fork"
            /\ pc' = [pc EXCEPT ![l] = [r \in Roles |-> "close"]]
        BY <2>7 DEF Fork, At
      <3>2. shell # "prompt" => line = l
        BY <3>1 DEF IInv, ShellInv
      <3>3. shell # "prompt" => pc'[line]["reader"] = "close"
        BY <3>1, <3>2 DEF IInv, TypeOK, Roles
      <3>4. QED
        BY <3>1, <3>2, <3>3 DEF Fg!fgVars, Over
    <2>8. ASSUME NEW l \in Lines, NEW r \in Roles,
                 \/ CloseUnused(l, r) \/ Dup2(l, r) \/ CloseUsed(l, r) \/ Execvp(l, r)
                 \/ Stop(l, r) \/ Continue(l, r) \/ Ends(l, r)
          PROVE  Fg!Next \/ UNCHANGED Fg!fgVars
      <3>1. /\ UNCHANGED <<shell, line>>
            /\ \/ UNCHANGED pc
               \/ \E label \in Setup \cup Over \cup {"running"} :
                      Alive(l, r) /\ pc' = [pc EXCEPT ![l][r] = label]
        BY <2>8 DEF CloseUnused, Dup2, CloseUsed, Execvp, Stop, Continue, Ends,
                    Terminate,
                    At, CanRun, GoTo, Setup
      <3>2. QED
        BY <3>1, ProcessStep DEF Fg!Next
    <2>9. CASE UNCHANGED vars
      BY <2>9 DEF vars, Fg!fgVars
    <2>10. QED
      BY <2>1, <2>2, <2>3, <2>4, <2>5, <2>6, <2>7, <2>8, <2>9, Cases
  <1>3. QED
    BY <1>1, <1>2, Invariance, PTL DEF Spec, Fg!Safety
=============================================================================
