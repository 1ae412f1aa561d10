----------------------------- MODULE Foreground -----------------------------
(***************************************************************************)
(* What the shell promises about one external command at a time: the       *)
(* program "will wait for the completion of the command" (assignment 1,    *)
(* page 1) before it accepts the next one.  The comment over the wait loop *)
(* (myshHeader.h, line 337) says it as "suspends execution of the calling  *)
(* process until a child specified by pid argument has changed state".     *)
(* Both implementations of the promise, execPipe (module PipeCmd) and      *)
(* executeCommand (module Mysh), are shown to refine this module.          *)
(***************************************************************************)

VARIABLES
    shell,      \* "ready": may read a command; "waiting": inside a command
    command     \* the child the shell forked: "none", "running" or "over"

fgVars == <<shell, command>>

TypeOK ==
    /\ shell \in {"ready", "waiting"}
    /\ command \in {"none", "running", "over"}

Init ==
    /\ shell = "ready"
    /\ command = "none"

\* A command is accepted and its child exists.
Launch ==
    /\ shell = "ready"
    /\ shell' = "waiting"
    /\ command' = "running"

\* The child terminates, by itself or by a signal.
Finish ==
    /\ command = "running"
    /\ command' = "over"
    /\ UNCHANGED shell

\* The shell has reaped the child and goes back to its prompt.
Return ==
    /\ shell = "waiting"
    /\ command = "over"
    /\ shell' = "ready"
    /\ command' = "none"

Next == Launch \/ Finish \/ Return

Safety == Init /\ [][Next]_fgVars

\* The shell does come back once the command is over; the command itself and
\* the user owe nothing.
Spec == Safety /\ WF_fgVars(Return)
=============================================================================
