---------------------------- MODULE MCJobControl ----------------------------
(***************************************************************************)
(* Jobs for module JobControl: a pipeline of two processes and one of a    *)
(* single process.                                                         *)
(***************************************************************************)
EXTENDS JobControl

TwoJobs == {1, 2}
PipeAndOne == <<2, 1>>
=============================================================================
