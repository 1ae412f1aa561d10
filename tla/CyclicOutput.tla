---------------------------- MODULE CyclicOutput ----------------------------
(***************************************************************************)
(* An output that repeats one fixed text for ever and may stop anywhere.   *)
(* It is what the synchronisation exercises promise of several concurrent  *)
(* writers together: assignment 2 wants "ab" always first and followed by  *)
(* "cd\n" from the two processes or threads, and ab_ex.c interleaves two   *)
(* threads into ABCDACBD.                                                  *)
(***************************************************************************)
EXTENDS Integers, Sequences

CONSTANT Cycle      \* the text, a sequence of characters that is not empty

VARIABLE out        \* the characters written so far

\* The character that follows n written ones.
NextChar(n) == Cycle[(n % Len(Cycle)) + 1]

Init == out = <<>>
Next == out' = Append(out, NextChar(Len(out)))
Spec == Init /\ [][Next]_out
=============================================================================
