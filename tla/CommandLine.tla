---------------------------- MODULE CommandLine ----------------------------
(***************************************************************************)
(* How the shells take a line apart: the read loop of mysh1.c, strtok as   *)
(* executeCommand, tokenize and execPipe call it, and execPipe's choice of *)
(* two commands.  A line is a sequence of symbols: the space, the bar and  *)
(* words; a word symbol stands for a run of other characters that the      *)
(* shells never look into, except that execPipe drops one character.       *)
(***************************************************************************)
EXTENDS Integers, FiniteSets, Sequences, SequencesExt

Space == " "
Bar == "|"

\* The word "~/d", and what is left of it behind "~/".
HomeDir == "~/d"
InDir == "d"

\* What is left of a word without its first character: no word a user meant.
Remainder == "remainder"

\* Mutant: strsep in strtok's place, which also returns the empty tokens.
Strsep(s, d) ==
    FoldLeft(LAMBDA acc, c : IF c = d THEN Append(acc, <<>>)
                             ELSE [acc EXCEPT ![Len(acc)] = Append(@, c)],
             <<<<>>>>, s)

\* strtok meets the character c: the delimiter ends the open token, any other
\* character extends it or begins one.
StrtokStep(acc, c, d) ==
    IF c = d THEN [acc EXCEPT !.open = FALSE]
    ELSE IF acc.open THEN [acc EXCEPT !.tokens[Len(acc.tokens)] = Append(@, c)]
    ELSE [tokens |-> Append(acc.tokens, <<c>>), open |-> TRUE]

\* The tokens of the first k characters of s, and whether the last one is open.
Scan(s, d) ==
    LET scan[k \in 0..Len(s)] ==
            IF k = 0 THEN [tokens |-> <<>>, open |-> FALSE]
                     ELSE StrtokStep(scan[k - 1], s[k], d)
    IN scan

\* strtok(s, d), strtok(NULL, d), ...: every token of s, in order.
Strtok(s, d) == Scan(s, d)[Len(s)].tokens

\* mysh1's read loop skips every space it reads.
DropSpaces(s) ==
    LET kept[k \in 0..Len(s)] ==
            IF k = 0 THEN <<>>
            ELSE IF s[k] = Space THEN kept[k - 1] ELSE Append(kept[k - 1], s[k])
    IN kept[Len(s)]

\* mysh2, mysh3, mysh4 and lsh store every character.
KeepAll(s) == s

\* mysh3's count of bars.
BarCount(s) == Len(SelectSeq(s, LAMBDA c : c = Bar))

HasBar(s) == \E i \in 1..Len(s) : s[i] = Bar

\* The argument vector of executeCommand, of runPipeCmd's two commands and of
\* lsh_split_line.
Args(s) == Strtok(s, Space)

\* execPipe's firstCmd: the first token between bars.
FirstCmd(s) == Head(Strtok(s, Bar))

\* memmove(secondCmd, secondCmd+1, ...): the first character goes, whatever it is.
DropFirstChar(s) ==
    IF Head(s) = Space THEN Tail(s) ELSE <<Remainder>> \o Tail(s)

\* execPipe's secondCmd: each pass of the loop overwrites it, the last one stays.
SecondCmd(s) == DropFirstChar(Last(Strtok(s, Bar)))
-----------------------------------------------------------------------------
(* What the operators are compared with, written without a loop            *)

\* Where the maximal runs of other characters than d begin in s, and where they end.
Starts(s, d) == {i \in 1..Len(s) : s[i] # d /\ (i = 1 \/ s[i - 1] = d)}

IsRun(s, d, i, j) ==
    /\ i \in Starts(s, d)
    /\ \A k \in i..j : s[k] # d
    /\ j = Len(s) \/ s[j + 1] = d

\* tokens lists the maximal runs of s without d from left to right.
ListsRuns(tokens, s, d) ==
    /\ Len(tokens) = Cardinality(Starts(s, d))
    /\ \A i \in Starts(s, d) : \A j \in i..Len(s) :
          IsRun(s, d, i, j) =>
              tokens[Cardinality({q \in Starts(s, d) : q <= i})] = SubSeq(s, i, j)
=============================================================================
