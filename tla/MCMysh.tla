------------------------------- MODULE MCMysh -------------------------------
(***************************************************************************)
(* Scripts for module Mysh: every line of up to three symbols by itself,   *)
(* so that every way of placing spaces and bars occurs, and some scripts   *)
(* of several lines, in which status, the stdio buffer and processes left  *)
(* behind carry over from line to line.                                    *)
(***************************************************************************)
EXTENDS Mysh

ShortSymbols == {Space, Bar, "cd", "exit", "ls"}
LinesUpTo(n) == UNION {[1..k -> ShortSymbols] : k \in 0..n}

ls == <<"ls">>
lsCd == <<"ls", Space, "cd">>
pipe == <<"ls", Space, Bar, Space, "ls">>
pipes == <<"ls", Bar, Space, "cd", Bar, Space, "ls">>
exitArg == <<"exit", Space, "ls">>
exit == <<Space, "exit">>
empty == <<>>
help == <<"help", Space, "cd">>
cd == <<"cd">>
cdIn == <<"cd", Space, HomeDir>>
cdThere == <<"cd", Space, "ls">>

LongScripts == {
    <<ls, lsCd, exit>>,
    <<pipe, pipe, ls>>,
    <<pipes, exitArg, exit>>,
    <<empty, ls, empty>>,
    <<exitArg, exit, ls>>,
    <<help, lsCd, exitArg>>,
    <<cdIn, cdIn, cd>>,
    <<cdIn, cdThere, cdThere, cd>>,
    <<cdIn, cdThere, cd, cdIn>>}

AllScripts == {<<line>> : line \in LinesUpTo(3)} \cup LongScripts

AllSymbols == ShortSymbols \cup {HomeDir, "help"}

AllShells == {"mysh1", "mysh2", "mysh3", "mysh4", "lsh"}
=============================================================================
