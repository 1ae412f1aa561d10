-------------------------- MODULE ProcTrack_proofs --------------------------
(***************************************************************************)
(* Proofs about module ProcTrack: mutual exclusion through a semaphore     *)
(* that processes wait to be zero, for any number of rounds and kills.     *)
(*                                                                         *)
(* OneOnTrack is not inductive.  A kill hands the semaphore to the kernel, *)
(* which applies the adjustment of the dead process; so the invariant adds *)
(* what that adjustment is (Owes), that a fork meets no child on the track *)
(* (Unborn), and the bound of the loop counters (Counted).                 *)
(***************************************************************************)
EXTENDS ProcTrack, TLAPS

\* A process owes the kernel one decrement exactly while it has the track.
Owes == \A p \in Procs : adj[p] = IF OnTrack(p) THEN -1 ELSE 0

\* A program's child is not there before its parent's fork.
Unborn == \A g \in Programs : pc[<<g, "parent">>] = "fork" => pc[<<g, "child">>] = "none"

\* A process that is not through its loop has iterations left.
Counted == \A p \in Procs : pc[p] \notin {"return", "over"} => i[p] < Rounds

IInv == TypeOK /\ OneOnTrack /\ Owes /\ Unborn /\ Counted

\* The first state satisfies the invariant.
LEMMA Start == Init => IInv
  <1> SUFFICES ASSUME Init PROVE IInv
    OBVIOUS
  <1>1. TypeOK
    BY TrackAssumption DEF Init, TypeOK
  <1>2. \A p \in Procs : ~OnTrack(p)
    BY DEF Init, OnTrack
  <1>3. OneOnTrack /\ Owes
    BY <1>2 DEF Init, OneOnTrack, Owes
  <1>4. Unborn /\ Counted
    <2>1. \A g \in Programs : /\ <<g, "parent">> \in Procs /\ <<g, "child">> \in Procs
                              /\ <<g, "child">>[2] = "child"
      BY DEF Procs
    <2>2. Unborn
      BY <2>1 DEF Init, Unborn
    <2>3. Counted
      BY TrackAssumption DEF Init, Counted
    <2>4. QED
      BY <2>2, <2>3
  <1>5. QED
    BY <1>1, <1>3, <1>4 DEF IInv

\* Who is on the track follows from pc: a step of p that ends off the track leaves
\* everybody else where it was.
LEMMA OnTrackStep ==
  ASSUME TypeOK, NEW p \in Procs, NEW to, pc' = [pc EXCEPT ![p] = to]
  PROVE  /\ OnTrack(p)' <=> to \in {"display", "give"}
         /\ \A q \in Procs \ {p} : OnTrack(q)' <=> OnTrack(q)
  BY DEF TypeOK, OnTrack

\* A step that neither moves a process on or off the track nor touches the semaphore
\* keeps what the invariant says of them.
LEMMA SameTrack ==
  ASSUME OneOnTrack, Owes, UNCHANGED <<sem, adj>>,
         \A q \in Procs : OnTrack(q)' <=> OnTrack(q)
  PROVE  OneOnTrack' /\ Owes'
  BY DEF OneOnTrack, Owes

\* A process that ends, however it ends, leaves the track as the invariant wants it.
LEMMA EndOf ==
  ASSUME IInv, NEW p \in Procs, pc' = [pc EXCEPT ![p] = "over"], Undo(p)
  PROVE  OneOnTrack' /\ Owes' /\ sem' \in {0, 1} /\ adj' \in [Procs -> {-1, 0}]
  <1>1. /\ ~OnTrack(p)'
        /\ \A q \in Procs \ {p} : OnTrack(q)' <=> OnTrack(q)
    <2>1. TypeOK
      BY DEF IInv
    <2>2. QED
      BY <2>1 DEF TypeOK, OnTrack
  <1>2. /\ adj' = [adj EXCEPT ![p] = 0]
        /\ sem' = IF sem + adj[p] < 0 THEN 0 ELSE sem + adj[p]
        /\ adj \in [Procs -> {-1, 0}] /\ sem \in {0, 1}
    BY DEF Undo, IInv, TypeOK
  <1>3. CASE OnTrack(p)
    <2>1. adj[p] = -1 /\ sem = 1
      BY <1>2, <1>3 DEF IInv, Owes, OneOnTrack
    <2>2. \A q \in Procs : ~OnTrack(q)'
      BY <1>1, <1>3 DEF IInv, OneOnTrack
    <2>3. sem' = 0
      BY <1>2, <2>1
    <2>4. QED
      BY <1>1, <1>2, <1>3, <2>2, <2>3 DEF IInv, OneOnTrack, Owes
  <1>4. CASE ~OnTrack(p)
    <2>1. adj[p] = 0 /\ sem' = sem
      BY <1>2, <1>4 DEF IInv, Owes
    <2>2. QED
      BY <1>1, <1>2, <1>4, <2>1 DEF IInv, OneOnTrack, Owes
  <1>5. QED
    BY <1>3, <1>4

\* A step of one process, other than a fork, creates nobody.
LEMMA NobodyBorn ==
  ASSUME TypeOK, Unborn, NEW p \in Procs, NEW to, pc' = [pc EXCEPT ![p] = to],
         pc[p] # "none", to # "fork"
  PROVE  Unborn'
  <1> SUFFICES ASSUME NEW g \in Programs, pc'[<<g, "parent">>] = "fork"
               PROVE  pc'[<<g, "child">>] = "none"
    BY DEF Unborn
  <1>1. <<g, "parent">> \in Procs /\ <<g, "child">> \in Procs
    BY DEF Procs
  <1>2. pc[<<g, "parent">>] = "fork"
    BY <1>1 DEF TypeOK
  <1>3. pc[<<g, "child">>] = "none"
    BY <1>2 DEF Unborn
  <1>4. QED
    BY <1>1, <1>3 DEF TypeOK

\* Every step preserves the invariant.
LEMMA Preserved == IInv /\ [Next]_vars => IInv'
  <1> SUFFICES ASSUME IInv, [Next]_vars PROVE IInv'
    OBVIOUS
  <1> USE DEF IInv
  <1>1. ASSUME NEW g \in Programs, Fork(g) PROVE IInv'
    <2>1. TypeOK'
      BY <1>1 DEF Fork, TypeOK
    <2>2. \A q \in Procs : q[1] = g => pc[q] \in {"fork", "none"}
      BY <1>1 DEF Fork, Unborn, Procs
    <2>3. \A q \in Procs : OnTrack(q)' <=> OnTrack(q)
      BY <1>1, <2>2 DEF Fork, OnTrack, TypeOK
    <2>4. OneOnTrack' /\ Owes'
      BY <1>1, <2>3, SameTrack DEF Fork
    <2>5. Unborn'
      <3> SUFFICES ASSUME NEW h \in Programs, pc'[<<h, "parent">>] = "fork"
                   PROVE  pc'[<<h, "child">>] = "none"
        BY DEF Unborn
      <3>1. <<h, "parent">> \in Procs /\ <<h, "child">> \in Procs
        BY DEF Procs
      <3>2. h # g /\ pc[<<h, "parent">>] = "fork"
        BY <1>1, <3>1 DEF Fork
      <3>3. QED
        BY <1>1, <3>1, <3>2 DEF Fork, Unborn
    <2>6. Counted'
      BY <1>1, <2>2 DEF Fork, Counted, TypeOK
    <2>7. QED
      BY <2>1, <2>4, <2>5, <2>6
  <1>2. ASSUME NEW g \in Programs, ForkFails(g) PROVE IInv'
    <2>1. <<g, "parent">> \in Procs
      BY DEF Procs
    <2>2. TypeOK'
      BY <1>2, <2>1 DEF ForkFails, GoTo, TypeOK
    <2>3. ~OnTrack(<<g, "parent">>)
      BY <1>2 DEF ForkFails, GoTo, OnTrack
    <2>4. \A q \in Procs : OnTrack(q)' <=> OnTrack(q)
      <3>1. ~OnTrack(<<g, "parent">>)'
        BY <1>2, <2>1 DEF ForkFails, GoTo, OnTrack, TypeOK
      <3>2. \A q \in Procs \ {<<g, "parent">>} : OnTrack(q)' <=> OnTrack(q)
        BY <1>2 DEF ForkFails, GoTo, OnTrack, TypeOK
      <3>3. QED
        BY <2>3, <3>1, <3>2
    <2>5. Unborn'
      BY <1>2, <2>1, NobodyBorn DEF ForkFails, GoTo
    <2>6. Counted'
      BY <1>2, <2>1 DEF ForkFails, GoTo, Counted, TypeOK
    <2>7. OneOnTrack' /\ Owes'
      BY <1>2, <2>4, SameTrack DEF ForkFails
    <2>8. QED
      BY <2>2, <2>5, <2>6, <2>7
  <1>3. ASSUME NEW p \in Procs, Take(p) PROVE IInv'
    <2>1. TypeOK'
      <3>1. ~OnTrack(p)
        BY <1>3 DEF Take, GoTo, OnTrack
      <3>2. adj[p] = 0
        BY <3>1 DEF Owes
      <3>3. QED
        BY <1>3, <3>2 DEF Take, GoTo, TypeOK
    <2>2. OnTrack(p)'
      BY <1>3 DEF Take, GoTo, OnTrack, TypeOK
    <2>3. \A q \in Procs \ {p} : OnTrack(q)' <=> OnTrack(q)
      BY <1>3 DEF Take, GoTo, OnTrack, TypeOK
    <2>4. sem = 0 /\ sem' = 1 /\ \A q \in Procs : ~OnTrack(q) /\ adj[q] = 0
      BY <1>3 DEF Take, OneOnTrack, Owes
    <2>5. adj' = [adj EXCEPT ![p] = -1]
      <3>1. adj' = [adj EXCEPT ![p] = adj[p] - 1]
        BY <1>3 DEF Take
      <3>2. adj[p] = 0
        BY <2>4
      <3>3. 0 - 1 = -1
        OBVIOUS
      <3>4. QED
        BY <3>1, <3>2, <3>3
    <2>6. OneOnTrack' /\ Owes'
      BY <2>2, <2>3, <2>4, <2>5 DEF OneOnTrack, Owes, TypeOK
    <2>7. Unborn'
      BY <1>3, NobodyBorn DEF Take, GoTo
    <2>8. Counted'
      BY <1>3 DEF Take, GoTo, Counted, TypeOK
    <2>9. QED
      BY <2>1, <2>6, <2>7, <2>8
  <1>4. ASSUME NEW p \in Procs, Display(p) PROVE IInv'
    <2>1. TypeOK'
      BY <1>4, TrackAssumption DEF Display, TypeOK
    <2>2. \A q \in Procs : OnTrack(q)' <=> OnTrack(q)
      BY <1>4 DEF Display, OnTrack, TypeOK
    <2>3. OneOnTrack' /\ Owes'
      BY <1>4, <2>2, SameTrack DEF Display
    <2>4. Unborn'
      <3>1. \/ pc' = [pc EXCEPT ![p] = "give"]
            \/ pc' = pc
        BY <1>4 DEF Display
      <3>2. QED
        BY <1>4, <3>1, NobodyBorn DEF Display, Unborn
    <2>5. Counted'
      BY <1>4 DEF Display, Counted, TypeOK
    <2>6. QED
      BY <2>1, <2>3, <2>4, <2>5
  <1>5. ASSUME NEW p \in Procs, Give(p) PROVE IInv'
    <2>1. OnTrack(p) /\ sem = 1 /\ adj[p] = -1
      BY <1>5 DEF Give, GoTo, OnTrack, OneOnTrack, Owes, TypeOK
    <2>2. sem' = 0 /\ adj' = [adj EXCEPT ![p] = 0]
      BY <1>5, <2>1 DEF Give
    <2>3. \A q \in Procs : ~OnTrack(q)'
      <3>1. Loop(p) \in {"take", "return"}
        BY DEF Loop
      <3>2. QED
        BY <1>5, <2>1, <3>1, OnTrackStep DEF Give, GoTo, OneOnTrack
    <2>4. TypeOK'
      <3>1. i[p] < Rounds
        BY <1>5 DEF Give, GoTo, Counted
      <3>2. i' \in [Procs -> 0..Rounds]
        BY <1>5, <3>1, TrackAssumption DEF Give, TypeOK
      <3>3. QED
        BY <1>5, <2>2, <3>2 DEF Give, GoTo, Loop, TypeOK
    <2>5. OneOnTrack' /\ Owes'
      <3>1. \A q \in Procs \ {p} : adj[q] = 0
        BY <2>1 DEF OneOnTrack, Owes
      <3>2. QED
        BY <2>2, <2>3, <3>1 DEF OneOnTrack, Owes, TypeOK
    <2>6. Unborn'
      BY <1>5, NobodyBorn DEF Give, GoTo, Loop
    <2>7. Counted'
      BY <1>5, TrackAssumption DEF Give, GoTo, Loop, Counted, TypeOK
    <2>8. QED
      BY <2>4, <2>5, <2>6, <2>7
  <1>6. ASSUME NEW p \in Procs, Return(p) PROVE IInv'
    <2>1. OneOnTrack' /\ Owes' /\ sem' \in {0, 1} /\ adj' \in [Procs -> {-1, 0}]
      BY <1>6, EndOf DEF Return, GoTo
    <2>2. TypeOK'
      BY <1>6, <2>1 DEF Return, GoTo, TypeOK
    <2>3. Unborn'
      BY <1>6, NobodyBorn DEF Return, GoTo
    <2>4. Counted'
      BY <1>6 DEF Return, GoTo, Counted, TypeOK
    <2>5. QED
      BY <2>1, <2>2, <2>3, <2>4
  <1>7. ASSUME NEW p \in Procs, Kill(p) PROVE IInv'
    <2>1. kills' \in 0..MaxKills
      BY <1>7, TrackAssumption DEF Kill, TypeOK
    <2>2. OneOnTrack' /\ Owes' /\ sem' \in {0, 1} /\ adj' \in [Procs -> {-1, 0}]
      BY <1>7, EndOf DEF Kill
    <2>3. TypeOK'
      BY <1>7, <2>1, <2>2 DEF Kill, TypeOK
    <2>4. Unborn'
      BY <1>7, NobodyBorn DEF Kill
    <2>5. Counted'
      BY <1>7 DEF Kill, Counted, TypeOK
    <2>6. QED
      BY <2>2, <2>3, <2>4, <2>5
  <1>8. ASSUME NEW p \in Procs, TakeFails(p) PROVE IInv'
    <2>1. \A q \in Procs : OnTrack(q)' <=> OnTrack(q)
      <3>1. Loop(p) \in {"take", "return"} /\ ~OnTrack(p)
        BY <1>8 DEF Loop, TakeFails, GoTo, OnTrack
      <3>2. QED
        BY <1>8, <3>1, OnTrackStep DEF TakeFails, GoTo
    <2>2. OneOnTrack' /\ Owes'
      BY <1>8, <2>1, SameTrack DEF TakeFails
    <2>3. TypeOK'
      <3>1. i[p] < Rounds
        BY <1>8 DEF TakeFails, GoTo, Counted
      <3>2. i' \in [Procs -> 0..Rounds]
        BY <1>8, <3>1, TrackAssumption DEF TakeFails, TypeOK
      <3>3. QED
        BY <1>8, <3>2 DEF TakeFails, GoTo, Loop, TypeOK
    <2>4. Unborn'
      BY <1>8, NobodyBorn DEF TakeFails, GoTo, Loop
    <2>5. Counted'
      BY <1>8, TrackAssumption DEF TakeFails, GoTo, Loop, Counted, TypeOK
    <2>6. QED
      BY <2>2, <2>3, <2>4, <2>5
  <1>9. CASE UNCHANGED vars
    BY <1>9 DEF vars, TypeOK, OneOnTrack, Owes, OnTrack, Unborn, Counted
  <1>10. QED
    BY <1>1, <1>2, <1>3, <1>4, <1>5, <1>6, <1>7, <1>8, <1>9 DEF Next, Step, Finished

-----------------------------------------------------------------------------

\* The invariant holds in every state of both programs, however many processes are killed.
LEMMA Invariance == Spec => []IInv
  BY Start, Preserved, PTL DEF Spec

\* Type correctness: the semaphore never counts more than one process.
THEOREM TypeCorrect == Spec => []TypeOK
  <1>1. IInv => TypeOK
    BY DEF IInv
  <1>2. QED
    BY <1>1, Invariance, PTL

\* One process at a time has the track, and the semaphore is zero when nobody has
\* it, although processes are killed while they hold it.
THEOREM MutualExclusion == Spec => []OneOnTrack
  <1>1. IInv => OneOnTrack
    BY DEF IInv
  <1>2. QED
    BY <1>1, Invariance, PTL

-----------------------------------------------------------------------------
(* Messages.  Whoever is in the middle of a message has written the last   *)
(* character, unless it was killed there; so a process that takes the      *)
(* track finds a message that is complete or will never be.                *)

Complete == last = NoChar \/ last[2] = Chars

Writing ==
    /\ \A p \in Procs : chars[p] > 0 => pc[p] \in {"display", "over"}
    /\ \A p \in Procs : pc[p] = "display" /\ chars[p] > 0 => last = <<p, chars[p]>>
    /\ \/ Complete
       \/ \E p \in Procs : last = <<p, chars[p]>> /\ pc[p] \in {"display", "over"}

MInv == IInv /\ Writing

\* A process that is not writing, or that ends, changes nothing about messages.
LEMMA NotWriting ==
  ASSUME TypeOK, Writing, UNCHANGED <<chars, last>>, NEW p \in Procs, NEW to,
         pc' = [pc EXCEPT ![p] = to],
         to = "over" \/ pc[p] \notin {"display", "over"}
  PROVE  Writing'
  <1>1. chars \in [Procs -> 0 .. Chars - 1] /\ Chars \in Nat
    BY TrackAssumption DEF TypeOK
  <1>2. \A q \in Procs : pc'[q] = IF q = p THEN to ELSE pc[q]
    BY DEF TypeOK
  <1>3. to = "over" \/ chars[p] = 0
    BY <1>1 DEF Writing
  <1>4. \A q \in Procs : chars'[q] > 0 => pc'[q] \in {"display", "over"}
    BY <1>1, <1>2, <1>3 DEF Writing
  <1>5. \A q \in Procs : pc'[q] = "display" /\ chars'[q] > 0 => last' = <<q, chars'[q]>>
    BY <1>1, <1>2, <1>3 DEF Writing
  <1>6. \/ Complete'
        \/ \E q \in Procs : last' = <<q, chars'[q]>> /\ pc'[q] \in {"display", "over"}
    <2>1. CASE Complete
      BY <2>1 DEF Complete
    <2>2. CASE ~Complete
      <3>1. PICK q \in Procs : last = <<q, chars[q]>> /\ pc[q] \in {"display", "over"}
        BY <2>2 DEF Writing
      <3>2. pc'[q] \in {"display", "over"}
        BY <1>2, <3>1
      <3>3. QED
        BY <3>1, <3>2
    <2>3. QED
      BY <2>1, <2>2
  <1>7. QED
    BY <1>4, <1>5, <1>6 DEF Writing

\* display keeps the invariant, because nobody else is on the track.
LEMMA DisplayWrites ==
  ASSUME IInv, Writing, NEW p \in Procs, Display(p)
  PROVE  Writing'
  <1>1. chars \in [Procs -> 0 .. Chars - 1] /\ Chars \in Nat \ {0}
    BY TrackAssumption DEF IInv, TypeOK
  <1>2. \A q \in Procs \ {p} : pc[q] # "display"
    BY DEF IInv, OneOnTrack, OnTrack, Display
  <1>3. pc[p] = "display" /\ last' = <<p, chars[p] + 1>>
    BY DEF Display
  <1>4. \A q \in Procs \ {p} : pc'[q] = pc[q] /\ chars'[q] = chars[q]
    BY <1>1 DEF Display, IInv, TypeOK
  <1>5. CASE chars[p] + 1 = Chars
    <2>1. chars'[p] = 0 /\ last'[2] = Chars
      BY <1>1, <1>3, <1>5 DEF Display
    <2>2. Complete'
      BY <2>1 DEF Complete
    <2>3. QED
      BY <1>1, <1>2, <1>4, <2>1, <2>2 DEF Writing
  <1>6. CASE chars[p] + 1 # Chars
    <2>1. chars'[p] = chars[p] + 1 /\ pc'[p] = "display"
      BY <1>1, <1>3, <1>6 DEF Display
    <2>2. QED
      BY <1>1, <1>2, <1>3, <1>4, <2>1 DEF Writing
  <1>7. QED
    BY <1>5, <1>6

\* What one step may write.
WholeStep == last' # last =>
    IF last'[2] > 1 THEN last = <<last'[1], last'[2] - 1>>
    ELSE last = NoChar \/ last[2] = Chars \/ pc[last[1]] = "over"

\* display goes on with its own message, or begins one after a message that is over.
LEMMA DisplayWhole ==
  ASSUME IInv, Writing, NEW p \in Procs, Display(p)
  PROVE  WholeStep
  <1>1. chars \in [Procs -> 0 .. Chars - 1] /\ Chars \in Nat \ {0}
    BY TrackAssumption DEF IInv, TypeOK
  <1>2. pc[p] = "display" /\ last' = <<p, chars[p] + 1>>
    BY DEF Display
  <1>3. last'[1] = p /\ last'[2] = chars[p] + 1
    BY <1>2
  <1>4. CASE chars[p] > 0
    <2>1. last = <<p, chars[p]>>
      BY <1>2, <1>4 DEF Writing
    <2>2. last'[2] > 1 /\ last'[2] - 1 = chars[p]
      BY <1>1, <1>3, <1>4
    <2>3. QED
      BY <1>3, <2>1, <2>2 DEF WholeStep
  <1>5. CASE chars[p] = 0 /\ ~Complete
    <2>1. PICK q \in Procs : last = <<q, chars[q]>> /\ pc[q] \in {"display", "over"}
      BY <1>5 DEF Writing
    <2>2. q # p
      <3>1. last \in Procs \X (1..Chars)
        BY <1>5 DEF IInv, TypeOK, Complete
      <3>2. last[2] \in 1..Chars /\ last[2] = chars[q]
        BY <2>1, <3>1
      <3>3. QED
        BY <1>1, <1>5, <3>2
    <2>3. pc[q] = "over"
      BY <1>2, <2>1, <2>2 DEF IInv, OneOnTrack, OnTrack
    <2>4. last[1] = q /\ last'[2] = 1
      BY <1>3, <1>5, <2>1
    <2>5. QED
      BY <2>3, <2>4 DEF WholeStep
  <1>6. CASE chars[p] = 0 /\ Complete
    <2>1. last'[2] = 1
      BY <1>3, <1>6
    <2>2. QED
      BY <1>6, <2>1 DEF WholeStep, Complete
  <1>7. QED
    BY <1>1, <1>4, <1>5, <1>6

\* Every step keeps Writing and writes as WholeStep allows.
LEMMA StepWrites == MInv /\ [Next]_vars => Writing' /\ WholeStep
  <1> SUFFICES ASSUME MInv, [Next]_vars PROVE Writing' /\ WholeStep
    OBVIOUS
  <1> USE DEF MInv
  <1>0. TypeOK
    BY DEF IInv
  <1>1. ASSUME NEW g \in Programs, Fork(g) PROVE Writing' /\ WholeStep
    <2>1. \A q \in Procs : q[1] = g => pc[q] \in {"fork", "none"}
      BY <1>1 DEF Fork, IInv, Unborn, Procs
    <2>2. \A q \in Procs : IF q[1] = g THEN pc'[q] = "take" /\ chars[q] = 0
                           ELSE pc'[q] = pc[q]
      BY <1>0, <1>1, <2>1, TrackAssumption DEF Fork, Writing, TypeOK
    <2>3. \A q \in Procs : pc[q] \in {"display", "over"} => pc'[q] = pc[q]
      BY <2>1, <2>2
    <2>4. UNCHANGED <<chars, last>>
      BY <1>1 DEF Fork
    <2>5. Complete => Complete'
      BY <2>4 DEF Complete
    <2>6. \A q \in Procs : chars'[q] > 0 => pc'[q] \in {"display", "over"}
      BY <2>2, <2>4 DEF Writing
    <2>7. \A q \in Procs : pc'[q] = "display" /\ chars'[q] > 0 => last' = <<q, chars'[q]>>
      BY <2>2, <2>4 DEF Writing
    <2>8. QED
      BY <2>3, <2>4, <2>5, <2>6, <2>7 DEF Writing, WholeStep
  <1>2. ASSUME NEW g \in Programs, ForkFails(g) PROVE Writing' /\ WholeStep
    <2>1. <<g, "parent">> \in Procs
      BY DEF Procs
    <2>2. QED
      BY <1>0, <1>2, <2>1, NotWriting DEF ForkFails, GoTo, WholeStep
  <1>3. ASSUME NEW p \in Procs, Take(p) \/ TakeFails(p) \/ Give(p) \/ Return(p) \/ Kill(p)
        PROVE  Writing' /\ WholeStep
    <2>1. UNCHANGED <<chars, last>>
      BY <1>3 DEF Take, TakeFails, Give, Return, Kill
    <2>2. PICK to \in {"display", "give", "take", "return", "over"} :
              /\ pc' = [pc EXCEPT ![p] = to]
              /\ to = "over" \/ pc[p] \notin {"display", "over"}
      BY <1>3 DEF Take, TakeFails, Give, Return, Kill, GoTo, Loop
    <2>3. QED
      BY <1>0, <2>1, <2>2, NotWriting DEF WholeStep
  <1>4. ASSUME NEW p \in Procs, Display(p) PROVE Writing' /\ WholeStep
    BY <1>4, DisplayWrites, DisplayWhole
  <1>5. CASE UNCHANGED vars
    BY <1>5 DEF vars, Writing, Complete, WholeStep
  <1>6. QED
    BY <1>1, <1>2, <1>3, <1>4, <1>5 DEF Next, Step, Finished

\* Messages are never mixed, in whatever order processes take the track, run, end
\* and are killed.
THEOREM Messages == Spec => MessagesWhole
  <1>1. Init => MInv
    <2>1. Init => Writing
      BY TrackAssumption DEF Init, Writing, Complete
    <2>2. QED
      BY <2>1, Start DEF MInv
  <1>2. MInv /\ [Next]_vars => MInv'
    BY StepWrites, Preserved DEF MInv
  <1>3. MInv /\ [Next]_vars => [WholeStep]_vars
    BY StepWrites
  <1>4. MessagesWhole <=> [][WholeStep]_vars
    BY DEF MessagesWhole, WholeStep
  <1>5. QED
    BY <1>1, <1>2, <1>3, <1>4, PTL DEF Spec

=============================================================================
