------------------------- MODULE SharedArray_proofs -------------------------
(***************************************************************************)
(* Proofs about module SharedArray, for any number of processes and        *)
(* iterations and an array of any length: what the two semaphores protect, *)
(* and what the unprotected reads can do.                                  *)
(*                                                                         *)
(* IndexZeroGrows rests on three facts that hold only together: each       *)
(* semaphore is taken by one process at most (Locks), a process about to   *)
(* raise array[0] still finds it below its sum (Raising), and a process    *)
(* that has not been forked is nowhere (Unborn).                           *)
(***************************************************************************)
EXTENDS SharedArray, FiniteSetTheorems, TLAPS

\* Who has taken a semaphore.
Has(s, p) == pc[p] \in (IF s = 1 THEN {"write", "post1"} ELSE {"test", "raise", "post0"})

\* A semaphore is free and nobody has it, or one process has.
Locks ==
    \A s \in {0, 1} :
        /\ \A p \in Procs : Has(s, p) => sem[s] = 0
        /\ \A p, q \in Procs : Has(s, p) /\ Has(s, q) => p = q

\* While main forks, the children to come are not there.
Unborn == mpc = "fork" => forked < P /\ \A p \in Procs : p > forked => pc[p] = "none"

\* A process that is not through its loop has iterations left.
Counted == \A p \in Procs : pc[p] # "exit" => i[p] < Rounds

\* Between test and release, array[0] is what the holder of semaphore 0 left there.
Raising ==
    \A p \in Procs : /\ pc[p] = "raise" => array[0] < sum[p]
                     /\ pc[p] = "post0" => array[0] >= sum[p]

\* main prints when everybody has ended.
Printing ==
    /\ mpc = "print" \/ printed # Nothing => \A p \in Procs : pc[p] = "exit"
    /\ mpc \notin {"exit"} => printed = Nothing
    /\ printed # Nothing => printed = array

IInv == TypeOK /\ Locks /\ Unborn /\ Counted /\ Raising /\ Printing

\* The first state satisfies the invariant.
LEMMA Start == Init => IInv
  <1> SUFFICES ASSUME Init PROVE IInv
    OBVIOUS
  <1> USE ArrayAssumption
  <1>1. TypeOK
    BY DEF Init, TypeOK, Index, Procs, Nothing
  <1>2. Locks
    BY DEF Init, Locks, Has
  <1>3. Unborn /\ Counted
    BY DEF Init, Unborn, Counted, Procs
  <1>4. Raising /\ Printing
    BY DEF Init, Raising, Printing
  <1>5. QED
    BY <1>1, <1>2, <1>3, <1>4 DEF IInv

\* A process that runs was forked, and main has not printed yet.
LEMMA StepOfOne ==
  ASSUME IInv, NEW p \in Procs, pc[p] \notin {"none", "exit"}, NEW to, to # "none",
         pc' = [pc EXCEPT ![p] = to], UNCHANGED mainVars
  PROVE  Unborn' /\ Printing' /\ printed = Nothing
  <1>1. mpc # "print" /\ printed = Nothing
    BY DEF IInv, Printing
  <1>2. Unborn'
    BY <1>1 DEF IInv, TypeOK, Unborn, mainVars
  <1>3. Printing'
    BY <1>1 DEF IInv, TypeOK, Printing, mainVars
  <1>4. QED
    BY <1>1, <1>2, <1>3

\* A step that takes no semaphore and gives none back keeps Locks.
LEMMA SameLocks ==
  ASSUME Locks, UNCHANGED sem, \A s \in {0, 1}, q \in Procs : Has(s, q)' => Has(s, q)
  PROVE  Locks'
  BY DEF Locks

\* Taking a semaphore: it was free, and so nobody had it.
LEMMA TakeLock ==
  ASSUME TypeOK, Locks, NEW p \in Procs, NEW s \in {0, 1}, SemWait(s),
         \A t \in {0, 1}, q \in Procs : Has(t, q)' => Has(t, q) \/ (t = s /\ q = p)
  PROVE  Locks' /\ sem' \in [{0, 1} -> {0, 1}]
  <1>1. sem[s] = 1 /\ sem' = [sem EXCEPT ![s] = 0]
    <2>1. sem[s] \in {0, 1} /\ sem[s] > 0 /\ sem' = [sem EXCEPT ![s] = sem[s] - 1]
      BY DEF SemWait, TypeOK
    <2>2. sem[s] = 1 /\ sem[s] - 1 = 0
      BY <2>1
    <2>3. QED
      BY <2>1, <2>2
  <1>2. \A q \in Procs : ~Has(s, q)
    BY <1>1 DEF Locks
  <1>3. QED
    BY <1>1, <1>2 DEF Locks, TypeOK

\* Giving a semaphore back: nobody else had it.
LEMMA GiveLock ==
  ASSUME TypeOK, Locks, NEW p \in Procs, NEW s \in {0, 1}, SemPost(s), Has(s, p), ~Has(s, p)',
         \A t \in {0, 1}, q \in Procs : Has(t, q)' => Has(t, q)
  PROVE  Locks' /\ sem' \in [{0, 1} -> {0, 1}]
  <1>1. sem[s] = 0 /\ sem' = [sem EXCEPT ![s] = 1]
    <2>1. sem[s] = 0 /\ sem' = [sem EXCEPT ![s] = sem[s] + 1]
      BY DEF SemPost, Locks
    <2>2. sem[s] + 1 = 1
      BY <2>1
    <2>3. QED
      BY <2>1, <2>2
  <1>2. \A q \in Procs : ~Has(s, q)'
    BY DEF Locks
  <1>3. QED
    BY <1>1, <1>2 DEF Locks, TypeOK

\* A step of p outside semaphore 0 that leaves array[0] and sums alone keeps what the
\* others know of them.
LEMMA SameRaising ==
  ASSUME TypeOK, Raising, NEW p \in Procs, NEW to, pc' = [pc EXCEPT ![p] = to],
         to \notin {"raise", "post0"}, array'[0] = array[0],
         \A q \in Procs \ {p} : sum'[q] = sum[q]
  PROVE  Raising'
  BY DEF TypeOK, Raising

\* main's steps preserve the invariant.
LEMMA MainPreserves == IInv /\ Main => IInv'
  <1> SUFFICES ASSUME IInv, Main PROVE IInv'
    OBVIOUS
  <1> USE ArrayAssumption DEF IInv
  <1>1. CASE Fork
    <2> DEFINE p == forked + 1
    <2>1. p \in Procs /\ pc[p] = "none" /\ pc' = [pc EXCEPT ![p] = "read"]
      BY <1>1 DEF Fork, Unborn, TypeOK, Procs
    <2> HIDE DEF p
    <2>2. TypeOK'
      <3>1. forked' \in 0..P
        BY <1>1 DEF Fork, Unborn, TypeOK
      <3>2. QED
        BY <1>1, <2>1, <3>1 DEF Fork, TypeOK, locals
    <2>3. \A s \in {0, 1}, q \in Procs : Has(s, q)' => Has(s, q)
      BY <2>1 DEF Has, TypeOK
    <2>4. Locks'
      BY <1>1, <2>3, SameLocks DEF Fork
    <2>5. Unborn'
      <3>1. forked' = p /\ forked \in Nat /\ P \in Nat
        BY <1>1 DEF Fork, TypeOK, p
      <3>2. p = forked + 1
        BY DEF p
      <3>3. mpc' = "fork" => p # P /\ forked < P
        BY <1>1, <3>2 DEF Fork, Unborn
      <3>4. \A q \in Procs : q > p => pc'[q] = pc[q] /\ q > forked
        BY <2>1, <3>1, <3>2 DEF TypeOK, Procs
      <3>5. QED
        BY <1>1, <3>1, <3>2, <3>3, <3>4 DEF Fork, Unborn
    <2>6. Counted'
      BY <1>1, <2>1 DEF Fork, Counted, TypeOK, locals
    <2>7. Raising'
      <3>1. UNCHANGED <<array, sum>>
        BY <1>1 DEF Fork, locals
      <3>2. QED
        BY <2>1, <3>1, SameRaising
    <2>8. Printing'
      BY <1>1, <2>1 DEF Fork, Printing
    <2>9. QED
      BY <2>2, <2>4, <2>5, <2>6, <2>7, <2>8
  <1>2. CASE ForkFails \/ Wait
    <2>1. TypeOK' /\ Unborn' /\ Counted' /\ Raising' /\ Printing'
      BY <1>2 DEF ForkFails, Wait, TypeOK, Unborn, Counted, Raising, Printing, locals
    <2>2. Locks'
      BY <1>2 DEF ForkFails, Wait, Locks, Has
    <2>3. QED
      BY <2>1, <2>2
  <1>3. CASE PrintAndRemove
    <2>1. TypeOK' /\ Unborn' /\ Counted' /\ Raising' /\ Printing'
      BY <1>3 DEF PrintAndRemove, TypeOK, Unborn, Counted, Raising, Printing, locals
    <2>2. Locks'
      BY <1>3 DEF PrintAndRemove, Locks, Has
    <2>3. QED
      BY <2>1, <2>2
  <1>4. QED
    BY <1>1, <1>2, <1>3 DEF Main

\* Every step of a child preserves the invariant.
LEMMA StepPreserves ==
  ASSUME IInv, NEW p \in Procs, Step(p) PROVE IInv'
  <1> USE ArrayAssumption DEF IInv
  <1>1. CASE Read(p)
    <2>1. PICK to \in {"wait1", "read"} : pc' = [pc EXCEPT ![p] = to]
      BY <1>1 DEF Read, GoTo
    <2>2. pc[p] = "read" /\ UNCHANGED <<array, sem, mainVars, i>>
      BY <1>1 DEF Read, GoTo
    <2>3. TypeOK'
      <3>1. j[p] \in Index /\ array[j[p]] \in Nat
        BY DEF TypeOK, Index
      <3>2. j' \in [Procs -> 1 .. N - 1]
        BY <1>1 DEF Read, TypeOK
      <3>3. max' \in [Procs -> Nat] /\ sum' \in [Procs -> Nat]
        BY <1>1, <3>1 DEF Read, TypeOK
      <3>4. QED
        BY <2>1, <2>2, <3>2, <3>3 DEF TypeOK, mainVars
    <2>4. \A s \in {0, 1}, q \in Procs : Has(s, q)' => Has(s, q)
      BY <2>1 DEF Has, TypeOK
    <2>5. Locks'
      BY <2>2, <2>4, SameLocks
    <2>6. Unborn' /\ Printing'
      BY <2>1, <2>2, StepOfOne
    <2>7. Counted'
      BY <2>1, <2>2 DEF Counted, TypeOK
    <2>8. Raising'
      <3>1. \A q \in Procs \ {p} : sum'[q] = sum[q]
        BY <1>1 DEF Read, TypeOK
      <3>2. QED
        BY <2>1, <2>2, <3>1, SameRaising
    <2>9. QED
      BY <2>3, <2>5, <2>6, <2>7, <2>8
  <1>2. CASE Wait1(p) \/ Wait0(p)
    <2>1. PICK s \in {0, 1} : /\ SemWait(s)
                             /\ GoTo(p, IF s = 1 THEN "wait1" ELSE "wait0",
                                        IF s = 1 THEN "write" ELSE "test")
      BY <1>2 DEF Wait1, Wait0
    <2>2. UNCHANGED <<array, mainVars, locals>>
      BY <1>2 DEF Wait1, Wait0
    <2>3. \A t \in {0, 1}, q \in Procs : Has(t, q)' => Has(t, q) \/ (t = s /\ q = p)
      BY <2>1 DEF Has, GoTo, TypeOK
    <2>4. Locks' /\ sem' \in [{0, 1} -> {0, 1}]
      BY <2>1, <2>3, TakeLock
    <2>5. TypeOK'
      BY <2>1, <2>2, <2>4 DEF TypeOK, GoTo, mainVars, locals
    <2>6. Unborn' /\ Printing'
      BY <2>1, <2>2, StepOfOne DEF GoTo
    <2>7. Counted'
      BY <2>1, <2>2 DEF Counted, GoTo, TypeOK, locals
    <2>8. Raising'
      <3>1. UNCHANGED <<array, sum>>
        BY <2>2 DEF locals
      <3>2. PICK to \in {"write", "test"} : pc' = [pc EXCEPT ![p] = to]
        BY <2>1 DEF GoTo
      <3>3. QED
        BY <3>1, <3>2, SameRaising
    <2>9. QED
      BY <2>4, <2>5, <2>6, <2>7, <2>8
  <1>3. CASE Write(p)
    <2>1. pc[p] = "write" /\ pc' = [pc EXCEPT ![p] = "post1"]
      BY <1>3 DEF Write, GoTo
    <2>2. PICK loc \in 1 .. N - 1 : array' = [array EXCEPT ![loc] = max[p] + 1]
      BY <1>3 DEF Write
    <2>3. UNCHANGED <<sem, mainVars, locals>>
      BY <1>3 DEF Write
    <2>4. array' \in [Index -> Nat] /\ array'[0] = array[0]
      BY <2>2 DEF TypeOK, Index
    <2>5. Unborn' /\ Printing'
      <3>1. UNCHANGED mainVars
        BY <2>3
      <3>2. QED
        BY <2>1, <3>1, StepOfOne
    <2>6. TypeOK'
      BY <2>1, <2>3, <2>4 DEF TypeOK, mainVars, locals
    <2>7. \A s \in {0, 1}, q \in Procs : Has(s, q)' => Has(s, q)
      BY <2>1 DEF Has, TypeOK
    <2>8. Locks'
      BY <2>3, <2>7, SameLocks
    <2>9. Counted' /\ Raising'
      <3>1. Counted'
        BY <2>1, <2>3 DEF Counted, TypeOK, locals
      <3>2. UNCHANGED sum
        BY <2>3 DEF locals
      <3>3. QED
        BY <2>1, <2>4, <3>1, <3>2, SameRaising
    <2>10. QED
      BY <2>5, <2>6, <2>8, <2>9
  <1>4. CASE Post1(p)
    <2>1. GoTo(p, "post1", "wait0") /\ SemPost(1) /\ UNCHANGED <<array, mainVars, locals>>
      BY <1>4 DEF Post1
    <2>2. Has(1, p) /\ ~Has(1, p)'
      BY <2>1 DEF Has, GoTo, TypeOK
    <2>3. \A t \in {0, 1}, q \in Procs : Has(t, q)' => Has(t, q)
      BY <2>1 DEF Has, GoTo, TypeOK
    <2>4. Locks' /\ sem' \in [{0, 1} -> {0, 1}]
      BY <2>1, <2>2, <2>3, GiveLock
    <2>5. TypeOK'
      BY <2>1, <2>4 DEF TypeOK, GoTo, mainVars, locals
    <2>6. Unborn' /\ Printing'
      BY <2>1, StepOfOne DEF GoTo
    <2>7. Counted'
      BY <2>1 DEF Counted, GoTo, TypeOK, locals
    <2>8. Raising'
      BY <2>1, SameRaising DEF GoTo, locals
    <2>9. QED
      BY <2>4, <2>5, <2>6, <2>7, <2>8
  <1>5. CASE Test(p)
    <2>1. PICK to \in {"raise", "post0"} :
              /\ pc' = [pc EXCEPT ![p] = to]
              /\ to = "raise" <=> array[0] < sum[p]
      BY <1>5 DEF Test, GoTo
    <2>2. pc[p] = "test" /\ UNCHANGED <<array, sem, mainVars, locals>>
      BY <1>5 DEF Test, GoTo
    <2>3. TypeOK'
      BY <2>1, <2>2 DEF TypeOK, mainVars, locals
    <2>4. \A s \in {0, 1}, q \in Procs : Has(s, q)' => Has(s, q)
      BY <2>1, <2>2 DEF Has, TypeOK
    <2>5. Locks'
      BY <2>2, <2>4, SameLocks
    <2>6. Unborn' /\ Printing'
      BY <2>1, <2>2, StepOfOne
    <2>7. Counted'
      BY <2>1, <2>2 DEF Counted, TypeOK, locals
    <2>8. Raising'
      BY <2>1, <2>2 DEF Raising, TypeOK, locals, Index
    <2>9. QED
      BY <2>3, <2>5, <2>6, <2>7, <2>8
  <1>6. CASE Raise(p)
    <2>1. pc[p] = "raise" /\ pc' = [pc EXCEPT ![p] = "post0"]
      BY <1>6 DEF Raise, GoTo
    <2>2. array' = [array EXCEPT ![0] = sum[p]] /\ UNCHANGED <<sem, mainVars, locals>>
      BY <1>6 DEF Raise
    <2>3. array' \in [Index -> Nat] /\ array'[0] = sum[p]
      BY <2>2 DEF TypeOK, Index
    <2>4. TypeOK'
      BY <2>1, <2>2, <2>3 DEF TypeOK, mainVars, locals
    <2>5. \A s \in {0, 1}, q \in Procs : Has(s, q)' => Has(s, q)
      BY <2>1 DEF Has, TypeOK
    <2>6. Locks'
      BY <2>2, <2>5, SameLocks
    <2>7. Unborn' /\ Printing'
      BY <2>1, <2>2, StepOfOne
    <2>8. Counted'
      BY <2>1, <2>2 DEF Counted, TypeOK, locals
    <2>9. \A q \in Procs \ {p} : pc[q] \notin {"raise", "post0"}
      BY <2>1 DEF Locks, Has
    <2>10. Raising'
      BY <2>1, <2>2, <2>3, <2>9 DEF Raising, TypeOK, locals
    <2>11. QED
      BY <2>4, <2>6, <2>7, <2>8, <2>10
  <1>7. CASE Post0(p)
    <2>1. PICK to \in {"read", "exit"} :
              /\ pc' = [pc EXCEPT ![p] = to]
              /\ to = "read" <=> i[p] + 1 < Rounds
      BY <1>7 DEF Post0, GoTo
    <2>2. pc[p] = "post0" /\ SemPost(0) /\ i' = [i EXCEPT ![p] = i[p] + 1]
      BY <1>7 DEF Post0, GoTo
    <2>3. UNCHANGED <<array, mainVars, j, max, sum>>
      BY <1>7 DEF Post0
    <2>4. i[p] < Rounds
      BY <2>2 DEF Counted
    <2>5. Has(0, p) /\ ~Has(0, p)'
      BY <2>1, <2>2 DEF Has, TypeOK
    <2>6. \A t \in {0, 1}, q \in Procs : Has(t, q)' => Has(t, q)
      BY <2>1, <2>2 DEF Has, TypeOK
    <2>7. Locks' /\ sem' \in [{0, 1} -> {0, 1}]
      BY <2>2, <2>5, <2>6, GiveLock
    <2>8. i' \in [Procs -> 0..Rounds]
      BY <2>2, <2>4 DEF TypeOK
    <2>9. TypeOK'
      BY <2>1, <2>3, <2>7, <2>8 DEF TypeOK, mainVars
    <2>10. Unborn' /\ Printing'
      BY <2>1, <2>2, <2>3, StepOfOne
    <2>11. Counted'
      BY <2>1, <2>2 DEF Counted, TypeOK
    <2>12. Raising'
      BY <2>1, <2>3, SameRaising
    <2>13. QED
      BY <2>7, <2>9, <2>10, <2>11, <2>12
  <1>8. QED
    BY <1>1, <1>2, <1>3, <1>4, <1>5, <1>6, <1>7 DEF Step

\* Every step preserves the invariant.
LEMMA Preserved == IInv /\ [Next]_vars => IInv'
  <1> SUFFICES ASSUME IInv, [Next]_vars PROVE IInv'
    OBVIOUS
  <1>1. CASE UNCHANGED vars
    BY <1>1 DEF vars, IInv, TypeOK, Locks, Has, Unborn, Counted, Raising, Printing
  <1>2. QED
    BY <1>1, MainPreserves, StepPreserves DEF Next, Finished

\* The invariant holds in every state.
LEMMA Invariance == Spec => []IInv
  BY Start, Preserved, PTL DEF Spec

\* Type correctness: no semaphore ever counts more than one free place.
THEOREM TypeCorrect == Spec => []TypeOK
  <1>1. IInv => TypeOK
    BY DEF IInv
  <1>2. QED
    BY <1>1, Invariance, PTL

-----------------------------------------------------------------------------
(* array[0]                                                                *)

\* What one step does to array[0].
ZeroStep ==
    /\ array'[0] >= array[0]
    /\ \A p \in Procs : pc'[p] = "post0" => array'[0] >= sum'[p]

\* The test of array[0] is still true when it is raised, because only the holder of
\* semaphore 0 changes it; so it never decreases and loses no sum.
THEOREM ZeroGrows == Spec => IndexZeroGrows
  <1>1. IInv /\ IInv' /\ [Next]_vars => ZeroStep
    <2> SUFFICES ASSUME IInv, IInv', [Next]_vars PROVE ZeroStep
      OBVIOUS
    <2>1. \A p \in Procs : pc'[p] = "post0" => array'[0] >= sum'[p]
      BY DEF IInv, Raising
    <2>2. 0 \in Index /\ array[0] \in Nat
      BY ArrayAssumption DEF IInv, TypeOK, Index
    <2>3. CASE UNCHANGED array
      BY <2>1, <2>2, <2>3 DEF ZeroStep
    <2>4. ASSUME NEW p \in Procs, Raise(p) PROVE ZeroStep
      <3>1. array[0] < sum[p] /\ sum[p] \in Nat
        BY <2>4 DEF Raise, GoTo, IInv, TypeOK, Raising
      <3>2. array'[0] = sum[p]
        BY <2>2, <2>4 DEF Raise, IInv, TypeOK
      <3>3. QED
        BY <2>1, <2>2, <3>1, <3>2 DEF ZeroStep
    <2>5. ASSUME NEW p \in Procs, Write(p) PROVE ZeroStep
      <3>1. array'[0] = array[0]
        BY <2>2, <2>5, ArrayAssumption DEF Write, IInv, TypeOK
      <3>2. QED
        BY <2>1, <2>2, <3>1 DEF ZeroStep
    <2>6. QED
      BY <2>3, <2>4, <2>5
         DEF Next, Main, Fork, ForkFails, Wait, PrintAndRemove, Step, Read, Wait1, Post1,
             Wait0, Test, Post0, Finished, vars
  <1>2. IndexZeroGrows <=> [][ZeroStep]_vars
    BY DEF IndexZeroGrows, ZeroStep
  <1>3. QED
    BY <1>1, <1>2, Invariance, PTL DEF Spec

-----------------------------------------------------------------------------
(* The other elements                                                      *)

\* The writes of a process are counted by its loop.
LEMMA WritesType ==
  ASSUME TypeOK, Counted, NEW p \in Procs
  PROVE  Writes(p) \in 0..Rounds
  BY ArrayAssumption DEF TypeOK, Counted, Writes

\* There are finitely many writes.
LEMMA WrittenFinite == IsFiniteSet(Written) /\ AllWrites \in Nat
  <1>1. IsFiniteSet(Procs) /\ IsFiniteSet(1..Rounds)
    BY FS_Interval, ArrayAssumption DEF Procs
  <1>2. IsFiniteSet(Procs \X (1..Rounds))
    BY <1>1, FS_Product
  <1>3. IsFiniteSet(Written)
    BY <1>2, FS_Subset DEF Written
  <1>4. QED
    BY <1>3, FS_CardinalityType DEF AllWrites

\* A step that leaves everybody's count leaves the number of all writes.
LEMMA SameWrites ==
  ASSUME \A p \in Procs : Writes(p)' = Writes(p)
  PROVE  AllWrites' = AllWrites
  <1>1. Written' = Written
    BY DEF Written, Procs
  <1>2. QED
    BY <1>1 DEF AllWrites

\* One more write of one process is one more of all.
LEMMA OneMoreWrite ==
  ASSUME TypeOK, Counted, TypeOK', Counted', NEW p \in Procs, Writes(p)' = Writes(p) + 1,
         \A q \in Procs \ {p} : Writes(q)' = Writes(q)
  PROVE  AllWrites' = AllWrites + 1
  <1> DEFINE w == <<p, Writes(p) + 1>>
  <1>1. Writes(p) \in 0..Rounds /\ Writes(p) + 1 \in 1..Rounds
    BY WritesType, ArrayAssumption DEF TypeOK, Counted, Writes
  <1>2. w \notin Written
    BY <1>1 DEF Written
  <1>3. Written' = Written \cup {w}
    <2>1. ASSUME NEW v \in Procs \X (1..Rounds)
          PROVE  v \in Written' <=> v \in Written \/ v = w
      <3>1. v = <<v[1], v[2]>> /\ v[1] \in Procs /\ v[2] \in 1..Rounds
        BY <2>1
      <3>2. v \in Written' <=> v[2] <= Writes(v[1])'
        BY <3>1 DEF Written
      <3>3. v \in Written <=> v[2] <= Writes(v[1])
        BY <3>1 DEF Written
      <3>4. CASE v[1] = p
        <4>1. v[2] <= Writes(p) + 1 <=> v[2] <= Writes(p) \/ v[2] = Writes(p) + 1
          BY <1>1, <3>1
        <4>2. QED
          BY <3>1, <3>2, <3>3, <3>4, <4>1
      <3>5. CASE v[1] # p
        BY <3>1, <3>2, <3>3, <3>5
      <3>6. QED
        BY <3>4, <3>5
    <2>2. w \in Procs \X (1..Rounds)
      BY <1>1
    <2>3. Written' \subseteq Procs \X (1..Rounds) /\ Written \subseteq Procs \X (1..Rounds)
      BY DEF Written, Procs
    <2>4. QED
      BY <2>1, <2>2, <2>3
  <1> HIDE DEF w
  <1>4. QED
    BY <1>2, <1>3, WrittenFinite, FS_AddElement DEF AllWrites

\* No element, and no maximum somebody has, is ahead of the writes.
Bounded ==
    /\ \A k \in Index \ {0} : array[k] <= AllWrites
    /\ \A p \in Procs : max[p] <= AllWrites

\* A step other than a write leaves the count of the writes.
LEMMA CountKept ==
  ASSUME IInv, NEW p \in Procs, NEW to, pc' = [pc EXCEPT ![p] = to],
         LET past == {"post1", "wait0", "test", "raise", "post0"}
         IN  (to \in past <=> pc[p] \in past) /\ i' = i
  PROVE  AllWrites' = AllWrites
  <1>1. \A q \in Procs : Writes(q)' = Writes(q)
    BY DEF Writes, IInv, TypeOK
  <1>2. QED
    BY <1>1, SameWrites

\* Every step keeps the bound: an element grows by a write only, to one more than
\* a maximum that was within the writes before this one.
LEMMA BoundKept == IInv /\ IInv' /\ Bounded /\ [Next]_vars => Bounded'
  <1> SUFFICES ASSUME IInv, IInv', Bounded, [Next]_vars PROVE Bounded'
    OBVIOUS
  <1> USE ArrayAssumption
  <1>0. TypeOK /\ TypeOK' /\ Counted /\ Counted' /\ AllWrites \in Nat
    BY WrittenFinite DEF IInv
  <1>1. ASSUME UNCHANGED <<array, max>>, AllWrites' = AllWrites PROVE Bounded'
    BY <1>1 DEF Bounded, Procs, Index
  <1>2. CASE Fork
    <2>1. forked + 1 \in Procs /\ pc[forked + 1] = "none"
      BY <1>2, <1>0 DEF Fork, IInv, Unborn, TypeOK, Procs
    <2>2. pc' = [pc EXCEPT ![forked + 1] = "read"] /\ UNCHANGED <<array, i, max>>
      BY <1>2 DEF Fork, locals
    <2>3. QED
      BY <1>1, <2>1, <2>2, CountKept
  <1>3. CASE ForkFails \/ Wait \/ PrintAndRemove \/ UNCHANGED vars
    <2>1. UNCHANGED <<array, pc, i, max>>
      BY <1>3 DEF ForkFails, Wait, PrintAndRemove, vars, locals
    <2>2. \A p \in Procs : Writes(p)' = Writes(p)
      BY <2>1 DEF Writes
    <2>3. QED
      BY <1>1, <2>1, <2>2, SameWrites
  <1>4. ASSUME NEW p \in Procs, Read(p) PROVE Bounded'
    <2>1. PICK to \in {"wait1", "read"} : pc' = [pc EXCEPT ![p] = to]
      BY <1>4 DEF Read, GoTo
    <2>2. pc[p] = "read" /\ UNCHANGED <<array, i>>
      BY <1>4 DEF Read, GoTo
    <2>3. AllWrites' = AllWrites
      BY <2>1, <2>2, CountKept
    <2>4. j[p] \in Index \ {0} /\ array[j[p]] <= AllWrites
      <3>1. j[p] \in 1 .. N - 1
        BY <1>0 DEF TypeOK
      <3>2. j[p] \in Index \ {0}
        BY <3>1 DEF Index
      <3>3. QED
        BY <3>2 DEF Bounded
    <2>5. max'[p] \in {array[j[p]], max[p]} /\ \A q \in Procs \ {p} : max'[q] = max[q]
      BY <1>0, <1>4 DEF Read, TypeOK
    <2>6. QED
      BY <2>2, <2>3, <2>4, <2>5 DEF Bounded, Procs, Index
  <1>5. ASSUME NEW p \in Procs, Write(p) PROVE Bounded'
    <2>1. pc[p] = "write" /\ pc' = [pc EXCEPT ![p] = "post1"] /\ UNCHANGED <<i, max>>
      BY <1>5 DEF Write, GoTo, locals
    <2>2. PICK loc \in 1 .. N - 1 : array' = [array EXCEPT ![loc] = max[p] + 1]
      BY <1>5 DEF Write
    <2>3. Writes(p)' = Writes(p) + 1 /\ \A q \in Procs \ {p} : Writes(q)' = Writes(q)
      BY <1>0, <2>1 DEF Writes, TypeOK
    <2>4. AllWrites' = AllWrites + 1
      BY <1>0, <2>3, OneMoreWrite
    <2>5. \A k \in Index \ {0} : array'[k] \in {array[k], max[p] + 1} /\ array[k] \in Nat
      BY <1>0, <2>2 DEF TypeOK
    <2>6. \A q \in Procs : max[q] \in Nat
      BY <1>0 DEF TypeOK
    <2>7. QED
      BY <1>0, <2>1, <2>4, <2>5, <2>6 DEF Bounded, Procs, Index
  <1>6. ASSUME NEW p \in Procs, Wait1(p) \/ Post1(p) \/ Wait0(p) \/ Test(p) PROVE Bounded'
    <2>1. UNCHANGED <<array, i, max>>
      BY <1>6 DEF Wait1, Post1, Wait0, Test, locals
    <2>2. PICK to \in {"write", "wait0", "test", "raise", "post0"} :
              /\ pc' = [pc EXCEPT ![p] = to]
              /\ to = "write" <=> pc[p] = "wait1"
              /\ pc[p] \in {"wait1", "post1", "wait0", "test"}
      BY <1>6 DEF Wait1, Post1, Wait0, Test, GoTo
    <2>3. QED
      BY <1>1, <2>1, <2>2, CountKept
  <1>7. ASSUME NEW p \in Procs, Raise(p) PROVE Bounded'
    <2>1. pc[p] = "raise" /\ pc' = [pc EXCEPT ![p] = "post0"] /\ UNCHANGED <<i, max>>
      BY <1>7 DEF Raise, GoTo, locals
    <2>2. AllWrites' = AllWrites
      BY <2>1, CountKept
    <2>3. \A k \in Index \ {0} : array'[k] = array[k]
      BY <1>0, <1>7 DEF Raise, TypeOK
    <2>4. QED
      BY <2>1, <2>2, <2>3 DEF Bounded, Procs, Index
  <1>8. ASSUME NEW p \in Procs, Post0(p) PROVE Bounded'
    <2>1. UNCHANGED <<array, max>>
      BY <1>8 DEF Post0
    <2>2. PICK to \in {"read", "exit"} : pc' = [pc EXCEPT ![p] = to]
      BY <1>8 DEF Post0, GoTo
    <2>3. pc[p] = "post0" /\ i' = [i EXCEPT ![p] = i[p] + 1]
      BY <1>8 DEF Post0, GoTo
    <2>4. \A q \in Procs : Writes(q)' = Writes(q)
      BY <1>0, <2>2, <2>3 DEF Writes, TypeOK
    <2>5. QED
      BY <1>1, <2>1, <2>4, SameWrites
  <1>9. QED
    BY <1>2, <1>3, <1>4, <1>5, <1>6, <1>7, <1>8 DEF Next, Main, Step, Finished

\* Stale maxima never put an element ahead of the number of writes, and main prints
\* the array as it stays.
THEOREM StaleMaximaAreSafe == Spec => []ElementsBounded
  <1>1. Init => Bounded
    <2> SUFFICES ASSUME Init PROVE Bounded
      OBVIOUS
    <2>1. AllWrites \in Nat
      BY WrittenFinite
    <2>2. QED
      BY <2>1, ArrayAssumption DEF Init, Bounded, Index
  <1>2. IInv /\ Bounded => ElementsBounded
    BY DEF IInv, Printing, Bounded, ElementsBounded
  <1>3. QED
    BY <1>1, <1>2, Invariance, BoundKept, PTL DEF Spec
=============================================================================
