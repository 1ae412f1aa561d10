----------------------- MODULE ThreadPrograms_proofs -----------------------
(***************************************************************************)
(* Proofs about module ThreadPrograms, for every number of rounds, of      *)
(* threads and of pairs and for every limit.                               *)
(*                                                                         *)
(* ab_ex.c: a semaphore counts the posts that both threads have made       *)
(* beyond their waits, and none is below zero.  That alone leaves 29       *)
(* places of a round in which the two threads can be together, and in      *)
(* each of them the next character is decided.                             *)
(*                                                                         *)
(* The other programs: main starts its threads one by one and is past a    *)
(* pthread_join only of threads that have ended (Family), or, in mutex1.c, *)
(* that it could not create (Mutex1Inv); mutex 1 is held by the one thread *)
(* inside its section (Excl); the number of threads behind a call gives    *)
(* the lines that are out and what the shared variable holds.  In          *)
(* oddevev.c and sem_ex1.cpp the order is not the mutex's or main's doing  *)
(* and has an invariant of its own (OddInv, KinInv).                       *)
(***************************************************************************)
EXTENDS ThreadPrograms, SequenceTheorems, FiniteSetTheorems, TLAPS

-----------------------------------------------------------------------------
(* Steps                                                                   *)

Act(t) == Step(t) \/ CreateFails(t) \/ JoinNobody(t) \/ ForkFails(t)

\* The call a thread is at decides what it does.
LEMMA Kinds ==
  ASSUME NEW t, Act(t)
  PROVE  /\ pc[t] > 0 /\ ~over /\ prog' = prog
         /\ Op(t).op \in {"create", "join", "lock", "unlock", "sem_wait", "sem_post", "load", "store",
                          "print", "parity", "while", "end", "exit", "assert", "acquire", "release",
                          "fork", "remove"}
         /\ Op(t).op = "create" => Create(t) \/ (Op(t).b \in {1, 2} /\ CreateFails(t))
         /\ Op(t).op = "join" => Join(t) \/ (prog = "mutex1" /\ JoinNobody(t))
         /\ Op(t).op = "lock" => Lock(t)
         /\ Op(t).op = "unlock" => Unlock(t)
         /\ Op(t).op = "sem_wait" => SemWait(t)
         /\ Op(t).op = "sem_post" => SemPost(t)
         /\ Op(t).op = "load" => Load(t)
         /\ Op(t).op = "store" => Store(t)
         /\ Op(t).op = "print" => PutOut(t)
         /\ Op(t).op = "parity" => Parity(t)
         /\ Op(t).op = "while" => While(t)
         /\ Op(t).op = "end" => End(t)
         /\ Op(t).op = "exit" => Exit(t)
         /\ Op(t).op = "assert" => AssertOne(t)
         /\ Op(t).op = "acquire" => Acquire(t)
         /\ Op(t).op = "release" => Release(t)
         /\ Op(t).op = "fork" => Fork(t) \/ ForkFails(t)
         /\ Op(t).op = "remove" => Remove(t)
  BY DEF Act, At, Step, Create, Join, Lock, Unlock, SemWait, SemPost, Load, Store, PutOut, Parity, While,
         End, Exit, AssertOne, Acquire, Release, Fork, Remove, CreateFails, JoinNobody, JoinsNobody, ForkFails

LEMMA Cases == [Next]_vars <=> (\E t \in Threads : Act(t)) \/ UNCHANGED vars
  BY DEF Next, Act

LEMMA SameProgram == [Next]_vars => prog' = prog
  BY Cases, Kinds DEF vars

-----------------------------------------------------------------------------
(* The programs' code, and what every program keeps                        *)

\* The threads of a program.
Team(g) ==
    CASE g = "mutex" -> 1 .. 1 + 2 * Pairs
      [] g \in {"join1", "hello"} -> 1 .. 1 + NThreads
      [] g = "ex_pthread1" -> 1..2
      [] g = "sem_ex1" -> 1..4
      [] OTHER -> 1..3

Texts == {"A", "B", "C", "D", "i", "j", "1:", "2:", "counter", "failed", "final", "number", "hello", "x",
          "returns", "message", "no", "parent", "child1", "child2", "grandchild"}

\* Call number i of n is one of the program's: it refers to threads and mutexes of
\* the program, and goes on inside of the code.
WellPlaced(c, i, n, g) ==
    /\ c.op \notin {"end", "exit", "spin"} => i < n
    /\ c.op \in {"create", "fork"} => c.a \in Team(g)
    /\ c.op = "create" /\ c.b = 2 => g = "mutex1"
    /\ c.op \in {"lock", "unlock"} => c.a \in Mutexes
    /\ c.op \in {"sem_wait", "sem_post"} => c.a \in Sems /\ g = "ab_ex"
    /\ c.op \in {"assert", "acquire", "release", "fork", "remove"} => g = "sem_ex1"
    /\ c.op \in {"load", "store"} => g \in {"mutex1", "join1", "ex_pthread1", "oddevev"}
    /\ c.op = "print" => c.a \in Texts
    /\ c.op \in {"parity", "acquire", "fork"} => c.b \in 1..n
    /\ c.op = "while" => c.a \in 1..n

Well(s, g) == /\ Len(s) \in Nat \ {0}
              /\ \A i \in 1..Len(s) : WellPlaced(s[i], i, Len(s), g)

LEMMA Calls ==
  ASSUME NEW a, NEW b
  PROVE  /\ create(a).op = "create" /\ create(a).a = a /\ create(a).b = 0
         /\ createOrExit(a).op = "create" /\ createOrExit(a).a = a /\ createOrExit(a).b = 1
         /\ createOrGoOn(a).op = "create" /\ createOrGoOn(a).a = a /\ createOrGoOn(a).b = 2
         /\ join(a).op = "join" /\ join(a).a = a
         /\ lock(a).op = "lock" /\ lock(a).a = a
         /\ unlock(a).op = "unlock" /\ unlock(a).a = a
         /\ wait(a).op = "sem_wait" /\ wait(a).a = a
         /\ post(a).op = "sem_post" /\ post(a).a = a
         /\ load.op = "load" /\ store.op = "store"
         /\ print(a).op = "print" /\ print(a).a = a
         /\ isParity(a, b).op = "parity" /\ isParity(a, b).a = a /\ isParity(a, b).b = b
         /\ while(a).op = "while" /\ while(a).a = a
         /\ spin.op = "spin" /\ exit.op = "exit" /\ end.op = "end" /\ assertOne.op = "assert"
         /\ acquire(a).op = "acquire" /\ acquire(a).b = a
         /\ release.op = "release" /\ remove.op = "remove"
         /\ fork(a, b).op = "fork" /\ fork(a, b).a = a /\ fork(a, b).b = b
  BY DEF create, createOrExit, createOrGoOn, join, lock, unlock, wait, post, load, store, print, isParity, while,
         spin, exit, end, assertOne, acquire, release, remove, fork, call

LEMMA CreateJoin ==
  /\ \A u : create(u).op = "create" /\ create(u).a = u /\ create(u).b = 0
  /\ \A u : join(u).op = "join" /\ join(u).a = u
  BY DEF create, join, call

\* The programs whose threads have fixed texts.
LEMMA WellFixed ==
  /\ Well(AbExMain, "ab_ex")
  /\ Well(DeadlockMain, "deadlock") /\ Well(print_i, "deadlock") /\ Well(print_j, "deadlock")
  /\ Well(Print12, "mutex")
  /\ Well(Mutex1Main, "mutex1") /\ Well(functionC, "mutex1")
  /\ Well(thread_function, "join1")
  /\ Well(PrintHello, "hello")
  /\ Well(ExPthread1Main, "ex_pthread1")
  /\ Well(ExPthread2Main, "ex_pthread2") /\ Well(print_message_function, "ex_pthread2")
  /\ Well(OddEvEvMain, "oddevev") /\ Well(PrintNos(0), "oddevev") /\ Well(PrintNos(1), "oddevev")
  /\ Well(FamilyMain, "sem_ex1") /\ Well(child1, "sem_ex1") /\ Well(Child2, "sem_ex1")
  /\ Well(Grandchild, "sem_ex1")
  <1> USE Calls DEF Well, WellPlaced, Team, Mutexes, Sems, Texts
  <1>1. Well(AbExMain, "ab_ex")
    BY DEF AbExMain
  <1>2. Well(DeadlockMain, "deadlock")
    BY DEF DeadlockMain
  <1>3. Well(print_i, "deadlock")
    BY DEF print_i
  <1>4. Well(print_j, "deadlock")
    BY DEF print_j
  <1>5. Well(Print12, "mutex")
    BY DEF Print12
  <1>6. Well(Mutex1Main, "mutex1")
    BY DEF Mutex1Main
  <1>7. Well(functionC, "mutex1")
    BY DEF functionC
  <1>8. Well(thread_function, "join1")
    BY DEF thread_function
  <1>9. Well(PrintHello, "hello")
    BY DEF PrintHello
  <1>10. Well(ExPthread1Main, "ex_pthread1")
    BY DEF ExPthread1Main
  <1>11. Well(ExPthread2Main, "ex_pthread2")
    BY DEF ExPthread2Main
  <1>12. Well(print_message_function, "ex_pthread2")
    BY DEF print_message_function
  <1>13. Well(OddEvEvMain, "oddevev")
    BY DEF OddEvEvMain
  <1>14. ASSUME NEW r \in {0, 1} PROVE Well(PrintNos(r), "oddevev")
    BY DEF PrintNos
  <1>15. Well(FamilyMain, "sem_ex1")
    BY DEF FamilyMain
  <1>16. Well(child1, "sem_ex1")
    BY DEF child1
  <1>17. Well(Child2, "sem_ex1")
    BY DEF Child2
  <1>18. Well(Grandchild, "sem_ex1")
    BY DEF Grandchild
  <1>19. QED
    BY <1>1, <1>2, <1>3, <1>4, <1>5, <1>6, <1>7, <1>8, <1>9, <1>10, <1>11, <1>12, <1>13,
       <1>14, <1>15, <1>16, <1>17, <1>18

\* Two texts behind each other.
LEMMA Concat ==
  ASSUME NEW n \in Nat, NEW m \in Nat, NEW s, NEW t,
         s = [i \in 1..n |-> s[i]], t = [i \in 1..m |-> t[i]]
  PROVE  /\ Len(s \o t) = n + m
         /\ s \o t = [i \in 1 .. n + m |-> (s \o t)[i]]
         /\ \A i \in 1..n : (s \o t)[i] = s[i]
         /\ \A i \in 1..m : (s \o t)[n + i] = t[i]
  <1> DEFINE S == {s[i] : i \in 1..n} \cup {t[i] : i \in 1..m}
  <1>1. s \in [1..n -> S] /\ t \in [1..m -> S]
    OBVIOUS
  <1> HIDE DEF S
  <1>2. s \in Seq(S) /\ Len(s) = n /\ t \in Seq(S) /\ Len(t) = m
    BY <1>1
  <1>3. /\ s \o t \in Seq(S) /\ Len(s \o t) = Len(s) + Len(t)
        /\ \A i \in 1 .. Len(s) + Len(t) : (s \o t)[i] = IF i <= Len(s) THEN s[i] ELSE t[i - Len(s)]
    BY <1>2, ConcatProperties
  <1>4. /\ Len(s \o t) = n + m
        /\ \A i \in 1 .. n + m : (s \o t)[i] = IF i <= n THEN s[i] ELSE t[i - n]
    BY <1>2, <1>3
  <1>5. \A i \in 1..n : i \in 1 .. n + m /\ i <= n
    OBVIOUS
  <1>6. \A i \in 1..m : n + i \in 1 .. n + m /\ ~(n + i <= n) /\ (n + i) - n = i
    OBVIOUS
  <1>7. s \o t = [i \in 1 .. n + m |-> (s \o t)[i]]
    BY <1>3, <1>4
  <1>8. QED
    BY <1>4, <1>5, <1>6, <1>7

\* main of mutex.c, join1.c and hello.c, and the loop of ex_pthread1.c.
LEMMA MutexMainCode ==
  /\ Len(MutexMain) = 2 * Pairs + 1
  /\ \A i \in 1 .. 2 * Pairs : MutexMain[i] = create(i + 1)
  /\ MutexMain[2 * Pairs + 1] = spin
  <1> DEFINE n == 2 * Pairs
             s == [i \in 1..n |-> create(i + 1)]
             t == <<spin>>
  <1>1. n \in Nat
    BY BoundsAssumption
  <1>2. MutexMain = s \o t
    BY DEF MutexMain
  <1>3. s = [i \in 1..n |-> s[i]] /\ t = [i \in 1..1 |-> t[i]] /\ t[1] = spin
    OBVIOUS
  <1>4. \A i \in 1..n : s[i] = create(i + 1)
    OBVIOUS
  <1> HIDE DEF n, s, t
  <1>5. Len(s \o t) = n + 1 /\ (\A i \in 1..n : (s \o t)[i] = s[i]) /\ (s \o t)[n + 1] = t[1]
    BY <1>1, <1>3, Concat
  <1>6. QED
    BY <1>2, <1>3, <1>4, <1>5 DEF n

LEMMA HelloMainCode ==
  /\ Len(HelloMain) = NThreads + 1
  /\ \A i \in 1..NThreads : HelloMain[i] = createOrExit(i + 1)
  /\ HelloMain[NThreads + 1] = end
  <1> DEFINE s == [i \in 1..NThreads |-> createOrExit(i + 1)]
             t == <<end>>
  <1>1. NThreads \in Nat
    BY BoundsAssumption
  <1>2. HelloMain = s \o t
    BY DEF HelloMain
  <1>3. s = [i \in 1..NThreads |-> s[i]] /\ t = [i \in 1..1 |-> t[i]] /\ t[1] = end
    OBVIOUS
  <1>4. \A i \in 1..NThreads : s[i] = createOrExit(i + 1)
    OBVIOUS
  <1> HIDE DEF s, t
  <1>5. /\ Len(s \o t) = NThreads + 1 /\ (s \o t)[NThreads + 1] = t[1]
        /\ \A i \in 1..NThreads : (s \o t)[i] = s[i]
    BY <1>1, <1>3, Concat
  <1>6. QED
    BY <1>2, <1>3, <1>4, <1>5

LEMMA Join1MainCode ==
  /\ Len(Join1Main) = 2 * NThreads + 2
  /\ \A i \in 1..NThreads : /\ Join1Main[i] = create(i + 1)
                            /\ Join1Main[NThreads + i] = join(i + 1)
  /\ Join1Main[2 * NThreads + 1] = print("final")
  /\ Join1Main[2 * NThreads + 2] = exit
  <1> DEFINE s == [i \in 1..NThreads |-> create(i + 1)]
             t == [i \in 1..NThreads |-> join(i + 1)]
             u == <<print("final"), exit>>
  <1>1. NThreads \in Nat /\ NThreads + NThreads = 2 * NThreads /\ 2 * NThreads \in Nat
    BY BoundsAssumption
  <1>2. Join1Main = (s \o t) \o u
    BY DEF Join1Main
  <1>3. s = [i \in 1..NThreads |-> s[i]] /\ t = [i \in 1..NThreads |-> t[i]]
    OBVIOUS
  <1>4. u = [i \in 1..2 |-> u[i]] /\ u[1] = print("final") /\ u[2] = exit
    OBVIOUS
  <1>5. \A i \in 1..NThreads : s[i] = create(i + 1) /\ t[i] = join(i + 1)
    OBVIOUS
  <1> HIDE DEF s, t, u
  <1> DEFINE r == s \o t
  <1>6. /\ r = [i \in 1 .. NThreads + NThreads |-> r[i]]
        /\ \A i \in 1..NThreads : r[i] = s[i] /\ r[NThreads + i] = t[i]
    BY <1>1, <1>3, Concat
  <1>7. r = [i \in 1 .. 2 * NThreads |-> r[i]]
    BY <1>1, <1>6
  <1> HIDE DEF r
  <1>8. /\ Len(r \o u) = 2 * NThreads + 2
        /\ \A i \in 1 .. 2 * NThreads : (r \o u)[i] = r[i]
        /\ \A i \in 1..2 : (r \o u)[2 * NThreads + i] = u[i]
    BY <1>1, <1>4, <1>7, Concat
  <1>9. \A i \in 1..NThreads : i \in 1 .. 2 * NThreads /\ NThreads + i \in 1 .. 2 * NThreads
    BY <1>1
  <1>10. 1 \in 1..2 /\ 2 \in 1..2
    OBVIOUS
  <1>11. Join1Main = r \o u
    BY <1>2 DEF r
  <1>12. QED
    BY <1>4, <1>5, <1>6, <1>8, <1>9, <1>10, <1>11

LEMMA IncCode ==
  /\ Len(inc_x) = 2 * Last + 1
  /\ \A i \in 1 .. 2 * Last : inc_x[i] = IF (i - 1) % 2 = 0 THEN load ELSE store
  /\ inc_x[2 * Last + 1] = end
  <1> DEFINE n == Last * 2
             s == [i \in 1..n |-> <<load, store>>[((i - 1) % 2) + 1]]
             t == <<end>>
  <1>1. n \in Nat /\ n = 2 * Last
    BY BoundsAssumption
  <1>2. inc_x = s \o t
    BY DEF inc_x, Times
  <1>3. s = [i \in 1..n |-> s[i]] /\ t = [i \in 1..1 |-> t[i]] /\ t[1] = end
    OBVIOUS
  <1>4. \A i \in 1..n : s[i] = IF (i - 1) % 2 = 0 THEN load ELSE store
    <2>1. \A i \in 1..n : (i - 1) % 2 = 0 \/ (i - 1) % 2 = 1
      OBVIOUS
    <2>2. \A i \in 1..n : s[i] = <<load, store>>[((i - 1) % 2) + 1]
      OBVIOUS
    <2> HIDE DEF s
    <2>3. QED
      BY <2>1, <2>2
  <1> HIDE DEF n, s, t
  <1>5. Len(s \o t) = n + 1 /\ (\A i \in 1..n : (s \o t)[i] = s[i]) /\ (s \o t)[n + 1] = t[1]
    BY <1>1, <1>3, Concat
  <1>6. QED
    BY <1>1, <1>2, <1>3, <1>4, <1>5

\* The rounds of ab_ex.c.
Body(t) == IF t = 2 THEN BodyA ELSE BodyB

LEMMA AbExCode ==
  ASSUME NEW t \in {2, 3}
  PROVE  /\ \A i \in 1 .. 12 * NLoops : Code("ab_ex", t)[i] = Body(t)[((i - 1) % 12) + 1]
         /\ Code("ab_ex", t)[12 * NLoops + 1] = end
         /\ Len(Code("ab_ex", t)) = 12 * NLoops + 1
  <1> DEFINE n == NLoops * 12
             s == [i \in 1..n |-> Body(t)[((i - 1) % 12) + 1]]
             u == <<end>>
  <1>1. n \in Nat /\ n = 12 * NLoops
    BY BoundsAssumption
  <1>2. Len(Body(t)) = 12
    BY DEF Body, BodyA, BodyB
  <1>3. Code("ab_ex", t) = s \o u
    <2>1. Code("ab_ex", t) = AbEx[t]
      BY DEF Code
    <2>2. AbEx[t] = Times(NLoops, Body(t)) \o <<end>>
      BY DEF AbEx, Body
    <2>3. Times(NLoops, Body(t)) = s
      BY <1>2 DEF Times
    <2>4. QED
      BY <2>1, <2>2, <2>3
  <1>4. s = [i \in 1..n |-> s[i]] /\ u = [i \in 1..1 |-> u[i]] /\ u[1] = end
    OBVIOUS
  <1>5. \A i \in 1..n : s[i] = Body(t)[((i - 1) % 12) + 1]
    OBVIOUS
  <1> HIDE DEF n, s, u
  <1>6. Len(s \o u) = n + 1 /\ (\A i \in 1..n : (s \o u)[i] = s[i]) /\ (s \o u)[n + 1] = u[1]
    BY <1>1, <1>4, Concat
  <1>7. QED
    BY <1>1, <1>3, <1>4, <1>5, <1>6

LEMMA Bodies ==
  /\ \A k \in 1..12 :
        \/ /\ BodyA[k].op = "sem_wait"
           /\ (k \in {1, 7} /\ BodyA[k].a = 0) \/ (k = 10 /\ BodyA[k].a = 3)
        \/ /\ BodyA[k].op = "sem_post"
           /\ \/ k \in {3, 9} /\ BodyA[k].a = 1
              \/ k \in {6, 12} /\ BodyA[k].a = 2
              \/ k = 5 /\ BodyA[k].a = 3
        \/ /\ BodyA[k].op = "print"
           /\ (k \in {2, 8} /\ BodyA[k].a = "A") \/ (k \in {4, 11} /\ BodyA[k].a = "B")
  /\ \A k \in 1..12 :
        \/ /\ BodyB[k].op = "sem_wait"
           /\ \/ k \in {1, 7} /\ BodyB[k].a = 1
              \/ k \in {4, 10} /\ BodyB[k].a = 2
              \/ k = 2 /\ BodyB[k].a = 3
        \/ /\ BodyB[k].op = "sem_post"
           /\ (k \in {6, 12} /\ BodyB[k].a = 0) \/ (k = 9 /\ BodyB[k].a = 3)
        \/ /\ BodyB[k].op = "print"
           /\ (k \in {3, 8} /\ BodyB[k].a = "C") \/ (k \in {5, 11} /\ BodyB[k].a = "D")
  <1>1. \A k \in 1..12 : \/ k = 1 \/ k = 2 \/ k = 3 \/ k = 4 \/ k = 5 \/ k = 6
                         \/ k = 7 \/ k = 8 \/ k = 9 \/ k = 10 \/ k = 11 \/ k = 12
    OBVIOUS
  <1>2. /\ BodyA[1] = wait(0) /\ BodyA[2] = print("A") /\ BodyA[3] = post(1)
        /\ BodyA[4] = print("B") /\ BodyA[5] = post(3) /\ BodyA[6] = post(2)
        /\ BodyA[7] = wait(0) /\ BodyA[8] = print("A") /\ BodyA[9] = post(1)
        /\ BodyA[10] = wait(3) /\ BodyA[11] = print("B") /\ BodyA[12] = post(2)
    BY DEF BodyA
  <1>3. /\ BodyB[1] = wait(1) /\ BodyB[2] = wait(3) /\ BodyB[3] = print("C")
        /\ BodyB[4] = wait(2) /\ BodyB[5] = print("D") /\ BodyB[6] = post(0)
        /\ BodyB[7] = wait(1) /\ BodyB[8] = print("C") /\ BodyB[9] = post(3)
        /\ BodyB[10] = wait(2) /\ BodyB[11] = print("D") /\ BodyB[12] = post(0)
    BY DEF BodyB
  <1>4. /\ \A i : wait(i).op = "sem_wait" /\ wait(i).a = i
        /\ \A i : post(i).op = "sem_post" /\ post(i).a = i
        /\ \A i : print(i).op = "print" /\ print(i).a = i
    BY DEF wait, post, print, call
  <1>5. QED
    BY <1>1, <1>2, <1>3, <1>4

\* All programs are well formed.
LEMMA WellFormed ==
  ASSUME NEW g \in AllPrograms, NEW t \in Team(g)
  PROVE  Well(Code(g, t), g)
  <1>1. CASE g = "ab_ex"
    <2>1. CASE t = 1
      BY <1>1, <2>1, WellFixed DEF Code, AbEx
    <2>2. CASE t \in {2, 3}
      <3>1. Len(Code(g, t)) = 12 * NLoops + 1 /\ 12 * NLoops \in Nat
        BY <1>1, <2>2, AbExCode, BoundsAssumption
      <3>2. ASSUME NEW i \in 1 .. 12 * NLoops
            PROVE  WellPlaced(Code(g, t)[i], i, 12 * NLoops + 1, g)
        <4> DEFINE k == ((i - 1) % 12) + 1
        <4>1. k \in 1..12 /\ Code(g, t)[i] = Body(t)[k]
          <5>1. (i - 1) % 12 \in 0..11
            OBVIOUS
          <5>2. Code(g, t)[i] = Body(t)[k]
            BY <1>1, <2>2, AbExCode
          <5>3. QED
            BY <5>1, <5>2
        <4> HIDE DEF k
        <4>2. \/ Body(t)[k].op \in {"sem_wait", "sem_post"} /\ Body(t)[k].a \in Sems
              \/ Body(t)[k].op = "print" /\ Body(t)[k].a \in {"A", "B", "C", "D"}
          BY <4>1, <2>2, Bodies DEF Body, Sems
        <4>3. i < 12 * NLoops + 1
          BY <3>1
        <4>4. QED
          BY <1>1, <4>1, <4>2, <4>3 DEF WellPlaced, Texts
      <3>3. WellPlaced(Code(g, t)[12 * NLoops + 1], 12 * NLoops + 1, 12 * NLoops + 1, g)
        BY <1>1, <2>2, AbExCode, Calls DEF WellPlaced
      <3>4. QED
        BY <3>1, <3>2, <3>3 DEF Well
    <2>3. QED
      BY <1>1, <2>1, <2>2 DEF Team
  <1>2. CASE g = "deadlock"
    BY <1>2, WellFixed DEF Code, Team
  <1>3. CASE g = "mutex"
    <2>1. Well(MutexMain, g)
      <3>1. 2 * Pairs \in Nat
        BY BoundsAssumption
      <3>2. \A i \in 1 .. 2 * Pairs : i < 2 * Pairs + 1 /\ i + 1 \in 1 .. 1 + 2 * Pairs
        BY <3>1
      <3>3. \A i \in 1 .. 2 * Pairs : WellPlaced(MutexMain[i], i, 2 * Pairs + 1, g)
        BY <1>3, <3>2, MutexMainCode, Calls DEF WellPlaced, Team
      <3>4. WellPlaced(MutexMain[2 * Pairs + 1], 2 * Pairs + 1, 2 * Pairs + 1, g)
        BY MutexMainCode, Calls DEF WellPlaced
      <3>5. QED
        BY <3>1, <3>3, <3>4, MutexMainCode DEF Well
    <2>2. QED
      BY <1>3, <2>1, WellFixed DEF Code
  <1>4. CASE g = "mutex1"
    BY <1>4, WellFixed DEF Code
  <1>5. CASE g = "join1"
    <2>1. Well(Join1Main, g)
      <3> DEFINE n == 2 * NThreads + 2
      <3>1. NThreads \in Nat /\ n \in Nat
        BY BoundsAssumption
      <3>2. \A i \in 1..NThreads : i < n /\ NThreads + i < n /\ i + 1 \in 1 .. 1 + NThreads
        BY <3>1
      <3>3. \A i \in 1..n : \/ i \in 1..NThreads
                            \/ \E k \in 1..NThreads : i = NThreads + k
                            \/ i = 2 * NThreads + 1
                            \/ i = n
        <4>1. ASSUME NEW i \in 1..n, i > NThreads, i <= 2 * NThreads
              PROVE  i - NThreads \in 1..NThreads /\ i = NThreads + (i - NThreads)
          BY <3>1, <4>1
        <4>2. QED
          BY <3>1, <4>1
      <3> HIDE DEF n
      <3>4. \A i \in 1..NThreads : /\ WellPlaced(Join1Main[i], i, n, g)
                                   /\ WellPlaced(Join1Main[NThreads + i], NThreads + i, n, g)
        <4>1. \A i \in 1..NThreads : /\ Join1Main[i].op = "create" /\ Join1Main[i].a = i + 1
                                     /\ Join1Main[i].b = 0 /\ Join1Main[NThreads + i].op = "join"
          BY Join1MainCode, CreateJoin
        <4>2. QED
          BY <1>5, <3>2, <4>1 DEF WellPlaced, Team
      <3>5. WellPlaced(Join1Main[2 * NThreads + 1], 2 * NThreads + 1, n, g)
        <4>1. 2 * NThreads + 1 < n
          BY <3>1 DEF n
        <4>2. /\ Join1Main[2 * NThreads + 1].op = "print"
              /\ Join1Main[2 * NThreads + 1].a = "final"
          BY Join1MainCode, Calls
        <4>3. QED
          BY <4>1, <4>2 DEF WellPlaced, Texts
      <3>6. WellPlaced(Join1Main[n], n, n, g)
        BY Join1MainCode, Calls DEF WellPlaced, n
      <3>7. \A i \in 1..n : WellPlaced(Join1Main[i], i, n, g)
        BY <3>3, <3>4, <3>5, <3>6
      <3>8. Len(Join1Main) = n /\ n # 0
        BY <3>1, Join1MainCode DEF n
      <3>9. QED
        BY <3>1, <3>7, <3>8 DEF Well
    <2>2. QED
      BY <1>5, <2>1, WellFixed DEF Code
  <1>6. CASE g = "hello"
    <2>1. Well(HelloMain, g)
      <3>1. NThreads \in Nat
        BY BoundsAssumption
      <3>2. \A i \in 1..NThreads : i < NThreads + 1 /\ i + 1 \in 1 .. 1 + NThreads
        BY <3>1
      <3>3. \A i \in 1..NThreads : WellPlaced(HelloMain[i], i, NThreads + 1, g)
        BY <1>6, <3>2, HelloMainCode, Calls DEF WellPlaced, Team
      <3>4. WellPlaced(HelloMain[NThreads + 1], NThreads + 1, NThreads + 1, g)
        BY HelloMainCode, Calls DEF WellPlaced
      <3>5. QED
        BY <3>1, <3>3, <3>4, HelloMainCode DEF Well
    <2>2. QED
      BY <1>6, <2>1, WellFixed DEF Code
  <1>7. CASE g = "ex_pthread1"
    <2>1. Well(inc_x, g)
      <3>1. 2 * Last \in Nat
        BY BoundsAssumption
      <3>2. \A i \in 1 .. 2 * Last : WellPlaced(inc_x[i], i, 2 * Last + 1, g)
        <4>1. \A i \in 1 .. 2 * Last : i < 2 * Last + 1
          BY <3>1
        <4>2. \A i \in 1 .. 2 * Last : inc_x[i].op \in {"load", "store"}
          BY IncCode, Calls
        <4>3. QED
          BY <1>7, <4>1, <4>2 DEF WellPlaced
      <3>3. WellPlaced(inc_x[2 * Last + 1], 2 * Last + 1, 2 * Last + 1, g)
        BY IncCode, Calls DEF WellPlaced
      <3>4. QED
        BY <3>1, <3>2, <3>3, IncCode DEF Well
    <2>2. QED
      BY <1>7, <2>1, WellFixed DEF Code
  <1>8. CASE g = "ex_pthread2"
    BY <1>8, WellFixed DEF Code
  <1>9. CASE g = "oddevev"
    BY <1>9, WellFixed DEF Code, Team
  <1>10. CASE g = "sem_ex1"
    BY <1>10, WellFixed DEF Code, Team
  <1>11. QED
    BY <1>1, <1>2, <1>3, <1>4, <1>5, <1>6, <1>7, <1>8, <1>9, <1>10 DEF AllPrograms

-----------------------------------------------------------------------------
(* ab_ex.c                                                                 *)

\* How many calls of its rounds thread t has behind it.
Done(t) == IF pc[t] = 0 THEN 0 ELSE IF pc[t] = Gone THEN 12 * NLoops ELSE pc[t] - 1

\* How often call i of a round is among the first n calls.
Passed(n, i) == n \div 12 + (IF n % 12 >= i THEN 1 ELSE 0)

A(i) == Passed(Done(2), i)
B(i) == Passed(Done(3), i)

AbExPlaces ==
    /\ pc \in [Threads -> Int]
    /\ pc[1] \in 1..5
    /\ \A t \in {2, 3} : pc[t] \in {0, Gone} \cup 1 .. 12 * NLoops + 1
    /\ pc[1] = 1 => pc[2] = 0
    /\ pc[1] <= 2 => pc[3] = 0
    /\ \A t \in Threads \ 1..3 : pc[t] = 0
    /\ ~removed
    /\ undo = [t \in Threads |-> 0]
    /\ sem \in [Sems -> Nat]
    /\ shared = 0
    /\ out \in Seq([by : Threads, what : {"A", "B", "C", "D"}, value : Int])

\* Each semaphore is what it was, and the posts behind both threads without the
\* waits behind them; the output is as long as they have prints behind them.
Value0 == 1 + B(6) + B(12) - A(1) - A(7)
Value1 == A(3) + A(9) - B(1) - B(7)
Value2 == A(6) + A(12) - B(4) - B(10)
Value3 == A(5) + B(9) - A(10) - B(2)
Prints == A(2) + A(4) + A(8) + A(11) + B(3) + B(5) + B(8) + B(11)

AbExCounts ==
    /\ sem[0] = Value0 /\ sem[1] = Value1 /\ sem[2] = Value2 /\ sem[3] = Value3
    /\ Len(out) = Prints

AbExInv == prog = "ab_ex" => AbExPlaces /\ AbExCounts

\* Dividing by the length of a round.
LEMMA Rounds ==
  /\ \A n \in Nat : n \div 12 \in Nat /\ n % 12 \in 0..11 /\ n % 12 = n - 12 * (n \div 12)
  /\ \A n \in Nat : IF n % 12 = 11 THEN /\ (n + 1) \div 12 = n \div 12 + 1
                                        /\ (n + 1) % 12 = 0
                                   ELSE /\ (n + 1) \div 12 = n \div 12
                                        /\ (n + 1) % 12 = (n % 12) + 1
  <1>1. ASSUME NEW n \in Nat
        PROVE  n \div 12 \in Nat /\ n % 12 \in 0..11 /\ n % 12 = n - 12 * (n \div 12)
    OBVIOUS
  <1>2. ASSUME NEW n \in Nat, NEW q \in Nat, NEW r \in 0..11, n = 12 * q + r
        PROVE  n \div 12 = q /\ n % 12 = r
    BY <1>2, SMTT(30)
  <1>3. ASSUME NEW n \in Nat
        PROVE  IF n % 12 = 11 THEN (n + 1) \div 12 = n \div 12 + 1 /\ (n + 1) % 12 = 0
                              ELSE (n + 1) \div 12 = n \div 12 /\ (n + 1) % 12 = (n % 12) + 1
    <2> DEFINE q == n \div 12
               r == n % 12
    <2>1. q \in Nat /\ r \in 0..11 /\ r = n - 12 * q
      BY <1>1
    <2> HIDE DEF q, r
    <2>2. CASE r = 11
      <3>1. n + 1 = 12 * (q + 1) + 0 /\ q + 1 \in Nat /\ n + 1 \in Nat
        BY <2>1, <2>2
      <3>2. (n + 1) \div 12 = q + 1 /\ (n + 1) % 12 = 0
        BY <3>1, <1>2
      <3>3. QED
        BY <3>2, <2>2 DEF q, r
    <2>3. CASE r # 11
      <3>1. n + 1 = 12 * q + (r + 1) /\ r + 1 \in 0..11 /\ n + 1 \in Nat
        BY <2>1, <2>3
      <3>2. (n + 1) \div 12 = q /\ (n + 1) % 12 = r + 1
        BY <3>1, <2>1, <1>2
      <3>3. QED
        BY <3>2, <2>3 DEF q, r
    <2>4. QED
      BY <2>2, <2>3
  <1>4. QED
    BY <1>1, <1>3

\* One more call is one more pass of that call and of no other.
LEMMA PassedStep ==
  ASSUME NEW n \in Nat, NEW i \in 1..12
  PROVE  /\ Passed(n, i) \in Nat
         /\ Passed(n + 1, i) = Passed(n, i) + (IF i = (n % 12) + 1 THEN 1 ELSE 0)
  BY Rounds, SMTT(30) DEF Passed

\* The calls of the two threads.
LEMMA Threads123 == 1..4 \subseteq Threads /\ Threads \subseteq Nat
  <1>1. MaxOf(MaxOf(NThreads, 2 * Pairs), 3) \in Nat /\ MaxOf(MaxOf(NThreads, 2 * Pairs), 3) >= 3
    BY BoundsAssumption DEF MaxOf
  <1>2. QED
    BY <1>1 DEF Threads

\* A thread in its rounds: the call it is at, and what passing it does to the counts.
At12(t) == (Done(t) % 12) + 1

LEMMA InRounds ==
  ASSUME prog = "ab_ex", AbExPlaces, NEW t \in {2, 3}, pc[t] \in 1 .. 12 * NLoops
  PROVE  Done(t) = pc[t] - 1 /\ At12(t) \in 1..12 /\ Op(t) = Body(t)[At12(t)]
  <1>1. Done(t) = pc[t] - 1
    BY BoundsAssumption DEF Done, Gone
  <1>2. pc[t] - 1 \in Nat
    BY BoundsAssumption
  <1>3. Code(prog, t)[pc[t]] = Body(t)[((pc[t] - 1) % 12) + 1]
    BY AbExCode
  <1>4. (pc[t] - 1) % 12 \in 0..11
    BY <1>2
  <1>5. QED
    BY <1>1, <1>3, <1>4 DEF Op, At12

LEMMA CountsNat ==
  ASSUME AbExPlaces
  PROVE  /\ Done(2) \in Nat /\ Done(3) \in Nat
         /\ \A i \in 1..12 : A(i) \in Nat /\ B(i) \in Nat
  <1>1. Done(2) \in Nat /\ Done(3) \in Nat
    BY BoundsAssumption DEF AbExPlaces, Done, Gone
  <1>2. QED
    BY <1>1, PassedStep DEF A, B

\* What one more call of thread t, call k of its round, does to the counts.
CountsGo(t, k) ==
    LET a(ks) == IF t = 2 /\ k \in ks THEN 1 ELSE 0
        b(ks) == IF t = 3 /\ k \in ks THEN 1 ELSE 0
    IN /\ Value0 \in Int /\ Value0' = Value0 + b({6, 12}) - a({1, 7})
       /\ Value1 \in Int /\ Value1' = Value1 + a({3, 9}) - b({1, 7})
       /\ Value2 \in Int /\ Value2' = Value2 + a({6, 12}) - b({4, 10})
       /\ Value3 \in Int /\ Value3' = Value3 + a({5}) + b({9}) - a({10}) - b({2})
       /\ Prints \in Int /\ Prints' = Prints + a({2, 4, 8, 11}) + b({3, 5, 8, 11})

\* A call that is passed adds one to its own term of each count.
LEMMA Sums ==
  ASSUME \A i \in 1..12 : A(i) \in Nat /\ B(i) \in Nat, NEW t \in {2, 3}, NEW k \in 1..12,
         \A i \in 1..12 : A(i)' = A(i) + (IF t = 2 /\ i = k THEN 1 ELSE 0),
         \A i \in 1..12 : B(i)' = B(i) + (IF t = 3 /\ i = k THEN 1 ELSE 0)
  PROVE  CountsGo(t, k)
  <1> DEFINE a(ks) == IF t = 2 /\ k \in ks THEN 1 ELSE 0
             b(ks) == IF t = 3 /\ k \in ks THEN 1 ELSE 0
  <1>1. Value0 \in Int /\ Value0' = Value0 + b({6, 12}) - a({1, 7})
    <2>1. /\ B(6) \in Nat /\ B(12) \in Nat /\ A(1) \in Nat /\ A(7) \in Nat
          /\ B(6)' = B(6) + (IF t = 3 /\ 6 = k THEN 1 ELSE 0)
          /\ B(12)' = B(12) + (IF t = 3 /\ 12 = k THEN 1 ELSE 0)
          /\ A(1)' = A(1) + (IF t = 2 /\ 1 = k THEN 1 ELSE 0)
          /\ A(7)' = A(7) + (IF t = 2 /\ 7 = k THEN 1 ELSE 0)
      OBVIOUS
    <2>9. QED
      BY <2>1 DEF Value0
  <1>2. Value1 \in Int /\ Value1' = Value1 + a({3, 9}) - b({1, 7})
    <2>1. /\ A(3) \in Nat /\ A(9) \in Nat /\ B(1) \in Nat /\ B(7) \in Nat
          /\ A(3)' = A(3) + (IF t = 2 /\ 3 = k THEN 1 ELSE 0)
          /\ A(9)' = A(9) + (IF t = 2 /\ 9 = k THEN 1 ELSE 0)
          /\ B(1)' = B(1) + (IF t = 3 /\ 1 = k THEN 1 ELSE 0)
          /\ B(7)' = B(7) + (IF t = 3 /\ 7 = k THEN 1 ELSE 0)
      OBVIOUS
    <2>9. QED
      BY <2>1 DEF Value1
  <1>3. Value2 \in Int /\ Value2' = Value2 + a({6, 12}) - b({4, 10})
    <2>1. /\ A(6) \in Nat /\ A(12) \in Nat /\ B(4) \in Nat /\ B(10) \in Nat
          /\ A(6)' = A(6) + (IF t = 2 /\ 6 = k THEN 1 ELSE 0)
          /\ A(12)' = A(12) + (IF t = 2 /\ 12 = k THEN 1 ELSE 0)
          /\ B(4)' = B(4) + (IF t = 3 /\ 4 = k THEN 1 ELSE 0)
          /\ B(10)' = B(10) + (IF t = 3 /\ 10 = k THEN 1 ELSE 0)
      OBVIOUS
    <2>9. QED
      BY <2>1 DEF Value2
  <1>4. Value3 \in Int /\ Value3' = Value3 + a({5}) + b({9}) - a({10}) - b({2})
    <2>1. /\ A(5) \in Nat /\ B(9) \in Nat /\ A(10) \in Nat /\ B(2) \in Nat
          /\ A(5)' = A(5) + (IF t = 2 /\ 5 = k THEN 1 ELSE 0)
          /\ B(9)' = B(9) + (IF t = 3 /\ 9 = k THEN 1 ELSE 0)
          /\ A(10)' = A(10) + (IF t = 2 /\ 10 = k THEN 1 ELSE 0)
          /\ B(2)' = B(2) + (IF t = 3 /\ 2 = k THEN 1 ELSE 0)
      OBVIOUS
    <2>9. QED
      BY <2>1 DEF Value3
  <1>5. Prints \in Int /\ Prints' = Prints + a({2, 4, 8, 11}) + b({3, 5, 8, 11})
    <2>1. /\ A(2) \in Nat /\ A(4) \in Nat /\ A(8) \in Nat /\ A(11) \in Nat
          /\ A(2)' = A(2) + (IF t = 2 /\ 2 = k THEN 1 ELSE 0)
          /\ A(4)' = A(4) + (IF t = 2 /\ 4 = k THEN 1 ELSE 0)
          /\ A(8)' = A(8) + (IF t = 2 /\ 8 = k THEN 1 ELSE 0)
          /\ A(11)' = A(11) + (IF t = 2 /\ 11 = k THEN 1 ELSE 0)
      OBVIOUS
    <2>2. /\ B(3) \in Nat /\ B(5) \in Nat /\ B(8) \in Nat /\ B(11) \in Nat
          /\ B(3)' = B(3) + (IF t = 3 /\ 3 = k THEN 1 ELSE 0)
          /\ B(5)' = B(5) + (IF t = 3 /\ 5 = k THEN 1 ELSE 0)
          /\ B(8)' = B(8) + (IF t = 3 /\ 8 = k THEN 1 ELSE 0)
          /\ B(11)' = B(11) + (IF t = 3 /\ 11 = k THEN 1 ELSE 0)
      OBVIOUS
    <2>9. QED
      BY <2>1, <2>2 DEF Prints
  <1>6. QED
    BY <1>1, <1>2, <1>3, <1>4, <1>5 DEF CountsGo

LEMMA Going ==
  ASSUME prog = "ab_ex", AbExPlaces, NEW t \in {2, 3}, pc[t] \in 1 .. 12 * NLoops, Goes(t)
  PROVE  /\ \A i \in 1..12 : A(i)' = A(i) + (IF t = 2 /\ i = At12(t) THEN 1 ELSE 0)
         /\ \A i \in 1..12 : B(i)' = B(i) + (IF t = 3 /\ i = At12(t) THEN 1 ELSE 0)
         /\ CountsGo(t, At12(t))
  <1>1. pc' = [pc EXCEPT ![t] = pc[t] + 1] /\ t \in Threads /\ 2 \in Threads /\ 3 \in Threads
    BY Threads123 DEF Goes, GoTo
  <1>2. pc'[t] = pc[t] + 1 /\ \A u \in {2, 3} \ {t} : pc'[u] = pc[u]
    BY <1>1 DEF AbExPlaces
  <1>3. Done(t)' = Done(t) + 1
    BY <1>2, InRounds, BoundsAssumption DEF Done, Gone
  <1>4. \A u \in {2, 3} \ {t} : Done(u)' = Done(u)
    BY <1>2 DEF Done
  <1>a. \A i : A(i)' = Passed(Done(2)', i) /\ B(i)' = Passed(Done(3)', i)
    BY DEF A, B, Passed
  <1>5. ASSUME t = 2
        PROVE  /\ \A i \in 1..12 : A(i)' = A(i) + (IF t = 2 /\ i = At12(t) THEN 1 ELSE 0)
               /\ \A i \in 1..12 : B(i)' = B(i) + (IF t = 3 /\ i = At12(t) THEN 1 ELSE 0)
    <2>1. Done(2)' = Done(2) + 1 /\ Done(3)' = Done(3)
      BY <1>3, <1>4, <1>5
    <2>2. At12(t) = (Done(2) % 12) + 1
      BY <1>5 DEF At12
    <2>3. \A i \in 1..12 : /\ Passed(Done(2) + 1, i) = Passed(Done(2), i)
                                    + (IF i = At12(t) THEN 1 ELSE 0)
                           /\ Passed(Done(2), i) \in Nat /\ Passed(Done(3), i) \in Nat
      <3>1. Done(2) \in Nat /\ Done(3) \in Nat
        BY CountsNat
      <3>2. QED
        BY <3>1, <2>2, PassedStep
    <2>4. \A i : A(i) = Passed(Done(2), i) /\ B(i) = Passed(Done(3), i)
      BY DEF A, B
    <2>5. QED
      BY <2>1, <2>3, <2>4, <1>a, <1>5
  <1>6. ASSUME t = 3
        PROVE  /\ \A i \in 1..12 : A(i)' = A(i) + (IF t = 2 /\ i = At12(t) THEN 1 ELSE 0)
               /\ \A i \in 1..12 : B(i)' = B(i) + (IF t = 3 /\ i = At12(t) THEN 1 ELSE 0)
    <2>1. Done(3)' = Done(3) + 1 /\ Done(2)' = Done(2)
      BY <1>3, <1>4, <1>6
    <2>2. At12(t) = (Done(3) % 12) + 1
      BY <1>6 DEF At12
    <2>3. \A i \in 1..12 : /\ Passed(Done(3) + 1, i) = Passed(Done(3), i)
                                    + (IF i = At12(t) THEN 1 ELSE 0)
                           /\ Passed(Done(2), i) \in Nat /\ Passed(Done(3), i) \in Nat
      <3>1. Done(2) \in Nat /\ Done(3) \in Nat
        BY CountsNat
      <3>2. QED
        BY <3>1, <2>2, PassedStep
    <2>4. \A i : A(i) = Passed(Done(2), i) /\ B(i) = Passed(Done(3), i)
      BY DEF A, B
    <2>5. QED
      BY <2>1, <2>3, <2>4, <1>a, <1>6
  <1>7. /\ \A i \in 1..12 : A(i)' = A(i) + (IF t = 2 /\ i = At12(t) THEN 1 ELSE 0)
        /\ \A i \in 1..12 : B(i)' = B(i) + (IF t = 3 /\ i = At12(t) THEN 1 ELSE 0)
    BY <1>5, <1>6
  <1>8. At12(t) \in 1..12 /\ \A i \in 1..12 : A(i) \in Nat /\ B(i) \in Nat
    BY InRounds, CountsNat
  <1> DEFINE k == At12(t)
  <1> HIDE DEF k
  <1>9. CountsGo(t, k)
    BY <1>7, <1>8, Sums DEF k
  <1>10. QED
    BY <1>7, <1>9 DEF k

\* What a thread of ab_ex.c can do: a call of its round, or return behind the last.
LEMMA AbExSteps ==
  ASSUME prog = "ab_ex", AbExPlaces, NEW t \in {2, 3}, Act(t)
  PROVE  \/ pc[t] \in 1 .. 12 * NLoops /\ (SemWait(t) \/ SemPost(t) \/ PutOut(t))
         \/ pc[t] = 12 * NLoops + 1 /\ End(t)
  <1>2. pc[t] > 0
    BY Kinds
  <1>3. CASE pc[t] \in 1 .. 12 * NLoops
    <2>1. Op(t) = Body(t)[At12(t)] /\ At12(t) \in 1..12
      BY <1>3, InRounds
    <2>2. Body(t)[At12(t)].op \in {"sem_wait", "sem_post", "print"}
      BY <2>1, Bodies DEF Body
    <2>3. Op(t).op \in {"sem_wait", "sem_post", "print"}
      BY <2>1, <2>2
    <2>4. SemWait(t) \/ SemPost(t) \/ PutOut(t)
      BY <2>3, Kinds
    <2>5. QED
      BY <1>3, <2>4
  <1>4. CASE pc[t] = 12 * NLoops + 1
    <2>1. Op(t).op = "end"
      BY <1>4, AbExCode DEF Op, end, call
    <2>2. End(t)
      BY <2>1, Kinds
    <2>3. QED
      BY <1>4, <2>2
  <1>5. pc[t] \in {0, -1} \cup 1 .. 12 * NLoops + 1
    BY DEF AbExPlaces, Gone
  <1>6. pc[t] \in 1 .. 12 * NLoops \/ pc[t] = 12 * NLoops + 1
    <2>1. \A n \in Nat : \A x \in {0, -1} \cup 1 .. n + 1 : x > 0 => x \in 1..n \/ x = n + 1
      OBVIOUS
    <2>2. 12 * NLoops \in Nat
      BY BoundsAssumption
    <2>3. QED
      BY <1>2, <1>5, <2>1, <2>2
  <1>7. QED
    BY <1>3, <1>4, <1>6

\* The places, after a step in which thread t of ab_ex.c goes on.
LEMMA AbExGoing ==
  ASSUME prog = "ab_ex", AbExPlaces, NEW t \in {2, 3}, pc[t] \in 1 .. 12 * NLoops, Goes(t),
         UNCHANGED <<removed, undo, shared>>, sem' \in [Sems -> Nat],
         out' \in Seq([by : Threads, what : {"A", "B", "C", "D"}, value : Int])
  PROVE  AbExPlaces'
  <1>1. pc' = [pc EXCEPT ![t] = pc[t] + 1] /\ t \in Threads /\ 2 \in Threads /\ 3 \in Threads
        /\ 1 \in Threads
    BY Threads123 DEF Goes, GoTo
  <1>2. pc' \in [Threads -> Int] /\ pc'[t] = pc[t] + 1 /\ \A u \in Threads \ {t} : pc'[u] = pc[u]
    BY <1>1 DEF AbExPlaces
  <1>3. pc'[t] \in 1 .. 12 * NLoops + 1 /\ pc[t] # 0
    BY <1>2, BoundsAssumption
  <1>4. QED
    BY <1>1, <1>2, <1>3 DEF AbExPlaces

LEMMA AbExThread ==
  ASSUME prog = "ab_ex", AbExPlaces, AbExCounts, NEW t \in {2, 3},
         Act(t)
  PROVE  (AbExPlaces /\ AbExCounts)'
  <1> DEFINE k == At12(t)
  <1>1. ASSUME pc[t] \in 1 .. 12 * NLoops
        PROVE  /\ k \in 1..12 /\ Op(t) = Body(t)[k]
               /\ t = 2 => Op(t) = BodyA[k]
               /\ t = 3 => Op(t) = BodyB[k]
    BY <1>1, InRounds DEF Body
  <1> HIDE DEF k
  <1>2. \A i \in 1..12 : A(i) \in Nat /\ B(i) \in Nat
    BY CountsNat
  <1>3. \A s \in Sems : sem[s] \in Nat
    BY DEF AbExPlaces
  <1>4. CASE pc[t] \in 1 .. 12 * NLoops /\ SemWait(t)
    <2> DEFINE s == Op(t).a
    <2>1. Op(t).op = "sem_wait" /\ sem[s] > 0 /\ sem' = [sem EXCEPT ![s] = sem[s] - 1]
          /\ Goes(t) /\ UNCHANGED <<prog, removed, undo, shared, out>>
      BY <1>4 DEF SemWait, At
    <2>2. \/ t = 2 /\ ((k \in {1, 7} /\ s = 0) \/ (k = 10 /\ s = 3))
          \/ t = 3 /\ ((k \in {1, 7} /\ s = 1) \/ (k \in {4, 10} /\ s = 2) \/ (k = 2 /\ s = 3))
      <3>1. CASE t = 2
        BY <3>1, <1>1, <1>4, <2>1, Bodies
      <3>2. CASE t = 3
        BY <3>2, <1>1, <1>4, <2>1, Bodies
      <3>3. QED
        BY <3>1, <3>2
    <2> HIDE DEF s
    <2>3. s \in Sems
      BY <2>2 DEF Sems
    <2>4. sem' \in [Sems -> Nat] /\ sem'[s] = sem[s] - 1 /\ \A r \in Sems \ {s} : sem'[r] = sem[r]
      BY <2>1, <2>3, <1>3 DEF AbExPlaces
    <2>5. AbExPlaces'
      BY <2>1, <2>4, <1>4, AbExGoing DEF AbExPlaces
    <2>6. CountsGo(t, k)
      BY <2>1, <1>4, Going DEF k
    <2>7. AbExCounts'
      <3>1. k \in 1..12
        BY <2>2
      <3>2. /\ sem[0] = Value0 /\ sem[1] = Value1 /\ sem[2] = Value2 /\ sem[3] = Value3
            /\ \A r \in 0..3 : sem'[r] = IF r = s THEN sem[r] - 1 ELSE sem[r]
        BY <2>3, <2>4 DEF AbExCounts, Sems
      <3>3. sem[0]' = Value0'
        <4>1. sem'[0] = IF 0 = s THEN sem[0] - 1 ELSE sem[0]
          BY <3>2
        <4>2. QED
          BY <2>2, <2>6, <3>1, <3>2, <4>1 DEF CountsGo
      <3>4. sem[1]' = Value1'
        <4>1. sem'[1] = IF 1 = s THEN sem[1] - 1 ELSE sem[1]
          BY <3>2
        <4>2. QED
          BY <2>2, <2>6, <3>1, <3>2, <4>1 DEF CountsGo
      <3>5. sem[2]' = Value2'
        <4>1. sem'[2] = IF 2 = s THEN sem[2] - 1 ELSE sem[2]
          BY <3>2
        <4>2. QED
          BY <2>2, <2>6, <3>1, <3>2, <4>1 DEF CountsGo
      <3>6. sem[3]' = Value3'
        <4>1. sem'[3] = IF 3 = s THEN sem[3] - 1 ELSE sem[3]
          BY <3>2
        <4>2. QED
          BY <2>2, <2>6, <3>1, <3>2, <4>1 DEF CountsGo
      <3>7. Len(out)' = Prints'
        BY <2>1, <2>2, <2>6, <3>1 DEF AbExCounts, CountsGo
      <3>8. QED
        BY <3>3, <3>4, <3>5, <3>6, <3>7 DEF AbExCounts
    <2>8. QED
      BY <2>5, <2>7
  <1>5. CASE pc[t] \in 1 .. 12 * NLoops /\ SemPost(t)
    <2> DEFINE s == Op(t).a
    <2>1. Op(t).op = "sem_post" /\ sem' = [sem EXCEPT ![s] = sem[s] + 1]
          /\ Goes(t) /\ UNCHANGED <<prog, removed, undo, shared, out>>
      BY <1>5 DEF SemPost, At
    <2>2. \/ t = 2 /\ ((k \in {3, 9} /\ s = 1) \/ (k \in {6, 12} /\ s = 2) \/ (k = 5 /\ s = 3))
          \/ t = 3 /\ ((k \in {6, 12} /\ s = 0) \/ (k = 9 /\ s = 3))
      <3>1. CASE t = 2
        BY <3>1, <1>1, <1>5, <2>1, Bodies
      <3>2. CASE t = 3
        BY <3>2, <1>1, <1>5, <2>1, Bodies
      <3>3. QED
        BY <3>1, <3>2
    <2> HIDE DEF s
    <2>3. s \in Sems
      BY <2>2 DEF Sems
    <2>4. sem' \in [Sems -> Nat] /\ sem'[s] = sem[s] + 1 /\ \A r \in Sems \ {s} : sem'[r] = sem[r]
      BY <2>1, <2>3, <1>3 DEF AbExPlaces
    <2>5. AbExPlaces'
      BY <2>1, <2>4, <1>5, AbExGoing DEF AbExPlaces
    <2>6. CountsGo(t, k)
      BY <2>1, <1>5, Going DEF k
    <2>7. AbExCounts'
      <3>1. k \in 1..12
        BY <2>2
      <3>2. /\ sem[0] = Value0 /\ sem[1] = Value1 /\ sem[2] = Value2 /\ sem[3] = Value3
            /\ \A r \in 0..3 : sem'[r] = IF r = s THEN sem[r] + 1 ELSE sem[r]
        BY <2>3, <2>4 DEF AbExCounts, Sems
      <3>3. sem[0]' = Value0'
        <4>1. sem'[0] = IF 0 = s THEN sem[0] + 1 ELSE sem[0]
          BY <3>2
        <4>2. QED
          BY <2>2, <2>6, <3>1, <3>2, <4>1 DEF CountsGo
      <3>4. sem[1]' = Value1'
        <4>1. sem'[1] = IF 1 = s THEN sem[1] + 1 ELSE sem[1]
          BY <3>2
        <4>2. QED
          BY <2>2, <2>6, <3>1, <3>2, <4>1 DEF CountsGo
      <3>5. sem[2]' = Value2'
        <4>1. sem'[2] = IF 2 = s THEN sem[2] + 1 ELSE sem[2]
          BY <3>2
        <4>2. QED
          BY <2>2, <2>6, <3>1, <3>2, <4>1 DEF CountsGo
      <3>6. sem[3]' = Value3'
        <4>1. sem'[3] = IF 3 = s THEN sem[3] + 1 ELSE sem[3]
          BY <3>2
        <4>2. QED
          BY <2>2, <2>6, <3>1, <3>2, <4>1 DEF CountsGo
      <3>7. Len(out)' = Prints'
        BY <2>1, <2>2, <2>6, <3>1 DEF AbExCounts, CountsGo
      <3>8. QED
        BY <3>3, <3>4, <3>5, <3>6, <3>7 DEF AbExCounts
    <2>8. QED
      BY <2>5, <2>7
  <1>6. CASE pc[t] \in 1 .. 12 * NLoops /\ PutOut(t)
    <2> DEFINE c == Op(t).a
               line == [by |-> t, what |-> c, value |-> shared]
    <2>1. Op(t).op = "print" /\ out' = Append(out, line)
          /\ Goes(t) /\ UNCHANGED <<prog, removed, undo, shared, sem>>
      BY <1>6 DEF PutOut, At, kernel
    <2>2. \/ t = 2 /\ ((k \in {2, 8} /\ c = "A") \/ (k \in {4, 11} /\ c = "B"))
          \/ t = 3 /\ ((k \in {3, 8} /\ c = "C") \/ (k \in {5, 11} /\ c = "D"))
      <3>1. CASE t = 2
        BY <3>1, <1>1, <1>6, <2>1, Bodies
      <3>2. CASE t = 3
        BY <3>2, <1>1, <1>6, <2>1, Bodies
      <3>3. QED
        BY <3>1, <3>2
    <2> HIDE DEF c
    <2>3. t \in Threads /\ c \in {"A", "B", "C", "D"}
      BY <2>2, Threads123
    <2>4. line \in [by : Threads, what : {"A", "B", "C", "D"}, value : Int]
      BY <2>3 DEF AbExPlaces
    <2> HIDE DEF line
    <2>5. /\ out' \in Seq([by : Threads, what : {"A", "B", "C", "D"}, value : Int])
          /\ Len(out') = Len(out) + 1
      BY <2>1, <2>4 DEF AbExPlaces
    <2>6. AbExPlaces'
      BY <2>1, <2>5, <1>6, AbExGoing DEF AbExPlaces
    <2>7. CountsGo(t, k)
      BY <2>1, <1>6, Going DEF k
    <2>8. AbExCounts'
      <3>1. k \in 1..12
        BY <2>2
      <3>2. sem[0]' = Value0' /\ sem[1]' = Value1' /\ sem[2]' = Value2' /\ sem[3]' = Value3'
        <4>1. Value0' = Value0 /\ Value1' = Value1 /\ Value2' = Value2 /\ Value3' = Value3
          BY <2>2, <2>7, <3>1 DEF CountsGo
        <4>2. QED
          BY <2>1, <4>1 DEF AbExCounts
      <3>3. Len(out)' = Prints'
        <4>1. Prints' = Prints + 1
          BY <2>2, <2>7, <3>1 DEF CountsGo
        <4>2. QED
          BY <2>5, <4>1 DEF AbExCounts
      <3>4. QED
        BY <3>2, <3>3 DEF AbExCounts
    <2>9. QED
      BY <2>6, <2>8
  <1>7. CASE pc[t] = 12 * NLoops + 1 /\ End(t)
    <2>1. pc' = [pc EXCEPT ![t] = Gone] /\ UNCHANGED <<prog, removed, shared, out>>
          /\ undo' = [undo EXCEPT ![t] = 0] /\ sem' = [sem EXCEPT ![0] = sem[0] + undo[t]]
      BY <1>7 DEF End, GoTo, Undo, AbExPlaces
    <2>2. undo' = undo /\ sem' = sem
      <3>1. t \in Threads
        BY Threads123
      <3>2. undo[t] = 0
        BY <3>1 DEF AbExPlaces
      <3>3. 0 \in Sems
        BY DEF Sems
      <3>4. sem[0] + undo[t] = sem[0]
        BY <3>2, <3>3, <1>3
      <3>5. QED
        BY <2>1, <3>1, <3>2, <3>4 DEF AbExPlaces
    <2>3. /\ 1 \in Threads /\ 2 \in Threads /\ 3 \in Threads
          /\ pc' \in [Threads -> Int] /\ pc'[t] = Gone /\ \A u \in Threads \ {t} : pc'[u] = pc[u]
      BY <2>1, Threads123 DEF AbExPlaces, Gone
    <2>4. AbExPlaces'
      <3>1. pc[t] # 0 /\ pc[1] # 1 /\ (t = 3 => pc[1] > 2)
        BY <1>7, BoundsAssumption DEF AbExPlaces
      <3>2. \A u \in {2, 3} : pc'[u] \in {0, Gone} \cup 1 .. 12 * NLoops + 1
        BY <2>3 DEF AbExPlaces
      <3>3. (pc'[1] = 1 => pc'[2] = 0) /\ (pc'[1] <= 2 => pc'[3] = 0) /\ pc'[1] \in 1..5
        BY <2>3, <3>1 DEF AbExPlaces
      <3>4. \A u \in Threads \ 1..3 : pc'[u] = 0
        BY <2>3 DEF AbExPlaces
      <3>5. QED
        BY <2>1, <2>2, <2>3, <3>2, <3>3, <3>4 DEF AbExPlaces
    <2>5. Done(2)' = Done(2) /\ Done(3)' = Done(3)
      <3>1. Done(t) = 12 * NLoops /\ Done(t)' = 12 * NLoops
        BY <2>3, <1>7, BoundsAssumption DEF Done, Gone
      <3>2. \A u \in {2, 3} \ {t} : Done(u)' = Done(u)
        BY <2>3 DEF Done
      <3>3. QED
        BY <3>1, <3>2
    <2>6. \A i : A(i)' = A(i) /\ B(i)' = B(i)
      BY <2>5 DEF A, B, Passed
    <2>7. AbExCounts'
      BY <2>1, <2>2, <2>6 DEF AbExCounts, Value0, Value1, Value2, Value3, Prints
    <2>8. QED
      BY <2>4, <2>7
  <1>8. QED
    BY <1>4, <1>5, <1>6, <1>7, AbExSteps

\* main creates the two threads, waits for them and exits.
\* main of ab_ex.c creates its threads without a test.
LEMMA AbExMainAt ==
  ASSUME prog = "ab_ex", AbExPlaces
  PROVE  /\ Op(1).op \in {"create", "join", "exit"}
         /\ Op(1).op = "create" => Op(1).b = 0
  <1>1. /\ Code(prog, 1)[1] = create(2) /\ Code(prog, 1)[2] = create(3)
        /\ Code(prog, 1)[3] = join(2) /\ Code(prog, 1)[4] = join(3) /\ Code(prog, 1)[5] = exit
    BY DEF Code, AbEx, AbExMain
  <1>2. pc[1] \in {1, 2, 3, 4, 5}
    BY DEF AbExPlaces
  <1>3. QED
    BY <1>1, <1>2 DEF Op, create, join, exit, call

LEMMA AbExMainSteps ==
  ASSUME prog = "ab_ex", AbExPlaces, AbExCounts, Act(1)
  PROVE  (AbExPlaces /\ AbExCounts)'
  <1>1. /\ Code(prog, 1)[1] = create(2) /\ Code(prog, 1)[2] = create(3)
        /\ Code(prog, 1)[3] = join(2) /\ Code(prog, 1)[4] = join(3) /\ Code(prog, 1)[5] = exit
    BY DEF Code, AbEx, AbExMain
  <1>2. /\ pc[1] \in {1, 2} => Op(1) = create(pc[1] + 1)
        /\ pc[1] \in {3, 4} => Op(1).op = "join"
        /\ pc[1] = 5 => Op(1).op = "exit"
    BY <1>1 DEF Op, join, exit, call
  <1>3. \A u : create(u).op = "create" /\ create(u).a = u /\ create(u).b = 0
    BY DEF create, call
  <1>4. pc[1] \in {1, 2, 3, 4, 5}
    BY DEF AbExPlaces
  <1>5. \/ pc[1] \in {1, 2} /\ Create(1)
        \/ pc[1] \in {3, 4} /\ Join(1)
        \/ pc[1] = 5 /\ Exit(1)
    <2>1. Op(1).op \in {"create", "join", "exit"} /\ (Op(1).op = "create" => Op(1).b = 0)
      BY <1>2, <1>3, <1>4
    <2>2. Create(1) \/ Join(1) \/ Exit(1)
      <3>1. prog # "mutex1"
        OBVIOUS
      <3>2. QED
        BY <2>1, <3>1, Kinds
    <2>3. QED
      BY <2>2, <1>2, <1>3, <1>4 DEF Create, Join, Exit, At
  <1>6. /\ UNCHANGED <<prog, removed, undo, sem, shared, out>>
        /\ 1 \in Threads /\ 2 \in Threads /\ 3 \in Threads
    BY <1>5, Threads123 DEF Create, Join, Exit, kernel
  <1>7. CASE pc[1] \in {1, 2} /\ Create(1)
    <2>1. pc' = [pc EXCEPT ![1] = pc[1] + 1, ![pc[1] + 1] = 1]
      BY <1>2, <1>3, <1>7 DEF Create
    <2>2. /\ pc' \in [Threads -> Int] /\ pc'[1] = pc[1] + 1 /\ pc'[pc[1] + 1] = 1
          /\ \A u \in Threads \ {1, pc[1] + 1} : pc'[u] = pc[u]
      BY <2>1, <1>6, <1>7 DEF AbExPlaces
    <2>3. pc[pc[1] + 1] = 0
      BY <1>7 DEF AbExPlaces
    <2>4. pc[1] = 1 => pc[3] = 0 /\ pc'[3] = 0
      <3>1. ASSUME pc[1] = 1 PROVE pc'[3] = pc[3]
        BY <3>1, <2>2, <1>6
      <3>2. pc[1] = 1 => pc[3] = 0
        BY DEF AbExPlaces
      <3>3. QED
        BY <3>1, <3>2
    <2>5. 1 \in 1 .. 12 * NLoops + 1
      BY BoundsAssumption
    <2>6. \A u \in {2, 3} : pc'[u] \in {0, Gone} \cup 1 .. 12 * NLoops + 1
      <3>1. \A u \in {2, 3} : pc[u] \in {0, Gone} \cup 1 .. 12 * NLoops + 1
        BY DEF AbExPlaces
      <3>2. \A u \in {2, 3} : pc'[u] = 1 \/ pc'[u] = pc[u]
        BY <2>2, <1>6, <1>7
      <3>3. QED
        BY <2>5, <3>1, <3>2
    <2>7. AbExPlaces'
      BY <2>2, <2>4, <2>6, <1>6, <1>7 DEF AbExPlaces
    <2>8. Done(2)' = Done(2) /\ Done(3)' = Done(3)
      BY <2>2, <2>3, <1>6, <1>7 DEF Done, Gone
    <2>9. AbExCounts'
      BY <2>8, <1>6 DEF AbExCounts, Value0, Value1, Value2, Value3, Prints, A, B, Passed
    <2>10. QED
      BY <2>7, <2>9
  <1>8. CASE (pc[1] \in {3, 4} /\ Join(1)) \/ (pc[1] = 5 /\ Exit(1))
    <2>1. /\ pc' \in [Threads -> Int] /\ pc'[1] \in {3, 4, 5}
          /\ \A u \in Threads \ {1} : pc'[u] = pc[u]
      BY <1>6, <1>8 DEF Join, Exit, Goes, GoTo, AbExPlaces
    <2>2. AbExPlaces'
      <3>1. pc'[2] = pc[2] /\ pc'[3] = pc[3] /\ \A u \in Threads \ 1..3 : pc'[u] = pc[u]
        BY <2>1, <1>6
      <3>2. \A u \in {2, 3} : pc'[u] \in {0, Gone} \cup 1 .. 12 * NLoops + 1
        BY <3>1 DEF AbExPlaces
      <3>3. QED
        BY <2>1, <3>1, <3>2, <1>6 DEF AbExPlaces
    <2>3. Done(2)' = Done(2) /\ Done(3)' = Done(3)
      BY <2>1, <1>6 DEF Done
    <2>4. AbExCounts'
      BY <2>3, <1>6 DEF AbExCounts, Value0, Value1, Value2, Value3, Prints, A, B, Passed
    <2>5. QED
      BY <2>2, <2>4
  <1>9. QED
    BY <1>5, <1>7, <1>8

LEMMA AbExNext == AbExInv /\ [Next]_vars => AbExInv'
  <1> SUFFICES ASSUME AbExInv, [Next]_vars, prog' = "ab_ex" PROVE (AbExPlaces /\ AbExCounts)'
    BY DEF AbExInv
  <1>1. prog' = prog
    BY SameProgram
  <1>2. prog = "ab_ex" /\ AbExPlaces /\ AbExCounts
    BY <1>1 DEF AbExInv
  <1>3. ASSUME NEW t \in Threads, Act(t)
        PROVE  t \in 1..3
    BY <1>2, <1>3, Kinds DEF AbExPlaces
  <1>4. CASE UNCHANGED vars
    <2>1. UNCHANGED <<pc, removed, undo, sem, shared, out>>
      BY <1>4 DEF vars, kernel
    <2>2. AbExPlaces'
      BY <2>1, <1>2 DEF AbExPlaces
    <2>3. Done(2)' = Done(2) /\ Done(3)' = Done(3)
      BY <2>1 DEF Done
    <2>4. AbExCounts'
      BY <2>1, <2>3, <1>2 DEF AbExCounts, Value0, Value1, Value2, Value3, Prints, A, B, Passed
    <2>5. QED
      BY <2>2, <2>4
  <1>5. ASSUME NEW t \in Threads, Act(t)
        PROVE  (AbExPlaces /\ AbExCounts)'
    <2>1. CASE t = 1
      BY <2>1, <1>2, <1>5, AbExMainSteps
    <2>2. CASE t \in {2, 3}
      BY <2>2, <1>2, <1>5, AbExThread
    <2>3. QED
      BY <2>1, <2>2, <1>3, <1>5
  <1>6. QED
    BY <1>4, <1>5, Cases

LEMMA AbExInit == Init => AbExInv
  <1> SUFFICES ASSUME Init, prog = "ab_ex" PROVE AbExPlaces /\ AbExCounts
    BY DEF AbExInv
  <1>1. 1 \in Threads /\ 2 \in Threads /\ 3 \in Threads
    BY Threads123
  <1>2. pc = [t \in Threads |-> IF t = 1 THEN 1 ELSE 0]
    BY DEF Init
  <1>3. AbExPlaces
    BY <1>1, <1>2 DEF Init, AbExPlaces, Sems
  <1>4. Done(2) = 0 /\ Done(3) = 0
    BY <1>1, <1>2 DEF Done
  <1>5. 0 \div 12 = 0 /\ 0 % 12 = 0
    OBVIOUS
  <1>6. \A i \in 1..12 : A(i) = 0 /\ B(i) = 0
    BY <1>4, <1>5 DEF A, B, Passed
  <1>7. AbExCounts
    BY <1>6 DEF AbExCounts, Value0, Value1, Value2, Value3, Prints, Init, Sems
  <1>8. QED
    BY <1>3, <1>7

-----------------------------------------------------------------------------
(* The output of ab_ex.c                                                   *)

\* What the counts leave of the places where the threads can be together: for each
\* call that prints, how much is printed before it.
LEMMA Meetings ==
  ASSUME NEW n \in Nat, NEW m \in Nat, NEW j \in 0..11, NEW l \in 0..11,
         LET a(i) == n + (IF j >= i THEN 1 ELSE 0)
             b(i) == m + (IF l >= i THEN 1 ELSE 0)
         IN /\ 1 + b(6) + b(12) - a(1) - a(7) >= 0
            /\ a(3) + a(9) - b(1) - b(7) >= 0
            /\ a(6) + a(12) - b(4) - b(10) >= 0
            /\ a(5) + b(9) - a(10) - b(2) >= 0
  PROVE  /\ j = 1 => m = n /\ l = 0
         /\ j = 3 => m = n /\ l \in {0, 1}
         /\ j = 7 => m = n /\ l = 6
         /\ j = 10 => m = n /\ l = 9
         /\ l = 2 => m = n /\ j \in {5, 6}
         /\ l = 4 => m = n /\ j = 6
         /\ l = 7 => m = n /\ j = 9
         /\ l = 10 => n = m + 1 /\ j = 0
  OBVIOUS

\* How long the output is then.
LEMMA Lengths ==
  ASSUME NEW n \in Nat, NEW m \in Nat, NEW j \in 0..11, NEW l \in 0..11
  PROVE  LET a(i) == n + (IF j >= i THEN 1 ELSE 0)
             b(i) == m + (IF l >= i THEN 1 ELSE 0)
             p == a(2) + a(4) + a(8) + a(11) + b(3) + b(5) + b(8) + b(11)
         IN /\ j = 1 /\ m = n /\ l = 0 => p = 8 * n
            /\ j = 3 /\ m = n /\ l \in {0, 1} => p = 8 * n + 1
            /\ j = 7 /\ m = n /\ l = 6 => p = 8 * n + 4
            /\ j = 10 /\ m = n /\ l = 9 => p = 8 * n + 6
            /\ l = 2 /\ m = n /\ j \in {5, 6} => p = 8 * n + 2
            /\ l = 4 /\ m = n /\ j = 6 => p = 8 * n + 3
            /\ l = 7 /\ m = n /\ j = 9 => p = 8 * n + 5
            /\ l = 10 /\ n = m + 1 /\ j = 0 => p = 8 * m + 7
  OBVIOUS

\* A thread of ab_ex.c prints what follows in the cycle.
LEMMA PrintsInTurn ==
  ASSUME prog = "ab_ex", AbExPlaces, AbExCounts, NEW t \in {2, 3},
         pc[t] \in 1 .. 12 * NLoops, PutOut(t)
  PROVE  Op(t).a = Cyc!NextChar(Len(out))
  <1> DEFINE n == Done(2) \div 12
             j == Done(2) % 12
             m == Done(3) \div 12
             l == Done(3) % 12
             a(i) == n + (IF j >= i THEN 1 ELSE 0)
             b(i) == m + (IF l >= i THEN 1 ELSE 0)
  <1>1. n \in Nat /\ m \in Nat /\ j \in 0..11 /\ l \in 0..11
    BY CountsNat, Rounds
  <1>2. \A i : A(i) = a(i) /\ B(i) = b(i)
    BY DEF A, B, Passed
  <1>3. /\ t = 2 => At12(t) = j + 1
        /\ t = 3 => At12(t) = l + 1
    BY DEF At12
  <1>4. /\ 1 + b(6) + b(12) - a(1) - a(7) >= 0
        /\ a(3) + a(9) - b(1) - b(7) >= 0
        /\ a(6) + a(12) - b(4) - b(10) >= 0
        /\ a(5) + b(9) - a(10) - b(2) >= 0
        /\ Len(out) = a(2) + a(4) + a(8) + a(11) + b(3) + b(5) + b(8) + b(11)
    <2>1. Value0 >= 0 /\ Value1 >= 0 /\ Value2 >= 0 /\ Value3 >= 0 /\ Len(out) = Prints
      BY DEF AbExCounts, AbExPlaces, Sems
    <2> HIDE DEF a, b
    <2>2. QED
      BY <2>1, <1>2 DEF Value0, Value1, Value2, Value3, Prints
  <1>5. /\ t = 2 => \/ j \in {1, 7} /\ Op(t).a = "A"
                    \/ j \in {3, 10} /\ Op(t).a = "B"
        /\ t = 3 => \/ l \in {2, 7} /\ Op(t).a = "C"
                    \/ l \in {4, 10} /\ Op(t).a = "D"
    <2>1. Op(t).op = "print" /\ At12(t) \in 1..12 /\ Op(t) = Body(t)[At12(t)]
      BY InRounds DEF PutOut, At
    <2> DEFINE k == At12(t)
    <2> HIDE DEF j, l, k
    <2>2. CASE t = 2
      <3>1. (k \in {2, 8} /\ Op(t).a = "A") \/ (k \in {4, 11} /\ Op(t).a = "B")
        BY <2>1, <2>2, Bodies DEF Body, k
      <3>2. k = j + 1
        BY <2>2, <1>3 DEF k
      <3>3. QED
        BY <2>2, <3>1, <3>2, <1>1
    <2>3. CASE t = 3
      <3>1. (k \in {3, 8} /\ Op(t).a = "C") \/ (k \in {5, 11} /\ Op(t).a = "D")
        BY <2>1, <2>3, Bodies DEF Body, k
      <3>2. k = l + 1
        BY <2>3, <1>3 DEF k
      <3>3. QED
        BY <2>3, <3>1, <3>2, <1>1
    <2>4. QED
      BY <2>2, <2>3
  <1> HIDE DEF n, j, m, l
  <1>6. /\ j = 1 => m = n /\ l = 0
        /\ j = 3 => m = n /\ l \in {0, 1}
        /\ j = 7 => m = n /\ l = 6
        /\ j = 10 => m = n /\ l = 9
        /\ l = 2 => m = n /\ j \in {5, 6}
        /\ l = 4 => m = n /\ j = 6
        /\ l = 7 => m = n /\ j = 9
        /\ l = 10 => n = m + 1 /\ j = 0
    BY <1>1, <1>4, Meetings
  <1>7. \E q \in Nat, x \in 0..7 :
          /\ Len(out) = 8 * q + x
          /\ Op(t).a = <<"A", "B", "C", "D", "A", "C", "B", "D">>[x + 1]
    <2>1. /\ j = 1 => Len(out) = 8 * n + 0
          /\ j = 3 => Len(out) = 8 * n + 1
          /\ j = 7 => Len(out) = 8 * n + 4
          /\ j = 10 => Len(out) = 8 * n + 6
          /\ l = 2 => Len(out) = 8 * n + 2
          /\ l = 4 => Len(out) = 8 * n + 3
          /\ l = 7 => Len(out) = 8 * n + 5
          /\ l = 10 => Len(out) = 8 * m + 7
      BY <1>1, <1>4, <1>6, Lengths
    <2>2. CASE t = 2
      BY <2>1, <2>2, <1>1, <1>5
    <2>3. CASE t = 3
      BY <2>1, <2>3, <1>1, <1>5
    <2>4. QED
      BY <2>2, <2>3
  <1>8. \A q \in Nat, x \in 0..7 : (8 * q + x) % 8 = x
    BY SMTT(30)
  <1>9. Len(<<"A", "B", "C", "D", "A", "C", "B", "D">>) = 8
    OBVIOUS
  <1>10. QED
    BY <1>7, <1>8, <1>9 DEF Cyc!NextChar

\* Only these calls make output.
LEMMA OnlyPrints ==
  ASSUME prog = "ab_ex", AbExPlaces, [Next]_vars, out' # out
  PROVE  \E t \in {2, 3} : pc[t] \in 1 .. 12 * NLoops /\ PutOut(t)
  <1>1. PICK t \in Threads : Act(t)
    BY Cases DEF vars
  <1>a. PutOut(t)
    <2>1. ~CreateFails(t) \/ out' = out
      <3>1. ASSUME At(t, "create"), Op(t).b = 2 PROVE FALSE
        <4>1. t \in 1..3 /\ pc[t] > 0
          BY <3>1 DEF At, AbExPlaces
        <4>2. t = 1
          <5>1. CASE t \in {2, 3}
            <6>1. SemWait(t) \/ SemPost(t) \/ PutOut(t) \/ End(t)
              BY <1>1, <5>1, AbExSteps
            <6>2. QED
              BY <6>1, <3>1 DEF SemWait, SemPost, PutOut, End, At
          <5>2. QED
            BY <4>1, <5>1
        <4>3. QED
          BY <1>1, <3>1, <4>2, AbExMainAt DEF At
      <3>2. QED
        BY <3>1 DEF CreateFails
    <2>2. QED
      BY <1>1, <2>1 DEF Act, Step, Create, Join, Lock, Unlock, SemWait, SemPost, Load, Store, Parity, While,
           End, Exit, AssertOne, Acquire, Release, Fork, Remove, JoinNobody, ForkFails
  <1>2. pc[t] > 0 /\ Op(t).op = "print"
    BY <1>a DEF PutOut, At
  <1>3. t \in 1..3
    BY <1>2 DEF AbExPlaces
  <1>4. t # 1
    <2>1. /\ Code(prog, 1)[1] = create(2) /\ Code(prog, 1)[2] = create(3)
          /\ Code(prog, 1)[3] = join(2) /\ Code(prog, 1)[4] = join(3) /\ Code(prog, 1)[5] = exit
      BY DEF Code, AbEx, AbExMain
    <2>2. pc[1] \in {1, 2, 3, 4, 5}
      BY DEF AbExPlaces
    <2>3. Op(1).op \in {"create", "join", "exit"}
      BY <2>1, <2>2 DEF Op, create, join, exit, call
    <2>4. QED
      BY <2>3, <1>2
  <1>5. t \in {2, 3}
    BY <1>3, <1>4
  <1>6. pc[t] \in 1 .. 12 * NLoops /\ PutOut(t)
    BY <1>1, <1>a, <1>2, <1>5, AbExSteps DEF End, At
  <1>7. QED
    BY <1>5, <1>6

\* ab_ex.c prints ABCDACBD over and over, for every number of rounds: its output
\* implements CyclicOutput.
THEOREM AbExInTurn == Spec => ImplementsCyclicOutput
  <1> DEFINE text == IF prog = "ab_ex" THEN [i \in DOMAIN out |-> out[i].what] ELSE <<>>
  <1>1. Init => Cyc!Init
    BY DEF Init, Cyc!Init
  <1>2. AbExInv /\ [Next]_vars => [Cyc!Next]_text
    <2> SUFFICES ASSUME AbExInv, [Next]_vars, text' # text
                 PROVE  text' = Append(text, Cyc!NextChar(Len(text)))
      BY DEF Cyc!Next
    <2>1. prog' = prog
      BY SameProgram
    <2>2. prog = "ab_ex" /\ out' # out
      BY <2>1
    <2>3. AbExPlaces /\ AbExCounts
      BY <2>2 DEF AbExInv
    <2>4. PICK t \in {2, 3} : pc[t] \in 1 .. 12 * NLoops /\ PutOut(t)
      BY <2>2, <2>3, OnlyPrints
    <2>5. Op(t).a = Cyc!NextChar(Len(out))
      BY <2>2, <2>3, <2>4, PrintsInTurn
    <2> DEFINE line == [by |-> t, what |-> Op(t).a, value |-> shared]
               Records == [by : Threads, what : {"A", "B", "C", "D"}, value : Int]
    <2>6. out' = Append(out, line) /\ line.what = Op(t).a
      BY <2>4 DEF PutOut
    <2>7. out \in Seq(Records)
      BY <2>3 DEF AbExPlaces
    <2>8. text = [i \in DOMAIN out |-> out[i].what] /\ text' = [i \in DOMAIN out' |-> out'[i].what]
      BY <2>1, <2>2
    <2> HIDE DEF line, text, Records
    <2>9. text \in Seq({out[i].what : i \in DOMAIN out}) /\ Len(text) = Len(out)
      BY <2>7, <2>8
    <2>10. text' = Append(text, line.what)
      <3> DEFINE n == Len(out)
                 c == line.what
      <3>1. /\ n \in Nat /\ DOMAIN out = 1..n
            /\ DOMAIN out' = 1 .. n + 1 /\ out'[n + 1].what = c
            /\ \A i \in 1..n : out'[i] = out[i]
        BY <2>6, <2>7
      <3> HIDE DEF n, c
      <3>2. DOMAIN text = 1..n /\ \A i \in 1..n : text[i] = out[i].what
        BY <2>8, <3>1
      <3>3. text' = [i \in 1 .. n + 1 |-> IF i <= n THEN text[i] ELSE c]
        BY <2>8, <3>1, <3>2
      <3>4. text' = Append(text, c)
        <4> DEFINE S == {text[i] : i \in 1..n} \cup {c}
        <4>1. text \in Seq(S) /\ c \in S /\ Len(text) = n
          BY <2>9, <3>1, <3>2 DEF n
        <4>2. text' \in Seq(S) /\ Len(text') = n + 1
          BY <3>1, <3>3
        <4> HIDE DEF S
        <4>3. /\ Append(text, c) \in Seq(S) /\ Len(Append(text, c)) = n + 1
              /\ \A i \in 1..n : Append(text, c)[i] = text[i]
              /\ Append(text, c)[n + 1] = c
          BY <4>1, AppendProperties
        <4>4. \A i \in 1 .. n + 1 : text'[i] = Append(text, c)[i]
          BY <3>1, <3>3, <4>3
        <4>5. QED
          BY <4>2, <4>3, <4>4, SeqEqual
      <3>5. QED
        BY <3>4 DEF c
    <2>11. QED
      BY <2>5, <2>6, <2>9, <2>10
  <1>3. QED
    BY <1>1, <1>2, AbExInit, AbExNext, PTL DEF Spec, ImplementsCyclicOutput, Cyc!Spec

-----------------------------------------------------------------------------
(* What every program keeps                                                *)

LEMMA Bounds ==
  /\ NLoops \in Nat \ {0} /\ NThreads \in Nat \ {0} /\ Pairs \in Nat \ {0} /\ Last \in Nat \ {0}
  /\ 1 + NThreads \in Threads /\ 1 + 2 * Pairs \in Threads /\ 4 \in Threads
  /\ Threads = 1 .. 1 + MaxOf(MaxOf(NThreads, 2 * Pairs), 3)
  /\ MaxOf(MaxOf(NThreads, 2 * Pairs), 3) \in Nat
  BY BoundsAssumption DEF Threads, MaxOf

LEMMA TeamOf ==
  /\ Team("ab_ex") = 1..3 /\ Team("deadlock") = 1..3 /\ Team("mutex") = 1 .. 1 + 2 * Pairs
  /\ Team("mutex1") = 1..3 /\ Team("join1") = 1 .. 1 + NThreads /\ Team("hello") = 1 .. 1 + NThreads
  /\ Team("ex_pthread1") = 1..2 /\ Team("ex_pthread2") = 1..3 /\ Team("oddevev") = 1..3
  /\ Team("sem_ex1") = 1..4
  BY DEF Team

LEMMA TeamIn ==
  ASSUME NEW g \in AllPrograms
  PROVE  /\ 1 \in Team(g) /\ Team(g) \subseteq Threads /\ Team(g) \subseteq Nat \ {0}
         /\ \E n \in Nat : Team(g) = 1..n
  <1>1. \A n \in {2, 3, 4, 1 + NThreads, 1 + 2 * Pairs} : 
          n \in Nat /\ n >= 1 /\ 1..n \subseteq Threads
    BY Bounds
  <1>2. \E n \in {2, 3, 4, 1 + NThreads, 1 + 2 * Pairs} : Team(g) = 1..n
    BY TeamOf DEF AllPrograms
  <1>3. QED
    BY <1>1, <1>2

\* main creates thread i + 1 with its call i, and waits for threads it has created;
\* the other threads create none.
MainWell(s, g) ==
    \A i \in 1..Len(s) :
        /\ s[i].op \in {"create", "join", "print", "spin", "exit", "end"}
        /\ s[i].op = "create" <=> i + 1 \in Team(g)
        /\ s[i].op = "create" => s[i].a = i + 1
        /\ s[i].op = "join" => s[i].a \in 2..i /\ s[i].a \in Team(g)

WorkerWell(s) == \A i \in 1..Len(s) : s[i].op \notin {"create", "join", "spin", "exit"}

\* main of ab_ex.c and oddevev.c, and of ex_pthread2.c.
LEMMA TwoWorkers ==
  ASSUME NEW g, Team(g) = 1..3, NEW c, NEW s,
         \/ s = <<create(2), create(3), join(2), join(3), exit>>
         \/ s = <<create(2), create(3), join(2), join(3), print(c), exit>>
  PROVE  MainWell(s, g)
  <1>1. /\ Len(s) \in {5, 6}
        /\ s[1] = create(2) /\ s[2] = create(3) /\ s[3] = join(2) /\ s[4] = join(3)
        /\ Len(s) = 5 => s[5] = exit
        /\ Len(s) = 6 => s[5] = print(c) /\ s[6] = exit
    OBVIOUS
  <1>2. /\ s[1].op = "create" /\ s[1].a = 2 /\ s[2].op = "create" /\ s[2].a = 3
        /\ s[3].op = "join" /\ s[3].a = 2 /\ s[4].op = "join" /\ s[4].a = 3
        /\ s[5].op \in {"exit", "print"}
        /\ Len(s) = 6 => s[6].op = "exit"
    BY <1>1, Calls
  <1>3. \A i \in 1..Len(s) : i \in {1, 2, 3, 4, 5} \/ (i = 6 /\ Len(s) = 6)
    <2>1. (\A i \in 1..5 : i \in {1, 2, 3, 4, 5}) /\ (\A i \in 1..6 : i \in {1, 2, 3, 4, 5} \/ i = 6)
      OBVIOUS
    <2>2. Len(s) = 5 \/ Len(s) = 6
      BY <1>1
    <2>3. QED
      BY <2>1, <2>2
  <1>4. QED
    BY <1>2, <1>3 DEF MainWell

LEMMA MainFormed ==
  ASSUME NEW g \in AllPrograms, g \notin {"sem_ex1", "mutex1"}
  PROVE  MainWell(Code(g, 1), g)
  <1>1. CASE g = "ab_ex"
    <2>1. MainWell(AbExMain, g)
      BY <1>1, TeamOf, TwoWorkers DEF AbExMain
    <2>2. QED
      BY <1>1, <2>1 DEF Code, AbEx
  <1>2. CASE g = "deadlock"
    <2>1. MainWell(DeadlockMain, g)
      <3>1. Team(g) = 1..3 /\ Len(DeadlockMain) = 3
        BY <1>2, TeamOf DEF DeadlockMain
      <3>2. /\ DeadlockMain[1].op = "create" /\ DeadlockMain[1].a = 2
            /\ DeadlockMain[2].op = "create" /\ DeadlockMain[2].a = 3 /\ DeadlockMain[3].op = "spin"
        BY Calls DEF DeadlockMain
      <3>3. QED
        BY <3>1, <3>2 DEF MainWell
    <2>2. QED
      BY <1>2, <2>1 DEF Code
  <1>3. CASE g = "mutex"
    <2>1. MainWell(MutexMain, g)
      <3>1. 2 * Pairs \in Nat
        BY BoundsAssumption
      <3>2. \A i \in 1 .. 2 * Pairs : i + 1 \in Team(g) /\ MutexMain[i].op = "create" /\ MutexMain[i].a = i + 1
        <4>1. \A i \in 1 .. 2 * Pairs : i + 1 \in 1 .. 1 + 2 * Pairs
          BY <3>1
        <4>2. \A i \in 1 .. 2 * Pairs : MutexMain[i].op = "create" /\ MutexMain[i].a = i + 1
          BY MutexMainCode, Calls
        <4>3. QED
          BY <1>3, <4>1, <4>2, TeamOf
      <3>3. MutexMain[2 * Pairs + 1].op = "spin" /\ 2 * Pairs + 1 + 1 \notin Team(g)
        BY <1>3, <3>1, TeamOf, MutexMainCode, Calls
      <3>4. Len(MutexMain) = 2 * Pairs + 1
            /\ \A i \in 1 .. 2 * Pairs + 1 : i \in 1 .. 2 * Pairs \/ i = 2 * Pairs + 1
        BY <3>1, MutexMainCode
      <3>5. QED
        BY <3>2, <3>3, <3>4 DEF MainWell
    <2>2. QED
      BY <1>3, <2>1 DEF Code
  <1>5. CASE g = "join1"
    <2>1. MainWell(Join1Main, g)
      <3>1. NThreads \in Nat \ {0}
        BY BoundsAssumption
      <3>2. \A i \in 1..NThreads : /\ i + 1 \in Team(g) /\ NThreads + i + 1 \notin Team(g)
                                   /\ i + 1 \in 2 .. NThreads + i
        BY <1>5, <3>1, TeamOf
      <3>3. \A i \in 1..NThreads : /\ Join1Main[i].op = "create" /\ Join1Main[i].a = i + 1
                                   /\ Join1Main[NThreads + i].op = "join" /\ Join1Main[NThreads + i].a = i + 1
        BY Join1MainCode, CreateJoin
      <3>4. /\ Join1Main[2 * NThreads + 1].op = "print" /\ 2 * NThreads + 1 + 1 \notin Team(g)
            /\ Join1Main[2 * NThreads + 2].op = "exit" /\ 2 * NThreads + 2 + 1 \notin Team(g)
        BY <1>5, <3>1, TeamOf, Join1MainCode, Calls
      <3>5. \A i \in 1 .. 2 * NThreads + 2 : \/ i \in 1..NThreads
                                             \/ \E k \in 1..NThreads : i = NThreads + k
                                             \/ i = 2 * NThreads + 1
                                             \/ i = 2 * NThreads + 2
        <4>1. ASSUME NEW i \in 1 .. 2 * NThreads, i > NThreads
              PROVE  i - NThreads \in 1..NThreads /\ i = NThreads + (i - NThreads)
          BY <3>1, <4>1
        <4>2. QED
          BY <3>1, <4>1
      <3>6. Len(Join1Main) = 2 * NThreads + 2
        BY Join1MainCode
      <3> DEFINE Good(i) ==
            LET c == Join1Main[i] IN
            /\ c.op \in {"create", "join", "print", "spin", "exit", "end"}
            /\ c.op = "create" <=> i + 1 \in Team(g)
            /\ c.op = "create" => c.a = i + 1
            /\ c.op = "join" => c.a \in 2..i /\ c.a \in Team(g)
      <3>7. \A i \in 1..NThreads : Good(i)
        BY <3>2, <3>3
      <3>8. \A i \in 1..NThreads : Good(NThreads + i)
        BY <3>2, <3>3
      <3>9. Good(2 * NThreads + 1) /\ Good(2 * NThreads + 2)
        BY <3>4
      <3>10. \A i \in 1 .. 2 * NThreads + 2 : Good(i)
        BY <3>5, <3>7, <3>8, <3>9
      <3>11. QED
        BY <3>6, <3>10 DEF MainWell
    <2>2. QED
      BY <1>5, <2>1 DEF Code
  <1>6. CASE g = "hello"
    <2>1. MainWell(HelloMain, g)
      <3>1. NThreads \in Nat
        BY BoundsAssumption
      <3>2. \A i \in 1..NThreads : i + 1 \in Team(g) /\ HelloMain[i].op = "create" /\ HelloMain[i].a = i + 1
        <4>1. \A i \in 1..NThreads : i + 1 \in Team(g)
          BY <1>6, <3>1, TeamOf
        <4>2. \A i \in 1..NThreads : HelloMain[i].op = "create" /\ HelloMain[i].a = i + 1
          BY HelloMainCode, Calls
        <4>3. QED
          BY <4>1, <4>2
      <3>3. HelloMain[NThreads + 1].op = "end" /\ NThreads + 1 + 1 \notin Team(g)
        BY <1>6, <3>1, TeamOf, HelloMainCode, Calls
      <3>4. Len(HelloMain) = NThreads + 1
            /\ \A i \in 1 .. NThreads + 1 : i \in 1..NThreads \/ i = NThreads + 1
        BY <3>1, HelloMainCode
      <3>5. QED
        BY <3>2, <3>3, <3>4 DEF MainWell
    <2>2. QED
      BY <1>6, <2>1 DEF Code
  <1>7. CASE g = "ex_pthread1"
    <2>1. MainWell(ExPthread1Main, g)
      BY <1>7, TeamOf, Calls DEF ExPthread1Main, MainWell
    <2>2. QED
      BY <1>7, <2>1 DEF Code
  <1>8. CASE g = "ex_pthread2"
    <2>1. MainWell(ExPthread2Main, g)
      BY <1>8, TeamOf, TwoWorkers DEF ExPthread2Main
    <2>2. QED
      BY <1>8, <2>1 DEF Code
  <1>9. CASE g = "oddevev"
    <2>1. MainWell(OddEvEvMain, g)
      BY <1>9, TeamOf, TwoWorkers DEF OddEvEvMain
    <2>2. QED
      BY <1>9, <2>1 DEF Code
  <1>10. QED
    BY <1>1, <1>2, <1>3, <1>5, <1>6, <1>7, <1>8, <1>9 DEF AllPrograms

LEMMA WorkersFormed ==
  ASSUME NEW g \in AllPrograms, g # "sem_ex1", NEW t \in Team(g), t # 1
  PROVE  WorkerWell(Code(g, t))
  <1>1. CASE g = "ab_ex"
    <2>1. t \in {2, 3}
      BY <1>1, TeamOf
    <2>2. /\ 12 * NLoops \in Nat /\ Len(Code(g, t)) = 12 * NLoops + 1
          /\ Code(g, t)[12 * NLoops + 1].op = "end"
      <3>1. 12 * NLoops \in Nat
        BY BoundsAssumption
      <3>2. Len(Code(g, t)) = 12 * NLoops + 1 /\ Code(g, t)[12 * NLoops + 1] = end
        BY <1>1, <2>1, AbExCode
      <3>3. QED
        BY <3>1, <3>2, Calls
    <2>3. \A k \in 1..12 : Body(t)[k].op \in {"sem_wait", "sem_post", "print"}
      BY <2>1, Bodies DEF Body
    <2>4. \A i \in 1 .. 12 * NLoops : ((i - 1) % 12) + 1 \in 1..12
      OBVIOUS
    <2>5. \A i \in 1 .. 12 * NLoops : Code(g, t)[i].op \in {"sem_wait", "sem_post", "print"}
      BY <1>1, <2>1, <2>3, <2>4, AbExCode
    <2>6. \A i \in 1 .. 12 * NLoops + 1 : i \in 1 .. 12 * NLoops \/ i = 12 * NLoops + 1
      BY <2>2
    <2>7. QED
      BY <2>2, <2>5, <2>6 DEF WorkerWell
  <1>2. CASE g = "deadlock"
    <2>1. WorkerWell(print_i)
      BY Calls DEF print_i, WorkerWell
    <2>2. WorkerWell(print_j)
      BY Calls DEF print_j, WorkerWell
    <2>3. QED
      BY <1>2, <2>1, <2>2, TeamOf DEF Code
  <1>3. CASE g = "mutex"
    <2>1. WorkerWell(Print12)
      BY Calls DEF Print12, WorkerWell
    <2>2. QED
      BY <1>3, <2>1 DEF Code
  <1>4. CASE g = "mutex1"
    <2>1. WorkerWell(functionC)
      BY Calls DEF functionC, WorkerWell
    <2>2. QED
      BY <1>4, <2>1 DEF Code
  <1>5. CASE g = "join1"
    <2>1. WorkerWell(thread_function)
      BY Calls DEF thread_function, WorkerWell
    <2>2. QED
      BY <1>5, <2>1 DEF Code
  <1>6. CASE g = "hello"
    <2>1. WorkerWell(PrintHello)
      BY Calls DEF PrintHello, WorkerWell
    <2>2. QED
      BY <1>6, <2>1 DEF Code
  <1>7. CASE g = "ex_pthread1"
    <2>1. 2 * Last \in Nat /\ \A i \in 1 .. 2 * Last + 1 : i \in 1 .. 2 * Last \/ i = 2 * Last + 1
      BY BoundsAssumption
    <2>2. \A i \in 1 .. 2 * Last + 1 : inc_x[i].op \in {"load", "store", "end"}
      BY <2>1, IncCode, Calls
    <2>3. WorkerWell(inc_x)
      BY <2>2, IncCode DEF WorkerWell
    <2>4. QED
      BY <1>7, <2>3 DEF Code
  <1>8. CASE g = "ex_pthread2"
    <2>1. WorkerWell(print_message_function)
      BY Calls DEF print_message_function, WorkerWell
    <2>2. QED
      BY <1>8, <2>1 DEF Code
  <1>9. CASE g = "oddevev"
    <2>1. ASSUME NEW r PROVE WorkerWell(PrintNos(r))
      BY Calls DEF PrintNos, WorkerWell
    <2>2. QED
      BY <1>9, <2>1, TeamOf DEF Code
  <1>10. QED
    BY <1>1, <1>2, <1>3, <1>4, <1>5, <1>6, <1>7, <1>8, <1>9 DEF AllPrograms

Records == [by : Threads, what : Texts, value : Nat]

Places ==
    /\ prog \in AllPrograms
    /\ pc \in [Threads -> Int]
    /\ \A t \in Threads : \/ pc[t] = 0
                          \/ t \in Team(prog) /\ pc[t] \in {Gone} \cup 1..Len(Code(prog, t))
    /\ over \in BOOLEAN
    /\ locked \in [Mutexes -> BOOLEAN]
    /\ sem \in [Sems -> Int]
    /\ removed \in BOOLEAN
    /\ undo \in [Threads -> Int]
    /\ shared \in Nat
    /\ reg \in [Threads -> Nat]
    /\ out \in Seq(Records)
    /\ prog \notin {"ab_ex", "sem_ex1"} => sem = [s \in Sems |-> IF s = 0 THEN 1 ELSE 0]
    /\ prog # "sem_ex1" => undo = [t \in Threads |-> 0] /\ ~removed
    /\ prog \notin {"mutex1", "join1", "ex_pthread1", "oddevev"} =>
          shared = 0 /\ reg = [t \in Threads |-> 0]

\* Where a thread that acts is, and where it goes from there.
Straight == {"join", "lock", "unlock", "sem_wait", "sem_post", "load", "store", "print", "release", "remove"}
Jumps == {"parity", "while", "assert", "acquire", "fork"}

Moves(t) ==
    \/ Op(t).op \in Straight \cup {"create"} /\ pc' = [pc EXCEPT ![t] = pc[t] + 1]
    \/ Op(t).op \in Jumps /\ \E n \in 1..Len(Code(prog, t)) : pc' = [pc EXCEPT ![t] = n]
    \/ Op(t).op = "end" /\ pc' = [pc EXCEPT ![t] = Gone]
    \/ /\ Op(t).op \in {"create", "fork"}
       /\ pc' = [pc EXCEPT ![t] = pc[t] + 1, ![Op(t).a] = 1]
    \/ Op(t).op \in {"create", "join", "exit"} /\ pc' = pc /\ over'

LEMMA Located ==
  ASSUME Places, NEW t \in Threads, Act(t)
  PROVE  /\ t \in Team(prog) /\ pc[t] \in 1..Len(Code(prog, t)) /\ Len(Code(prog, t)) \in Nat
         /\ Op(t) = Code(prog, t)[pc[t]]
         /\ WellPlaced(Op(t), pc[t], Len(Code(prog, t)), prog)
         /\ Op(t).op \notin {"end", "exit"} => pc[t] + 1 \in 1..Len(Code(prog, t))
  <1>1. pc[t] > 0 /\ Op(t).op # "spin"
    BY Kinds
  <1>2. t \in Team(prog) /\ pc[t] \in 1..Len(Code(prog, t))
    BY <1>1 DEF Places, Gone
  <1>3. Well(Code(prog, t), prog)
    BY <1>2, WellFormed DEF Places
  <1>4. Op(t) = Code(prog, t)[pc[t]]
    BY DEF Op
  <1>5. Len(Code(prog, t)) \in Nat /\ WellPlaced(Op(t), pc[t], Len(Code(prog, t)), prog)
    BY <1>2, <1>3, <1>4 DEF Well
  <1>6. Op(t).op \notin {"end", "exit"} => pc[t] < Len(Code(prog, t))
    BY <1>1, <1>5 DEF WellPlaced
  <1>7. QED
    BY <1>2, <1>4, <1>5, <1>6

LEMMA Moving ==
  ASSUME Places, NEW t \in Threads, Act(t)
  PROVE  Moves(t)
  <1>1. /\ pc[t] \in 1..Len(Code(prog, t)) /\ Len(Code(prog, t)) \in Nat
        /\ WellPlaced(Op(t), pc[t], Len(Code(prog, t)), prog)
        /\ Op(t).op \notin {"end", "exit"} => pc[t] + 1 \in 1..Len(Code(prog, t))
    BY Located
  <1>2. pc \in [Threads -> Int]
    BY DEF Places
  <1>3. CASE Op(t).op = "create"
    <2>1. CASE Create(t)
      BY <2>1, <1>2, <1>3 DEF Create, Moves
    <2>2. CASE CreateFails(t)
      BY <2>2, <1>3 DEF CreateFails, Goes, GoTo, Moves
    <2>3. QED
      BY <2>1, <2>2, <1>3, Kinds
  <1>9. CASE Op(t).op = "join" /\ JoinNobody(t)
    BY <1>9 DEF JoinNobody, Goes, GoTo, Straight, Moves
  <1>4. CASE Op(t).op \in Straight /\ ~JoinNobody(t)
    <2>1. Goes(t)
      <3>1. CASE Op(t).op = "release"
        BY <3>1, Kinds DEF Release
      <3>2. CASE Op(t).op # "release"
        BY <1>4, <3>2, Kinds DEF Straight, Join, Lock, Unlock, SemWait, SemPost, Load, Store, PutOut, Remove
      <3>3. QED
        BY <3>1, <3>2
    <2>2. QED
      BY <2>1, <1>4 DEF Goes, GoTo, Moves
  <1>5. CASE Op(t).op \in Jumps
    <2>1. CASE Op(t).op = "parity"
      <3>1. \E n \in {pc[t] + 1, Op(t).b} : GoTo(t, n)
        BY <2>1, Kinds DEF Parity
      <3>2. pc[t] + 1 \in 1..Len(Code(prog, t)) /\ Op(t).b \in 1..Len(Code(prog, t))
        BY <2>1, <1>1 DEF WellPlaced
      <3>3. QED
        BY <3>1, <3>2, <1>5 DEF GoTo, Moves
    <2>2. CASE Op(t).op = "while"
      <3>1. \E n \in {pc[t] + 1, Op(t).a} : GoTo(t, n)
        BY <2>2, Kinds DEF While
      <3>2. pc[t] + 1 \in 1..Len(Code(prog, t)) /\ Op(t).a \in 1..Len(Code(prog, t))
        BY <2>2, <1>1 DEF WellPlaced
      <3>3. QED
        BY <3>1, <3>2, <1>5 DEF GoTo, Moves
    <2>3. CASE Op(t).op = "assert"
      <3>1. \E n \in {pc[t] + 1, Len(Code(prog, t))} : GoTo(t, n)
        BY <2>3, Kinds DEF AssertOne
      <3>2. pc[t] + 1 \in 1..Len(Code(prog, t)) /\ Len(Code(prog, t)) \in 1..Len(Code(prog, t))
        BY <2>3, <1>1
      <3>3. QED
        BY <3>1, <3>2, <1>5 DEF GoTo, Moves
    <2>4. CASE Op(t).op = "acquire"
      <3>1. \E n \in {pc[t] + 1, Op(t).b} : GoTo(t, n)
        BY <2>4, Kinds DEF Acquire, Goes
      <3>2. pc[t] + 1 \in 1..Len(Code(prog, t)) /\ Op(t).b \in 1..Len(Code(prog, t))
        BY <2>4, <1>1 DEF WellPlaced
      <3>3. QED
        BY <3>1, <3>2, <1>5 DEF GoTo, Moves
    <2>5. CASE Op(t).op = "fork"
      <3>1. CASE Fork(t)
        BY <3>1, <2>5, <1>2 DEF Fork, Moves
      <3>2. CASE ForkFails(t)
        <4>1. GoTo(t, Op(t).b) /\ Op(t).b \in 1..Len(Code(prog, t))
          BY <3>2, <2>5, <1>1 DEF ForkFails, WellPlaced
        <4>2. QED
          BY <4>1, <1>5 DEF GoTo, Moves
      <3>3. QED
        BY <3>1, <3>2, <2>5, Kinds
    <2>6. QED
      BY <1>5, <2>1, <2>2, <2>3, <2>4, <2>5 DEF Jumps
  <1>6. CASE Op(t).op = "end"
    BY <1>6, Kinds DEF End, GoTo, Moves
  <1>7. CASE Op(t).op = "exit"
    BY <1>7, Kinds DEF Exit, Moves
  <1>8. QED
    BY <1>3, <1>4, <1>5, <1>6, <1>7, <1>9, Kinds DEF Straight, Jumps, JoinNobody, JoinsNobody, At

\* Calls that leave all to the thread's own place.
LEMMA Others ==
  ASSUME NEW t \in Threads, Act(t),
         Op(t).op \in {"create", "join", "parity", "while", "exit", "assert", "fork"},
         Op(t).op = "create" => Op(t).b # 2
  PROVE  UNCHANGED <<locked, sem, removed, undo, shared, reg, out>> /\ over' \in {over, TRUE}
  <1>1. \/ Create(t) \/ CreateFails(t) \/ Join(t) \/ JoinNobody(t) \/ Parity(t) \/ While(t) \/ Exit(t)
        \/ AssertOne(t) \/ Fork(t) \/ ForkFails(t)
    BY Kinds
  <1>2. UNCHANGED <<kernel, shared, reg, out>> /\ over' \in {over, TRUE}
    BY <1>1 DEF Create, CreateFails, At, Join, JoinNobody, Parity, While, Exit, AssertOne, Fork, ForkFails
  <1>3. QED
    BY <1>2 DEF kernel

\* main of mutex1.c says that a thread could not be created.
LEMMA GoesOn ==
  ASSUME NEW t, CreateFails(t), Op(t).b = 2
  PROVE  /\ GoTo(t, pc[t] + 1) /\ UNCHANGED <<over, locked, sem, removed, undo, shared, reg>>
         /\ out' = Append(out, [by |-> t, what |-> "failed", value |-> shared])
  BY DEF CreateFails, Goes, kernel

\* What a program has no calls for, it leaves alone.
LEMMA StaysAsItIs ==
  ASSUME Places, NEW t \in Threads, Act(t)
  PROVE  /\ prog \notin {"ab_ex", "sem_ex1"} => sem' = sem
         /\ prog # "sem_ex1" => undo' = undo /\ removed' = removed
         /\ prog \notin {"mutex1", "join1", "ex_pthread1", "oddevev"} => UNCHANGED <<shared, reg>>
  <1>1. WellPlaced(Op(t), pc[t], Len(Code(prog, t)), prog)
    BY Located
  <1>2. /\ Op(t).op \in {"sem_wait", "sem_post"} => prog = "ab_ex"
        /\ Op(t).op \in {"assert", "acquire", "release", "fork", "remove"} => prog = "sem_ex1"
        /\ Op(t).op \in {"load", "store"} => prog \in {"mutex1", "join1", "ex_pthread1", "oddevev"}
    BY <1>1 DEF WellPlaced
  <1>a. CASE CreateFails(t) /\ Op(t).op = "create" /\ Op(t).b = 2
    BY <1>a, GoesOn
  <1>b. CASE Create(t)
    <2>1. UNCHANGED <<kernel, shared, reg>>
      BY <1>b DEF Create
    <2>2. QED
      BY <2>1 DEF kernel
  <1>3. CASE /\ Op(t).op \in {"create", "join", "parity", "while", "exit", "assert", "fork"}
             /\ Op(t).op = "create" => Op(t).b # 2
    BY <1>3, Others
  <1>4. CASE Op(t).op \in {"lock", "unlock"}
    BY <1>4, Kinds DEF Lock, Unlock
  <1>5. CASE Op(t).op \in {"sem_wait", "sem_post"}
    BY <1>2, <1>5, Kinds DEF SemWait, SemPost
  <1>6. CASE Op(t).op \in {"load", "store"}
    <2>1. UNCHANGED kernel
      BY <1>6, Kinds DEF Load, Store
    <2>2. QED
      BY <2>1, <1>2, <1>6 DEF kernel
  <1>7. CASE Op(t).op = "print"
    <2>1. UNCHANGED <<kernel, shared, reg>>
      BY <1>7, Kinds DEF PutOut
    <2>2. QED
      BY <2>1 DEF kernel
  <1>8. CASE Op(t).op = "end"
    <2>1. UNCHANGED <<removed, shared, reg>> /\ undo' = [undo EXCEPT ![t] = 0] /\ Undo(t)
      BY <1>8, Kinds DEF End
    <2>2. ASSUME prog # "sem_ex1" PROVE undo' = undo /\ sem' = sem
      <3>1. undo = [u \in Threads |-> 0] /\ ~removed /\ sem \in [Sems -> Int]
        BY <2>2 DEF Places
      <3>2. undo[t] = 0 /\ undo' = undo
        BY <2>1, <3>1
      <3>3. sem' = [sem EXCEPT ![0] = sem[0] + undo[t]]
        BY <2>1, <3>1 DEF Undo
      <3>4. sem' = sem
        BY <3>1, <3>2, <3>3
      <3>5. QED
        BY <3>2, <3>4
    <2>3. QED
      BY <2>1, <2>2
  <1>9. CASE Op(t).op \in {"acquire", "release", "remove"}
    <2>1. UNCHANGED <<shared, reg>>
      BY <1>9, Kinds DEF Acquire, Release, Remove
    <2>2. QED
      BY <2>1, <1>2, <1>9
  <1>10. QED
    BY <1>a, <1>b, <1>3, <1>4, <1>5, <1>6, <1>7, <1>8, <1>9, Kinds

LEMMA PlacesNext == Places /\ [Next]_vars => Places'
  <1> SUFFICES ASSUME Places, [Next]_vars PROVE Places'
    OBVIOUS
  <1>1. CASE UNCHANGED vars
    <2>1. UNCHANGED <<prog, pc, over, locked, sem, removed, undo, shared, reg, out>>
      BY <1>1 DEF vars, kernel
    <2>2. QED
      BY <2>1 DEF Places
  <1>2. ASSUME NEW t \in Threads, Act(t) PROVE Places'
    <2>1. /\ t \in Team(prog) /\ pc[t] \in 1..Len(Code(prog, t)) /\ Len(Code(prog, t)) \in Nat
          /\ WellPlaced(Op(t), pc[t], Len(Code(prog, t)), prog)
          /\ Op(t).op \notin {"end", "exit"} => pc[t] + 1 \in 1..Len(Code(prog, t))
      BY <1>2, Located
    <2>2. prog' = prog
      BY <1>2, Kinds
    <2>3. /\ pc' \in [Threads -> Int]
          /\ \A u \in Threads : \/ pc'[u] = 0
                                \/ u \in Team(prog) /\ pc'[u] \in {Gone} \cup 1..Len(Code(prog, u))
      <3> DEFINE Placed(u, n) == n = 0 \/ (u \in Team(prog) /\ n \in {Gone} \cup 1..Len(Code(prog, u)))
      <3>1. pc \in [Threads -> Int] /\ \A u \in Threads : Placed(u, pc[u])
        BY DEF Places
      <3>2. Moves(t)
        BY <1>2, Moving
      <3>3. ASSUME NEW n \in Int, Placed(t, n), pc' = [pc EXCEPT ![t] = n]
            PROVE  pc' \in [Threads -> Int] /\ \A u \in Threads : Placed(u, pc'[u])
        <4> HIDE DEF Placed
        <4>1. QED
          BY <3>1, <3>3
      <3>4. CASE Op(t).op \in Straight \cup {"create"} /\ pc' = [pc EXCEPT ![t] = pc[t] + 1]
        <4>1. Op(t).op \notin {"end", "exit"}
          BY <3>4 DEF Straight
        <4>2. pc[t] + 1 \in Int /\ Placed(t, pc[t] + 1)
          BY <4>1, <2>1
        <4>3. QED
          BY <4>2, <3>3, <3>4
      <3>5. CASE Op(t).op \in Jumps /\ \E n \in 1..Len(Code(prog, t)) : pc' = [pc EXCEPT ![t] = n]
        <4>1. PICK n \in 1..Len(Code(prog, t)) : pc' = [pc EXCEPT ![t] = n]
          BY <3>5
        <4>2. n \in Int /\ Placed(t, n)
          BY <2>1
        <4>3. QED
          BY <4>1, <4>2, <3>3
      <3>6. CASE Op(t).op = "end" /\ pc' = [pc EXCEPT ![t] = Gone]
        <4>1. Gone \in Int /\ Placed(t, Gone)
          BY <2>1 DEF Gone
        <4>2. QED
          BY <4>1, <3>3, <3>6
      <3>7. CASE /\ Op(t).op \in {"create", "fork"}
                 /\ pc' = [pc EXCEPT ![t] = pc[t] + 1, ![Op(t).a] = 1]
        <4>1. pc[t] + 1 \in Int /\ Placed(t, pc[t] + 1)
          BY <3>7, <2>1
        <4>2. Op(t).a \in Team(prog) /\ Op(t).a \in Threads
          BY <3>7, <2>1, TeamIn DEF WellPlaced, Places
        <4>3. Placed(Op(t).a, 1)
          <5>1. Well(Code(prog, Op(t).a), prog)
            BY <4>2, WellFormed DEF Places
          <5>2. 1 \in 1..Len(Code(prog, Op(t).a))
            BY <5>1 DEF Well
          <5>3. QED
            BY <4>2, <5>2
        <4> HIDE DEF Placed
        <4>4. pc' = [u \in Threads |-> IF u = Op(t).a THEN 1 ELSE IF u = t THEN pc[t] + 1 ELSE pc[u]]
          BY <3>1, <3>7, <4>2
        <4>5. pc' \in [Threads -> Int]
          BY <3>1, <4>1, <4>4
        <4>6. \A u \in Threads : Placed(u, pc'[u])
          <5>1. TAKE u \in Threads
          <5>2. pc'[u] = IF u = Op(t).a THEN 1 ELSE IF u = t THEN pc[t] + 1 ELSE pc[u]
            BY <4>4
          <5>3. QED
            BY <5>2, <3>1, <4>1, <4>3
        <4>7. QED
          BY <4>5, <4>6 DEF Placed
      <3>8. CASE Op(t).op \in {"create", "join", "exit"} /\ pc' = pc /\ over'
        BY <3>1, <3>8
      <3>9. QED
        BY <3>2, <3>4, <3>5, <3>6, <3>7, <3>8 DEF Moves
    <2>4. /\ over' \in BOOLEAN /\ locked' \in [Mutexes -> BOOLEAN] /\ sem' \in [Sems -> Int]
          /\ removed' \in BOOLEAN /\ undo' \in [Threads -> Int]
          /\ shared' \in Nat /\ reg' \in [Threads -> Nat] /\ out' \in Seq(Records)
      <3>1. /\ over \in BOOLEAN /\ locked \in [Mutexes -> BOOLEAN] /\ sem \in [Sems -> Int]
            /\ removed \in BOOLEAN /\ undo \in [Threads -> Int]
            /\ shared \in Nat /\ reg \in [Threads -> Nat] /\ out \in Seq(Records)
        BY DEF Places
      <3>a. CASE CreateFails(t) /\ Op(t).op = "create" /\ Op(t).b = 2
        <4>1. UNCHANGED <<over, locked, sem, removed, undo, shared, reg>>
          BY <3>a, GoesOn
        <4>2. out' = Append(out, [by |-> t, what |-> "failed", value |-> shared])
          BY <3>a, GoesOn
        <4>3. [by |-> t, what |-> "failed", value |-> shared] \in Records
          BY <3>1 DEF Records, Texts
        <4>4. out' \in Seq(Records)
          BY <3>1, <4>2, <4>3
        <4>5. QED
          BY <3>1, <4>1, <4>4
      <3>b. CASE Create(t)
        <4>1. UNCHANGED <<over, kernel, shared, reg, out>>
          BY <3>b DEF Create
        <4>2. QED
          BY <3>1, <4>1 DEF kernel
      <3>2. CASE /\ Op(t).op \in {"create", "join", "parity", "while", "exit", "assert", "fork"}
                 /\ Op(t).op = "create" => Op(t).b # 2
        <4>1. UNCHANGED <<locked, sem, removed, undo, shared, reg, out>> /\ over' \in {over, TRUE}
          BY <1>2, <3>2, Others
        <4>2. QED
          BY <3>1, <4>1
      <3>3. CASE Op(t).op \in {"lock", "unlock"}
        <4>1. /\ locked' = [locked EXCEPT ![Op(t).a] = TRUE] \/ locked' = [locked EXCEPT ![Op(t).a] = FALSE]
              /\ UNCHANGED <<over, sem, removed, undo, shared, reg, out>>
          BY <1>2, <3>3, Kinds DEF Lock, Unlock
        <4>2. QED
          BY <3>1, <4>1
      <3>4. CASE Op(t).op \in {"sem_wait", "sem_post"}
        <4>1. UNCHANGED <<over, locked, removed, undo, shared, reg, out>>
          BY <1>2, <3>4, Kinds DEF SemWait, SemPost
        <4>2. Op(t).a \in Sems
          BY <3>4, <2>1 DEF WellPlaced
        <4>3. sem' = [sem EXCEPT ![Op(t).a] = sem[Op(t).a] - 1] \/ sem' = [sem EXCEPT ![Op(t).a] = sem[Op(t).a] + 1]
          BY <1>2, <3>4, Kinds DEF SemWait, SemPost
        <4>4. sem' \in [Sems -> Int]
          BY <3>1, <4>2, <4>3
        <4>5. QED
          BY <3>1, <4>1, <4>4
      <3>5. CASE Op(t).op \in {"load", "store"}
        <4>1. UNCHANGED <<over, locked, sem, removed, undo, out>>
          BY <1>2, <3>5, Kinds DEF Load, Store, kernel
        <4>2. \/ reg' = [reg EXCEPT ![t] = shared] /\ shared' = shared
              \/ shared' = reg[t] + 1 /\ reg' = reg
          BY <1>2, <3>5, Kinds DEF Load, Store
        <4>3. QED
          BY <3>1, <4>1, <4>2
      <3>6. CASE Op(t).op = "print"
        <4>1. UNCHANGED <<over, locked, sem, removed, undo, shared, reg>>
          BY <1>2, <3>6, Kinds DEF PutOut, kernel
        <4>2. out' = Append(out, [by |-> t, what |-> Op(t).a, value |-> shared])
          BY <1>2, <3>6, Kinds DEF PutOut
        <4>3. [by |-> t, what |-> Op(t).a, value |-> shared] \in Records
          BY <3>1, <3>6, <2>1 DEF WellPlaced, Records
        <4>4. out' \in Seq(Records)
          BY <3>1, <4>2, <4>3
        <4>5. QED
          BY <3>1, <4>1, <4>4
      <3>7. CASE Op(t).op = "end"
        <4>1. UNCHANGED <<over, locked, removed, shared, reg, out>> /\ undo' = [undo EXCEPT ![t] = 0]
          BY <1>2, <3>7, Kinds DEF End
        <4>2. sem' = sem \/ sem' = [sem EXCEPT ![0] = sem[0] + undo[t]]
          BY <1>2, <3>7, Kinds DEF End, Undo
        <4>3. sem' \in [Sems -> Int]
          BY <3>1, <4>2 DEF Sems
        <4>4. QED
          BY <3>1, <4>1, <4>3
      <3>8. CASE Op(t).op \in {"acquire", "release"}
        <4>1. UNCHANGED <<over, locked, removed, shared, reg, out>>
          BY <1>2, <3>8, Kinds DEF Acquire, Release
        <4>2. \/ sem' = sem /\ undo' = undo
              \/ sem' = [sem EXCEPT ![0] = sem[0] - 1] /\ undo' = [undo EXCEPT ![t] = undo[t] + 1]
              \/ sem' = [sem EXCEPT ![0] = sem[0] + 1] /\ undo' = [undo EXCEPT ![t] = undo[t] - 1]
          BY <1>2, <3>8, Kinds DEF Acquire, Release
        <4>3. sem' \in [Sems -> Int] /\ undo' \in [Threads -> Int]
          BY <3>1, <4>2 DEF Sems
        <4>4. QED
          BY <3>1, <4>1, <4>3
      <3>9. CASE Op(t).op = "remove"
        <4>1. UNCHANGED <<over, locked, sem, undo, shared, reg, out>> /\ removed' = TRUE
          BY <1>2, <3>9, Kinds DEF Remove
        <4>2. QED
          BY <3>1, <4>1
      <3>10. QED
        BY <1>2, <3>a, <3>b, <3>2, <3>3, <3>4, <3>5, <3>6, <3>7, <3>8, <3>9, Kinds
    <2>5. /\ prog \notin {"ab_ex", "sem_ex1"} => sem' = sem
          /\ prog # "sem_ex1" => undo' = undo /\ removed' = removed
          /\ prog \notin {"mutex1", "join1", "ex_pthread1", "oddevev"} => UNCHANGED <<shared, reg>>
      BY <1>2, StaysAsItIs
    <2>6. /\ prog \in AllPrograms
          /\ prog \notin {"ab_ex", "sem_ex1"} => sem' = [s \in Sems |-> IF s = 0 THEN 1 ELSE 0]
          /\ prog # "sem_ex1" => undo' = [u \in Threads |-> 0] /\ ~removed'
          /\ prog \notin {"mutex1", "join1", "ex_pthread1", "oddevev"} =>
                shared' = 0 /\ reg' = [u \in Threads |-> 0]
      BY <2>5 DEF Places
    <2>7. QED
      BY <2>2, <2>3, <2>4, <2>6, Zenon DEF Places
  <1>3. QED
    BY <1>1, <1>2, Cases

LEMMA PlacesInit == Init => Places
  <1> SUFFICES ASSUME Init PROVE Places
    OBVIOUS
  <1>1. /\ pc = [t \in Threads |-> IF t = 1 THEN 1 ELSE 0] /\ over = FALSE /\ removed = FALSE
        /\ locked = [m \in Mutexes |-> FALSE] /\ sem = [s \in Sems |-> IF s = 0 THEN 1 ELSE 0]
        /\ undo = [t \in Threads |-> 0] /\ shared = 0 /\ reg = [t \in Threads |-> 0] /\ out = <<>>
    BY DEF Init
  <1>2. prog \in AllPrograms
    BY ProgramsAssumption DEF Init
  <1>3. Well(Code(prog, 1), prog) /\ 1 \in Team(prog)
    BY <1>2, WellFormed, TeamIn
  <1>4. 1 \in 1..Len(Code(prog, 1))
    BY <1>3 DEF Well
  <1>5. \A t \in Threads : \/ pc[t] = 0
                           \/ t \in Team(prog) /\ pc[t] \in {Gone} \cup 1..Len(Code(prog, t))
    BY <1>1, <1>3, <1>4
  <1>6. /\ pc \in [Threads -> Int] /\ over \in BOOLEAN /\ removed \in BOOLEAN
        /\ locked \in [Mutexes -> BOOLEAN] /\ sem \in [Sems -> Int]
    <2>1. pc \in [Threads -> Int]
      BY <1>1
    <2>2. sem \in [Sems -> Int]
      BY <1>1
    <2>3. locked \in [Mutexes -> BOOLEAN] /\ over \in BOOLEAN /\ removed \in BOOLEAN
      BY <1>1
    <2>4. QED
      BY <2>1, <2>2, <2>3
  <1>7. undo \in [Threads -> Int] /\ shared \in Nat /\ reg \in [Threads -> Nat] /\ out \in Seq(Records)
    BY <1>1
  <1>8. QED
    BY <1>1, <1>2, <1>5, <1>6, <1>7 DEF Places

-----------------------------------------------------------------------------
(* main and the threads it starts, where a creation that fails ends main:  *)
(* in all programs but mutex1.c                                            *)

\* A thread runs only when main is past its creation, and has ended when main is
\* past a pthread_join of it; main ends the process last of all.
Started ==
    \A u \in Team(prog) \ {1} : pc[u] = 0 <=> pc[1] \in 1 .. u - 1

Joined ==
    \A i \in 1..Len(Code(prog, 1)) :
        Code(prog, 1)[i].op = "join" /\ pc[1] > i => pc[Code(prog, 1)[i].a] = Gone

Exited ==
    over => /\ pc[1] \in 1..Len(Code(prog, 1))
            /\ Op(1).op = "exit" \/ (Op(1).op = "create" /\ Op(1).b = 1)

Family == prog \notin {"sem_ex1", "mutex1"} => Started /\ Joined /\ Exited

LEMMA FamilyInit == Init => Family
  <1> SUFFICES ASSUME Init PROVE Started /\ Joined /\ Exited
    BY DEF Family
  <1>1. pc = [t \in Threads |-> IF t = 1 THEN 1 ELSE 0] /\ ~over
    BY DEF Init
  <1>2. Places
    BY PlacesInit
  <1>3. 1 \in Team(prog) /\ Team(prog) \subseteq Threads /\ Team(prog) \subseteq Nat \ {0}
    BY <1>2, TeamIn DEF Places
  <1>4. Started
    BY <1>1, <1>3 DEF Started
  <1>5. Joined
    BY <1>1, <1>3 DEF Joined
  <1>6. QED
    BY <1>1, <1>4, <1>5 DEF Exited

\* What main does to the others.
LEMMA MainMoves ==
  ASSUME Places, prog \notin {"sem_ex1", "mutex1"}, Started, Act(1)
  PROVE  /\ pc[1] \in 1..Len(Code(prog, 1))
         /\ \/ /\ Op(1).op = "create" /\ pc[1] + 1 \in Team(prog) /\ over' = over
               /\ pc' = [pc EXCEPT ![1] = pc[1] + 1, ![pc[1] + 1] = 1]
            \/ /\ Op(1).op = "join" /\ Op(1).a \in Team(prog) \ {1} /\ pc[Op(1).a] = Gone /\ over' = over
               /\ pc' = [pc EXCEPT ![1] = pc[1] + 1]
            \/ Op(1).op = "print" /\ pc' = [pc EXCEPT ![1] = pc[1] + 1] /\ over' = over
            \/ Op(1).op = "end" /\ pc' = [pc EXCEPT ![1] = Gone] /\ over' = over
            \/ Op(1).op = "exit" /\ pc' = pc
            \/ Op(1).op = "create" /\ Op(1).b = 1 /\ pc' = pc
         /\ pc[1] + 1 \in Team(prog) => Op(1).op = "create"
  <1>1. 1 \in Team(prog) /\ Team(prog) \subseteq Threads /\ Team(prog) \subseteq Nat \ {0}
    BY TeamIn DEF Places
  <1>2. /\ pc[1] \in 1..Len(Code(prog, 1)) /\ Op(1) = Code(prog, 1)[pc[1]]
        /\ Op(1).op # "spin"
    BY <1>1, Located, Kinds
  <1>3. /\ Op(1).op \in {"create", "join", "print", "end", "exit"}
        /\ Op(1).op = "create" <=> pc[1] + 1 \in Team(prog)
        /\ Op(1).op = "create" => Op(1).a = pc[1] + 1
        /\ Op(1).op = "join" => Op(1).a \in 2..pc[1] /\ Op(1).a \in Team(prog)
    BY <1>2, MainFormed DEF MainWell, Places
  <1>4. CASE Op(1).op = "create"
    <2>1. Op(1).b # 2
      BY <1>2, Located, Kinds, <1>1, <1>4 DEF WellPlaced
    <2>2. Create(1) \/ (Op(1).b = 1 /\ CreateFails(1))
      BY <1>4, <2>1, Kinds
    <2>3. QED
      BY <1>2, <1>3, <1>4, <2>2 DEF Places, Create, CreateFails
  <1>5. CASE Op(1).op = "join"
    <2>1. pc[Op(1).a] = Gone /\ pc' = [pc EXCEPT ![1] = pc[1] + 1] /\ over' = over
      BY <1>5, Kinds DEF Join, Goes, GoTo
    <2>2. Op(1).a \in Team(prog) \ {1}
      BY <1>3, <1>5
    <2>3. QED
      BY <1>2, <1>3, <1>5, <2>1, <2>2
  <1>6. CASE Op(1).op = "print"
    BY <1>2, <1>3, <1>6, Kinds DEF PutOut, Goes, GoTo
  <1>7. CASE Op(1).op = "end"
    BY <1>2, <1>3, <1>7, Kinds DEF End, GoTo
  <1>8. CASE Op(1).op = "exit"
    BY <1>2, <1>3, <1>8, Kinds DEF Exit
  <1>9. QED
    BY <1>3, <1>4, <1>5, <1>6, <1>7, <1>8

\* What another thread does to itself.
LEMMA WorkerMoves ==
  ASSUME Places, prog # "sem_ex1", NEW t \in Threads, t # 1, Act(t)
  PROVE  /\ t \in Team(prog) /\ pc[t] \in 1..Len(Code(prog, t))
         /\ over' = over /\ ~over
         /\ pc' \in [Threads -> Int] /\ pc'[t] # 0
         /\ \A u \in Threads \ {t} : pc'[u] = pc[u]
  <1>1. /\ t \in Team(prog) /\ pc[t] \in 1..Len(Code(prog, t)) /\ Len(Code(prog, t)) \in Nat
        /\ Op(t) = Code(prog, t)[pc[t]] /\ WellPlaced(Op(t), pc[t], Len(Code(prog, t)), prog)
    BY Located
  <1>2. Op(t).op \notin {"create", "join", "spin", "exit", "fork"}
    BY <1>1, WorkersFormed DEF WorkerWell, WellPlaced, Places
  <1>3. \E n \in Int \ {0} : pc' = [pc EXCEPT ![t] = n]
    BY <1>1, <1>2, Moving DEF Moves, Gone
  <1>4. over' = over /\ ~over
    BY <1>2, Kinds DEF Lock, Unlock, SemWait, SemPost, Load, Store, PutOut, Parity, While, End,
       AssertOne, Acquire, Release, Remove
  <1>5. pc \in [Threads -> Int]
    BY DEF Places
  <1>6. QED
    BY <1>1, <1>3, <1>4, <1>5

LEMMA FamilyNext == Places /\ Family /\ [Next]_vars => Family'
  <1> SUFFICES ASSUME Places, Family, [Next]_vars, prog' \notin {"sem_ex1", "mutex1"}
               PROVE  (Started /\ Joined /\ Exited)'
    BY DEF Family
  <1>1. prog' = prog /\ Started /\ Joined /\ Exited /\ prog \notin {"sem_ex1", "mutex1"} /\ prog \in AllPrograms
    BY SameProgram DEF Family, Places
  <1>2. 1 \in Team(prog) /\ Team(prog) \subseteq Threads /\ Team(prog) \subseteq Nat \ {0}
    BY <1>1, TeamIn
  <1>3. pc \in [Threads -> Int]
    BY DEF Places
  <1> DEFINE s == Code(prog, 1)
  <1>4. Op(1) = s[pc[1]] /\ (Op(1) = s[pc[1]])'
    BY <1>1 DEF Op
  <1>5. MainWell(s, prog)
    BY <1>1, MainFormed
  <1>6. CASE UNCHANGED vars
    <2>1. pc' = pc /\ over' = over
      BY <1>6 DEF vars
    <2>2. QED
      BY <1>1, <2>1 DEF Started, Joined, Exited, Op
  <1>7. ASSUME NEW t \in Threads, t # 1, Act(t) PROVE (Started /\ Joined /\ Exited)'
    <2>1. /\ pc[t] > 0 /\ over' = over /\ ~over
          /\ pc'[t] # 0 /\ \A u \in Threads \ {t} : pc'[u] = pc[u]
      BY <1>1, <1>7, WorkerMoves, Kinds
    <2>2. pc'[1] = pc[1]
      BY <1>2, <1>7, <2>1
    <2>3. Started'
      BY <1>1, <1>2, <2>1, <2>2 DEF Started
    <2>4. Joined'
      <3> SUFFICES ASSUME NEW i \in 1..Len(s), s[i].op = "join", pc'[1] > i PROVE pc'[s[i].a] = Gone
        BY <1>1 DEF Joined
      <3>1. pc[s[i].a] = Gone /\ s[i].a \in Threads
        BY <2>2, <1>1, <1>2, <1>5 DEF Joined, MainWell
      <3>2. QED
        BY <2>1, <3>1 DEF Gone
    <2>5. QED
      BY <2>1, <2>3, <2>4 DEF Exited
  <1>8. ASSUME Act(1) PROVE (Started /\ Joined /\ Exited)'
    <2>1. /\ pc[1] \in 1..Len(s)
          /\ pc[1] + 1 \in Team(prog) => Op(1).op = "create"
          /\ \/ /\ Op(1).op = "create" /\ pc[1] + 1 \in Team(prog) /\ over' = over
                /\ pc' = [pc EXCEPT ![1] = pc[1] + 1, ![pc[1] + 1] = 1]
             \/ /\ Op(1).op = "join" /\ Op(1).a \in Team(prog) \ {1} /\ pc[Op(1).a] = Gone /\ over' = over
                /\ pc' = [pc EXCEPT ![1] = pc[1] + 1]
             \/ Op(1).op = "print" /\ pc' = [pc EXCEPT ![1] = pc[1] + 1] /\ over' = over
             \/ Op(1).op = "end" /\ pc' = [pc EXCEPT ![1] = Gone] /\ over' = over
             \/ Op(1).op = "exit" /\ pc' = pc
             \/ Op(1).op = "create" /\ Op(1).b = 1 /\ pc' = pc
      BY <1>1, <1>8, MainMoves
    <2>2. ~over
      BY <1>2, <1>8, Kinds
    <2>3. CASE /\ Op(1).op = "create" /\ pc[1] + 1 \in Team(prog) /\ over' = over
               /\ pc' = [pc EXCEPT ![1] = pc[1] + 1, ![pc[1] + 1] = 1]
      <3>1. /\ pc'[1] = pc[1] + 1 /\ pc'[pc[1] + 1] = 1
            /\ \A u \in Threads \ {1, pc[1] + 1} : pc'[u] = pc[u]
        BY <1>2, <1>3, <2>1, <2>3
      <3>2. Started'
        <4> SUFFICES ASSUME NEW u \in Team(prog) \ {1} PROVE pc'[u] = 0 <=> pc'[1] \in 1 .. u - 1
          BY <1>1 DEF Started
        <4>1. CASE u = pc[1] + 1
          BY <3>1, <4>1, <2>1
        <4>2. CASE u # pc[1] + 1
          <5>1. pc'[u] = pc[u] /\ u \in Nat
            BY <1>2, <3>1, <4>2
          <5>2. pc[u] = 0 <=> pc[1] \in 1 .. u - 1
            BY <1>1 DEF Started
          <5>3. QED
            BY <5>1, <5>2, <3>1, <2>1, <4>2
        <4>3. QED
          BY <4>1, <4>2
      <3>3. Joined'
        <4> SUFFICES ASSUME NEW i \in 1..Len(s), s[i].op = "join", pc'[1] > i PROVE pc'[s[i].a] = Gone
          BY <1>1 DEF Joined
        <4>1. s[i].a \in 2..i /\ s[i].a \in Team(prog)
          BY <1>5 DEF MainWell
        <4>2. pc[1] # i
          BY <1>4, <2>3
        <4>3. pc[1] > i
          BY <3>1, <4>2, <2>1
        <4>4. pc[s[i].a] = Gone
          BY <1>1, <4>3 DEF Joined
        <4>5. s[i].a \in Threads \ {1, pc[1] + 1}
          BY <1>2, <4>1, <4>3, <2>1
        <4>6. QED
          BY <3>1, <4>4, <4>5
      <3>4. QED
        BY <2>2, <2>3, <3>2, <3>3 DEF Exited
    <2>4. CASE /\ Op(1).op \in {"join", "print"} /\ over' = over
               /\ Op(1).op = "join" => pc[Op(1).a] = Gone /\ Op(1).a \in Team(prog) \ {1}
               /\ pc' = [pc EXCEPT ![1] = pc[1] + 1]
      <3>1. pc'[1] = pc[1] + 1 /\ \A u \in Threads \ {1} : pc'[u] = pc[u]
        BY <1>2, <1>3, <2>1, <2>4
      <3>2. Started'
        <4> SUFFICES ASSUME NEW u \in Team(prog) \ {1} PROVE pc'[u] = 0 <=> pc'[1] \in 1 .. u - 1
          BY <1>1 DEF Started
        <4>1. u # pc[1] + 1
          BY <2>1, <2>4
        <4>2. pc'[u] = pc[u] /\ u \in Nat
          BY <1>2, <3>1
        <4>3. pc[u] = 0 <=> pc[1] \in 1 .. u - 1
          BY <1>1 DEF Started
        <4>4. QED
          BY <4>1, <4>2, <4>3, <3>1, <2>1
      <3>3. Joined'
        <4> SUFFICES ASSUME NEW i \in 1..Len(s), s[i].op = "join", pc'[1] > i PROVE pc'[s[i].a] = Gone
          BY <1>1 DEF Joined
        <4>1. s[i].a \in 2..i /\ s[i].a \in Team(prog)
          BY <1>5 DEF MainWell
        <4>2. pc[1] = i \/ pc[1] > i
          BY <3>1, <2>1
        <4>3. pc[s[i].a] = Gone
          BY <1>1, <1>4, <2>4, <4>2 DEF Joined
        <4>4. s[i].a \in Threads \ {1}
          BY <1>2, <4>1
        <4>5. QED
          BY <3>1, <4>3, <4>4
      <3>4. QED
        BY <2>2, <2>4, <3>2, <3>3 DEF Exited
    <2>5. CASE Op(1).op = "end" /\ pc' = [pc EXCEPT ![1] = Gone] /\ over' = over
      <3>1. pc'[1] = Gone /\ \A u \in Threads \ {1} : pc'[u] = pc[u]
        BY <1>2, <1>3, <2>5
      <3>2. Started'
        <4> SUFFICES ASSUME NEW u \in Team(prog) \ {1} PROVE pc'[u] = 0 <=> pc'[1] \in 1 .. u - 1
          BY <1>1 DEF Started
        <4>1. pc[1] + 1 \notin Team(prog)
          BY <2>1, <2>5
        <4>2. pc'[u] = pc[u] /\ u \in Nat
          BY <1>2, <3>1
        <4>3. pc[u] = 0 <=> pc[1] \in 1 .. u - 1
          BY <1>1 DEF Started
        <4>4. pc[1] >= u
          <5>1. PICK n \in Nat : Team(prog) = 1..n
            BY <1>1, TeamIn
          <5>2. QED
            BY <5>1, <4>1, <2>1
        <4>5. QED
          BY <4>2, <4>3, <4>4, <3>1, <2>1 DEF Gone
      <3>3. Joined'
        BY <1>1, <3>1 DEF Joined, Gone
      <3>4. QED
        BY <2>2, <2>5, <3>2, <3>3 DEF Exited
    <2>6. CASE pc' = pc /\ (Op(1).op = "exit" \/ (Op(1).op = "create" /\ Op(1).b = 1))
      BY <1>1, <1>4, <2>1, <2>6 DEF Started, Joined, Exited
    <2>7. QED
      BY <2>1, <2>3, <2>4, <2>5, <2>6
  <1>9. QED
    BY <1>6, <1>7, <1>8, Cases

-----------------------------------------------------------------------------
(* What the calls of the programs with threads do                          *)

Silent == UNCHANGED <<locked, shared, reg, out>>
Locks == ~locked[1] /\ locked'[1] /\ UNCHANGED <<shared, reg, out>>
Unlocks == ~locked'[1] /\ UNCHANGED <<shared, reg, out>>
Loads(t) == reg' = [reg EXCEPT ![t] = shared] /\ UNCHANGED <<locked, shared, out>>
Stores(t) == shared' = reg[t] + 1 /\ UNCHANGED <<locked, reg, out>>
Says(t, c) ==
    /\ out' = Append(out, [by |-> t, what |-> c, value |-> shared])
    /\ UNCHANGED <<locked, shared, reg>>

LEMMA Effects ==
  ASSUME Places, NEW t \in Threads, Act(t)
  PROVE  /\ Op(t) = lock(1) => pc'[t] = pc[t] + 1 /\ Locks
         /\ Op(t) = unlock(1) => pc'[t] = pc[t] + 1 /\ Unlocks
         /\ Op(t) = load => pc'[t] = pc[t] + 1 /\ Loads(t)
         /\ Op(t) = store => pc'[t] = pc[t] + 1 /\ Stores(t)
         /\ \A c : Op(t) = print(c) => pc'[t] = pc[t] + 1 /\ Says(t, c)
         /\ Op(t) = end => pc'[t] = Gone /\ Silent
         /\ Op(t).op \in {"create", "join", "exit", "end"} /\ (Op(t).op = "create" => Op(t).b # 2) => Silent
         /\ \A r, n : Op(t) = isParity(r, n) =>
               pc'[t] = (IF shared % 2 = r THEN pc[t] + 1 ELSE n) /\ Silent
         /\ \A n : Op(t) = while(n) =>
               pc'[t] = (IF shared <= Last THEN n ELSE pc[t] + 1) /\ Silent
  <1>1. pc \in [Threads -> Int] /\ locked \in [Mutexes -> BOOLEAN] /\ 1 \in Mutexes
    BY DEF Places, Mutexes
  <1>2. \A n : GoTo(t, n) => pc'[t] = n
    BY <1>1 DEF GoTo
  <1>3. Goes(t) => pc'[t] = pc[t] + 1
    BY <1>2 DEF Goes
  <1>4. ASSUME Op(t) = lock(1) PROVE pc'[t] = pc[t] + 1 /\ Locks
    <2>1. Lock(t) /\ Op(t).a = 1
      BY <1>4, Calls, Kinds
    <2>2. QED
      BY <2>1, <1>1, <1>3 DEF Lock, Locks
  <1>5. ASSUME Op(t) = unlock(1) PROVE pc'[t] = pc[t] + 1 /\ Unlocks
    <2>1. Unlock(t) /\ Op(t).a = 1
      BY <1>5, Calls, Kinds
    <2>2. QED
      BY <2>1, <1>1, <1>3 DEF Unlock, Unlocks
  <1>6. ASSUME Op(t) = load PROVE pc'[t] = pc[t] + 1 /\ Loads(t)
    <2>1. Load(t)
      BY <1>6, Calls, Kinds
    <2>2. QED
      BY <2>1, <1>3 DEF Load, Loads, kernel
  <1>7. ASSUME Op(t) = store PROVE pc'[t] = pc[t] + 1 /\ Stores(t)
    <2>1. Store(t)
      BY <1>7, Calls, Kinds
    <2>2. QED
      BY <2>1, <1>3 DEF Store, Stores, kernel
  <1>8. ASSUME NEW c, Op(t) = print(c) PROVE pc'[t] = pc[t] + 1 /\ Says(t, c)
    <2>1. PutOut(t) /\ Op(t).a = c
      BY <1>8, Calls, Kinds
    <2>2. QED
      BY <2>1, <1>3 DEF PutOut, Says, kernel
  <1>9. ASSUME Op(t).op = "end" PROVE pc'[t] = Gone /\ Silent
    <2>1. End(t)
      BY <1>9, Kinds
    <2>2. QED
      BY <2>1, <1>2 DEF End, Silent
  <1>10. /\ Op(t).op \in {"create", "join", "exit", "parity", "while"}
         /\ Op(t).op = "create" => Op(t).b # 2
         => Silent
    BY Others DEF Silent
  <1>11. ASSUME NEW r, NEW n, Op(t) = isParity(r, n)
         PROVE  pc'[t] = (IF shared % 2 = r THEN pc[t] + 1 ELSE n) /\ Silent
    <2>1. Op(t).op = "parity" /\ Op(t).a = r /\ Op(t).b = n
      BY <1>11, Calls
    <2>2. Parity(t)
      BY <2>1, Kinds
    <2>3. QED
      BY <2>1, <2>2, <1>2, <1>10 DEF Parity
  <1>12. ASSUME NEW n, Op(t) = while(n)
         PROVE  pc'[t] = (IF shared <= Last THEN n ELSE pc[t] + 1) /\ Silent
    <2>1. Op(t).op = "while" /\ Op(t).a = n
      BY <1>12, Calls
    <2>2. While(t)
      BY <2>1, Kinds
    <2>3. QED
      BY <2>1, <2>2, <1>2, <1>10 DEF While
  <1>13. end.op = "end"
    BY Calls
  <1>14. QED
    BY <1>4, <1>5, <1>6, <1>7, <1>8, <1>9, <1>10, <1>11, <1>12, <1>13

\* The output grows by the line.
LEMMA OneLine ==
  ASSUME Places, NEW t, NEW c, Says(t, c)
  PROVE  /\ Len(out) \in Nat /\ DOMAIN out = 1..Len(out)
         /\ Len(out') = Len(out) + 1 /\ DOMAIN out' = 1 .. Len(out) + 1
         /\ \A i \in 1..Len(out) : out'[i] = out[i]
         /\ out'[Len(out) + 1].by = t
         /\ out'[Len(out) + 1].what = c
         /\ out'[Len(out) + 1].value = shared
  BY DEF Places, Says

LEMMA MutexWorker ==
  ASSUME prog = "mutex", Places, NEW t \in Threads, t # 1, Act(t)
  PROVE  \/ pc[t] = 1 /\ pc'[t] = 2 /\ Locks
         \/ pc[t] = 2 /\ pc'[t] = 3 /\ Says(t, "1:")
         \/ pc[t] = 3 /\ pc'[t] = 4 /\ Says(t, "2:")
         \/ pc[t] = 4 /\ pc'[t] = 5 /\ Unlocks
         \/ pc[t] = 5 /\ pc'[t] = Gone /\ Silent
  <1>1. Code(prog, t) = Print12
    BY DEF Code
  <1>2. Op(t) = Print12[pc[t]] /\ pc[t] \in {1, 2, 3, 4, 5}
    BY <1>1, Located DEF Print12
  <1>3. /\ Print12[1] = lock(1) /\ Print12[2] = print("1:") /\ Print12[3] = print("2:")
        /\ Print12[4] = unlock(1) /\ Print12[5] = end
    BY DEF Print12
  <1>4. QED
    BY <1>2, <1>3, Effects

LEMMA Mutex1Worker ==
  ASSUME prog = "mutex1", Places, NEW t \in Threads, t # 1, Act(t)
  PROVE  \/ pc[t] = 1 /\ pc'[t] = 2 /\ Locks
         \/ pc[t] = 2 /\ pc'[t] = 3 /\ Loads(t)
         \/ pc[t] = 3 /\ pc'[t] = 4 /\ Stores(t)
         \/ pc[t] = 4 /\ pc'[t] = 5 /\ Says(t, "counter")
         \/ pc[t] = 5 /\ pc'[t] = 6 /\ Unlocks
         \/ pc[t] = 6 /\ pc'[t] = Gone /\ Silent
  <1>1. Code(prog, t) = functionC
    BY DEF Code
  <1>2. Op(t) = functionC[pc[t]] /\ pc[t] \in {1, 2, 3, 4, 5, 6}
    BY <1>1, Located DEF functionC
  <1>3. /\ functionC[1] = lock(1) /\ functionC[2] = load /\ functionC[3] = store
        /\ functionC[4] = print("counter") /\ functionC[5] = unlock(1) /\ functionC[6] = end
    BY DEF functionC
  <1>4. QED
    BY <1>2, <1>3, Effects

LEMMA Join1Worker ==
  ASSUME prog = "join1", Places, NEW t \in Threads, t # 1, Act(t)
  PROVE  \/ pc[t] = 1 /\ pc'[t] = 2 /\ Says(t, "number")
         \/ pc[t] = 2 /\ pc'[t] = 3 /\ Locks
         \/ pc[t] = 3 /\ pc'[t] = 4 /\ Loads(t)
         \/ pc[t] = 4 /\ pc'[t] = 5 /\ Stores(t)
         \/ pc[t] = 5 /\ pc'[t] = 6 /\ Unlocks
         \/ pc[t] = 6 /\ pc'[t] = Gone /\ Silent
  <1>1. Code(prog, t) = thread_function
    BY DEF Code
  <1>2. Op(t) = thread_function[pc[t]] /\ pc[t] \in {1, 2, 3, 4, 5, 6}
    BY <1>1, Located DEF thread_function
  <1>3. /\ thread_function[1] = print("number") /\ thread_function[2] = lock(1)
        /\ thread_function[3] = load /\ thread_function[4] = store
        /\ thread_function[5] = unlock(1) /\ thread_function[6] = end
    BY DEF thread_function
  <1>4. QED
    BY <1>2, <1>3, Effects

\* main starts threads that have not run, and does no more to them.
LEMMA MainStarts ==
  ASSUME Places, Family, prog \notin {"sem_ex1", "mutex1"}, Act(1)
  PROVE  /\ \A u \in Threads \ {1} : pc'[u] = pc[u] \/ (pc[u] = 0 /\ pc'[u] = 1)
         /\ Op(1).op # "print" => Silent
         /\ Op(1).op = "print" => /\ Says(1, Op(1).a) /\ pc'[1] = pc[1] + 1
                                  /\ \A u \in Threads \ {1} : pc'[u] = pc[u]
  <1>1. 1 \in Team(prog) /\ Team(prog) \subseteq Threads /\ pc \in [Threads -> Int] /\ Team(prog) \subseteq Nat
    BY TeamIn DEF Places
  <1>2. 1 \in Threads /\ Started
    BY <1>1 DEF Family
  <1>3. /\ pc[1] \in 1..Len(Code(prog, 1))
        /\ \/ /\ Op(1).op = "create" /\ pc[1] + 1 \in Team(prog)
              /\ pc' = [pc EXCEPT ![1] = pc[1] + 1, ![pc[1] + 1] = 1]
           \/ Op(1).op \in {"join", "print"} /\ pc' = [pc EXCEPT ![1] = pc[1] + 1]
           \/ Op(1).op = "end" /\ pc' = [pc EXCEPT ![1] = Gone]
           \/ Op(1).op \in {"exit", "create"} /\ pc' = pc
    BY <1>2, MainMoves
  <1>4. \A u \in Threads \ {1} : pc'[u] = pc[u] \/ (pc[u] = 0 /\ pc'[u] = 1)
    <2>1. ASSUME pc[1] + 1 \in Team(prog) PROVE pc[pc[1] + 1] = 0
      BY <2>1, <1>1, <1>2, <1>3 DEF Started
    <2>2. QED
      BY <2>1, <1>1, <1>3
  <1>5. Op(1).op # "print" => Silent
    <2>1. Op(1).op = "create" => Op(1).b # 2
      BY <1>2, Located DEF WellPlaced
    <2>2. QED
      BY <2>1, <1>2, <1>3, Effects
  <1>6. ASSUME Op(1).op = "print"
        PROVE  /\ Says(1, Op(1).a) /\ pc'[1] = pc[1] + 1
               /\ \A u \in Threads \ {1} : pc'[u] = pc[u]
    <2>1. Says(1, Op(1).a)
      BY <1>6, <1>2, Kinds DEF PutOut, Says, kernel
    <2>2. QED
      BY <1>1, <1>2, <1>3, <1>6, <2>1
  <1>7. QED
    BY <1>4, <1>5, <1>6

-----------------------------------------------------------------------------
(* main of mutex1.c and of oddevev.c                                       *)

Past(t, n) == IF pc[t] = Gone \/ pc[t] > n THEN 1 ELSE 0

\* main has seen the creation of thread u of mutex1.c fail.
Missing(u) == IF pc[u] = 0 /\ pc[1] > u - 1 THEN 1 ELSE 0

\* The threads of mutex1.c have run only when main has created them, and not again
\* after a join; their lines and main's messages are all the output.
Mutex1Inv ==
    prog = "mutex1" =>
        /\ pc[1] \in {1, 2, 3, 4, 5}
        /\ \A u \in {2, 3} : /\ pc[1] < u => pc[u] = 0
                             /\ pc[1] > u + 1 => pc[u] \in {0, Gone}
        /\ shared = Past(2, 3) + Past(3, 3)
        /\ Lines("counter") = Past(2, 4) + Past(3, 4)
        /\ Lines("failed") = Missing(2) + Missing(3)
        /\ \A i \in DOMAIN out : out[i].what = "counter" => out[i].value = LinesUpTo("counter", i)
        /\ \A t \in {2, 3} : pc[t] = 3 => reg[t] = shared

\* What main of mutex1.c does: a thread that is not created, or joined without having
\* been, stays as it is.
LEMMA Mutex1Main5 ==
  ASSUME prog = "mutex1", Places, Mutex1Inv, Act(1)
  PROVE  /\ \A u \in Threads \ 1..3 : pc'[u] = pc[u]
         /\ pc'[1] \in {1, 2, 3, 4, 5}
         /\ \/ /\ pc[1] \in {1, 2} /\ pc'[1] = pc[1] + 1 /\ pc[pc[1] + 1] = 0 /\ pc'[pc[1] + 1] = 1
               /\ \A u \in {2, 3} : u # pc[1] + 1 => pc'[u] = pc[u]
               /\ Silent
            \/ /\ pc[1] \in {1, 2} /\ pc'[1] = pc[1] + 1 /\ pc'[2] = pc[2] /\ pc'[3] = pc[3]
               /\ pc[pc[1] + 1] = 0
               /\ Says(1, "failed")
            \/ /\ pc[1] \in {3, 4} /\ pc'[1] = pc[1] + 1 /\ pc'[2] = pc[2] /\ pc'[3] = pc[3]
               /\ pc[pc[1] - 1] \in {0, Gone}
               /\ Silent
            \/ pc' = pc /\ Silent
  <1> DEFINE s == <<createOrGoOn(2), createOrGoOn(3), join(2), join(3), exit>>
  <1>1. Code(prog, 1) = s
    BY DEF Code, Mutex1Main
  <1>2. /\ s[1].op = "create" /\ s[1].a = 2 /\ s[2].op = "create" /\ s[2].a = 3
        /\ s[1].b = 2 /\ s[2].b = 2
        /\ s[3].op = "join" /\ s[3].a = 2 /\ s[4].op = "join" /\ s[4].a = 3
        /\ s[5].op = "exit"
    BY Calls
  <1> HIDE DEF s
  <1>3. Op(1) = s[pc[1]]
    BY <1>1 DEF Op
  <1>4. /\ pc[1] \in {1, 2, 3, 4, 5} /\ pc \in [Threads -> Int] /\ {1, 2, 3} \subseteq Threads
        /\ \A u \in {2, 3} : pc[1] < u => pc[u] = 0
    <2>1. /\ pc[1] \in {1, 2, 3, 4, 5}
          /\ \A u \in {2, 3} : /\ pc[1] < u => pc[u] = 0
                               /\ pc[1] > u + 1 => pc[u] \in {0, Gone}
      BY Zenon DEF Mutex1Inv
    <2>2. pc \in [Threads -> Int] /\ {1, 2, 3} \subseteq Threads
      BY Threads123 DEF Places
    <2>3. QED
      BY <2>1, <2>2
  <1>5. CASE pc[1] \in {1, 2}
    <2>1. Op(1).op = "create" /\ Op(1).a = pc[1] + 1 /\ Op(1).b = 2
      BY <1>2, <1>3, <1>5
    <2>2. pc[pc[1] + 1] = 0
      BY <1>4, <1>5
    <2>3. CASE Create(1)
      <3>1. pc' = [pc EXCEPT ![1] = pc[1] + 1, ![pc[1] + 1] = 1] /\ Silent
        BY <2>1, <2>3 DEF Create, Silent, kernel
      <3>2. /\ pc'[1] = pc[1] + 1 /\ pc'[pc[1] + 1] = 1
            /\ \A u \in Threads \ {1, pc[1] + 1} : pc'[u] = pc[u]
        BY <3>1, <1>4, <1>5
      <3>3. QED
        BY <3>1, <3>2, <2>2, <1>4, <1>5
    <2>4. CASE CreateFails(1)
      <3>1. pc' = [pc EXCEPT ![1] = pc[1] + 1] /\ Says(1, "failed")
        BY <2>1, <2>4, GoesOn DEF GoTo, Says
      <3>2. pc'[1] = pc[1] + 1 /\ \A u \in Threads \ {1} : pc'[u] = pc[u]
        BY <3>1, <1>4
      <3>3. QED
        BY <3>1, <3>2, <2>2, <1>4, <1>5
    <2>5. QED
      BY <2>1, <2>3, <2>4, Kinds
  <1>6. CASE pc[1] \in {3, 4}
    <2>1. Op(1).op = "join" /\ Op(1).a = pc[1] - 1
      BY <1>2, <1>3, <1>6
    <2>2. /\ Silent
          /\ pc' = pc \/ (pc' = [pc EXCEPT ![1] = pc[1] + 1] /\ pc[pc[1] - 1] \in {0, Gone})
      BY <2>1, Kinds DEF Join, JoinNobody, JoinsNobody, Goes, GoTo, Silent, kernel
    <2>3. CASE pc' = pc
      BY <2>2, <2>3, <1>4
    <2>4. CASE pc' = [pc EXCEPT ![1] = pc[1] + 1] /\ pc[pc[1] - 1] \in {0, Gone}
      <3>1. pc'[1] = pc[1] + 1 /\ \A u \in Threads \ {1} : pc'[u] = pc[u]
        BY <2>4, <1>4
      <3>2. QED
        BY <3>1, <2>2, <2>4, <1>4, <1>6
    <2>5. QED
      BY <2>2, <2>3, <2>4
  <1>7. CASE pc[1] = 5
    <2>1. Op(1).op = "exit"
      BY <1>2, <1>3, <1>7
    <2>2. pc' = pc /\ Silent
      BY <2>1, Kinds DEF Exit, Silent, kernel
    <2>3. QED
      BY <2>2, <1>4
  <1>8. QED
    BY <1>4, <1>5, <1>6, <1>7

\* main of oddevev.c neither prints nor exits before both threads have ended.
LEMMA TwoJoined ==
  ASSUME Places, Family, prog = "oddevev"
  PROVE  /\ Act(1) => Op(1).op # "print"
         /\ over => pc[2] = Gone /\ pc[3] = Gone
         /\ Team(prog) = 1..3 /\ \A t \in Threads \ 1..3 : pc[t] = 0
  <1> DEFINE s == <<create(2), create(3), join(2), join(3), exit>>
  <1>1. Code(prog, 1) = s
    BY DEF Code, OddEvEvMain
  <1>2. /\ Len(s) = 5
        /\ s[1].op = "create" /\ s[1].b = 0 /\ s[2].op = "create" /\ s[2].b = 0
        /\ s[3].op = "join" /\ s[3].a = 2 /\ s[4].op = "join" /\ s[4].a = 3
        /\ s[5].op = "exit"
    BY Calls
  <1> HIDE DEF s
  <1>3. Op(1) = s[pc[1]]
    BY <1>1 DEF Op
  <1>4. Team(prog) = 1..3 /\ \A t \in Threads \ 1..3 : pc[t] = 0
    <2>1. Team(prog) = 1..3
      BY TeamOf
    <2>2. QED
      BY <2>1 DEF Places
  <1>5. ASSUME over PROVE pc[2] = Gone /\ pc[3] = Gone
    <2>1. pc[1] \in 1..5 /\ (Op(1).op = "exit" \/ (Op(1).op = "create" /\ Op(1).b = 1))
      BY <1>1, <1>2, <1>5 DEF Family, Exited
    <2>2. pc[1] = 5
      BY <2>1, <1>2, <1>3
    <2>3. Joined
      BY DEF Family
    <2>4. 3 \in 1..Len(Code(prog, 1)) /\ 4 \in 1..Len(Code(prog, 1))
      <3>1. Len(Code(prog, 1)) = 5
        BY <1>1, <1>2
      <3>2. 3 \in 1..5 /\ 4 \in 1..5
        OBVIOUS
      <3>3. QED
        BY <3>1, <3>2
    <2>5. QED
      BY <2>2, <2>3, <2>4, <1>1, <1>2 DEF Joined
  <1>6. ASSUME Act(1) PROVE Op(1).op # "print"
    <2>1. 1 \in Threads
      BY Threads123
    <2>2. pc[1] \in 1..5
      BY <1>1, <1>2, <1>6, <2>1, Located
    <2>3. QED
      BY <2>2, <1>2, <1>3
  <1>7. QED
    BY <1>4, <1>5, <1>6

-----------------------------------------------------------------------------
(* Mutual exclusion in mutex.c, mutex1.c and join1.c                       *)

Inside(t) ==
    \/ prog = "mutex" /\ pc[t] \in 2..4
    \/ prog = "mutex1" /\ pc[t] \in 2..5
    \/ prog = "join1" /\ pc[t] \in 3..5

Excl ==
    \A t \in Threads \ {1} : Inside(t) => locked[1] /\ \A u \in Threads \ {1} : Inside(u) => u = t

LEMMA LockKept ==
  ASSUME NEW t
  PROVE  /\ Silent => locked' = locked
         /\ Loads(t) => locked' = locked
         /\ Stores(t) => locked' = locked
         /\ \A c : Says(t, c) => locked' = locked
         /\ Locks => ~locked[1] /\ locked'[1]
  BY DEF Silent, Loads, Stores, Says, Locks

LEMMA ExclNext == Places /\ Family /\ Mutex1Inv /\ Excl /\ [Next]_vars => Excl'
  <1> SUFFICES ASSUME Places, Family, Mutex1Inv, Excl, [Next]_vars, prog' \in {"mutex", "mutex1", "join1"}
               PROVE  Excl'
    BY DEF Excl, Inside
  <1>1. prog' = prog /\ prog \in {"mutex", "mutex1", "join1"}
    BY SameProgram
  <1>2. CASE UNCHANGED vars
    BY <1>2 DEF vars, kernel, Excl, Inside
  <1>3. ASSUME Act(1) PROVE Excl'
    <2>1. \A u \in Threads \ {1} : pc'[u] = pc[u] \/ (pc[u] = 0 /\ pc'[u] = 1)
      <3>1. CASE prog = "mutex1"
        <4>1. \A u \in {2, 3} : pc'[u] = pc[u] \/ (pc[u] = 0 /\ pc'[u] = 1)
          BY <3>1, <1>3, Mutex1Main5
        <4>2. \A u \in Threads \ 1..3 : pc'[u] = pc[u]
          BY <3>1, <1>3, Mutex1Main5
        <4>3. \A u \in Threads \ {1} : u \in {2, 3} \/ u \in Threads \ 1..3
          BY Bounds
        <4>4. QED
          BY <4>1, <4>2, <4>3
      <3>2. CASE prog # "mutex1"
        BY <3>2, <1>1, <1>3, MainStarts
      <3>3. QED
        BY <3>1, <3>2
    <2>2. locked' = locked
      <3>1. CASE prog = "mutex1"
        <4>1. Silent \/ Says(1, "failed")
          BY <3>1, <1>3, Mutex1Main5
        <4>2. QED
          BY <4>1 DEF Silent, Says
      <3>2. CASE prog # "mutex1"
        BY <3>2, <1>1, <1>3, MainStarts DEF Silent, Says
      <3>3. QED
        BY <3>1, <3>2
    <2>3. \A u \in Threads \ {1} : Inside(u)' => Inside(u)
      BY <2>1, <1>1 DEF Inside
    <2>4. QED
      BY <2>2, <2>3 DEF Excl
  <1>4. ASSUME NEW t \in Threads, t # 1, Act(t) PROVE Excl'
    <2>1. \/ ~Inside(t) /\ Inside(t)' /\ ~locked[1] /\ locked'[1]
          \/ Inside(t) /\ ~Inside(t)'
          \/ (Inside(t)' <=> Inside(t)) /\ locked' = locked
      <3>1. CASE prog = "mutex"
        <4>1. \/ pc[t] = 1 /\ pc'[t] = 2 /\ ~locked[1] /\ locked'[1]
              \/ pc[t] \in 2..3 /\ pc'[t] \in 3..4 /\ locked' = locked
              \/ pc[t] = 4 /\ pc'[t] = 5
              \/ pc[t] = 5 /\ pc'[t] = -1 /\ locked' = locked
          <5>1. \/ pc[t] = 1 /\ pc'[t] = 2 /\ Locks
                \/ pc[t] = 2 /\ pc'[t] = 3 /\ Says(t, "1:")
                \/ pc[t] = 3 /\ pc'[t] = 4 /\ Says(t, "2:")
                \/ pc[t] = 4 /\ pc'[t] = 5
                \/ pc[t] = 5 /\ pc'[t] = -1 /\ Silent
            BY <3>1, <1>4, MutexWorker DEF Gone
          <5>2. QED
            BY <5>1, LockKept
        <4>2. (Inside(t) <=> pc[t] \in 2..4) /\ (Inside(t)' <=> pc'[t] \in 2..4)
          BY <3>1, <1>1 DEF Inside
        <4>3. QED
          BY <4>1, <4>2
      <3>2. CASE prog = "mutex1"
        <4>1. \/ pc[t] = 1 /\ pc'[t] = 2 /\ ~locked[1] /\ locked'[1]
              \/ pc[t] \in 2..4 /\ pc'[t] \in 3..5 /\ locked' = locked
              \/ pc[t] = 5 /\ pc'[t] = 6
              \/ pc[t] = 6 /\ pc'[t] = -1 /\ locked' = locked
          <5>1. \/ pc[t] = 1 /\ pc'[t] = 2 /\ Locks
                \/ pc[t] = 2 /\ pc'[t] = 3 /\ Loads(t)
                \/ pc[t] = 3 /\ pc'[t] = 4 /\ Stores(t)
                \/ pc[t] = 4 /\ pc'[t] = 5 /\ Says(t, "counter")
                \/ pc[t] = 5 /\ pc'[t] = 6
                \/ pc[t] = 6 /\ pc'[t] = -1 /\ Silent
            BY <3>2, <1>4, Mutex1Worker DEF Gone
          <5>2. QED
            BY <5>1, LockKept
        <4>2. (Inside(t) <=> pc[t] \in 2..5) /\ (Inside(t)' <=> pc'[t] \in 2..5)
          BY <3>2, <1>1 DEF Inside
        <4>3. QED
          BY <4>1, <4>2
      <3>3. CASE prog = "join1"
        <4>1. \/ pc[t] = 1 /\ pc'[t] = 2 /\ locked' = locked
              \/ pc[t] = 2 /\ pc'[t] = 3 /\ ~locked[1] /\ locked'[1]
              \/ pc[t] \in 3..4 /\ pc'[t] \in 4..5 /\ locked' = locked
              \/ pc[t] = 5 /\ pc'[t] = 6
              \/ pc[t] = 6 /\ pc'[t] = -1 /\ locked' = locked
          <5>1. \/ pc[t] = 1 /\ pc'[t] = 2 /\ Says(t, "number")
                \/ pc[t] = 2 /\ pc'[t] = 3 /\ Locks
                \/ pc[t] = 3 /\ pc'[t] = 4 /\ Loads(t)
                \/ pc[t] = 4 /\ pc'[t] = 5 /\ Stores(t)
                \/ pc[t] = 5 /\ pc'[t] = 6
                \/ pc[t] = 6 /\ pc'[t] = -1 /\ Silent
            BY <3>3, <1>4, Join1Worker DEF Gone
          <5>2. QED
            BY <5>1, LockKept
        <4>2. (Inside(t) <=> pc[t] \in 3..5) /\ (Inside(t)' <=> pc'[t] \in 3..5)
          BY <3>3, <1>1 DEF Inside
        <4>3. QED
          BY <4>1, <4>2
      <3>4. QED
        BY <1>1, <3>1, <3>2, <3>3
    <2>2. \A u \in Threads \ {1, t} : Inside(u)' <=> Inside(u)
      BY <1>1, <1>4, WorkerMoves DEF Inside
    <2>3. QED
      BY <2>1, <2>2, <1>4 DEF Excl
  <1>5. QED
    BY <1>2, <1>3, <1>4, Cases

-----------------------------------------------------------------------------
(* mutex.c                                                                 *)

\* A line "1:" that is the last one is of a thread between its two calls.
MutexInv ==
    prog = "mutex" =>
        /\ Adjacent("1:", "2:")
        /\ \A i \in DOMAIN out : out[i].what \in {"1:", "2:"}
        /\ Len(out) > 0 /\ out[Len(out)].what = "1:" =>
              out[Len(out)].by \in Threads \ {1} /\ pc[out[Len(out)].by] = 3
        /\ \A t \in Threads \ {1} :
              pc[t] = 3 => Len(out) > 0 /\ out[Len(out)].what = "1:" /\ out[Len(out)].by = t

LEMMA MutexNext == Places /\ Family /\ Excl /\ MutexInv /\ [Next]_vars => MutexInv'
  <1> SUFFICES ASSUME Places, Family, Excl, MutexInv, [Next]_vars, prog' = "mutex"
               PROVE  MutexInv'
    BY DEF MutexInv
  <1>1. prog' = prog /\ prog = "mutex"
    BY SameProgram
  <1>2. ASSUME out' = out,
               \A u \in Threads \ {1} : pc'[u] = 3 <=> pc[u] = 3
        PROVE  MutexInv'
    BY <1>1, <1>2 DEF MutexInv, Adjacent
  <1>3. CASE UNCHANGED vars
    BY <1>2, <1>3 DEF vars
  <1>4. ASSUME Act(1) PROVE MutexInv'
    <2>1. Op(1).op # "print"
      <3>1. pc[1] \in 1 .. 2 * Pairs + 1 /\ Op(1) = MutexMain[pc[1]]
        <4>1. Code(prog, 1) = MutexMain
          BY <1>1 DEF Code
        <4>2. QED
          BY <4>1, <1>1, <1>4, Located, TeamIn, MutexMainCode DEF Places
      <3>2. \A i \in 1 .. 2 * Pairs + 1 : i \in 1 .. 2 * Pairs \/ i = 2 * Pairs + 1
        BY BoundsAssumption
      <3>3. \A i \in 1 .. 2 * Pairs : MutexMain[i].op = "create"
        BY MutexMainCode, Calls
      <3>4. MutexMain[2 * Pairs + 1].op = "spin"
        BY MutexMainCode, Calls
      <3>5. QED
        BY <3>1, <3>2, <3>3, <3>4
    <2>2. QED
      BY <2>1, <1>1, <1>2, <1>4, MainStarts DEF Silent
  <1>5. ASSUME NEW t \in Threads, t # 1, Act(t) PROVE MutexInv'
    <2>1. \A u \in Threads \ {t} : pc'[u] = pc[u]
      BY <1>1, <1>5, WorkerMoves
    <2>2. CASE (pc[t] = 2 /\ pc'[t] = 3 /\ Says(t, "1:")) \/ (pc[t] = 3 /\ pc'[t] = 4 /\ Says(t, "2:"))
      <3> DEFINE n == Len(out)
      <3>1. PICK c \in {"1:", "2:"} : 
              /\ Says(t, c)
              /\ c = "1:" => pc[t] = 2 /\ pc'[t] = 3
              /\ c = "2:" => pc[t] = 3 /\ pc'[t] = 4
        BY <2>2
      <3>2. /\ n \in Nat /\ DOMAIN out = 1..n /\ Len(out') = n + 1 /\ DOMAIN out' = 1 .. n + 1
            /\ \A i \in 1..n : out'[i] = out[i]
            /\ out'[n + 1].by = t /\ out'[n + 1].what = c
        BY <3>1, OneLine
      <3>3. \A u \in Threads \ {1} : u # t => pc[u] # 3
        <4>1. Inside(t)
          BY <2>2, <1>1 DEF Inside
        <4>2. \A u \in Threads \ {1} : pc[u] = 3 => Inside(u)
          BY <1>1 DEF Inside
        <4>3. QED
          BY <4>1, <4>2, <1>5 DEF Excl
      <3> HIDE DEF n
      <3>4. /\ c = "1:" => ~(n > 0 /\ out[n].what = "1:")
            /\ c = "2:" => n > 0 /\ out[n].what = "1:" /\ out[n].by = t
        BY <3>1, <3>3, <1>1, <1>5 DEF MutexInv, n
      <3>5. Adjacent("1:", "2:")'
        <4> SUFFICES ASSUME NEW i \in 1 .. n + 1
                     PROVE  /\ out'[i].what = "1:" /\ i < n + 1 =>
                                  out'[i + 1].what = "2:" /\ out'[i + 1].by = out'[i].by
                            /\ out'[i].what = "2:" =>
                                  i > 1 /\ out'[i - 1].what = "1:" /\ out'[i - 1].by = out'[i].by
          BY <3>2 DEF Adjacent
        <4>1. \A k \in 1..n : /\ out[k].what = "1:" /\ k < n =>
                                    out[k + 1].what = "2:" /\ out[k + 1].by = out[k].by
                              /\ out[k].what = "2:" =>
                                    k > 1 /\ out[k - 1].what = "1:" /\ out[k - 1].by = out[k].by
          BY <3>2, <1>1 DEF MutexInv, Adjacent, n
        <4>2. CASE i < n
          <5>1. i \in 1..n /\ i + 1 \in 1..n /\ (i > 1 => i - 1 \in 1..n)
            BY <4>2, <3>2
          <5>2. QED
            BY <5>1, <4>1, <4>2, <3>2
        <4>3. CASE i = n
          <5>1. i \in 1..n /\ (i > 1 => i - 1 \in 1..n)
            BY <4>3, <3>2
          <5>2. out[n].what = "1:" => c = "2:"
            BY <5>1, <4>3, <3>4, <3>1, <3>2
          <5>3. QED
            BY <5>1, <5>2, <4>1, <4>3, <3>2, <3>4
        <4>4. CASE i = n + 1
          <5>1. c = "2:" => n \in 1..n /\ i - 1 = n /\ i > 1
            BY <4>4, <3>2, <3>4
          <5>2. QED
            BY <5>1, <4>4, <3>1, <3>2, <3>4
        <4>5. QED
          BY <4>2, <4>3, <4>4, <3>2
      <3>6. \A i \in 1 .. n + 1 : out'[i].what \in {"1:", "2:"}
        <4>1. \A i \in 1..n : out[i].what \in {"1:", "2:"}
          BY <3>2, <1>1 DEF MutexInv
        <4>2. \A i \in 1 .. n + 1 : i \in 1..n \/ i = n + 1
          BY <3>2
        <4>3. QED
          BY <4>1, <4>2, <3>1, <3>2
      <3>7. c = "1:" => pc'[t] = 3
        BY <3>1
      <3>8. \A u \in Threads \ {1} : pc'[u] = 3 => u = t /\ c = "1:"
        BY <3>1, <3>3, <2>1
      <3>9. n + 1 > 0
        BY <3>2
      <3>10. QED
        BY <3>2, <3>5, <3>6, <3>7, <3>8, <3>9, <1>5 DEF MutexInv
    <2>3. CASE \/ pc[t] = 1 /\ pc'[t] = 2 /\ Locks
               \/ pc[t] = 4 /\ pc'[t] = 5 /\ Unlocks
               \/ pc[t] = 5 /\ pc'[t] = Gone /\ Silent
      BY <2>1, <2>3, <1>2, <1>5 DEF Locks, Unlocks, Silent, Gone
    <2>4. QED
      BY <2>2, <2>3, <1>1, <1>5, MutexWorker
  <1>6. QED
    BY <1>3, <1>4, <1>5, Cases

-----------------------------------------------------------------------------
(* mutex1.c                                                                *)

LEMMA LinesCounted ==
  ASSUME NEW c, NEW n \in Nat
  PROVE  IsFiniteSet({i \in 1..n : out[i].what = c}) /\ LinesUpTo(c, n) \in Nat
  <1>1. IsFiniteSet(1..n)
    BY FS_Interval
  <1>2. IsFiniteSet({i \in 1..n : out[i].what = c})
    BY <1>1, FS_Subset
  <1>3. QED
    BY <1>2, FS_CardinalityType DEF LinesUpTo

\* One more line changes no count but its own.
LEMMA LinesSaid ==
  ASSUME Places, NEW t, NEW d, Says(t, d), NEW c
  PROVE  /\ \A n \in 1..Len(out) : LinesUpTo(c, n)' = LinesUpTo(c, n)
         /\ Lines(c)' = Lines(c) + (IF c = d THEN 1 ELSE 0)
         /\ Lines(c) \in Nat
  <1> DEFINE k == Len(out) + 1
             S == {i \in 1..Len(out) : out[i].what = c}
  <1>1. /\ Len(out) \in Nat /\ Len(out') = k
        /\ \A i \in 1..Len(out) : out'[i] = out[i]
        /\ out'[k].what = d
    BY OneLine
  <1>2. ASSUME NEW n \in 1..Len(out) PROVE LinesUpTo(c, n)' = LinesUpTo(c, n)
    <2>1. \A i \in 1..n : out'[i] = out[i]
      BY <1>1
    <2>2. {i \in 1..n : out'[i].what = c} = {i \in 1..n : out[i].what = c}
      BY <2>1
    <2>3. QED
      BY <2>2 DEF LinesUpTo
  <1>3. IsFiniteSet(S) /\ Cardinality(S) \in Nat /\ Lines(c) = Cardinality(S)
    BY <1>1, LinesCounted DEF Lines, LinesUpTo
  <1>4. Lines(c)' = Cardinality({i \in 1..k : out'[i].what = c})
    BY <1>1 DEF Lines, LinesUpTo
  <1>5. \A i \in 1..k : i \in 1..Len(out) \/ i = k
    BY <1>1
  <1>6. k \notin S /\ k \in 1..k /\ 1..Len(out) \subseteq 1..k
    BY <1>1
  <1>7. CASE c = d
    <2>1. {i \in 1..k : out'[i].what = c} = S \cup {k}
      BY <1>1, <1>5, <1>6, <1>7
    <2>2. Cardinality(S \cup {k}) = Cardinality(S) + 1
      BY <1>3, <1>6, FS_AddElement
    <2>3. QED
      BY <1>2, <1>3, <1>4, <1>7, <2>1, <2>2
  <1>8. CASE c # d
    <2>1. {i \in 1..k : out'[i].what = c} = S
      BY <1>1, <1>5, <1>6, <1>8
    <2>2. Lines(c)' = Lines(c)
      BY <1>3, <1>4, <2>1
    <2>3. QED
      BY <1>2, <1>3, <1>8, <2>2
  <1>9. QED
    BY <1>7, <1>8

\* A line of another kind leaves the counters' lines as they are.
LEMMA CountersStay ==
  ASSUME Places, NEW t, Says(t, "failed"),
         \A i \in DOMAIN out : out[i].what = "counter" => out[i].value = LinesUpTo("counter", i)
  PROVE  (\A i \in DOMAIN out : out[i].what = "counter" => out[i].value = LinesUpTo("counter", i))'
  <1>1. /\ Len(out) \in Nat /\ DOMAIN out = 1..Len(out) /\ DOMAIN out' = 1 .. Len(out) + 1
        /\ \A i \in 1..Len(out) : out'[i] = out[i]
        /\ out'[Len(out) + 1].what = "failed"
    BY OneLine
  <1> SUFFICES ASSUME NEW i \in DOMAIN out', out'[i].what = "counter"
               PROVE  out'[i].value = LinesUpTo("counter", i)'
    OBVIOUS
  <1>2. i \in 1..Len(out)
    BY <1>1
  <1>3. LinesUpTo("counter", i)' = LinesUpTo("counter", i)
    BY <1>2, LinesSaid
  <1>4. QED
    BY <1>1, <1>2, <1>3

\* Silence is no line.
LEMMA LinesStay ==
  ASSUME out' = out
  PROVE  /\ \A c : Lines(c)' = Lines(c)
         /\ (\A i \in DOMAIN out : out[i].what = "counter" => out[i].value = LinesUpTo("counter", i))
            => (\A i \in DOMAIN out : out[i].what = "counter" => out[i].value = LinesUpTo("counter", i))'
  BY DEF Lines, LinesUpTo

\* main of mutex1.c, one thread more or less.
LEMMA Mutex1MainNext ==
  ASSUME prog = "mutex1", prog' = prog, Places, Mutex1Inv, Act(1)
  PROVE  Mutex1Inv'
  <1>1. /\ pc[1] \in {1, 2, 3, 4, 5}
        /\ pc[1] < 2 => pc[2] = 0
        /\ pc[1] < 3 => pc[3] = 0
        /\ pc[1] > 3 => pc[2] \in {0, Gone}
        /\ pc[1] > 4 => pc[3] \in {0, Gone}
        /\ shared = Past(2, 3) + Past(3, 3)
        /\ Lines("counter") = Past(2, 4) + Past(3, 4)
        /\ Lines("failed") = Missing(2) + Missing(3)
        /\ \A i \in DOMAIN out : out[i].what = "counter" => out[i].value = LinesUpTo("counter", i)
        /\ \A u \in {2, 3} : pc[u] = 3 => reg[u] = shared
    <2>1. /\ pc[1] \in {1, 2, 3, 4, 5}
          /\ \A u \in {2, 3} : /\ pc[1] < u => pc[u] = 0
                               /\ pc[1] > u + 1 => pc[u] \in {0, Gone}
          /\ shared = Past(2, 3) + Past(3, 3)
          /\ Lines("counter") = Past(2, 4) + Past(3, 4)
          /\ Lines("failed") = Missing(2) + Missing(3)
          /\ \A i \in DOMAIN out : out[i].what = "counter" => out[i].value = LinesUpTo("counter", i)
          /\ \A t \in {2, 3} : pc[t] = 3 => reg[t] = shared
      BY Zenon DEF Mutex1Inv
    <2>2. QED
      BY <2>1
  <1>2. pc'[1] \in {1, 2, 3, 4, 5}
    BY Mutex1Main5
  <1>3. ASSUME Past(2, 3)' = Past(2, 3), Past(3, 3)' = Past(3, 3), Past(2, 4)' = Past(2, 4), Past(3, 4)' = Past(3, 4),
               UNCHANGED <<shared, reg>>,
               Lines("counter")' = Lines("counter"),
               (\A i \in DOMAIN out : out[i].what = "counter" => out[i].value = LinesUpTo("counter", i))',
               pc'[2] = pc[2] \/ pc'[2] = 1, pc'[3] = pc[3] \/ pc'[3] = 1,
               pc'[1] < 2 => pc'[2] = 0, pc'[1] < 3 => pc'[3] = 0,
               pc'[1] > 3 => pc'[2] \in {0, Gone}, pc'[1] > 4 => pc'[3] \in {0, Gone},
               Lines("failed")' = Missing(2)' + Missing(3)'
        PROVE  Mutex1Inv'
    <2>1. \A u \in {2, 3} : pc'[u] = 3 => reg'[u] = shared'
      BY <1>1, <1>3
    <2>2. \A u \in {2, 3} : /\ pc'[1] < u => pc'[u] = 0
                            /\ pc'[1] > u + 1 => pc'[u] \in {0, Gone}
      BY <1>3
    <2>3. QED
      BY <1>1, <1>2, <1>3, <2>1, <2>2 DEF Mutex1Inv
  <1>4. CASE /\ pc[1] \in {1, 2} /\ pc'[1] = pc[1] + 1 /\ pc[pc[1] + 1] = 0 /\ pc'[pc[1] + 1] = 1
             /\ \A u \in {2, 3} : u # pc[1] + 1 => pc'[u] = pc[u]
             /\ Silent
    <2>1. CASE pc[1] = 1
      <3>1. pc'[1] = 2 /\ pc[2] = 0 /\ pc'[2] = 1 /\ pc'[3] = pc[3] /\ pc[3] = 0
        BY <1>1, <1>4, <2>1
      <3>2. /\ Past(2, 3)' = Past(2, 3) /\ Past(3, 3)' = Past(3, 3)
            /\ Past(2, 4)' = Past(2, 4) /\ Past(3, 4)' = Past(3, 4)
        BY <3>1 DEF Past, Gone
      <3>3. Missing(2) = 0 /\ Missing(3) = 0 /\ Missing(2)' = 0 /\ Missing(3)' = 0
        BY <2>1, <3>1 DEF Missing
      <3>4. QED
        BY <1>1, <1>3, <1>4, <3>1, <3>2, <3>3, LinesStay DEF Silent
    <2>2. CASE pc[1] = 2
      <3>1. pc'[1] = 3 /\ pc[3] = 0 /\ pc'[3] = 1 /\ pc'[2] = pc[2]
        BY <1>1, <1>4, <2>2
      <3>2. /\ Past(2, 3)' = Past(2, 3) /\ Past(3, 3)' = Past(3, 3)
            /\ Past(2, 4)' = Past(2, 4) /\ Past(3, 4)' = Past(3, 4)
        BY <3>1 DEF Past, Gone
      <3>3. Missing(2)' = Missing(2) /\ Missing(3) = 0 /\ Missing(3)' = 0
        BY <2>2, <3>1 DEF Missing
      <3>4. QED
        BY <1>1, <1>3, <1>4, <3>1, <3>2, <3>3, LinesStay DEF Silent
    <2>3. QED
      BY <1>4, <2>1, <2>2
  <1>5. CASE /\ pc[1] \in {1, 2} /\ pc'[1] = pc[1] + 1 /\ pc'[2] = pc[2] /\ pc'[3] = pc[3]
             /\ pc[pc[1] + 1] = 0
             /\ Says(1, "failed")
    <2>1. /\ Past(2, 3)' = Past(2, 3) /\ Past(3, 3)' = Past(3, 3)
          /\ Past(2, 4)' = Past(2, 4) /\ Past(3, 4)' = Past(3, 4)
      BY <1>5 DEF Past
    <2>2. /\ Lines("counter")' = Lines("counter") + 0 /\ Lines("counter") \in Nat
          /\ Lines("failed")' = Lines("failed") + 1 /\ Lines("failed") \in Nat
      BY <1>5, LinesSaid
    <2>3. (\A i \in DOMAIN out : out[i].what = "counter" => out[i].value = LinesUpTo("counter", i))'
      BY <1>1, <1>5, CountersStay
    <2>4. UNCHANGED <<shared, reg>>
      BY <1>5 DEF Says
    <2>5. Missing(2)' + Missing(3)' = Missing(2) + Missing(3) + 1
      <3>1. CASE pc[1] = 1
        BY <1>1, <1>5, <3>1 DEF Missing
      <3>2. CASE pc[1] = 2
        BY <1>1, <1>5, <3>2 DEF Missing
      <3>3. QED
        BY <1>5, <3>1, <3>2
    <2>6. /\ pc'[1] < 2 => pc'[2] = 0
          /\ pc'[1] < 3 => pc'[3] = 0
          /\ ~(pc'[1] > 3)
          /\ ~(pc'[1] > 4)
      BY <1>1, <1>5
    <2>7. QED
      BY <1>1, <1>3, <1>5, <2>1, <2>2, <2>3, <2>4, <2>5, <2>6
  <1>6. CASE /\ pc[1] \in {3, 4} /\ pc'[1] = pc[1] + 1 /\ pc'[2] = pc[2] /\ pc'[3] = pc[3]
             /\ pc[pc[1] - 1] \in {0, Gone}
             /\ Silent
    <2>1. /\ Past(2, 3)' = Past(2, 3) /\ Past(3, 3)' = Past(3, 3)
          /\ Past(2, 4)' = Past(2, 4) /\ Past(3, 4)' = Past(3, 4)
      BY <1>6 DEF Past
    <2>2. Missing(2)' = Missing(2) /\ Missing(3)' = Missing(3)
      BY <1>6 DEF Missing
    <2>3. /\ ~(pc'[1] < 2) /\ ~(pc'[1] < 3)
          /\ pc'[1] > 3 => pc'[2] \in {0, Gone}
          /\ pc'[1] > 4 => pc'[3] \in {0, Gone}
      BY <1>1, <1>6
    <2>4. QED
      BY <1>1, <1>3, <1>6, <2>1, <2>2, <2>3, LinesStay DEF Silent
  <1>7. CASE pc' = pc /\ Silent
    <2>1. /\ Past(2, 3)' = Past(2, 3) /\ Past(3, 3)' = Past(3, 3)
          /\ Past(2, 4)' = Past(2, 4) /\ Past(3, 4)' = Past(3, 4)
      BY <1>7 DEF Past
    <2>2. Missing(2)' = Missing(2) /\ Missing(3)' = Missing(3)
      BY <1>7 DEF Missing
    <2>3. QED
      BY <1>1, <1>3, <1>7, <2>1, <2>2, LinesStay DEF Silent
  <1>8. QED
    BY <1>4, <1>5, <1>6, <1>7, Mutex1Main5

LEMMA Mutex1Next == Places /\ Excl /\ Mutex1Inv /\ [Next]_vars => Mutex1Inv'
  <1> SUFFICES ASSUME Places, Excl, Mutex1Inv, [Next]_vars, prog' = "mutex1"
               PROVE  Mutex1Inv'
    BY DEF Mutex1Inv
  <1>1. prog' = prog /\ prog = "mutex1" /\ 2 \in Threads /\ 3 \in Threads
    BY SameProgram, Threads123
  <1> DEFINE counters == \A i \in DOMAIN out : out[i].what = "counter" => out[i].value = LinesUpTo("counter", i)
  <1>2. /\ pc[1] \in {1, 2, 3, 4, 5}
        /\ \A u \in {2, 3} : /\ pc[1] < u => pc[u] = 0
                             /\ pc[1] > u + 1 => pc[u] \in {0, Gone}
        /\ shared = Past(2, 3) + Past(3, 3)
        /\ Lines("counter") = Past(2, 4) + Past(3, 4)
        /\ Lines("failed") = Missing(2) + Missing(3)
        /\ counters
        /\ \A t \in {2, 3} : pc[t] = 3 => reg[t] = shared
    BY <1>1, Zenon DEF Mutex1Inv
  <1>3. CASE UNCHANGED vars
    <2>1. UNCHANGED <<pc, shared, reg, out>>
      BY <1>3 DEF vars
    <2>2. QED
      BY <2>1, <1>1, <1>2 DEF Mutex1Inv, Past, Missing, Lines, LinesUpTo
  <1>4. ASSUME Act(1) PROVE Mutex1Inv'
    BY <1>1, <1>4, Mutex1MainNext
  <1>5. ASSUME NEW t \in Threads, t # 1, Act(t) PROVE Mutex1Inv'
    <2>1. t \in {2, 3} /\ pc[t] \in Int
      <3>1. t \in Team(prog) /\ Team(prog) = 1..3
        BY <1>1, <1>5, TeamOf, WorkerMoves
      <3>2. QED
        BY <3>1, <1>5 DEF Places
    <2>2. PICK u \in {2, 3} : u # t
      BY <2>1
    <2>3. pc'[u] = pc[u] /\ pc[u] \in Int /\ pc'[1] = pc[1]
      <3>1. \A v \in Threads \ {t} : pc'[v] = pc[v]
        BY <1>1, <1>5, WorkerMoves
      <3>2. 1 \in Threads \ {t} /\ u \in Threads \ {t} /\ pc \in [Threads -> Int]
        BY <2>2, <1>1, <1>5, Threads123 DEF Places
      <3>3. QED
        BY <3>1, <3>2
    <2>4. \A n \in {3, 4} : Past(u, n)' = Past(u, n)
      BY <2>3 DEF Past
    <2>5. /\ shared = Past(t, 3) + Past(u, 3)
          /\ Lines("counter") = Past(t, 4) + Past(u, 4)
      BY <2>1, <2>2, <1>2 DEF Past
    <2>6. pc[t] \in 3..4 => Past(u, 3) = Past(u, 4) /\ pc[u] # 3
      <3>1. (pc[t] \in 2..5 => Inside(t)) /\ (pc[u] \in 2..5 => Inside(u))
        BY <1>1 DEF Inside
      <3>2. pc[t] \in 3..4 => pc[u] \notin 2..5
        BY <3>1, <2>1, <2>2, <1>1, <1>5 DEF Excl
      <3>3. QED
        BY <3>2, <2>3 DEF Past, Gone
    <2>a. pc[t] \notin {0, Gone} /\ pc'[t] # 0
      BY <1>1, <1>5, WorkerMoves, Kinds DEF Gone
    <2>b. \A v \in {2, 3} : /\ pc'[1] < v => pc'[v] = 0
                            /\ pc'[1] > v + 1 => pc'[v] \in {0, Gone}
      BY <2>1, <2>2, <2>3, <2>a, <1>2
    <2>c. Missing(2)' = Missing(2) /\ Missing(3)' = Missing(3)
      BY <2>1, <2>2, <2>3, <2>a DEF Missing
    <2>7. ASSUME shared' = Past(t, 3)' + Past(u, 3)', Lines("counter")' = Past(t, 4)' + Past(u, 4)',
                 Lines("failed")' = Lines("failed"), counters',
                 \A v \in {t, u} : pc'[v] = 3 => reg'[v] = shared'
          PROVE  Mutex1Inv'
      <3>1. shared' = Past(2, 3)' + Past(3, 3)' /\ Lines("counter")' = Past(2, 4)' + Past(3, 4)'
        BY <2>1, <2>2, <2>7 DEF Past
      <3>2. \A v \in {2, 3} : pc'[v] = 3 => reg'[v] = shared'
        BY <2>1, <2>2, <2>7
      <3>3. QED
        BY <3>1, <3>2, <2>3, <2>7, <2>b, <2>c, <1>2 DEF Mutex1Inv
    <2> HIDE DEF counters
    <2>8. CASE \/ pc[t] = 1 /\ pc'[t] = 2 /\ Locks
               \/ pc[t] = 5 /\ pc'[t] = 6 /\ Unlocks
               \/ pc[t] = 6 /\ pc'[t] = Gone /\ Silent
      <3>1. UNCHANGED <<shared, reg, out>> /\ pc'[t] # 3
        BY <2>8 DEF Locks, Unlocks, Silent, Gone
      <3>2. \A n \in {3, 4} : Past(t, n)' = Past(t, n)
        BY <2>8 DEF Past, Gone
      <3>3. \A v \in {t, u} : pc'[v] = 3 => reg'[v] = shared'
        BY <3>1, <2>1, <2>2, <2>3, <1>2
      <3>4. counters' /\ Lines("counter")' = Lines("counter") /\ Lines("failed")' = Lines("failed")
        BY <3>1, <1>2, LinesStay DEF counters
      <3>5. QED
        BY <3>1, <3>2, <3>3, <3>4, <2>4, <2>5, <2>7
    <2>9. CASE pc[t] = 2 /\ pc'[t] = 3 /\ Loads(t)
      <3>1. UNCHANGED <<shared, out>> /\ reg' = [reg EXCEPT ![t] = shared]
        BY <2>9 DEF Loads
      <3>2. \A n \in {3, 4} : Past(t, n)' = Past(t, n)
        BY <2>9 DEF Past, Gone
      <3>3. reg'[t] = shared /\ reg'[u] = reg[u]
        BY <3>1, <2>1, <2>2, <1>1, <1>5 DEF Places
      <3>4. \A v \in {t, u} : pc'[v] = 3 => reg'[v] = shared'
        BY <3>1, <3>3, <2>1, <2>2, <2>3, <1>2
      <3>5. counters' /\ Lines("counter")' = Lines("counter") /\ Lines("failed")' = Lines("failed")
        BY <3>1, <1>2, LinesStay DEF counters
      <3>6. QED
        BY <3>1, <3>2, <3>4, <3>5, <2>4, <2>5, <2>7
    <2>10. CASE pc[t] = 3 /\ pc'[t] = 4 /\ Stores(t)
      <3>1. UNCHANGED <<reg, out>> /\ shared' = shared + 1
        BY <2>10, <2>1, <1>2 DEF Stores
      <3>2. Past(t, 3) = 0 /\ Past(t, 3)' = 1 /\ Past(t, 4)' = Past(t, 4)
        BY <2>10 DEF Past, Gone
      <3>3. \A v \in {t, u} : pc'[v] # 3
        BY <2>3, <2>6, <2>10
      <3>4. Past(u, 3) \in Nat
        BY DEF Past
      <3>5. counters' /\ Lines("counter")' = Lines("counter") /\ Lines("failed")' = Lines("failed")
        BY <3>1, <1>2, LinesStay DEF counters
      <3>6. QED
        BY <3>1, <3>2, <3>3, <3>4, <3>5, <2>4, <2>5, <2>7
    <2>11. CASE pc[t] = 4 /\ pc'[t] = 5 /\ Says(t, "counter")
      <3>1. /\ Len(out) \in Nat /\ DOMAIN out = 1..Len(out)
            /\ Len(out') = Len(out) + 1 /\ DOMAIN out' = 1 .. Len(out) + 1
            /\ \A i \in 1..Len(out) : out'[i] = out[i]
            /\ out'[Len(out) + 1].value = shared
        BY <2>11, OneLine
      <3>2. UNCHANGED <<shared, reg>>
        BY <2>11 DEF Says
      <3>3. /\ Past(t, 3) = 1 /\ Past(t, 3)' = 1 /\ Past(t, 4) = 0 /\ Past(t, 4)' = 1
            /\ Past(u, 3) = Past(u, 4) /\ Past(u, 4) \in Nat
        BY <2>6, <2>11 DEF Past, Gone
      <3>4. /\ Lines("counter")' = Lines("counter") + 1 /\ Lines("counter") \in Nat
            /\ Lines("failed")' = Lines("failed") + 0 /\ Lines("failed") \in Nat
            /\ \A n \in 1..Len(out) : LinesUpTo("counter", n)' = LinesUpTo("counter", n)
        BY <2>11, LinesSaid
      <3>5. shared = Lines("counter") + 1 /\ Lines("counter")' = Past(t, 4)' + Past(u, 4)'
            /\ shared' = Past(t, 3)' + Past(u, 3)'
        BY <3>2, <3>3, <3>4, <2>4, <2>5
      <3>6. counters'
        <4> SUFFICES ASSUME NEW i \in DOMAIN out', out'[i].what = "counter"
                     PROVE  out'[i].value = LinesUpTo("counter", i)'
          BY DEF counters
        <4>1. CASE i \in 1..Len(out)
          BY <4>1, <3>1, <3>4, <1>2 DEF counters
        <4>2. CASE i = Len(out) + 1
          <5>1. Lines("counter")' = LinesUpTo("counter", i)'
            BY <4>2, <3>1 DEF Lines
          <5>2. QED
            BY <4>2, <5>1, <3>1, <3>4, <3>5
        <4>3. QED
          BY <4>1, <4>2, <3>1
      <3>7. \A v \in {t, u} : pc'[v] # 3
        BY <2>3, <2>6, <2>11
      <3>8. QED
        BY <3>4, <3>5, <3>6, <3>7, <2>7
    <2>12. QED
      BY <2>8, <2>9, <2>10, <2>11, <1>1, <1>5, Mutex1Worker
  <1>6. QED
    BY <1>3, <1>4, <1>5, Cases
-----------------------------------------------------------------------------
(* oddevev.c                                                               *)

LEMMA OddWorker ==
  ASSUME prog = "oddevev", Places, NEW t \in {2, 3}, Act(t)
  PROVE  \/ pc[t] = 1 /\ pc'[t] = 2 /\ Locks
         \/ pc[t] = 2 /\ shared % 2 = t - 2 /\ pc'[t] = 3 /\ Silent
         \/ pc[t] = 2 /\ pc'[t] = 8 /\ Silent
         \/ pc[t] = 3 /\ pc'[t] = 4 /\ Says(t, "no")
         \/ pc[t] = 4 /\ pc'[t] = 5 /\ Loads(t)
         \/ pc[t] = 5 /\ pc'[t] = 6 /\ Stores(t)
         \/ pc[t] \in {6, 9} /\ shared <= Last /\ pc'[t] = 2 /\ Silent
         \/ pc[t] \in {6, 9} /\ ~(shared <= Last) /\ pc'[t] \in {7, 10} /\ Silent
         \/ pc[t] \in {7, 10} /\ pc'[t] = Gone /\ Silent
         \/ pc[t] = 8 /\ pc'[t] = 9 /\ Unlocks
  <1> DEFINE s == PrintNos(t - 2)
  <1>1. Code(prog, t) = s
    <2>1. t = 2 \/ t = 3
      OBVIOUS
    <2>2. Code(prog, t) = <<OddEvEvMain, PrintNos(0), PrintNos(1)>>[t]
      BY DEF Code
    <2>3. QED
      BY <2>1, <2>2
  <1>2. /\ s[1] = lock(1) /\ s[2] = isParity(t - 2, 8) /\ s[3] = print("no") /\ s[4] = load
        /\ s[5] = store /\ s[6] = while(2) /\ s[7] = end /\ s[8] = unlock(1) /\ s[9] = while(2)
        /\ s[10] = end /\ Len(s) = 10
    BY DEF PrintNos
  <1> HIDE DEF s
  <1>3. t \in Threads
    BY Threads123
  <1>4. Op(t) = s[pc[t]] /\ pc[t] \in 1..10
    BY <1>1, <1>2, <1>3, Located
  <1>5. CASE pc[t] \in {1, 2, 3}
    BY <1>2, <1>3, <1>4, <1>5, Effects
  <1>6. CASE pc[t] \in {4, 5, 6}
    BY <1>2, <1>3, <1>4, <1>6, Effects
  <1>7. CASE pc[t] \in {7, 8, 9, 10}
    BY <1>2, <1>3, <1>4, <1>7, Effects
  <1>8. QED
    BY <1>4, <1>5, <1>6, <1>7

\* A thread in front of its print, or there, has found a value that was not beyond
\* the limit: since then it is at most the one the other thread then stored, and
\* that is of this thread's parity.
Turn(t) == IF pc[t] \in {4, 5} THEN 1 ELSE 0
Limit(t) == IF Last % 2 = t - 2 THEN Last ELSE Last + 1

OddInv ==
    prog = "oddevev" =>
        /\ Len(out) = shared + Turn(2) + Turn(3)
        /\ \A i \in DOMAIN out : out[i].value = i - 1
        /\ shared <= Last + 2
        /\ \A t \in {2, 3} :
              /\ pc[t] \in 3..5 => shared % 2 = t - 2
              /\ pc[t] = 5 => reg[t] = shared
              /\ pc[t] \in {7, 10, Gone} => shared > Last
              /\ pc[t] \in 0..5 => shared <= Limit(t)

LEMMA OddNext == Places /\ Family /\ OddInv /\ [Next]_vars => OddInv'
  <1> SUFFICES ASSUME Places, Family, OddInv, [Next]_vars, prog' = "oddevev"
               PROVE  OddInv'
    BY DEF OddInv
  <1>1. prog' = prog /\ prog = "oddevev" /\ 2 \in Threads /\ 3 \in Threads
    BY SameProgram, Threads123
  <1>2. /\ Len(out) = shared + Turn(2) + Turn(3)
        /\ \A i \in DOMAIN out : out[i].value = i - 1
        /\ shared <= Last + 2 /\ shared \in Nat /\ Last \in Nat
        /\ \A t \in {2, 3} :
              /\ pc[t] \in 3..5 => shared % 2 = t - 2
              /\ pc[t] = 5 => reg[t] = shared
              /\ pc[t] \in {7, 10, Gone} => shared > Last
              /\ pc[t] \in 0..5 => shared <= Limit(t)
    BY <1>1, BoundsAssumption DEF OddInv, Places
  <1>3. CASE UNCHANGED vars
    <2>1. UNCHANGED <<pc, shared, reg, out>>
      BY <1>3 DEF vars
    <2>2. QED
      BY <2>1, <1>2 DEF OddInv, Turn, Limit
  <1>4. ASSUME Act(1) PROVE OddInv'
    <2>1. Op(1).op # "print"
      BY <1>1, <1>4, TwoJoined
    <2>2. /\ shared' = shared /\ reg' = reg /\ out' = out
          /\ \A u \in {2, 3} : pc'[u] = pc[u] \/ (pc[u] = 0 /\ pc'[u] = 1)
      BY <2>1, <1>1, <1>4, MainStarts DEF Silent
    <2>3. \A u \in {2, 3} : Turn(u)' = Turn(u)
      BY <2>2 DEF Turn
    <2>4. ASSUME NEW u \in {2, 3}
          PROVE  /\ pc'[u] \in 3..5 => shared' % 2 = u - 2
                 /\ pc'[u] = 5 => reg'[u] = shared'
                 /\ pc'[u] \in {7, 10, Gone} => shared' > Last
                 /\ pc'[u] \in 0..5 => shared' <= Limit(u)
      <3>1. CASE pc'[u] = pc[u]
        BY <3>1, <2>2, <1>2
      <3>2. CASE pc[u] = 0 /\ pc'[u] = 1
        BY <3>2, <2>2, <1>2 DEF Gone
      <3>3. QED
        BY <2>2, <3>1, <3>2
    <2>5. QED
      BY <2>2, <2>3, <2>4, <1>2 DEF OddInv, Limit
  <1>5. ASSUME NEW t \in Threads, t # 1, Act(t) PROVE OddInv'
    <2>1. t \in {2, 3} /\ pc[t] \in Int
      <3>1. t \in Team(prog) /\ Team(prog) = 1..3
        BY <1>1, <1>5, TwoJoined, WorkerMoves
      <3>2. QED
        BY <3>1, <1>5 DEF Places
    <2>2. PICK u \in {2, 3} : u # t
      BY <2>1
    <2>3. pc'[u] = pc[u] /\ pc[u] \in Int
      BY <2>2, <1>1, <1>5, WorkerMoves DEF Places
    <2>4. Turn(u)' = Turn(u) /\ Turn(u) \in {0, 1} /\ Turn(t) \in {0, 1}
      BY <2>3 DEF Turn
    <2>5. Len(out) = shared + Turn(t) + Turn(u)
      <3>1. Len(out) = shared + Turn(2) + Turn(3)
        BY <1>2
      <3>2. shared \in Nat /\ ((t = 2 /\ u = 3) \/ (t = 3 /\ u = 2))
        BY <2>1, <2>2 DEF Places
      <3>3. QED
        BY <3>1, <3>2, <2>4
    <2> DEFINE Good(v) == /\ pc'[v] \in 3..5 => shared' % 2 = v - 2
                          /\ pc'[v] = 5 => reg'[v] = shared'
                          /\ pc'[v] \in {7, 10, Gone} => shared' > Last
                          /\ pc'[v] \in 0..5 => shared' <= Limit(v)
    <2>6. ASSUME Len(out') = shared' + Turn(t)' + Turn(u)', shared' <= Last + 2,
                 \A i \in DOMAIN out' : out'[i].value = i - 1,
                 Good(t), Good(u)
          PROVE  OddInv'
      <3>1. Len(out') = shared' + Turn(2)' + Turn(3)'
        <4>1. Turn(u)' \in {0, 1} /\ Turn(t)' \in {0, 1} /\ shared' \in Nat
          BY <1>1, PlacesNext DEF Turn, Places
        <4>2. (t = 2 /\ u = 3) \/ (t = 3 /\ u = 2)
          BY <2>1, <2>2
        <4> HIDE DEF Good
        <4>3. CASE t = 2 /\ u = 3
          BY <4>3, <2>6
        <4>4. CASE t = 3 /\ u = 2
          BY <4>1, <4>4, <2>6
        <4>5. QED
          BY <4>2, <4>3, <4>4
      <3>2. \A v \in {2, 3} : Good(v)
        BY <2>1, <2>2, <2>6
      <3>3. QED
        BY <3>1, <3>2, <2>6 DEF OddInv, Limit
    <2>7. ASSUME shared' = shared, reg'[u] = reg[u] PROVE Good(u)
      BY <2>2, <2>3, <2>7, <1>2
    <2>8. CASE \/ pc[t] = 1 /\ pc'[t] = 2 /\ Locks
               \/ pc[t] = 2 /\ shared % 2 = t - 2 /\ pc'[t] = 3 /\ Silent
               \/ pc[t] = 2 /\ pc'[t] = 8 /\ Silent
               \/ pc[t] \in {6, 9} /\ shared <= Last /\ pc'[t] = 2 /\ Silent
               \/ pc[t] \in {6, 9} /\ ~(shared <= Last) /\ pc'[t] \in {7, 10} /\ Silent
               \/ pc[t] \in {7, 10} /\ pc'[t] = Gone /\ Silent
               \/ pc[t] = 8 /\ pc'[t] = 9 /\ Unlocks
      <3>1. UNCHANGED <<shared, reg, out>>
        BY <2>8 DEF Locks, Unlocks, Silent
      <3>2. Turn(t)' = Turn(t)
        BY <2>8 DEF Turn, Gone
      <3>3. Last <= Limit(t)
        BY <1>2 DEF Limit
      <3>4. /\ pc'[t] \in 3..5 => shared % 2 = t - 2
            /\ pc'[t] # 5
            /\ pc'[t] \in {7, 10, Gone} => shared > Last
            /\ pc'[t] \in 0..5 => shared <= Limit(t)
        <4>1. CASE pc[t] = 1 /\ pc'[t] = 2
          <5>1. shared <= Limit(t)
            BY <4>1, <2>1, <1>2
          <5>2. QED
            BY <4>1, <5>1 DEF Gone
        <4>2. CASE pc[t] = 2 /\ shared % 2 = t - 2 /\ pc'[t] = 3
          <5>1. shared <= Limit(t)
            BY <4>2, <2>1, <1>2
          <5>2. QED
            BY <4>2, <5>1 DEF Gone
        <4>3. CASE pc'[t] \in {8, 9}
          BY <4>3 DEF Gone
        <4>4. CASE shared <= Last /\ pc'[t] = 2
          <5>1. shared <= Limit(t)
            BY <4>4, <1>2 DEF Limit
          <5>2. QED
            BY <4>4, <5>1 DEF Gone
        <4>5. CASE ~(shared <= Last) /\ pc'[t] \in {7, 10}
          BY <4>5, <1>2 DEF Gone
        <4>6. CASE pc[t] \in {7, 10} /\ pc'[t] = Gone
          <5>1. shared > Last
            BY <4>6, <2>1, <1>2
          <5>2. QED
            BY <4>6, <5>1 DEF Gone
        <4>7. QED
          BY <4>1, <4>2, <4>3, <4>4, <4>5, <4>6, <2>8
      <3>5. Good(t)
        BY <3>1, <3>4
      <3>6. Good(u)
        BY <3>1, <2>7
      <3> HIDE DEF Good
      <3>7. QED
        BY <3>1, <3>2, <3>5, <3>6, <2>4, <2>5, <2>6, <1>2
    <2>9. CASE pc[t] = 3 /\ pc'[t] = 4 /\ Says(t, "no")
      <3>1. /\ Len(out) \in Nat /\ DOMAIN out = 1..Len(out)
            /\ Len(out') = Len(out) + 1 /\ DOMAIN out' = 1 .. Len(out) + 1
            /\ \A i \in 1..Len(out) : out'[i] = out[i]
            /\ out'[Len(out) + 1].value = shared
        BY <2>9, OneLine
      <3>2. UNCHANGED <<shared, reg>>
        BY <2>9 DEF Says
      <3>3. Turn(t) = 0 /\ Turn(t)' = 1 /\ Turn(u) = 0
        <4>1. pc[u] \notin 3..5
          BY <2>1, <2>2, <2>3, <2>9, <1>2
        <4>2. QED
          BY <4>1, <2>3, <2>9 DEF Turn
      <3>4. Len(out) = shared /\ Len(out') = shared' + Turn(t)' + Turn(u)'
        BY <3>1, <3>2, <3>3, <2>4, <2>5, <1>2
      <3>5. \A i \in DOMAIN out' : out'[i].value = i - 1
        <4>1. \A i \in 1 .. Len(out) + 1 : i \in 1..Len(out) \/ i = Len(out) + 1
          BY <3>1
        <4>2. QED
          BY <4>1, <3>1, <3>4, <1>2
      <3>6. Good(t)
        BY <2>1, <2>9, <3>2, <1>2 DEF Gone
      <3>7. Good(u)
        BY <3>2, <2>7
      <3> HIDE DEF Good
      <3>8. QED
        BY <3>2, <3>4, <3>5, <3>6, <3>7, <2>6, <1>2
    <2>10. CASE pc[t] = 4 /\ pc'[t] = 5 /\ Loads(t)
      <3>1. UNCHANGED <<shared, out>> /\ reg' = [reg EXCEPT ![t] = shared]
        BY <2>10 DEF Loads
      <3>2. reg'[t] = shared /\ reg'[u] = reg[u]
        BY <3>1, <2>1, <2>2, <1>1, <1>5 DEF Places
      <3>3. Turn(t)' = Turn(t)
        BY <2>10 DEF Turn
      <3>4. Good(t)
        BY <2>1, <2>10, <3>1, <3>2, <1>2 DEF Gone
      <3>5. Good(u)
        BY <3>1, <3>2, <2>7
      <3> HIDE DEF Good
      <3>6. QED
        BY <3>1, <3>3, <3>4, <3>5, <2>4, <2>5, <2>6, <1>2
    <2>11. CASE pc[t] = 5 /\ pc'[t] = 6 /\ Stores(t)
      <3>1. UNCHANGED <<reg, out>> /\ shared' = shared + 1
        BY <2>11, <2>1, <1>2 DEF Stores
      <3>2. Turn(t) = 1 /\ Turn(t)' = 0
        BY <2>11 DEF Turn
      <3>3. shared % 2 = t - 2 /\ shared <= Limit(t)
        BY <2>1, <2>11, <1>2
      <3>4. pc[u] \notin 3..5
        BY <2>1, <2>2, <2>3, <3>3, <1>2
      <3>5. shared' <= Last + 2
        BY <3>1, <3>3, <1>2 DEF Limit
      <3>6. ASSUME pc[u] \in 0..5 PROVE shared' <= Limit(u)
        <4>1. shared <= Limit(u) /\ u - 2 # t - 2
          BY <2>1, <2>2, <3>6, <1>2
        <4>2. CASE Last % 2 = t - 2
          BY <4>1, <4>2, <3>1, <3>3, <1>2 DEF Limit
        <4>3. CASE Last % 2 # t - 2
          <5>1. Last % 2 = u - 2
            <6>1. Last % 2 \in {0, 1}
              BY <1>2
            <6>2. QED
              BY <6>1, <4>3, <2>1, <2>2
          <5>2. shared <= Last /\ shared # Last
            BY <5>1, <4>1, <4>3, <3>3 DEF Limit
          <5>3. QED
            BY <5>1, <5>2, <3>1, <1>2 DEF Limit
        <4>4. QED
          BY <4>2, <4>3
      <3>7. Good(t)
        BY <2>11 DEF Gone
      <3>8. Good(u)
        <4>1. pc[u] \in {7, 10, Gone} => shared > Last
          BY <2>2, <1>2
        <4>2. QED
          BY <4>1, <2>3, <3>1, <3>4, <3>6, <1>2
      <3> HIDE DEF Good
      <3>9. QED
        BY <3>1, <3>2, <3>5, <3>7, <3>8, <2>4, <2>5, <2>6, <1>2
    <2>12. QED
      BY <2>1, <2>8, <2>9, <2>10, <2>11, <1>1, <1>5, OddWorker
  <1>6. QED
    BY <1>3, <1>4, <1>5, Cases

-----------------------------------------------------------------------------
(* ex_pthread1.c                                                           *)

LEMMA IncWorker ==
  ASSUME prog = "ex_pthread1", Places, NEW t \in Threads, t # 1, Act(t)
  PROVE  /\ t = 2
         /\ \/ pc[t] \in 1 .. 2 * Last /\ (pc[t] - 1) % 2 = 0 /\ pc'[t] = pc[t] + 1 /\ Loads(t)
            \/ pc[t] \in 1 .. 2 * Last /\ (pc[t] - 1) % 2 # 0 /\ pc'[t] = pc[t] + 1 /\ Stores(t)
            \/ pc[t] = 2 * Last + 1 /\ pc'[t] = Gone /\ Silent
  <1>1. Code(prog, t) = inc_x /\ Team(prog) = 1..2
    BY TeamOf DEF Code
  <1>2. Op(t) = inc_x[pc[t]] /\ pc[t] \in 1 .. 2 * Last + 1 /\ t \in 1..2
    BY <1>1, Located, IncCode
  <1>3. 2 * Last \in Nat
    BY BoundsAssumption
  <1>4. CASE pc[t] \in 1 .. 2 * Last
    BY <1>2, <1>4, IncCode, Effects
  <1>5. CASE pc[t] = 2 * Last + 1
    BY <1>2, <1>5, IncCode, Effects
  <1>6. QED
    BY <1>2, <1>3, <1>4, <1>5

IncInv ==
    prog = "ex_pthread1" =>
        /\ pc[2] = 0 => shared = 0
        /\ pc[2] = Gone => shared = Last
        /\ pc[2] > 0 => pc[2] \in {2 * shared + 1, 2 * shared + 2}
        /\ pc[2] = 2 * shared + 2 => reg[2] = shared
        /\ Printed("x") => pc[1] > 2

\* main of ex_pthread1.c.
LEMMA IncMain ==
  ASSUME prog = "ex_pthread1", Places, Family
  PROVE  /\ pc[1] > 2 => pc[2] = Gone
         /\ Act(1) /\ Op(1).op = "print" => pc[1] = 3
         /\ Act(1) => pc'[1] >= pc[1]
  <1> DEFINE s == <<createOrExit(2), join(2), print("x"), exit>>
  <1>1. Code(prog, 1) = s
    BY DEF Code, ExPthread1Main
  <1>2. /\ Len(s) = 4
        /\ s[1].op = "create" /\ s[2].op = "join" /\ s[2].a = 2 /\ s[3].op = "print" /\ s[4].op = "exit"
    BY Calls
  <1> HIDE DEF s
  <1>3. Op(1) = s[pc[1]] /\ 1 \in Threads /\ Len(Code(prog, 1)) = 4 /\ pc \in [Threads -> Int]
    BY <1>1, <1>2, Threads123 DEF Op, Places
  <1>4. pc[1] > 2 => pc[2] = Gone
    <2>1. Joined /\ 2 \in 1..4
      BY DEF Family
    <2>2. QED
      BY <2>1, <1>1, <1>2, <1>3 DEF Joined
  <1>5. ASSUME Act(1) PROVE (Op(1).op = "print" => pc[1] = 3) /\ pc'[1] >= pc[1]
    <2>1. pc[1] \in 1..4
      BY <1>3, <1>5, Located
    <2>2. (Op(1).op = "print" => pc[1] = 3) /\ Op(1).op # "end"
      BY <2>1, <1>2, <1>3
    <2>3. Started
      BY DEF Family
    <2>4. \/ pc' = [pc EXCEPT ![1] = pc[1] + 1, ![pc[1] + 1] = 1]
          \/ pc' = [pc EXCEPT ![1] = pc[1] + 1]
          \/ pc' = pc
      BY <2>2, <2>3, <1>5, MainMoves
    <2>5. pc'[1] >= pc[1]
      BY <2>1, <2>4, <1>3
    <2>6. QED
      BY <2>2, <2>5
  <1>6. QED
    BY <1>4, <1>5

LEMMA IncNext == Places /\ Family /\ IncInv /\ [Next]_vars => IncInv'
  <1> SUFFICES ASSUME Places, Family, IncInv, [Next]_vars, prog' = "ex_pthread1"
               PROVE  IncInv'
    BY DEF IncInv
  <1>1. /\ prog' = prog /\ prog = "ex_pthread1" /\ 1 \in Threads /\ 2 \in Threads
        /\ shared \in Nat /\ Last \in Nat \ {0} /\ pc \in [Threads -> Int] /\ reg \in [Threads -> Nat]
    BY SameProgram, Threads123, BoundsAssumption DEF Places
  <1>2. /\ pc[2] = 0 => shared = 0
        /\ pc[2] = Gone => shared = Last
        /\ pc[2] > 0 => pc[2] \in {2 * shared + 1, 2 * shared + 2}
        /\ pc[2] = 2 * shared + 2 => reg[2] = shared
        /\ Printed("x") => pc[1] > 2
    BY <1>1 DEF IncInv
  <1>3. CASE UNCHANGED vars
    <2>1. UNCHANGED <<pc, shared, reg, out>>
      BY <1>3 DEF vars
    <2>2. QED
      BY <2>1, <1>2 DEF IncInv, Printed
  <1>4. ASSUME Act(1) PROVE IncInv'
    <2>1. /\ pc'[1] >= pc[1] /\ pc[1] > 0
          /\ Op(1).op = "print" => pc[1] = 3
      BY <1>1, <1>4, IncMain, Kinds
    <2>2. shared' = shared /\ reg' = reg /\ (pc'[2] = pc[2] \/ (pc[2] = 0 /\ pc'[2] = 1))
      BY <1>1, <1>4, MainStarts DEF Silent, Says
    <2>3. Printed("x")' => pc'[1] > 2
      <3>1. pc[1] = 3 => pc'[1] > 2
        BY <2>1, <1>1, PlacesNext DEF Places
      <3>2. ASSUME Op(1).op # "print" PROVE out' = out
        BY <3>2, <1>1, <1>4, MainStarts DEF Silent
      <3>3. Op(1).op # "print" => (Printed("x")' <=> Printed("x"))
        BY <3>2 DEF Printed
      <3>4. pc[1] > 2 => pc'[1] > 2
        BY <2>1, <1>1, PlacesNext DEF Places
      <3>5. QED
        BY <3>1, <3>3, <3>4, <2>1, <1>2
    <2>4. QED
      BY <2>2, <2>3, <1>1, <1>2 DEF IncInv, Gone
  <1>5. ASSUME NEW t \in Threads, t # 1, Act(t) PROVE IncInv'
    <2>1. t = 2 /\ pc[2] > 0 /\ pc'[1] = pc[1]
      BY <1>1, <1>5, IncWorker, WorkerMoves, Kinds
    <2>2. CASE pc[2] \in 1 .. 2 * Last /\ (pc[2] - 1) % 2 = 0 /\ pc'[2] = pc[2] + 1 /\ Loads(2)
      <3>1. UNCHANGED <<shared, out>> /\ reg' = [reg EXCEPT ![2] = shared]
        BY <2>2 DEF Loads
      <3>2. pc[2] = 2 * shared + 1
        <4>1. \A p \in Int : p = 2 * shared + 2 => (p - 1) % 2 # 0
          BY <1>1
        <4>2. QED
          BY <4>1, <2>1, <2>2, <1>1, <1>2
      <3>3. Printed("x")' => pc'[1] > 2
        BY <3>1, <2>1, <1>2 DEF Printed
      <3>4. QED
        BY <3>1, <3>2, <3>3, <2>2, <1>1 DEF IncInv, Gone
    <2>3. CASE pc[2] \in 1 .. 2 * Last /\ (pc[2] - 1) % 2 # 0 /\ pc'[2] = pc[2] + 1 /\ Stores(2)
      <3>1. UNCHANGED <<reg, out>> /\ shared' = reg[2] + 1
        BY <2>3 DEF Stores
      <3>2. pc[2] = 2 * shared + 2
        <4>1. \A p \in Int : p = 2 * shared + 1 => (p - 1) % 2 = 0
          BY <1>1
        <4>2. QED
          BY <4>1, <2>1, <2>3, <1>1, <1>2
      <3>3. shared' = shared + 1 /\ pc'[2] = 2 * shared' + 1
        BY <3>1, <3>2, <2>3, <1>1, <1>2
      <3>4. Printed("x")' => pc'[1] > 2
        BY <3>1, <2>1, <1>2 DEF Printed
      <3>5. QED
        BY <3>1, <3>3, <3>4, <1>1 DEF IncInv, Gone
    <2>4. CASE pc[2] = 2 * Last + 1 /\ pc'[2] = Gone /\ Silent
      <3>1. UNCHANGED <<shared, reg, out>>
        BY <2>4 DEF Silent
      <3>2. shared = Last
        BY <2>1, <2>4, <1>1, <1>2
      <3>3. Printed("x")' => pc'[1] > 2
        BY <3>1, <2>1, <1>2 DEF Printed
      <3>4. QED
        BY <3>1, <3>2, <3>3, <2>4, <1>1 DEF IncInv, Gone
    <2>5. QED
      BY <2>1, <2>2, <2>3, <2>4, <1>1, <1>5, IncWorker
  <1>6. QED
    BY <1>3, <1>4, <1>5, Cases

-----------------------------------------------------------------------------
(* ex_pthread2.c                                                           *)

\* The two messages come first, and main's line last.
MessageInv ==
    prog = "ex_pthread2" =>
        /\ pc[1] \in 1..6
        /\ pc[1] <= 5 => /\ Len(out) = Past(2, 1) + Past(3, 1)
                         /\ \A i \in DOMAIN out : out[i].what = "message"
        /\ pc[1] = 6 => /\ Len(out) = 3
                        /\ \A i \in DOMAIN out : out[i].what = "message" <=> i # 3

LEMMA MessageMain ==
  ASSUME prog = "ex_pthread2", Places, Family
  PROVE  /\ pc[1] > 4 => pc[2] = Gone /\ pc[3] = Gone
         /\ Team(prog) = 1..3
         /\ Act(1) => /\ pc[1] \in 1..6
                      /\ pc[1] = 5 => Op(1).op = "print" /\ Op(1).a = "returns"
                      /\ pc[1] # 5 => Op(1).op # "print" /\ pc'[1] \in {pc[1], pc[1] + 1}
                      /\ pc[1] = 6 => pc'[1] = 6
  <1> DEFINE s == <<create(2), create(3), join(2), join(3), print("returns"), exit>>
  <1>1. Code(prog, 1) = s
    BY DEF Code, ExPthread2Main
  <1>2. /\ Len(s) = 6
        /\ s[1].op = "create" /\ s[2].op = "create" /\ s[3].op = "join" /\ s[3].a = 2
        /\ s[4].op = "join" /\ s[4].a = 3 /\ s[5].op = "print" /\ s[5].a = "returns" /\ s[6].op = "exit"
    BY Calls
  <1> HIDE DEF s
  <1>3. Op(1) = s[pc[1]] /\ 1 \in Threads /\ Len(Code(prog, 1)) = 6 /\ pc \in [Threads -> Int]
    BY <1>1, <1>2, Threads123 DEF Op, Places
  <1>4. pc[1] > 4 => pc[2] = Gone /\ pc[3] = Gone
    <2>1. Joined /\ 3 \in 1..6 /\ 4 \in 1..6
      BY DEF Family
    <2>2. QED
      BY <2>1, <1>1, <1>2, <1>3 DEF Joined
  <1>5. ASSUME Act(1)
        PROVE  /\ pc[1] \in 1..6
               /\ pc[1] = 5 => Op(1).op = "print" /\ Op(1).a = "returns"
               /\ pc[1] # 5 => Op(1).op # "print" /\ pc'[1] \in {pc[1], pc[1] + 1}
               /\ pc[1] = 6 => pc'[1] = 6
    <2>1. pc[1] \in 1..6
      BY <1>3, <1>5, Located
    <2>2. /\ pc[1] = 5 => Op(1).op = "print" /\ Op(1).a = "returns"
          /\ pc[1] # 5 => Op(1).op # "print"
          /\ pc[1] = 6 => Op(1).op = "exit"
          /\ Op(1).op # "end"
      BY <2>1, <1>2, <1>3
    <2>3. Started
      BY DEF Family
    <2>4. \/ Op(1).op # "exit" /\ pc' = [pc EXCEPT ![1] = pc[1] + 1, ![pc[1] + 1] = 1]
          \/ Op(1).op # "exit" /\ pc' = [pc EXCEPT ![1] = pc[1] + 1]
          \/ pc' = pc
      BY <2>2, <2>3, <1>5, MainMoves
    <2>5. pc'[1] \in {pc[1], pc[1] + 1} /\ (pc[1] = 6 => pc'[1] = 6)
      BY <2>1, <2>2, <2>4, <1>3
    <2>6. QED
      BY <2>1, <2>2, <2>5
  <1>6. QED
    BY <1>4, <1>5, TeamOf

LEMMA MessageWorker ==
  ASSUME prog = "ex_pthread2", Places, NEW t \in Threads, t # 1, Act(t)
  PROVE  \/ pc[t] = 1 /\ pc'[t] = 2 /\ Says(t, "message")
         \/ pc[t] = 2 /\ pc'[t] = Gone /\ Silent
  <1>1. Code(prog, t) = print_message_function
    BY DEF Code
  <1>2. Op(t) = print_message_function[pc[t]] /\ pc[t] \in {1, 2}
    BY <1>1, Located DEF print_message_function
  <1>3. print_message_function[1] = print("message") /\ print_message_function[2] = end
    BY DEF print_message_function
  <1>4. QED
    BY <1>2, <1>3, Effects

LEMMA MessageNext == Places /\ Family /\ MessageInv /\ [Next]_vars => MessageInv'
  <1> SUFFICES ASSUME Places, Family, MessageInv, [Next]_vars, prog' = "ex_pthread2"
               PROVE  MessageInv'
    BY DEF MessageInv
  <1>1. /\ prog' = prog /\ prog = "ex_pthread2"
        /\ 1 \in Threads /\ 2 \in Threads /\ 3 \in Threads
    BY SameProgram, Threads123
  <1>2. /\ pc[1] \in 1..6
        /\ pc[1] <= 5 => /\ Len(out) = Past(2, 1) + Past(3, 1)
                         /\ \A i \in DOMAIN out : out[i].what = "message"
        /\ pc[1] = 6 => /\ Len(out) = 3
                        /\ \A i \in DOMAIN out : out[i].what = "message" <=> i # 3
    BY <1>1 DEF MessageInv
  <1>3. CASE UNCHANGED vars
    <2>1. UNCHANGED <<pc, out>>
      BY <1>3 DEF vars
    <2>2. QED
      BY <2>1, <1>2 DEF MessageInv, Past
  <1>4. ASSUME Act(1), pc[1] # 5 PROVE MessageInv'
    <2>1. Op(1).op # "print" /\ pc'[1] \in {pc[1], pc[1] + 1} /\ (pc[1] = 6 => pc'[1] = 6)
      BY <1>1, <1>4, MessageMain
    <2>2. out' = out /\ \A u \in {2, 3} : pc'[u] = pc[u] \/ (pc[u] = 0 /\ pc'[u] = 1)
      BY <2>1, <1>1, <1>4, MainStarts DEF Silent
    <2>3. \A u \in {2, 3} : Past(u, 1)' = Past(u, 1)
      BY <2>2 DEF Past, Gone
    <2>4. /\ pc'[1] \in 1..6
          /\ pc'[1] = 6 => pc[1] = 6
          /\ pc'[1] <= 5 => pc[1] <= 5
      BY <2>1, <1>2, <1>4
    <2>5. QED
      BY <2>2, <2>3, <2>4, <1>2 DEF MessageInv
  <1>5. ASSUME Act(1), pc[1] = 5 PROVE MessageInv'
    <2>1. Op(1).op = "print" /\ Op(1).a = "returns" /\ pc[2] = Gone /\ pc[3] = Gone
      BY <1>1, <1>5, MessageMain
    <2>2. Says(1, "returns") /\ pc'[1] = 6
      BY <2>1, <1>1, <1>5, MainStarts
    <2>3. /\ DOMAIN out = 1..Len(out)
          /\ Len(out') = Len(out) + 1 /\ DOMAIN out' = 1 .. Len(out) + 1
          /\ \A i \in 1..Len(out) : out'[i] = out[i]
          /\ out'[Len(out) + 1].what = "returns"
      BY <2>2, OneLine
    <2>4. Len(out) = 2
      BY <2>1, <1>2, <1>5 DEF Past
    <2>5. \A i \in 1..2 : out[i].what = "message" /\ i # 3
      BY <2>3, <2>4, <1>2, <1>5
    <2>6. Len(out') = 3 /\ \A i \in 1..3 : out'[i].what = "message" <=> i # 3
      <3>1. \A i \in 1..3 : i \in 1..2 \/ i = 3
        OBVIOUS
      <3>2. QED
        BY <3>1, <2>3, <2>4, <2>5
    <2>7. QED
      BY <2>2, <2>3, <2>4, <2>6 DEF MessageInv
  <1>6. ASSUME NEW t \in Threads, t # 1, Act(t) PROVE MessageInv'
    <2>1. t \in {2, 3} /\ pc[t] > 0 /\ pc'[1] = pc[1]
      <3>1. t \in Team(prog) /\ Team(prog) = 1..3
        BY <1>1, <1>6, MessageMain, WorkerMoves
      <3>2. QED
        BY <3>1, <1>1, <1>6, WorkerMoves, Kinds
    <2>2. pc[1] \in 1..4
      <3>1. ~(pc[1] > 4)
        BY <2>1, <1>1, MessageMain DEF Gone
      <3>2. QED
        BY <3>1, <1>2
    <2>3. PICK u \in {2, 3} : u # t
      BY <2>1
    <2>4. pc'[u] = pc[u]
      BY <2>3, <1>1, <1>6, WorkerMoves
    <2>5. Past(u, 1)' = Past(u, 1) /\ Past(u, 1) \in {0, 1}
      BY <2>4 DEF Past
    <2>6. Len(out) = Past(t, 1) + Past(u, 1) /\ \A i \in DOMAIN out : out[i].what = "message"
      <3>1. Past(t, 1) \in {0, 1}
        BY DEF Past
      <3>2. Len(out) = Past(2, 1) + Past(3, 1)
        BY <2>2, <1>2
      <3>3. (t = 2 /\ u = 3) \/ (t = 3 /\ u = 2)
        BY <2>1, <2>3
      <3>4. QED
        BY <3>1, <3>2, <3>3, <2>2, <2>5, <1>2
    <2>7. ASSUME Len(out') = Past(t, 1)' + Past(u, 1)', \A i \in DOMAIN out' : out'[i].what = "message"
          PROVE  MessageInv'
      <3>1. Past(t, 1)' \in {0, 1} /\ Past(u, 1)' \in {0, 1}
        BY DEF Past
      <3>2. (t = 2 /\ u = 3) \/ (t = 3 /\ u = 2)
        BY <2>1, <2>3
      <3>3. Len(out') = Past(2, 1)' + Past(3, 1)'
        BY <3>1, <3>2, <2>7
      <3>4. QED
        BY <3>3, <2>1, <2>2, <2>7 DEF MessageInv
    <2>8. CASE pc[t] = 1 /\ pc'[t] = 2 /\ Says(t, "message")
      <3>1. /\ Len(out) \in Nat /\ DOMAIN out = 1..Len(out)
            /\ Len(out') = Len(out) + 1 /\ DOMAIN out' = 1 .. Len(out) + 1
            /\ \A i \in 1..Len(out) : out'[i] = out[i]
            /\ out'[Len(out) + 1].what = "message"
        BY <2>8, OneLine
      <3>2. Past(t, 1) = 0 /\ Past(t, 1)' = 1
        BY <2>8 DEF Past, Gone
      <3>3. \A i \in 1 .. Len(out) + 1 : i \in 1..Len(out) \/ i = Len(out) + 1
        BY <3>1
      <3>4. \A i \in DOMAIN out' : out'[i].what = "message"
        BY <3>1, <3>3, <2>6
      <3>5. Len(out') = Past(t, 1)' + Past(u, 1)'
        BY <3>1, <3>2, <2>5, <2>6
      <3>6. QED
        BY <3>4, <3>5, <2>7
    <2>9. CASE pc[t] = 2 /\ pc'[t] = Gone /\ Silent
      <3>1. out' = out
        BY <2>9 DEF Silent
      <3>2. Past(t, 1)' = Past(t, 1)
        BY <2>9 DEF Past, Gone
      <3>3. QED
        BY <3>1, <3>2, <2>5, <2>6, <2>7
    <2>10. QED
      BY <2>8, <2>9, <1>1, <1>6, MessageWorker
  <1>7. QED
    BY <1>3, <1>4, <1>5, <1>6, Cases

-----------------------------------------------------------------------------
(* hello.c                                                                 *)

\* The threads that are behind their call n.
Ahead(n) == {t \in 2 .. 1 + NThreads : Past(t, n) = 1}

LEMMA AheadFinite ==
  ASSUME NEW n \in Nat
  PROVE  /\ IsFiniteSet(Ahead(n)) /\ Cardinality(Ahead(n)) \in Nat
         /\ Cardinality(Ahead(n)) <= NThreads
         /\ (\A t \in 2 .. 1 + NThreads : pc[t] = Gone) => Cardinality(Ahead(n)) = NThreads
  <1>1. IsFiniteSet(2 .. 1 + NThreads) /\ Cardinality(2 .. 1 + NThreads) = NThreads
    <2>1. NThreads \in Nat /\ NThreads >= 1 /\ 2 \in Int /\ 1 + NThreads \in Int
      BY BoundsAssumption
    <2>2. /\ IsFiniteSet(2 .. 1 + NThreads)
          /\ Cardinality(2 .. 1 + NThreads) = IF 2 > 1 + NThreads THEN 0 ELSE (1 + NThreads) - 2 + 1
      BY <2>1, FS_Interval
    <2>3. ~(2 > 1 + NThreads) /\ (1 + NThreads) - 2 + 1 = NThreads
      BY <2>1
    <2>4. QED
      BY <2>2, <2>3
  <1>2. Ahead(n) \in SUBSET (2 .. 1 + NThreads)
    BY DEF Ahead
  <1>3. IsFiniteSet(Ahead(n)) /\ Cardinality(Ahead(n)) <= NThreads
    BY <1>1, <1>2, FS_Subset
  <1>4. Cardinality(Ahead(n)) \in Nat
    BY <1>3, FS_CardinalityType
  <1>5. ASSUME \A t \in 2 .. 1 + NThreads : pc[t] = Gone PROVE Ahead(n) = 2 .. 1 + NThreads
    BY <1>5 DEF Ahead, Past
  <1>6. QED
    BY <1>1, <1>3, <1>4, <1>5

LEMMA AheadGrows ==
  ASSUME NEW n \in Nat, NEW t \in 2 .. 1 + NThreads,
         \A u \in 2 .. 1 + NThreads : u # t => Past(u, n)' = Past(u, n)
  PROVE  /\ Past(t, n)' = Past(t, n) => Ahead(n)' = Ahead(n)
         /\ Past(t, n) = 0 /\ Past(t, n)' = 1 => Cardinality(Ahead(n)') = Cardinality(Ahead(n)) + 1
  <1>1. Ahead(n)' = {u \in 2 .. 1 + NThreads : Past(u, n)' = 1}
    BY DEF Ahead
  <1>2. Past(t, n)' = Past(t, n) => Ahead(n)' = Ahead(n)
    BY <1>1 DEF Ahead
  <1>3. ASSUME Past(t, n) = 0, Past(t, n)' = 1
        PROVE  Cardinality(Ahead(n)') = Cardinality(Ahead(n)) + 1
    <2>1. t \notin Ahead(n) /\ Ahead(n)' = Ahead(n) \cup {t}
      BY <1>1, <1>3 DEF Ahead
    <2>2. QED
      BY <2>1, AheadFinite, FS_AddElement
  <1>4. QED
    BY <1>2, <1>3

LEMMA HelloWorker ==
  ASSUME prog = "hello", Places, NEW t \in Threads, t # 1, Act(t)
  PROVE  /\ t \in 2 .. 1 + NThreads
         /\ \/ pc[t] = 1 /\ pc'[t] = 2 /\ Says(t, "hello")
            \/ pc[t] = 2 /\ pc'[t] = Gone /\ Silent
  <1>1. Code(prog, t) = PrintHello /\ Team(prog) = 1 .. 1 + NThreads
    BY TeamOf DEF Code
  <1>2. Op(t) = PrintHello[pc[t]] /\ pc[t] \in {1, 2} /\ t \in 1 .. 1 + NThreads
    <2>1. Op(t) = PrintHello[pc[t]] /\ pc[t] \in 1..Len(PrintHello) /\ t \in 1 .. 1 + NThreads
      BY <1>1, Located
    <2>2. Len(PrintHello) = 2
      BY DEF PrintHello
    <2>3. QED
      BY <2>1, <2>2
  <1>3. PrintHello[1] = print("hello") /\ PrintHello[2] = end
    BY DEF PrintHello
  <1>4. t \in 2 .. 1 + NThreads
    BY <1>2, BoundsAssumption
  <1>5. QED
    BY <1>2, <1>3, <1>4, Effects

HelloInv == prog = "hello" => Len(out) = Cardinality(Ahead(1))

\* Main's steps put no thread behind a call.
LEMMA MainLeavesAhead ==
  ASSUME Places, Family, prog \notin {"sem_ex1", "mutex1"}, Act(1), NEW n \in Nat \ {0}
  PROVE  Ahead(n)' = Ahead(n)
  <1>1. \A u \in Threads \ {1} : pc'[u] = pc[u] \/ (pc[u] = 0 /\ pc'[u] = 1)
    BY MainStarts
  <1>2. 2 .. 1 + NThreads \subseteq Threads \ {1}
    BY Bounds
  <1>3. \A u \in 2 .. 1 + NThreads : Past(u, n)' = Past(u, n)
    BY <1>1, <1>2 DEF Past, Gone
  <1>4. QED
    BY <1>3 DEF Ahead

LEMMA HelloNext == Places /\ Family /\ HelloInv /\ [Next]_vars => HelloInv'
  <1> SUFFICES ASSUME Places, Family, HelloInv, [Next]_vars, prog' = "hello"
               PROVE  Len(out') = Cardinality(Ahead(1))'
    BY DEF HelloInv
  <1>1. prog' = prog /\ prog = "hello" /\ 1 \in Threads
    BY SameProgram, Threads123
  <1>2. Len(out) = Cardinality(Ahead(1))
    BY <1>1 DEF HelloInv
  <1>3. CASE UNCHANGED vars
    <2>1. UNCHANGED <<pc, out>>
      BY <1>3 DEF vars
    <2>2. QED
      BY <2>1, <1>2 DEF Ahead, Past
  <1>4. CASE Act(1)
    <2>1. Op(1).op # "print"
      <3>1. pc[1] \in 1 .. NThreads + 1 /\ Op(1) = HelloMain[pc[1]]
        <4>1. Code(prog, 1) = HelloMain
          BY <1>1 DEF Code
        <4>2. QED
          BY <4>1, <1>1, <1>4, Located, HelloMainCode
      <3>2. \A i \in 1 .. NThreads + 1 : i \in 1..NThreads \/ i = NThreads + 1
        BY BoundsAssumption
      <3>3. \A i \in 1..NThreads : HelloMain[i].op = "create"
        BY HelloMainCode, Calls
      <3>4. HelloMain[NThreads + 1].op = "end"
        BY HelloMainCode, Calls
      <3>5. QED
        BY <3>1, <3>2, <3>3, <3>4
    <2>2. out' = out
      BY <2>1, <1>1, <1>4, MainStarts DEF Silent
    <2>3. Ahead(1)' = Ahead(1)
      BY <1>1, <1>4, MainLeavesAhead
    <2>4. QED
      BY <2>2, <2>3, <1>2
  <1>5. ASSUME NEW t \in Threads, t # 1, Act(t) PROVE Len(out') = Cardinality(Ahead(1))'
    <2>1. t \in 2 .. 1 + NThreads
      BY <1>1, <1>5, HelloWorker
    <2>2. \A u \in 2 .. 1 + NThreads : u # t => Past(u, 1)' = Past(u, 1)
      <3>1. 2 .. 1 + NThreads \subseteq Threads
        BY Bounds
      <3>2. \A u \in Threads \ {t} : pc'[u] = pc[u]
        BY <1>1, <1>5, WorkerMoves
      <3>3. QED
        BY <3>1, <3>2 DEF Past
    <2>3. CASE pc[t] = 1 /\ pc'[t] = 2 /\ Says(t, "hello")
      <3>1. Past(t, 1) = 0 /\ Past(t, 1)' = 1
        BY <2>3 DEF Past, Gone
      <3>2. Len(out') = Len(out) + 1
        BY <2>3, OneLine
      <3>3. QED
        BY <3>1, <3>2, <2>1, <2>2, <1>2, AheadGrows
    <2>4. CASE pc[t] = 2 /\ pc'[t] = Gone /\ Silent
      <3>1. Past(t, 1)' = Past(t, 1)
        BY <2>4 DEF Past, Gone
      <3>2. out' = out
        BY <2>4 DEF Silent
      <3>3. QED
        BY <3>1, <3>2, <2>1, <2>2, <1>2, AheadGrows
    <2>5. QED
      BY <2>3, <2>4, <1>1, <1>5, HelloWorker
  <1>6. QED
    BY <1>3, <1>4, <1>5, Cases

-----------------------------------------------------------------------------
(* join1.c                                                                 *)

Join1Inv ==
    prog = "join1" =>
        /\ pc[1] \in 1 .. 2 * NThreads + 2
        /\ shared = Cardinality(Ahead(4))
        /\ \A t \in Threads \ {1} : pc[t] = 4 => reg[t] = shared
        /\ pc[1] # 2 * NThreads + 2 => /\ Len(out) = Cardinality(Ahead(1))
                                       /\ \A i \in DOMAIN out : out[i].what = "number"
        /\ pc[1] = 2 * NThreads + 2 => /\ Len(out) = NThreads + 1
                                       /\ \A i \in DOMAIN out : out[i].what = "number" <=> i # NThreads + 1

LEMMA Join1MainAt ==
  ASSUME prog = "join1", Places, Family
  PROVE  /\ pc[1] > 2 * NThreads => \A t \in 2 .. 1 + NThreads : pc[t] = Gone
         /\ Act(1) => /\ pc[1] \in 1 .. 2 * NThreads + 2
                      /\ pc[1] = 2 * NThreads + 1 => Op(1).op = "print" /\ Op(1).a = "final"
                      /\ pc[1] # 2 * NThreads + 1 => Op(1).op # "print" /\ pc'[1] \in {pc[1], pc[1] + 1}
                      /\ pc[1] = 2 * NThreads + 2 => pc'[1] = pc[1]
  <1> DEFINE n == 2 * NThreads
  <1>1. /\ NThreads \in Nat \ {0} /\ n \in Nat
        /\ 1 \in Threads /\ Code(prog, 1) = Join1Main /\ pc \in [Threads -> Int]
        /\ Started /\ Joined
    <2>1. NThreads \in Nat \ {0} /\ n \in Nat /\ 1 \in Threads
      BY BoundsAssumption, Threads123
    <2>2. Code(prog, 1) = Join1Main
      BY DEF Code
    <2>3. pc \in [Threads -> Int] /\ Started /\ Joined
      BY DEF Places, Family
    <2>4. QED
      BY <2>1, <2>2, <2>3
  <1>2. Op(1) = Join1Main[pc[1]]
    BY <1>1 DEF Op
  <1>3. /\ \A i \in 1..NThreads : /\ Join1Main[i].op = "create"
                                  /\ Join1Main[NThreads + i].op = "join"
                                  /\ Join1Main[NThreads + i].a = i + 1
        /\ Join1Main[n + 1].op = "print" /\ Join1Main[n + 1].a = "final"
        /\ Join1Main[n + 2].op = "exit" /\ Len(Join1Main) = n + 2
    <2>1. \A i \in 1..NThreads : /\ Join1Main[i].op = "create"
                                  /\ Join1Main[NThreads + i].op = "join"
                                  /\ Join1Main[NThreads + i].a = i + 1
      <3>1. \A i \in 1..NThreads : Join1Main[i] = create(i + 1) /\ Join1Main[NThreads + i] = join(i + 1)
        BY Join1MainCode
      <3>2. \A u : create(u).op = "create" /\ join(u).op = "join" /\ join(u).a = u
        BY Calls
      <3>3. QED
        BY <3>1, <3>2
    <2>2. Join1Main[n + 1] = print("final") /\ Join1Main[n + 2] = exit /\ Len(Join1Main) = n + 2
      BY Join1MainCode
    <2>3. QED
      BY <2>1, <2>2, Calls
  <1>4. ASSUME pc[1] > n, NEW t \in 2 .. 1 + NThreads PROVE pc[t] = Gone
    <2>1. t - 1 \in 1..NThreads /\ (t - 1) + 1 = t
      BY <1>1
    <2>2. Join1Main[NThreads + (t - 1)].op = "join" /\ Join1Main[NThreads + (t - 1)].a = t
      BY <2>1, <1>3
    <2>3. NThreads + (t - 1) \in 1 .. n + 2 /\ pc[1] > NThreads + (t - 1)
      BY <2>1, <1>1, <1>4
    <2>4. \A i \in 1 .. n + 2 : Join1Main[i].op = "join" /\ pc[1] > i => pc[Join1Main[i].a] = Gone
      BY <1>1, <1>3 DEF Joined
    <2>5. QED
      BY <2>2, <2>3, <2>4
  <1> HIDE DEF n
  <1>5. ASSUME Act(1)
        PROVE  /\ pc[1] \in 1 .. n + 2
               /\ pc[1] = n + 1 => Op(1).op = "print" /\ Op(1).a = "final"
               /\ pc[1] # n + 1 => Op(1).op # "print" /\ pc'[1] \in {pc[1], pc[1] + 1}
               /\ pc[1] = n + 2 => pc'[1] = pc[1]
    <2>1. pc[1] \in 1 .. n + 2
      BY <1>1, <1>3, <1>5, Located
    <2>2. \A i \in 1 .. n + 2 : \/ i \in 1..NThreads
                                \/ \E k \in 1..NThreads : i = NThreads + k
                                \/ i = n + 1
                                \/ i = n + 2
      <3>1. ASSUME NEW i \in 1..n, i > NThreads
            PROVE  i - NThreads \in 1..NThreads /\ i = NThreads + (i - NThreads)
        BY <3>1, <1>1 DEF n
      <3>2. \A i \in 1 .. n + 2 : i \in 1..NThreads \/ (i \in 1..n /\ i > NThreads) \/ i = n + 1 \/ i = n + 2
        BY <1>1
      <3>3. QED
        BY <3>1, <3>2
    <2>3. /\ pc[1] = n + 1 => Op(1).op = "print" /\ Op(1).a = "final"
          /\ pc[1] # n + 1 => Op(1).op # "print"
          /\ pc[1] = n + 2 => Op(1).op = "exit"
          /\ Op(1).op # "end"
      <3>1. \/ pc[1] \in 1..NThreads
            \/ \E k \in 1..NThreads : pc[1] = NThreads + k
            \/ pc[1] = n + 1
            \/ pc[1] = n + 2
        BY <2>1, <2>2
      <3>2. n + 2 # n + 1
        BY <1>1
      <3>3. CASE pc[1] \in 1..NThreads
        <4>1. pc[1] # n + 1 /\ pc[1] # n + 2
          BY <3>3, <1>1 DEF n
        <4>2. QED
          BY <4>1, <3>3, <1>2, <1>3
      <3>4. CASE \E k \in 1..NThreads : pc[1] = NThreads + k
        <4>1. pc[1] # n + 1 /\ pc[1] # n + 2
          BY <3>4, <1>1 DEF n
        <4>2. QED
          BY <4>1, <3>4, <1>2, <1>3
      <3>5. CASE pc[1] = n + 1
        BY <3>2, <3>5, <1>2, <1>3
      <3>6. CASE pc[1] = n + 2
        BY <3>2, <3>6, <1>2, <1>3
      <3>7. QED
        BY <3>1, <3>3, <3>4, <3>5, <3>6
    <2>4. \/ Op(1).op # "exit" /\ pc' = [pc EXCEPT ![1] = pc[1] + 1, ![pc[1] + 1] = 1]
          \/ Op(1).op # "exit" /\ pc' = [pc EXCEPT ![1] = pc[1] + 1]
          \/ pc' = pc
      BY <2>3, <1>1, <1>5, MainMoves
    <2>5. pc'[1] \in {pc[1], pc[1] + 1} /\ (Op(1).op = "exit" => pc'[1] = pc[1])
      BY <2>1, <2>4, <1>1
    <2>6. QED
      BY <2>1, <2>3, <2>5
  <1>6. QED
    BY <1>4, <1>5 DEF n

LEMMA Join1Next == Places /\ Family /\ Excl /\ Join1Inv /\ [Next]_vars => Join1Inv'
  <1> SUFFICES ASSUME Places, Family, Excl, Join1Inv, [Next]_vars, prog' = "join1"
               PROVE  Join1Inv'
    BY DEF Join1Inv
  <1> DEFINE last == 2 * NThreads + 2
  <1>1. /\ prog' = prog /\ prog = "join1" /\ 1 \in Threads /\ NThreads \in Nat \ {0}
        /\ pc \in [Threads -> Int] /\ 2 .. 1 + NThreads \subseteq Threads \ {1}
        /\ last \in Nat /\ last - 1 = 2 * NThreads + 1
    BY SameProgram, Threads123, Bounds DEF Places
  <1>2. /\ pc[1] \in 1..last
        /\ shared = Cardinality(Ahead(4))
        /\ \A t \in Threads \ {1} : pc[t] = 4 => reg[t] = shared
        /\ pc[1] # last => /\ Len(out) = Cardinality(Ahead(1))
                           /\ \A i \in DOMAIN out : out[i].what = "number"
        /\ pc[1] = last => /\ Len(out) = NThreads + 1
                           /\ \A i \in DOMAIN out : out[i].what = "number" <=> i # NThreads + 1
    BY <1>1 DEF Join1Inv
  <1>3. ASSUME pc'[1] \in 1..last, shared' = Cardinality(Ahead(4)'),
               \A t \in Threads \ {1} : pc'[t] = 4 => reg'[t] = shared',
               pc'[1] # last => /\ Len(out') = Cardinality(Ahead(1)')
                                /\ \A i \in DOMAIN out' : out'[i].what = "number",
               pc'[1] = last => /\ Len(out') = NThreads + 1
                                /\ \A i \in DOMAIN out' : out'[i].what = "number" <=> i # NThreads + 1
        PROVE  Join1Inv'
    BY <1>3 DEF Join1Inv
  <1> HIDE DEF last
  <1>4. CASE UNCHANGED vars
    <2>1. UNCHANGED <<pc, shared, reg, out>>
      BY <1>4 DEF vars
    <2>2. Ahead(1)' = Ahead(1) /\ Ahead(4)' = Ahead(4)
      BY <2>1 DEF Ahead, Past
    <2>3. QED
      BY <2>1, <2>2, <1>2, <1>3
  <1>5. ASSUME Act(1) PROVE Join1Inv'
    <2>1. /\ Ahead(1)' = Ahead(1) /\ Ahead(4)' = Ahead(4)
          /\ \A u \in Threads \ {1} : pc'[u] = pc[u] \/ (pc[u] = 0 /\ pc'[u] = 1)
      BY <1>1, <1>5, MainLeavesAhead, MainStarts
    <2>2. shared' = shared /\ reg' = reg
      BY <1>1, <1>5, MainStarts DEF Silent, Says
    <2>3. \A t \in Threads \ {1} : pc'[t] = 4 => reg'[t] = shared'
      BY <2>1, <2>2, <1>2
    <2>4. CASE pc[1] # last - 1
      <3>1. /\ Op(1).op # "print" /\ pc'[1] \in {pc[1], pc[1] + 1}
            /\ pc[1] = last => pc'[1] = last
        BY <2>4, <1>1, <1>5, Join1MainAt DEF last
      <3>2. out' = out
        BY <3>1, <1>1, <1>5, MainStarts DEF Silent
      <3>3. pc'[1] \in 1..last /\ (pc'[1] = last <=> pc[1] = last)
        BY <3>1, <2>4, <1>1, <1>2
      <3>4. QED
        BY <3>2, <3>3, <2>1, <2>2, <2>3, <1>2, <1>3
    <2>5. CASE pc[1] = last - 1
      <3>1. pc[1] = 2 * NThreads + 1
        BY <2>5, <1>1
      <3>2. Op(1).op = "print" /\ Op(1).a = "final"
        BY <3>1, <1>1, <1>5, Join1MainAt
      <3>3. Says(1, "final") /\ pc'[1] = pc[1] + 1
        BY <3>2, <1>1, <1>5, MainStarts
      <3>4. /\ Len(out) \in Nat /\ DOMAIN out = 1..Len(out)
            /\ Len(out') = Len(out) + 1 /\ DOMAIN out' = 1 .. Len(out) + 1
            /\ \A i \in 1..Len(out) : out'[i] = out[i]
            /\ out'[Len(out) + 1].what = "final"
        BY <3>3, OneLine
      <3>5. \A t \in 2 .. 1 + NThreads : pc[t] = Gone
        <4>1. pc[1] > 2 * NThreads
          BY <3>1, <1>1
        <4>2. QED
          BY <4>1, <1>1, Join1MainAt
      <3>6. pc'[1] = last /\ pc[1] # last /\ last \in 1..last
        BY <3>3, <2>5, <1>1, <1>2
      <3>7. Len(out) = NThreads /\ \A i \in DOMAIN out : out[i].what = "number"
        BY <3>5, <3>6, <1>2, AheadFinite
      <3>8. \A i \in DOMAIN out' : out'[i].what = "number" <=> i # NThreads + 1
        <4>1. \A i \in 1 .. NThreads + 1 : (i \in 1..NThreads /\ i # NThreads + 1) \/ i = NThreads + 1
          BY <1>1
        <4>2. QED
          BY <4>1, <3>4, <3>7
      <3>9. QED
        BY <3>4, <3>6, <3>7, <3>8, <2>1, <2>2, <2>3, <1>2, <1>3
    <2>6. QED
      BY <2>4, <2>5
  <1>6. ASSUME NEW t \in Threads, t # 1, Act(t) PROVE Join1Inv'
    <2>1. t \in 2 .. 1 + NThreads /\ pc[t] > 0
      <3>1. t \in Team(prog) /\ pc[t] > 0
        BY <1>1, <1>6, WorkerMoves, Kinds
      <3>2. t \in 1 .. 1 + NThreads
        BY <3>1, <1>1, TeamOf
      <3>3. QED
        BY <3>1, <3>2, <1>1, <1>6
    <2>2. \A u \in Threads \ {t} : pc'[u] = pc[u]
      BY <1>1, <1>6, WorkerMoves
    <2>3. \A n \in {1, 4}, u \in 2 .. 1 + NThreads : u # t => Past(u, n)' = Past(u, n)
      BY <2>2, <1>1 DEF Past
    <2>4. pc'[1] = pc[1] /\ pc[1] \in 1..last /\ pc[1] # last
      <3>1. ~(pc[1] > 2 * NThreads)
        BY <2>1, <1>1, Join1MainAt DEF Gone
      <3>2. QED
        BY <3>1, <2>2, <1>1, <1>2, <1>6 DEF last
    <2>5. Len(out) = Cardinality(Ahead(1)) /\ \A i \in DOMAIN out : out[i].what = "number"
      BY <2>4, <1>2
    <2>6. ASSUME shared' = Cardinality(Ahead(4)'), Len(out') = Cardinality(Ahead(1)'),
                 \A i \in DOMAIN out' : out'[i].what = "number",
                 \A u \in Threads \ {1} : pc'[u] = 4 => reg'[u] = shared'
          PROVE  Join1Inv'
      BY <2>4, <2>6, <1>3
    <2>7. \A n \in {1, 4} :
            /\ Past(t, n)' = Past(t, n) => Ahead(n)' = Ahead(n)
            /\ Past(t, n) = 0 /\ Past(t, n)' = 1 => Cardinality(Ahead(n)') = Cardinality(Ahead(n)) + 1
      BY <2>1, <2>3, AheadGrows
    <2>8. CASE pc[t] = 1 /\ pc'[t] = 2 /\ Says(t, "number")
      <3>1. /\ Len(out) \in Nat /\ DOMAIN out = 1..Len(out)
            /\ Len(out') = Len(out) + 1 /\ DOMAIN out' = 1 .. Len(out) + 1
            /\ \A i \in 1..Len(out) : out'[i] = out[i]
            /\ out'[Len(out) + 1].what = "number"
        BY <2>8, OneLine
      <3>2. UNCHANGED <<shared, reg>>
        BY <2>8 DEF Says
      <3>3. Past(t, 1) = 0 /\ Past(t, 1)' = 1 /\ Past(t, 4)' = Past(t, 4)
        BY <2>8 DEF Past, Gone
      <3>4. \A i \in DOMAIN out' : out'[i].what = "number"
        <4>1. \A i \in 1 .. Len(out) + 1 : i \in 1..Len(out) \/ i = Len(out) + 1
          BY <3>1
        <4>2. QED
          BY <4>1, <3>1, <2>5
      <3>5. \A u \in Threads \ {1} : pc'[u] = 4 => reg'[u] = shared'
        BY <3>2, <2>2, <2>8, <1>2
      <3>6. Len(out') = Cardinality(Ahead(1)') /\ shared' = Cardinality(Ahead(4)')
        BY <3>1, <3>2, <3>3, <2>5, <2>7, <1>2
      <3>7. QED
        BY <3>4, <3>5, <3>6, <2>6
    <2>9. CASE \/ pc[t] = 2 /\ pc'[t] = 3 /\ Locks
               \/ pc[t] = 5 /\ pc'[t] = 6 /\ Unlocks
               \/ pc[t] = 6 /\ pc'[t] = Gone /\ Silent
      <3>1. UNCHANGED <<shared, reg, out>>
        BY <2>9 DEF Locks, Unlocks, Silent
      <3>2. Past(t, 1)' = Past(t, 1) /\ Past(t, 4)' = Past(t, 4) /\ pc'[t] # 4
        BY <2>9 DEF Past, Gone
      <3>3. \A u \in Threads \ {1} : pc'[u] = 4 => reg'[u] = shared'
        BY <3>1, <3>2, <2>2, <1>2
      <3>4. QED
        BY <3>1, <3>2, <3>3, <2>5, <2>6, <2>7, <1>2
    <2>10. CASE pc[t] = 3 /\ pc'[t] = 4 /\ Loads(t)
      <3>1. UNCHANGED <<shared, out>> /\ reg' = [reg EXCEPT ![t] = shared]
        BY <2>10 DEF Loads
      <3>2. Past(t, 1)' = Past(t, 1) /\ Past(t, 4)' = Past(t, 4)
        BY <2>10 DEF Past, Gone
      <3>3. reg'[t] = shared /\ \A u \in Threads \ {t} : reg'[u] = reg[u]
        BY <3>1, <1>6 DEF Places
      <3>4. \A u \in Threads \ {1} : pc'[u] = 4 => reg'[u] = shared'
        BY <3>1, <3>3, <2>2, <1>2
      <3>5. QED
        BY <3>1, <3>2, <3>4, <2>5, <2>6, <2>7, <1>2
    <2>11. CASE pc[t] = 4 /\ pc'[t] = 5 /\ Stores(t)
      <3>1. UNCHANGED <<reg, out>> /\ shared' = shared + 1
        BY <2>11, <1>2, <1>6 DEF Stores
      <3>2. Past(t, 1)' = Past(t, 1) /\ Past(t, 4) = 0 /\ Past(t, 4)' = 1
        BY <2>11 DEF Past, Gone
      <3>3. \A u \in Threads \ {1} : pc'[u] # 4
        <4>1. Inside(t) /\ \A u \in Threads \ {1} : pc[u] = 4 => Inside(u)
          BY <2>11, <1>1 DEF Inside
        <4>2. \A u \in Threads \ {1} : pc[u] = 4 => u = t
          BY <4>1, <1>6 DEF Excl
        <4>3. QED
          BY <4>2, <2>2, <2>11
      <3>4. QED
        BY <3>1, <3>2, <3>3, <2>5, <2>6, <2>7, <1>2
    <2>12. QED
      BY <2>8, <2>9, <2>10, <2>11, <1>1, <1>6, Join1Worker
  <1>7. QED
    BY <1>4, <1>5, <1>6, Cases

-----------------------------------------------------------------------------
(* sem_ex1.cpp                                                             *)

Quiet == UNCHANGED <<sem, removed, undo, out>>
Speaks(t, c) == Says(t, c) /\ UNCHANGED <<sem, removed, undo>>
Takes(t) ==
    /\ sem[0] > 0 /\ sem' = [sem EXCEPT ![0] = sem[0] - 1]
    /\ undo' = [undo EXCEPT ![t] = undo[t] + 1]
    /\ UNCHANGED <<removed, out>>
Gives(t) ==
    /\ sem' = [sem EXCEPT ![0] = sem[0] + 1]
    /\ undo' = [undo EXCEPT ![t] = undo[t] - 1]
    /\ UNCHANGED <<removed, out>>
Leaves(t) ==
    /\ sem' = sem \/ sem' = [sem EXCEPT ![0] = sem[0] + undo[t]]
    /\ undo' = [undo EXCEPT ![t] = 0]
    /\ UNCHANGED <<removed, out>>

LEMMA KinEffects ==
  ASSUME Places, NEW t \in Threads, Act(t)
  PROVE  /\ \A c : Op(t) = print(c) => GoTo(t, pc[t] + 1) /\ Speaks(t, c)
         /\ Op(t).op = "end" => GoTo(t, Gone) /\ Leaves(t)
         /\ Op(t).op = "assert" => (GoTo(t, pc[t] + 1) \/ GoTo(t, Len(Code(prog, t)))) /\ Quiet
         /\ Op(t).op = "acquire" => \/ removed /\ GoTo(t, Op(t).b) /\ Quiet
                                    \/ GoTo(t, pc[t] + 1) /\ Takes(t)
         /\ Op(t).op = "release" => GoTo(t, pc[t] + 1) /\ ((removed /\ Quiet) \/ (~removed /\ Gives(t)))
         /\ Op(t).op = "fork" => /\ Quiet
                                 /\ \/ pc' = [pc EXCEPT ![t] = pc[t] + 1, ![Op(t).a] = 1]
                                    \/ GoTo(t, Op(t).b)
         /\ Op(t).op = "remove" => GoTo(t, pc[t] + 1) /\ removed' /\ UNCHANGED <<sem, undo, out>>
         /\ prog # "mutex1" /\ Op(t).op = "join" => pc[Op(t).a] <= 0 /\ GoTo(t, pc[t] + 1) /\ Quiet
  <1>1. ASSUME NEW c, Op(t) = print(c) PROVE GoTo(t, pc[t] + 1) /\ Speaks(t, c)
    <2>1. PutOut(t) /\ Op(t).a = c
      BY <1>1, Calls, Kinds
    <2>2. QED
      BY <2>1 DEF PutOut, Goes, Speaks, Says, kernel
  <1>2. ASSUME Op(t).op = "end" PROVE GoTo(t, Gone) /\ Leaves(t)
    BY <1>2, Kinds DEF End, Undo, Leaves
  <1>3. ASSUME Op(t).op = "assert"
        PROVE  (GoTo(t, pc[t] + 1) \/ GoTo(t, Len(Code(prog, t)))) /\ Quiet
    <2>1. AssertOne(t)
      BY <1>3, Kinds
    <2>2. QED
      BY <2>1, <1>3, Others DEF AssertOne, Quiet
  <1>4. ASSUME Op(t).op = "acquire"
        PROVE  (removed /\ GoTo(t, Op(t).b) /\ Quiet) \/ (GoTo(t, pc[t] + 1) /\ Takes(t))
    BY <1>4, Kinds DEF Acquire, Goes, Quiet, Takes
  <1>5. ASSUME Op(t).op = "release"
        PROVE  GoTo(t, pc[t] + 1) /\ ((removed /\ Quiet) \/ (~removed /\ Gives(t)))
    BY <1>5, Kinds DEF Release, Goes, Quiet, Gives
  <1>6. ASSUME Op(t).op = "fork"
        PROVE  Quiet /\ (pc' = [pc EXCEPT ![t] = pc[t] + 1, ![Op(t).a] = 1] \/ GoTo(t, Op(t).b))
    <2>1. Quiet
      BY <1>6, Others DEF Quiet
    <2>2. Fork(t) \/ ForkFails(t)
      BY <1>6, Kinds
    <2>3. QED
      BY <2>1, <2>2 DEF Fork, ForkFails
  <1>7. ASSUME Op(t).op = "remove" PROVE GoTo(t, pc[t] + 1) /\ removed' /\ UNCHANGED <<sem, undo, out>>
    BY <1>7, Kinds DEF Remove, Goes
  <1>8. ASSUME prog # "mutex1", Op(t).op = "join" PROVE pc[Op(t).a] <= 0 /\ GoTo(t, pc[t] + 1) /\ Quiet
    <2>1. Join(t) /\ Op(t).op # "create"
      BY <1>8, Kinds
    <2>2. pc[Op(t).a] = Gone /\ GoTo(t, pc[t] + 1)
      BY <2>1 DEF Join, Goes
    <2>3. Quiet
      BY <1>8, <2>1, Others DEF Quiet
    <2>4. QED
      BY <2>2, <2>3 DEF Gone
  <1>9. QED
    BY <1>1, <1>2, <1>3, <1>4, <1>5, <1>6, <1>7, <1>8

\* All of the family but these stay where they are.
Stay(S) == \A u \in (1..4) \ S : pc'[u] = pc[u]

LEMMA KinGoTo ==
  ASSUME Places, NEW t \in 1..4
  PROVE  /\ \A n : GoTo(t, n) => pc'[t] = n /\ Stay({t})
         /\ \A n, u \in 1..4 : u # t /\ pc' = [pc EXCEPT ![t] = n, ![u] = 1] =>
               pc'[t] = n /\ pc'[u] = 1 /\ Stay({t, u})
  <1>1. 1..4 \subseteq Threads /\ pc \in [Threads -> Int]
    BY Threads123 DEF Places
  <1>2. QED
    BY <1>1 DEF GoTo, Stay

ParentMoves ==
    \/ pc[1] = 1 /\ pc'[1] = 2 /\ pc'[2] = 1 /\ Stay({1, 2}) /\ Quiet
    \/ pc[1] = 2 /\ pc'[1] = 3 /\ pc'[3] = 1 /\ Stay({1, 3}) /\ Quiet
    \/ pc[1] \in {1, 2} /\ pc'[1] = 6 /\ Stay({1}) /\ Quiet
    \/ pc[1] = 3 /\ pc[3] <= 0 /\ pc'[1] = 4 /\ Stay({1}) /\ Quiet
    \/ pc[1] = 4 /\ pc'[1] = 5 /\ Stay({1}) /\ Speaks(1, "parent")
    \/ pc[1] = 5 /\ pc'[1] = 6 /\ Stay({1}) /\ removed' /\ UNCHANGED <<sem, undo, out>>
    \/ pc[1] = 6 /\ pc'[1] = Gone /\ Stay({1}) /\ Leaves(1)

Child1Moves ==
    \/ pc[2] = 1 /\ pc'[2] \in {2, 7} /\ Stay({2}) /\ Quiet
    \/ pc[2] = 2 /\ pc'[2] = 7 /\ Stay({2}) /\ Quiet
    \/ pc[2] = 2 /\ pc'[2] = 3 /\ Stay({2}) /\ Takes(2)
    \/ pc[2] = 3 /\ pc'[2] = 4 /\ pc'[4] = 1 /\ Stay({2, 4}) /\ Quiet
    \/ pc[2] = 3 /\ pc'[2] = 6 /\ Stay({2}) /\ Quiet
    \/ pc[2] = 4 /\ pc[4] <= 0 /\ pc'[2] = 5 /\ Stay({2}) /\ Quiet
    \/ pc[2] = 5 /\ pc'[2] = 6 /\ Stay({2}) /\ Speaks(2, "child1")
    \/ pc[2] = 6 /\ pc'[2] = 7 /\ Stay({2}) /\ ((removed /\ Quiet) \/ (~removed /\ Gives(2)))
    \/ pc[2] = 7 /\ pc'[2] = Gone /\ Stay({2}) /\ Leaves(2)

Child2Moves ==
    \/ pc[3] = 1 /\ pc'[3] = 2 /\ Stay({3}) /\ ((removed /\ Quiet) \/ Takes(3))
    \/ pc[3] = 2 /\ pc'[3] = 3 /\ Stay({3}) /\ Speaks(3, "child2")
    \/ pc[3] = 3 /\ pc'[3] = Gone /\ Stay({3}) /\ Leaves(3)

GrandchildMoves ==
    \/ pc[4] = 1 /\ pc'[4] = 2 /\ Stay({4}) /\ Speaks(4, "grandchild")
    \/ pc[4] = 2 /\ pc'[4] = Gone /\ Stay({4}) /\ Leaves(4)

LEMMA KinMoves ==
  ASSUME prog = "sem_ex1", Places, NEW t \in Threads, Act(t)
  PROVE  \/ t = 1 /\ ParentMoves
         \/ t = 2 /\ Child1Moves
         \/ t = 3 /\ Child2Moves
         \/ t = 4 /\ GrandchildMoves
  <1>1. /\ t \in 1..4 /\ Op(t) = Code(prog, t)[pc[t]] /\ pc[t] \in 1..Len(Code(prog, t))
    BY Located, TeamOf
  <1>2. CASE t = 1
    <2> DEFINE s == FamilyMain
    <2>1. Code(prog, t) = s
      BY <1>2 DEF Code
    <2>2. /\ Len(s) = 6
          /\ s[1] = fork(2, 6) /\ s[2] = fork(3, 6) /\ s[3] = join(3) /\ s[4] = print("parent")
          /\ s[5] = remove /\ s[6] = end
      BY DEF FamilyMain
    <2> HIDE DEF s
    <2>3. /\ s[1].op = "fork" /\ s[1].a = 2 /\ s[1].b = 6 /\ s[2].op = "fork" /\ s[2].a = 3 /\ s[2].b = 6
          /\ s[3].op = "join" /\ s[3].a = 3 /\ s[5].op = "remove" /\ s[6].op = "end"
      BY <2>2, Calls
    <2>4. Op(1) = s[pc[1]] /\ pc[1] \in {1, 2, 3, 4, 5, 6}
      BY <1>1, <1>2, <2>1, <2>2
    <2>5. CASE pc[1] \in {1, 2}
      <3>1. Op(1).op = "fork" /\ Op(1).a = pc[1] + 1 /\ Op(1).b = 6
        BY <2>3, <2>4, <2>5
      <3>2. Quiet /\ (pc' = [pc EXCEPT ![1] = pc[1] + 1, ![pc[1] + 1] = 1] \/ GoTo(1, 6))
        BY <1>2, <3>1, KinEffects
      <3>3. pc[1] + 1 \in 1..4 /\ pc[1] + 1 # 1
        BY <2>5
      <3>4. \/ Stay({1, pc[1] + 1}) /\ pc'[1] = pc[1] + 1 /\ pc'[pc[1] + 1] = 1
            \/ Stay({1}) /\ pc'[1] = 6
        BY <3>2, <3>3, KinGoTo
      <3>5. ParentMoves
        BY <3>2, <3>4, <2>5 DEF ParentMoves
      <3>6. QED
        BY <3>5, <1>2
    <2>6. CASE pc[1] \in {3, 4, 5, 6}
      <3>1. \/ pc[1] = 3 /\ pc[3] <= 0 /\ GoTo(1, 4) /\ Quiet
            \/ pc[1] = 4 /\ GoTo(1, 5) /\ Speaks(1, "parent")
            \/ pc[1] = 5 /\ GoTo(1, 6) /\ removed' /\ UNCHANGED <<sem, undo, out>>
            \/ pc[1] = 6 /\ GoTo(1, Gone) /\ Leaves(1)
        BY <1>2, <2>2, <2>3, <2>4, <2>6, KinEffects
      <3>2. \A n : GoTo(1, n) => pc'[1] = n /\ Stay({1})
        BY KinGoTo
      <3>3. ParentMoves
        BY <3>1, <3>2 DEF ParentMoves
      <3>4. QED
        BY <3>3, <1>2
    <2>7. QED
      BY <2>4, <2>5, <2>6
  <1>3. CASE t = 2
    <2> DEFINE s == child1
    <2>1. Code(prog, t) = s
      BY <1>3 DEF Code
    <2>2. /\ Len(s) = 7
          /\ s[1] = assertOne /\ s[2] = acquire(7) /\ s[3] = fork(4, 6) /\ s[4] = join(4)
          /\ s[5] = print("child1") /\ s[6] = release /\ s[7] = end
      BY DEF child1
    <2> HIDE DEF s
    <2>3. /\ s[1].op = "assert" /\ s[2].op = "acquire" /\ s[2].b = 7
          /\ s[3].op = "fork" /\ s[3].a = 4 /\ s[3].b = 6 /\ s[4].op = "join" /\ s[4].a = 4
          /\ s[6].op = "release" /\ s[7].op = "end"
      BY <2>2, Calls
    <2>4. Op(2) = s[pc[2]] /\ pc[2] \in {1, 2, 3, 4, 5, 6, 7} /\ Len(Code(prog, 2)) = 7
      BY <1>1, <1>3, <2>1, <2>2
    <2>5. CASE pc[2] = 3
      <3>1. Op(2).op = "fork" /\ Op(2).a = 4 /\ Op(2).b = 6
        BY <2>3, <2>4, <2>5
      <3>2. Quiet /\ (pc' = [pc EXCEPT ![2] = 4, ![4] = 1] \/ GoTo(2, 6))
        BY <1>3, <2>5, <3>1, KinEffects
      <3>3. \/ Stay({2, 4}) /\ pc'[2] = 4 /\ pc'[4] = 1
            \/ Stay({2}) /\ pc'[2] = 6
        BY <3>2, KinGoTo
      <3>4. Child1Moves
        BY <3>2, <3>3, <2>5 DEF Child1Moves
      <3>5. QED
        BY <3>4, <1>3
    <2>6. CASE pc[2] # 3
      <3>1. \/ pc[2] = 1 /\ (GoTo(2, 2) \/ GoTo(2, 7)) /\ Quiet
            \/ pc[2] = 2 /\ GoTo(2, 7) /\ Quiet
            \/ pc[2] = 2 /\ GoTo(2, 3) /\ Takes(2)
            \/ pc[2] = 4 /\ pc[4] <= 0 /\ GoTo(2, 5) /\ Quiet
            \/ pc[2] = 5 /\ GoTo(2, 6) /\ Speaks(2, "child1")
            \/ pc[2] = 6 /\ GoTo(2, 7) /\ ((removed /\ Quiet) \/ (~removed /\ Gives(2)))
            \/ pc[2] = 7 /\ GoTo(2, Gone) /\ Leaves(2)
        <4>1. CASE pc[2] = 1
          <5>1. Op(t).op = "assert"
            BY <1>3, <2>3, <2>4, <4>1
          <5>2. (GoTo(t, pc[t] + 1) \/ GoTo(t, Len(Code(prog, t)))) /\ Quiet
            BY <5>1, KinEffects
          <5>3. Len(Code(prog, t)) = 7
            BY <1>3, <2>4
          <5>4. pc[t] + 1 = 2
            BY <1>3, <4>1
          <5>5. (GoTo(t, 2) \/ GoTo(t, 7)) /\ Quiet
            BY <5>2, <5>3, <5>4
          <5>6. QED
            BY <5>5, <1>3, <4>1
        <4>5. CASE pc[2] = 2
          BY <1>3, <2>3, <2>4, <4>5, KinEffects
        <4>2. CASE pc[2] \in {4, 5}
          BY <1>3, <2>2, <2>3, <2>4, <4>2, KinEffects
        <4>3. CASE pc[2] \in {6, 7}
          BY <1>3, <2>2, <2>3, <2>4, <4>3, KinEffects
        <4>4. QED
          BY <2>4, <2>6, <4>1, <4>5, <4>2, <4>3
      <3>2. \A n : GoTo(2, n) => pc'[2] = n /\ Stay({2})
        BY KinGoTo
      <3>3. Child1Moves
        BY <3>1, <3>2 DEF Child1Moves
      <3>4. QED
        BY <3>3, <1>3
    <2>7. QED
      BY <2>5, <2>6
  <1>4. CASE t = 3
    <2> DEFINE s == Child2
    <2>1. Code(prog, t) = s
      BY <1>4 DEF Code
    <2>2. Len(s) = 3 /\ s[1] = acquire(2) /\ s[2] = print("child2") /\ s[3] = end
      BY DEF Child2
    <2> HIDE DEF s
    <2>3. s[1].op = "acquire" /\ s[1].b = 2 /\ s[3].op = "end"
      BY <2>2, Calls
    <2>4. Op(3) = s[pc[3]] /\ pc[3] \in {1, 2, 3}
      BY <1>1, <1>4, <2>1, <2>2
    <2>5. \/ pc[3] = 1 /\ GoTo(3, 2) /\ ((removed /\ Quiet) \/ Takes(3))
          \/ pc[3] = 2 /\ GoTo(3, 3) /\ Speaks(3, "child2")
          \/ pc[3] = 3 /\ GoTo(3, Gone) /\ Leaves(3)
      BY <1>4, <2>2, <2>3, <2>4, KinEffects
    <2>6. \A n : GoTo(3, n) => pc'[3] = n /\ Stay({3})
      BY KinGoTo
    <2>7. Child2Moves
      BY <2>5, <2>6 DEF Child2Moves
    <2>8. QED
      BY <2>7, <1>4
  <1>5. CASE t = 4
    <2> DEFINE s == Grandchild
    <2>1. Code(prog, t) = s
      BY <1>5 DEF Code
    <2>2. Len(s) = 2 /\ s[1] = print("grandchild") /\ s[2] = end
      BY DEF Grandchild
    <2> HIDE DEF s
    <2>3. s[2].op = "end"
      BY <2>2, Calls
    <2>4. Op(4) = s[pc[4]] /\ pc[4] \in {1, 2}
      BY <1>1, <1>5, <2>1, <2>2
    <2>5. \/ pc[4] = 1 /\ GoTo(4, 2) /\ Speaks(4, "grandchild")
          \/ pc[4] = 2 /\ GoTo(4, Gone) /\ Leaves(4)
      BY <1>5, <2>2, <2>3, <2>4, KinEffects
    <2>6. \A n : GoTo(4, n) => pc'[4] = n /\ Stay({4})
      BY KinGoTo
    <2>7. GrandchildMoves
      BY <2>5, <2>6 DEF GrandchildMoves
    <2>8. QED
      BY <2>7, <1>5
  <1>6. QED
    BY <1>1, <1>2, <1>3, <1>4, <1>5

\* Who has been started and who has ended, as the family's calls order it.
KinPlaces ==
    /\ pc[1] \in {1, 2, 3, 4, 5, 6, Gone} /\ pc[2] \in {0, 1, 2, 3, 4, 5, 6, 7, Gone}
    /\ pc[3] \in {0, 1, 2, 3, Gone} /\ pc[4] \in {0, 1, 2, Gone}
    /\ pc[1] = 1 => pc[2] = 0
    /\ pc[1] \in {1, 2} => pc[3] = 0
    /\ pc[1] = 3 => pc[3] # 0
    /\ pc[1] \in {4, 5} => pc[3] = Gone
    /\ pc[2] \in {0, 1, 2, 3} => pc[4] = 0
    /\ pc[4] > 0 => pc[2] = 4
    /\ removed => pc[1] \in {6, Gone} /\ pc[3] = Gone

\* The semaphore is one process's at most, and who passed its acquire has it.
KinSem ==
    /\ sem[0] \in {0, 1} /\ undo[2] \in {0, 1} /\ undo[3] \in {0, 1}
    /\ sem[0] + undo[2] + undo[3] <= 1
    /\ \A s \in Sems : s # 0 => sem[s] = 0
    /\ \A t \in Threads : t \notin {2, 3} => undo[t] = 0
    /\ pc[2] \in {3, 4, 5, 6} => removed \/ undo[2] = 1
    /\ pc[3] = 2 => undo[3] = 1

\* Behind the grandchild's line at most the parent's comes before child1's.
KinLines ==
    /\ Printed("parent") => pc[1] \in {5, 6, Gone} /\ pc[3] = Gone
    /\ Printed("child1") => pc[2] \in {6, 7, Gone}
    /\ Printed("grandchild") => pc[4] \in {2, Gone}
    /\ pc[2] \in {4, 5} => \A i \in DOMAIN out : out[i].what = "grandchild" =>
          Len(out) = i \/ (Len(out) = i + 1 /\ out[i + 1].what = "parent")
    /\ SectionsApart

KinInv == prog = "sem_ex1" => KinPlaces /\ KinSem /\ KinLines

KinMove(t) ==
    \/ t = 1 /\ ParentMoves
    \/ t = 2 /\ Child1Moves
    \/ t = 3 /\ Child2Moves
    \/ t = 4 /\ GrandchildMoves

LEMMA StayMeans ==
  /\ Stay({1}) => pc'[2] = pc[2] /\ pc'[3] = pc[3] /\ pc'[4] = pc[4]
  /\ Stay({2}) => pc'[1] = pc[1] /\ pc'[3] = pc[3] /\ pc'[4] = pc[4]
  /\ Stay({3}) => pc'[1] = pc[1] /\ pc'[2] = pc[2] /\ pc'[4] = pc[4]
  /\ Stay({4}) => pc'[1] = pc[1] /\ pc'[2] = pc[2] /\ pc'[3] = pc[3]
  /\ Stay({1, 2}) => pc'[3] = pc[3] /\ pc'[4] = pc[4]
  /\ Stay({1, 3}) => pc'[2] = pc[2] /\ pc'[4] = pc[4]
  /\ Stay({2, 4}) => pc'[1] = pc[1] /\ pc'[3] = pc[3]
  BY DEF Stay

LEMMA KinPlacesNext ==
  ASSUME Places, KinPlaces, NEW t, KinMove(t)
  PROVE  KinPlaces'
  <1> USE DEF Gone
  <1>1. CASE t = 1
    <2>1. /\ ParentMoves
          /\ removed' # removed => pc[1] = 5 /\ pc'[1] = 6
      BY <1>1 DEF KinMove, ParentMoves, Quiet, Speaks, Leaves
    <2>2. /\ pc'[4] = pc[4]
          /\ \/ pc[1] = 1 /\ pc'[1] = 2 /\ pc'[2] = 1 /\ pc'[3] = pc[3]
             \/ pc[1] = 2 /\ pc'[1] = 3 /\ pc'[3] = 1 /\ pc'[2] = pc[2]
             \/ pc[1] \in {1, 2} /\ pc'[1] = 6 /\ pc'[2] = pc[2] /\ pc'[3] = pc[3]
             \/ pc[1] = 3 /\ pc[3] <= 0 /\ pc'[1] = 4 /\ pc'[2] = pc[2] /\ pc'[3] = pc[3]
             \/ pc[1] = 4 /\ pc'[1] = 5 /\ pc'[2] = pc[2] /\ pc'[3] = pc[3]
             \/ pc[1] = 5 /\ pc'[1] = 6 /\ pc'[2] = pc[2] /\ pc'[3] = pc[3]
             \/ pc[1] = 6 /\ pc'[1] = Gone /\ pc'[2] = pc[2] /\ pc'[3] = pc[3]
      BY <2>1, StayMeans DEF ParentMoves
    <2>3. QED
      BY <2>1, <2>2 DEF KinPlaces
  <1>2. CASE t = 2
    <2>1. Child1Moves /\ removed' = removed
      BY <1>2 DEF KinMove, Child1Moves, Quiet, Speaks, Takes, Gives, Leaves
    <2>2. /\ pc'[1] = pc[1] /\ pc'[3] = pc[3]
          /\ \/ pc[2] = 3 /\ pc'[2] = 4 /\ pc'[4] = 1
             \/ /\ pc'[4] = pc[4]
                /\ \/ pc[2] = 1 /\ pc'[2] \in {2, 7}
                   \/ pc[2] = 2 /\ pc'[2] \in {3, 7}
                   \/ pc[2] = 3 /\ pc'[2] = 6
                   \/ pc[2] = 4 /\ pc[4] <= 0 /\ pc'[2] = 5
                   \/ pc[2] \in {5, 6} /\ pc'[2] = pc[2] + 1
                   \/ pc[2] = 7 /\ pc'[2] = Gone
      BY <2>1, StayMeans DEF Child1Moves
    <2>3. QED
      BY <2>1, <2>2 DEF KinPlaces
  <1>3. CASE t = 3
    <2>1. Child2Moves /\ removed' = removed
      BY <1>3 DEF KinMove, Child2Moves, Quiet, Speaks, Takes, Leaves
    <2>2. /\ pc'[1] = pc[1] /\ pc'[2] = pc[2] /\ pc'[4] = pc[4]
          /\ \/ pc[3] \in {1, 2} /\ pc'[3] = pc[3] + 1
             \/ pc[3] = 3 /\ pc'[3] = Gone
      BY <2>1, StayMeans DEF Child2Moves
    <2>3. QED
      BY <2>1, <2>2 DEF KinPlaces
  <1>4. CASE t = 4
    <2>1. GrandchildMoves /\ removed' = removed
      BY <1>4 DEF KinMove, GrandchildMoves, Speaks, Leaves
    <2>2. /\ pc'[1] = pc[1] /\ pc'[2] = pc[2] /\ pc'[3] = pc[3]
          /\ \/ pc[4] = 1 /\ pc'[4] = 2
             \/ pc[4] = 2 /\ pc'[4] = Gone
      BY <2>1, StayMeans DEF GrandchildMoves
    <2>3. QED
      BY <2>1, <2>2 DEF KinPlaces
  <1>5. QED
    BY <1>1, <1>2, <1>3, <1>4 DEF KinMove

LEMMA KinSemNext ==
  ASSUME Places, KinPlaces, KinSem, NEW t, KinMove(t)
  PROVE  KinSem'
  <1> USE DEF Gone
  <1>1. /\ sem \in [Sems -> Int] /\ undo \in [Threads -> Int] /\ 0 \in Sems
        /\ 1 \in Threads /\ 2 \in Threads /\ 3 \in Threads /\ 4 \in Threads
    BY Threads123 DEF Places, Sems
  <1> DEFINE Rest(u) ==
        /\ \A s \in Sems \ {0} : sem'[s] = sem[s]
        /\ \A v \in Threads \ {u} : undo'[v] = undo[v]
  <1>2. ASSUME NEW u \in {1, 2, 3, 4}
        PROVE  /\ Takes(u) => sem[0] > 0 /\ sem'[0] = sem[0] - 1 /\ undo'[u] = undo[u] + 1 /\ Rest(u)
               /\ Gives(u) => sem'[0] = sem[0] + 1 /\ undo'[u] = undo[u] - 1 /\ Rest(u)
               /\ Leaves(u) => sem'[0] \in {sem[0], sem[0] + undo[u]} /\ undo'[u] = 0 /\ Rest(u)
    BY <1>1 DEF Takes, Gives, Leaves
  <1>3. /\ \A s \in Sems : s # 0 => sem[s] = 0
        /\ \A v \in Threads : v \notin {2, 3} => undo[v] = 0
    BY DEF KinSem
  <1>4. CASE t = 1
    <2>1. /\ pc'[2] = pc[2] \/ pc'[2] = 1
          /\ pc'[3] = pc[3] \/ pc'[3] = 1
          /\ removed => removed'
      BY <1>4, StayMeans DEF KinMove, ParentMoves, Quiet, Speaks, Leaves
    <2>2. (sem' = sem /\ undo' = undo) \/ Leaves(1)
      BY <1>4 DEF KinMove, ParentMoves, Quiet, Speaks
    <2>3. /\ sem'[0] = sem[0] /\ undo'[2] = undo[2] /\ undo'[3] = undo[3]
          /\ \A s \in Sems : s # 0 => sem'[s] = 0
          /\ \A v \in Threads : v \notin {2, 3} => undo'[v] = 0
      <3>1. CASE sem' = sem /\ undo' = undo
        BY <3>1, <1>3
      <3>2. CASE Leaves(1)
        <4>1. undo[1] = 0
          BY <1>1, <1>3
        <4>2. sem'[0] \in {sem[0], sem[0] + undo[1]} /\ undo'[1] = 0 /\ Rest(1)
          BY <1>2, <3>2
        <4>3. sem'[0] = sem[0]
          BY <4>1, <4>2, <1>1
        <4>4. QED
          BY <4>2, <4>3, <1>1, <1>3
      <3>3. QED
        BY <2>2, <3>1, <3>2
    <2>4. QED
      BY <2>1, <2>3 DEF KinSem
  <1>5. CASE t = 2
    <2>1. pc'[3] = pc[3] /\ removed' = removed
      BY <1>5, StayMeans DEF KinMove, Child1Moves, Quiet, Speaks, Takes, Gives, Leaves
    <2>2. \/ sem' = sem /\ undo' = undo /\ (pc'[2] \in {3, 4, 5, 6} => pc[2] \in {3, 4, 5, 6})
          \/ pc[2] = 2 /\ Takes(2)
          \/ pc[2] = 6 /\ pc'[2] = 7 /\ ~removed /\ Gives(2)
          \/ pc'[2] = Gone /\ Leaves(2)
      BY <1>5 DEF KinMove, Child1Moves, Quiet, Speaks
    <2>3. CASE sem' = sem /\ undo' = undo /\ (pc'[2] \in {3, 4, 5, 6} => pc[2] \in {3, 4, 5, 6})
      BY <2>1, <2>3 DEF KinSem
    <2>4. CASE \/ pc[2] = 2 /\ Takes(2)
               \/ pc[2] = 6 /\ pc'[2] = 7 /\ ~removed /\ Gives(2)
               \/ pc'[2] = Gone /\ Leaves(2)
      <3>1. Rest(2)
        BY <2>4, <1>2
      <3>2. /\ undo'[3] = undo[3]
            /\ \A s \in Sems : s # 0 => sem'[s] = 0
            /\ \A v \in Threads : v \notin {2, 3} => undo'[v] = 0
        BY <3>1, <1>1, <1>3
      <3>3. \/ sem[0] > 0 /\ sem'[0] = sem[0] - 1 /\ undo'[2] = undo[2] + 1
            \/ pc[2] = 6 /\ pc'[2] = 7 /\ ~removed /\ sem'[0] = sem[0] + 1 /\ undo'[2] = undo[2] - 1
            \/ pc'[2] = Gone /\ sem'[0] \in {sem[0], sem[0] + undo[2]} /\ undo'[2] = 0
        BY <2>4, <1>2
      <3>4. QED
        BY <2>1, <3>2, <3>3 DEF KinSem
    <2>5. QED
      BY <2>2, <2>3, <2>4
  <1>6. CASE t = 3
    <2>1. /\ pc'[2] = pc[2] /\ removed' = removed
          /\ \/ sem' = sem /\ undo' = undo /\ pc'[3] # 2
             \/ pc[3] = 1 /\ Takes(3)
             \/ pc'[3] = Gone /\ Leaves(3)
      <3>1. pc[3] = 1 => ~removed
        BY DEF KinPlaces
      <3>2. QED
        BY <3>1, <1>6, StayMeans DEF KinMove, Child2Moves, Quiet, Speaks, Takes, Leaves
    <2>2. CASE sem' = sem /\ undo' = undo /\ pc'[3] # 2
      BY <2>1, <2>2 DEF KinSem
    <2>3. CASE (pc[3] = 1 /\ Takes(3)) \/ (pc'[3] = Gone /\ Leaves(3))
      <3>1. Rest(3)
        BY <2>3, <1>2
      <3>2. /\ undo'[2] = undo[2]
            /\ \A s \in Sems : s # 0 => sem'[s] = 0
            /\ \A v \in Threads : v \notin {2, 3} => undo'[v] = 0
        BY <3>1, <1>1, <1>3
      <3>3. \/ sem[0] > 0 /\ sem'[0] = sem[0] - 1 /\ undo'[3] = undo[3] + 1
            \/ pc'[3] = Gone /\ sem'[0] \in {sem[0], sem[0] + undo[3]} /\ undo'[3] = 0
        BY <2>3, <1>2
      <3>4. QED
        BY <2>1, <3>2, <3>3 DEF KinSem
    <2>4. QED
      BY <2>1, <2>2, <2>3
  <1>7. CASE t = 4
    <2>1. /\ pc'[2] = pc[2] /\ pc'[3] = pc[3] /\ removed' = removed
          /\ (sem' = sem /\ undo' = undo) \/ Leaves(4)
      BY <1>7, StayMeans DEF KinMove, GrandchildMoves, Speaks, Leaves
    <2>2. CASE sem' = sem /\ undo' = undo
      BY <2>1, <2>2 DEF KinSem
    <2>3. CASE Leaves(4)
      <3>1. undo[4] = 0
        BY <1>1, <1>3
      <3>2. sem'[0] \in {sem[0], sem[0] + undo[4]} /\ undo'[4] = 0 /\ Rest(4)
        BY <1>2, <2>3
      <3>3. sem'[0] = sem[0]
        BY <3>1, <3>2, <1>1
      <3>4. /\ undo'[2] = undo[2] /\ undo'[3] = undo[3]
            /\ \A s \in Sems : s # 0 => sem'[s] = 0
            /\ \A v \in Threads : v \notin {2, 3} => undo'[v] = 0
        BY <3>2, <1>1, <1>3
      <3>5. QED
        BY <2>1, <3>3, <3>4 DEF KinSem
    <2>4. QED
      BY <2>1, <2>2, <2>3
  <1>8. QED
    BY <1>4, <1>5, <1>6, <1>7 DEF KinMove

\* A step that prints nothing and takes nobody back.
LEMMA KinLinesStay ==
  ASSUME KinLines, out' = out,
         pc[1] \in {5, 6, Gone} => pc'[1] \in {5, 6, Gone},
         pc[3] = Gone => pc'[3] = Gone,
         pc[2] \in {6, 7, Gone} => pc'[2] \in {6, 7, Gone},
         pc[4] \in {2, Gone} => pc'[4] \in {2, Gone},
         pc'[2] \in {4, 5} => pc[2] \in {4, 5} \/ pc[4] \notin {2, Gone}
  PROVE  KinLines'
  <1>1. \A c : Printed(c)' <=> Printed(c)
    BY DEF Printed
  <1>2. SectionsApart'
    BY DEF KinLines, SectionsApart
  <1>3. ASSUME pc'[2] \in {4, 5}, NEW i \in DOMAIN out, out[i].what = "grandchild"
        PROVE  Len(out) = i \/ (Len(out) = i + 1 /\ out[i + 1].what = "parent")
    <2>1. pc[2] \in {4, 5}
      BY <1>3 DEF KinLines, Printed
    <2>2. QED
      BY <2>1, <1>3 DEF KinLines
  <1>4. QED
    BY <1>1, <1>2, <1>3 DEF KinLines

\* The lines a new one comes behind.
LEMMA KinSays ==
  ASSUME Places, NEW t, NEW c, Says(t, c)
  PROVE  /\ \A d : Printed(d)' <=> Printed(d) \/ d = c
         /\ Printed(c) <=> \E i \in 1..Len(out) : out[i].what = c
  <1>1. /\ Len(out) \in Nat /\ DOMAIN out = 1..Len(out)
        /\ DOMAIN out' = 1 .. Len(out) + 1
        /\ \A i \in 1..Len(out) : out'[i] = out[i]
        /\ out'[Len(out) + 1].what = c
    BY OneLine
  <1>2. \A i \in 1 .. Len(out) + 1 : i \in 1..Len(out) \/ i = Len(out) + 1
    BY <1>1
  <1>3. 1..Len(out) \subseteq 1 .. Len(out) + 1 /\ Len(out) + 1 \in 1 .. Len(out) + 1
    BY <1>1
  <1>4. QED
    BY <1>1, <1>2, <1>3 DEF Printed

LEMMA SectionsApartSays ==
  ASSUME Places, SectionsApart, NEW t, NEW c, Says(t, c),
         c = "grandchild" => ~Printed("child1"),
         c = "child2" => ~Printed("parent"),
         c = "child1" => \A i \in DOMAIN out : out[i].what = "grandchild" =>
             Len(out) = i \/ (Len(out) = i + 1 /\ out[i + 1].what = "parent")
  PROVE  SectionsApart'
  <1> DEFINE n == Len(out)
  <1>1. /\ n \in Nat /\ DOMAIN out = 1..n /\ DOMAIN out' = 1 .. n + 1
        /\ \A i \in 1..n : out'[i] = out[i]
        /\ out'[n + 1].what = c
    BY OneLine
  <1>2. \A i \in 1 .. n + 1 : i \in 1..n \/ i = n + 1
    BY <1>1
  <1> HIDE DEF n
  <1>3. ASSUME NEW i \in 1 .. n + 1, NEW j \in 1 .. n + 1,
               out'[i].what = "grandchild", out'[j].what = "child1"
        PROVE  j = i + 1 \/ (j = i + 2 /\ out'[i + 1].what = "parent")
    <2>1. CASE i \in 1..n /\ j \in 1..n
      <3>1. j = i + 1 \/ (j = i + 2 /\ out[i + 1].what = "parent")
        BY <2>1, <1>1, <1>3 DEF SectionsApart
      <3>2. j = i + 2 => i + 1 \in 1..n
        BY <2>1, <1>1
      <3>3. QED
        BY <3>1, <3>2, <1>1
    <2>2. CASE i = n + 1
      <3>1. c = "grandchild" /\ j # n + 1
        BY <2>2, <1>1, <1>3
      <3>2. j \in 1..n /\ out[j].what = "child1"
        BY <3>1, <1>1, <1>2, <1>3
      <3>3. QED
        BY <3>1, <3>2, <1>1 DEF Printed
    <2>3. CASE i \in 1..n /\ j = n + 1
      <3>1. c = "child1" /\ out[i].what = "grandchild"
        BY <2>3, <1>1, <1>3
      <3>2. n = i \/ (n = i + 1 /\ out[i + 1].what = "parent")
        BY <2>3, <3>1, <1>1 DEF n
      <3>3. n = i + 1 => i + 1 \in 1..n
        BY <2>3, <1>1
      <3>4. QED
        BY <2>3, <3>2, <3>3, <1>1
    <2>4. QED
      BY <2>1, <2>2, <2>3, <1>2
  <1>4. ASSUME NEW i \in 1 .. n + 1, NEW j \in 1 .. n + 1,
               out'[i].what = "child2", out'[j].what = "parent"
        PROVE  i < j
    <2>1. CASE j = n + 1
      BY <2>1, <1>1, <1>2, <1>4
    <2>2. CASE i = n + 1 /\ j \in 1..n
      <3>1. c = "child2" /\ out[j].what = "parent"
        BY <2>2, <1>1, <1>4
      <3>2. QED
        BY <3>1, <2>2, <1>1 DEF Printed
    <2>3. CASE i \in 1..n /\ j \in 1..n
      <3>1. /\ i \in DOMAIN out /\ j \in DOMAIN out
            /\ out[i].what = "child2" /\ out[j].what = "parent"
        BY <2>3, <1>1, <1>4
      <3>2. QED
        BY <3>1 DEF SectionsApart
    <2>4. QED
      BY <2>1, <2>2, <2>3, <1>2
  <1>5. QED
    BY <1>1, <1>3, <1>4 DEF SectionsApart

LEMMA KinLinesNext ==
  ASSUME Places, KinPlaces, KinSem, KinLines, NEW t, KinMove(t)
  PROVE  KinLines'
  <1> USE DEF Gone
  <1> DEFINE Fresh == /\ pc[1] \in {5, 6, Gone} => pc'[1] \in {5, 6, Gone}
                      /\ pc[3] = Gone => pc'[3] = Gone
                      /\ pc[2] \in {6, 7, Gone} => pc'[2] \in {6, 7, Gone}
                      /\ pc[4] \in {2, Gone} => pc'[4] \in {2, Gone}
                      /\ pc'[2] \in {4, 5} => pc[2] \in {4, 5} \/ pc[4] \notin {2, Gone}
  <1>1. CASE t = 1
    <2>1. /\ Fresh
          /\ out' = out \/ (pc[1] = 4 /\ pc'[1] = 5 /\ pc'[3] = pc[3] /\ pc'[2] = pc[2] /\ pc'[4] = pc[4]
                            /\ Says(1, "parent"))
      BY <1>1, StayMeans DEF KinMove, ParentMoves, Quiet, Speaks, Leaves, KinPlaces
    <2>2. CASE out' = out
      BY <2>1, <2>2, KinLinesStay
    <2>3. CASE out' # out
      <3>1. /\ pc[1] = 4 /\ pc'[1] = 5 /\ pc'[3] = pc[3] /\ pc'[2] = pc[2] /\ pc'[4] = pc[4]
            /\ Says(1, "parent")
        BY <2>1, <2>3
      <3>2. ~Printed("parent") /\ pc[3] = Gone
        BY <3>1 DEF KinLines, KinPlaces
      <3>3. SectionsApart'
        BY <3>1, SectionsApartSays DEF KinLines
      <3>4. \A d : Printed(d)' <=> Printed(d) \/ d = "parent"
        BY <3>1, KinSays
      <3>5. ASSUME pc'[2] \in {4, 5}, NEW i \in DOMAIN out', out'[i].what = "grandchild"
            PROVE  Len(out') = i \/ (Len(out') = i + 1 /\ out'[i + 1].what = "parent")
        <4>1. /\ Len(out) \in Nat /\ DOMAIN out = 1..Len(out) /\ i \in 1 .. Len(out) + 1
              /\ Len(out') = Len(out) + 1 /\ out'[Len(out) + 1].what = "parent"
              /\ \A k \in 1..Len(out) : out'[k] = out[k]
          BY <3>1, <3>5, OneLine
        <4>2. i # Len(out) + 1
          BY <4>1, <3>5
        <4>3. i \in DOMAIN out /\ out[i].what = "grandchild"
          BY <4>1, <4>2, <3>5
        <4>4. Len(out) = i \/ (Len(out) = i + 1 /\ out[i + 1].what = "parent")
          BY <4>3, <3>1, <3>5 DEF KinLines
        <4>5. Len(out) # i + 1 \/ out[i + 1].what # "parent"
          <5>1. Len(out) = i + 1 => i + 1 \in DOMAIN out
            BY <4>1, <4>3
          <5>2. QED
            BY <5>1, <3>2 DEF Printed
        <4>6. QED
          BY <4>1, <4>4, <4>5
      <3>6. QED
        BY <3>1, <3>2, <3>3, <3>4, <3>5 DEF KinLines
    <2>4. QED
      BY <2>2, <2>3
  <1>2. CASE t = 2
    <2>1. /\ Fresh
          /\ out' = out \/ (pc[2] = 5 /\ pc'[2] = 6 /\ pc'[1] = pc[1] /\ pc'[3] = pc[3] /\ pc'[4] = pc[4]
                            /\ Says(2, "child1"))
      BY <1>2, StayMeans DEF KinMove, Child1Moves, Quiet, Speaks, Takes, Gives, Leaves, KinPlaces
    <2>2. CASE out' = out
      BY <2>1, <2>2, KinLinesStay
    <2>3. CASE out' # out
      <3>1. /\ pc[2] = 5 /\ pc'[2] = 6 /\ pc'[1] = pc[1] /\ pc'[3] = pc[3] /\ pc'[4] = pc[4]
            /\ Says(2, "child1")
        BY <2>1, <2>3
      <3>2. SectionsApart'
        BY <3>1, SectionsApartSays DEF KinLines
      <3>3. \A d : Printed(d)' <=> Printed(d) \/ d = "child1"
        BY <3>1, KinSays
      <3>4. QED
        BY <3>1, <3>2, <3>3 DEF KinLines
    <2>4. QED
      BY <2>2, <2>3
  <1>3. CASE t = 3
    <2>1. /\ Fresh
          /\ out' = out \/ (pc[3] = 2 /\ pc'[1] = pc[1] /\ pc'[2] = pc[2] /\ pc'[4] = pc[4]
                            /\ Says(3, "child2"))
      BY <1>3, StayMeans DEF KinMove, Child2Moves, Quiet, Speaks, Takes, Leaves, KinPlaces
    <2>2. CASE out' = out
      BY <2>1, <2>2, KinLinesStay
    <2>3. CASE out' # out
      <3>1. /\ pc[3] = 2 /\ pc'[1] = pc[1] /\ pc'[2] = pc[2] /\ pc'[4] = pc[4]
            /\ Says(3, "child2")
        BY <2>1, <2>3
      <3>2. ~Printed("parent")
        BY <3>1 DEF KinLines
      <3>3. SectionsApart'
        BY <3>1, <3>2, SectionsApartSays DEF KinLines
      <3>4. \A d : Printed(d)' <=> Printed(d) \/ d = "child2"
        BY <3>1, KinSays
      <3>5. pc[2] \notin {3, 4, 5, 6}
        BY <3>1 DEF KinPlaces, KinSem
      <3>6. QED
        BY <3>1, <3>2, <3>3, <3>4, <3>5 DEF KinLines
    <2>4. QED
      BY <2>2, <2>3
  <1>4. CASE t = 4
    <2>1. /\ Fresh
          /\ out' = out \/ (pc[4] = 1 /\ pc'[4] = 2 /\ pc'[1] = pc[1] /\ pc'[2] = pc[2] /\ pc'[3] = pc[3]
                            /\ Says(4, "grandchild"))
      BY <1>4, StayMeans DEF KinMove, GrandchildMoves, Speaks, Leaves, KinPlaces
    <2>2. CASE out' = out
      BY <2>1, <2>2, KinLinesStay
    <2>3. CASE out' # out
      <3>1. /\ pc[4] = 1 /\ pc'[4] = 2 /\ pc'[1] = pc[1] /\ pc'[2] = pc[2] /\ pc'[3] = pc[3]
            /\ Says(4, "grandchild") /\ pc[2] = 4
        BY <2>1, <2>3 DEF KinPlaces
      <3>2. ~Printed("grandchild") /\ ~Printed("child1")
        BY <3>1 DEF KinLines
      <3>3. SectionsApart'
        BY <3>1, <3>2, SectionsApartSays DEF KinLines
      <3>4. \A d : Printed(d)' <=> Printed(d) \/ d = "grandchild"
        BY <3>1, KinSays
      <3>5. ASSUME NEW i \in DOMAIN out', out'[i].what = "grandchild"
            PROVE  Len(out') = i
        <4>1. /\ Len(out) \in Nat /\ DOMAIN out = 1..Len(out) /\ i \in 1 .. Len(out) + 1
              /\ Len(out') = Len(out) + 1
              /\ \A k \in 1..Len(out) : out'[k] = out[k]
          BY <3>1, <3>5, OneLine
        <4>2. i \notin DOMAIN out
          BY <4>1, <3>2, <3>5 DEF Printed
        <4>3. QED
          BY <4>1, <4>2
      <3>6. QED
        BY <3>1, <3>2, <3>3, <3>4, <3>5 DEF KinLines
    <2>4. QED
      BY <2>2, <2>3
  <1>5. QED
    BY <1>1, <1>2, <1>3, <1>4 DEF KinMove

LEMMA KinNext == Places /\ KinInv /\ [Next]_vars => KinInv'
  <1> SUFFICES ASSUME Places, KinInv, [Next]_vars, prog' = "sem_ex1"
               PROVE  KinPlaces' /\ KinSem' /\ KinLines'
    BY DEF KinInv
  <1>1. prog = "sem_ex1" /\ KinPlaces /\ KinSem /\ KinLines
    BY SameProgram DEF KinInv
  <1>2. CASE UNCHANGED vars
    <2>1. UNCHANGED <<pc, sem, removed, undo, out>>
      BY <1>2 DEF vars, kernel
    <2>2. KinPlaces' /\ KinSem'
      BY <2>1, <1>1 DEF KinPlaces, KinSem
    <2>3. KinLines'
      BY <2>1, <1>1 DEF KinLines, Printed, SectionsApart
    <2>4. QED
      BY <2>2, <2>3
  <1>3. ASSUME NEW t \in Threads, Act(t) PROVE KinPlaces' /\ KinSem' /\ KinLines'
    <2>1. KinMove(t)
      BY <1>1, <1>3, KinMoves DEF KinMove
    <2>2. QED
      BY <2>1, <1>1, KinPlacesNext, KinSemNext, KinLinesNext
  <1>4. QED
    BY <1>2, <1>3, Cases

LEMMA KinInit == Init => KinInv
  <1> SUFFICES ASSUME Init PROVE KinPlaces /\ KinSem /\ KinLines
    BY DEF KinInv
  <1>1. /\ 1 \in Threads /\ 2 \in Threads /\ 3 \in Threads /\ 4 \in Threads
    BY Threads123
  <1>2. pc[1] = 1 /\ pc[2] = 0 /\ pc[3] = 0 /\ pc[4] = 0 /\ ~removed
    BY <1>1 DEF Init
  <1>3. out = <<>> /\ DOMAIN out = {}
    BY DEF Init
  <1>4. KinSem
    BY <1>1, <1>2 DEF Init, KinSem, Sems
  <1>5. KinPlaces
    BY <1>2 DEF KinPlaces, Gone
  <1>6. KinLines
    BY <1>2, <1>3 DEF KinLines, Printed, SectionsApart
  <1>7. QED
    BY <1>4, <1>5, <1>6

-----------------------------------------------------------------------------
(* Type correctness                                                        *)

\* The semaphores of ab_ex.c: none of the counts is above one when none is below zero.
LEMMA AtMostOne ==
  ASSUME NEW n \in Nat, NEW m \in Nat, NEW j \in 0..11, NEW l \in 0..11
  PROVE  LET a(i) == n + (IF j >= i THEN 1 ELSE 0)
             b(i) == m + (IF l >= i THEN 1 ELSE 0)
             v0 == 1 + b(6) + b(12) - a(1) - a(7)
             v1 == a(3) + a(9) - b(1) - b(7)
             v2 == a(6) + a(12) - b(4) - b(10)
             v3 == a(5) + b(9) - a(10) - b(2)
         IN v0 >= 0 /\ v1 >= 0 /\ v2 >= 0 => v0 <= 1 /\ v1 <= 1 /\ v2 <= 1 /\ v3 <= 1
  OBVIOUS

LEMMA AbExBinary ==
  ASSUME AbExPlaces, AbExCounts
  PROVE  sem \in [Sems -> {0, 1}]
  <1> DEFINE n == Done(2) \div 12
             m == Done(3) \div 12
             j == Done(2) % 12
             l == Done(3) % 12
  <1>1. n \in Nat /\ m \in Nat /\ j \in 0..11 /\ l \in 0..11
    BY CountsNat, Rounds
  <1>2. \A i \in 1..12 : A(i) = n + (IF j >= i THEN 1 ELSE 0) /\ B(i) = m + (IF l >= i THEN 1 ELSE 0)
    BY DEF A, B, Passed
  <1> HIDE DEF n, m, j, l
  <1> DEFINE a(i) == n + (IF j >= i THEN 1 ELSE 0)
             b(i) == m + (IF l >= i THEN 1 ELSE 0)
  <1>3. /\ Value0 = 1 + b(6) + b(12) - a(1) - a(7)
        /\ Value1 = a(3) + a(9) - b(1) - b(7)
        /\ Value2 = a(6) + a(12) - b(4) - b(10)
        /\ Value3 = a(5) + b(9) - a(10) - b(2)
    BY <1>2 DEF Value0, Value1, Value2, Value3
  <1>4. /\ Value0 >= 0 /\ Value1 >= 0 /\ Value2 >= 0 /\ Value3 >= 0
        /\ sem[0] = Value0 /\ sem[1] = Value1 /\ sem[2] = Value2 /\ sem[3] = Value3
        /\ sem \in [Sems -> Nat]
    BY DEF AbExCounts, AbExPlaces, Sems
  <1>5. Value0 <= 1 /\ Value1 <= 1 /\ Value2 <= 1 /\ Value3 <= 1
    BY <1>1, <1>3, <1>4, AtMostOne
  <1>6. \A s \in 0..3 : s \in {0, 1, 2, 3}
    OBVIOUS
  <1>7. \A s \in Sems : sem[s] \in {0, 1}
    BY <1>4, <1>5, <1>6 DEF Sems
  <1>8. QED
    BY <1>4, <1>7

Top == MaxOf(Last + 2, NThreads)

\* What each program keeps of its shared variable bounds it.
LEMMA SharedBound ==
  ASSUME Places, Mutex1Inv, OddInv, IncInv, Join1Inv
  PROVE  shared \in 0..Top
  <1>1. /\ Last \in Nat \ {0} /\ NThreads \in Nat \ {0} /\ Top \in Nat
        /\ Last + 2 <= Top /\ NThreads <= Top
    BY BoundsAssumption DEF Top, MaxOf
  <1>2. shared \in Nat
    BY DEF Places
  <1>3. CASE prog \notin {"mutex1", "join1", "ex_pthread1", "oddevev"}
    BY <1>1, <1>3 DEF Places
  <1>4. CASE prog = "mutex1"
    <2>1. Past(2, 3) \in {0, 1} /\ Past(3, 3) \in {0, 1}
      BY DEF Past
    <2>2. QED
      BY <2>1, <1>1, <1>4 DEF Mutex1Inv
  <1>5. CASE prog = "join1"
    <2>1. shared = Cardinality(Ahead(4)) /\ Cardinality(Ahead(4)) <= NThreads
      BY <1>5, AheadFinite DEF Join1Inv
    <2>2. QED
      BY <2>1, <1>1, <1>2
  <1>6. CASE prog = "ex_pthread1"
    <2>1. CASE pc[2] \in {0, Gone}
      BY <2>1, <1>1, <1>6 DEF IncInv
    <2>2. CASE pc[2] \notin {0, Gone}
      <3>1. pc[2] \in 1..Len(Code(prog, 2))
        BY <2>2, Threads123 DEF Places
      <3>2. pc[2] \in 1 .. 2 * Last + 1
        BY <3>1, <1>6, IncCode DEF Code
      <3>3. pc[2] \in {2 * shared + 1, 2 * shared + 2}
        BY <3>2, <1>6 DEF IncInv
      <3>4. QED
        BY <3>2, <3>3, <1>1, <1>2
    <2>3. QED
      BY <2>1, <2>2
  <1>7. CASE prog = "oddevev"
    BY <1>1, <1>2, <1>7 DEF OddInv
  <1>8. QED
    BY <1>3, <1>4, <1>5, <1>6, <1>7

\* A thread has loaded no more than the shared variable held.
Loaded == reg \in [Threads -> 0..Top]

LEMMA LoadedNext ==
  ASSUME Places, shared \in 0..Top, Loaded, [Next]_vars
  PROVE  Loaded'
  <1>1. CASE UNCHANGED vars
    BY <1>1 DEF vars, Loaded
  <1>2. ASSUME NEW t \in Threads, Act(t) PROVE Loaded'
    <2>1. CASE Op(t).op = "load"
      <3>1. reg' = [reg EXCEPT ![t] = shared]
        BY <2>1, <1>2, Kinds DEF Load
      <3>2. QED
        BY <3>1 DEF Loaded
    <2>2. CASE Op(t).op # "load"
      <3>1. reg' = reg
        BY <2>2, <1>2, Kinds DEF Create, Join, Lock, Unlock, SemWait, SemPost, Store, PutOut, Parity, While,
           End, Exit, AssertOne, Acquire, Release, Fork, Remove, CreateFails, JoinNobody, ForkFails
      <3>2. QED
        BY <3>1 DEF Loaded
    <2>3. QED
      BY <2>1, <2>2
  <1>3. QED
    BY <1>1, <1>2, Cases

\* All that the programs keep.
Inv ==
    /\ prog \in Programs
    /\ Places /\ Family /\ Excl /\ Loaded
    /\ AbExInv /\ MutexInv /\ Mutex1Inv /\ OddInv /\ IncInv /\ MessageInv /\ HelloInv /\ Join1Inv
    /\ KinInv

LEMMA InvNext == Inv /\ [Next]_vars => Inv'
  <1> SUFFICES ASSUME Inv, [Next]_vars PROVE Inv'
    OBVIOUS
  <1>1. prog' \in Programs
    BY SameProgram DEF Inv
  <1>2. Places' /\ Family' /\ Excl'
    BY PlacesNext, FamilyNext, ExclNext DEF Inv
  <1>3. AbExInv' /\ MutexInv' /\ Mutex1Inv' /\ OddInv'
    BY AbExNext, MutexNext, Mutex1Next, OddNext DEF Inv
  <1>4. IncInv' /\ MessageInv' /\ HelloInv' /\ Join1Inv' /\ KinInv'
    BY IncNext, MessageNext, HelloNext, Join1Next, KinNext DEF Inv
  <1>5. Loaded'
    BY SharedBound, LoadedNext DEF Inv
  <1>6. QED
    BY <1>1, <1>2, <1>3, <1>4, <1>5 DEF Inv

LEMMA InvInit == Init => Inv
  <1> SUFFICES ASSUME Init PROVE Inv
    OBVIOUS
  <1>1. /\ 1 \in Threads /\ 2 \in Threads /\ 3 \in Threads /\ NThreads \in Nat \ {0}
        /\ Last \in Nat \ {0} /\ 2 .. 1 + NThreads \subseteq Threads \ {1} /\ Top \in Nat
    BY Threads123, Bounds DEF Top, MaxOf
  <1>2. /\ pc[1] = 1 /\ \A t \in Threads \ {1} : pc[t] = 0
        /\ out = <<>> /\ DOMAIN out = {} /\ Len(out) = 0 /\ shared = 0
        /\ ~over /\ prog \in Programs /\ reg = [t \in Threads |-> 0]
    BY <1>1 DEF Init
  <1>3. Excl /\ Loaded
    BY <1>1, <1>2 DEF Excl, Inside, Loaded
  <1>4. MutexInv
    BY <1>2 DEF MutexInv, Adjacent
  <1>5. Past(2, 3) = 0 /\ Past(3, 3) = 0 /\ Past(2, 4) = 0 /\ Past(3, 4) = 0 /\ Past(2, 1) = 0 /\ Past(3, 1) = 0
    BY <1>1, <1>2 DEF Past, Gone
  <1>6. Mutex1Inv /\ MessageInv
    <2>1. \A c : Lines(c) = 0
      <3>1. \A c : {i \in 1..Len(out) : out[i].what = c} = {}
        BY <1>2
      <3>2. QED
        BY <3>1, FS_EmptySet DEF Lines, LinesUpTo
    <2>2. Missing(2) = 0 /\ Missing(3) = 0
      BY <1>2 DEF Missing
    <2>3. Mutex1Inv
      BY <1>1, <1>2, <1>5, <2>1, <2>2 DEF Mutex1Inv
    <2>4. MessageInv
      BY <1>1, <1>2, <1>5 DEF MessageInv
    <2>5. QED
      BY <2>3, <2>4
  <1>7. OddInv
    <2>1. Turn(2) = 0 /\ Turn(3) = 0
      BY <1>1, <1>2 DEF Turn
    <2>2. \A t \in {2, 3} : Limit(t) >= 0
      BY <1>1 DEF Limit
    <2>3. QED
      BY <1>1, <1>2, <2>1, <2>2 DEF OddInv, Gone
  <1>8. IncInv
    BY <1>1, <1>2 DEF IncInv, Printed, Gone
  <1>9. \A n \in {1, 4} : Cardinality(Ahead(n)) = 0
    <2>1. \A n \in {1, 4} : \A t \in 2 .. 1 + NThreads : Past(t, n) = 0
      BY <1>1, <1>2 DEF Past, Gone
    <2>2. \A n \in {1, 4} : Ahead(n) = {}
      BY <2>1 DEF Ahead
    <2>3. QED
      BY <2>2, FS_EmptySet
  <1>10. HelloInv
    BY <1>2, <1>9 DEF HelloInv
  <1>11. Join1Inv
    BY <1>1, <1>2, <1>9 DEF Join1Inv
  <1>12. QED
    BY <1>2, <1>3, <1>4, <1>6, <1>7, <1>8, <1>10, <1>11, PlacesInit, FamilyInit, AbExInit, KinInit DEF Inv

\* No semaphore of any program counts above one.
LEMMA Binary ==
  ASSUME Inv
  PROVE  sem \in [Sems -> {0, 1}] /\ undo \in [Threads -> {0, 1}]
  <1>1. CASE prog = "ab_ex"
    <2>1. AbExPlaces /\ AbExCounts
      BY <1>1 DEF Inv, AbExInv
    <2>2. undo = [t \in Threads |-> 0]
      BY <2>1 DEF AbExPlaces
    <2>3. QED
      BY <2>1, <2>2, AbExBinary
  <1>2. CASE prog = "sem_ex1"
    <2>1. KinSem /\ sem \in [Sems -> Int] /\ undo \in [Threads -> Int]
      BY <1>2 DEF Inv, KinInv, Places
    <2>2. (\A s \in Sems : sem[s] \in {0, 1}) /\ (\A t \in Threads : undo[t] \in {0, 1})
      BY <2>1 DEF KinSem
    <2>3. QED
      BY <2>1, <2>2
  <1>3. CASE prog \notin {"ab_ex", "sem_ex1"}
    BY <1>3 DEF Inv, Places
  <1>4. QED
    BY <1>1, <1>2, <1>3

LEMMA InvTypes == Inv => TypeOK
  <1> SUFFICES ASSUME Inv PROVE TypeOK
    OBVIOUS
  <1>1. /\ prog \in Programs /\ Places /\ Loaded
    BY DEF Inv
  <1>2. sem \in [Sems -> {0, 1}] /\ undo \in [Threads -> {0, 1}]
    BY Binary
  <1>3. shared \in 0..Top
    BY SharedBound DEF Inv
  <1>4. \A t \in Threads : pc[t] > 0 => pc[t] \in 1..Len(Code(prog, t))
    BY <1>1 DEF Places, Gone
  <1>5. \A i \in DOMAIN out : out[i].by \in Threads
    <2>1. \A i \in DOMAIN out : out[i] \in Records
      BY <1>1 DEF Places
    <2>2. QED
      BY <2>1 DEF Records
  <1>6. over \in BOOLEAN /\ locked \in [Mutexes -> BOOLEAN] /\ removed \in BOOLEAN
    BY <1>1 DEF Places
  <1>7. QED
    BY <1>1, <1>2, <1>3, <1>4, <1>5, <1>6 DEF TypeOK, Loaded, Top

\* No thread or process goes beyond the end of its code; the mutexes and semaphores
\* of the exercises are binary, SEM_UNDO owes one at most; and the variable that
\* the threads share stays within the programs' limits, for every number of rounds
\* and of threads.
THEOREM TypeCorrect == Spec => []TypeOK
  <1>1. Spec => []Inv
    BY InvInit, InvNext, PTL DEF Spec
  <1>2. QED
    BY <1>1, InvTypes, PTL

-----------------------------------------------------------------------------
(* What each exercise is there to show                                     *)

LEMMA Mutex1Outcome ==
  ASSUME Inv, prog = "mutex1"
  PROVE  /\ \A i \in DOMAIN out : out[i].what = "counter" => out[i].value = LinesUpTo("counter", i)
         /\ Op(1).op = "exit" => Lines("counter") + Lines("failed") = 2
  <1>1. /\ pc[1] \in {1, 2, 3, 4, 5}
        /\ pc[1] = 5 => pc[2] \in {0, Gone} /\ pc[3] \in {0, Gone}
        /\ Lines("counter") = Past(2, 4) + Past(3, 4)
        /\ Lines("failed") = Missing(2) + Missing(3)
        /\ \A i \in DOMAIN out : out[i].what = "counter" => out[i].value = LinesUpTo("counter", i)
    BY DEF Inv, Mutex1Inv
  <1>2. ASSUME Op(1).op = "exit" PROVE pc[1] = 5
    <2>1. Op(1) = <<createOrGoOn(2), createOrGoOn(3), join(2), join(3), exit>>[pc[1]]
      BY DEF Op, Code, Mutex1Main
    <2>2. QED
      BY <1>1, <1>2, <2>1, Calls
  <1>3. ASSUME pc[1] = 5 PROVE Past(2, 4) + Past(3, 4) + (Missing(2) + Missing(3)) = 2
    BY <1>1, <1>3 DEF Past, Missing, Gone
  <1>4. QED
    BY <1>1, <1>2, <1>3

LEMMA OddOutcome ==
  ASSUME Inv, prog = "oddevev"
  PROVE  /\ \A i \in DOMAIN out : out[i].value = i - 1
         /\ over => Len(out) \in {Last + 1, Last + 2}
  <1>1. /\ Len(out) = shared + Turn(2) + Turn(3)
        /\ \A i \in DOMAIN out : out[i].value = i - 1
        /\ shared <= Last + 2
        /\ pc[2] = Gone => shared > Last
    BY DEF Inv, OddInv
  <1>2. over => pc[2] = Gone /\ Turn(2) = 0 /\ Turn(3) = 0
    BY TwoJoined DEF Inv, Turn, Gone
  <1>3. shared \in Nat /\ Last \in Nat
    BY BoundsAssumption DEF Inv, Places
  <1>4. over => Len(out) \in {Last + 1, Last + 2}
    BY <1>1, <1>2, <1>3
  <1>5. QED
    BY <1>1, <1>4

LEMMA UpTo ==
  ASSUME NEW n \in Nat \ {0}
  PROVE  Cardinality(1..n) = n
  <1>1. 1 \in Int /\ n \in Int /\ ~(1 > n) /\ n - 1 + 1 = n
    OBVIOUS
  <1>2. QED
    BY <1>1, FS_Interval

LEMMA Join1Outcome ==
  ASSUME Inv, prog = "join1", Printed("final")
  PROVE  shared = NThreads /\ Lines("number") = NThreads
  <1> DEFINE last == 2 * NThreads + 2
  <1>1. /\ Places /\ Family /\ NThreads \in Nat \ {0}
        /\ pc[1] # last => \A i \in DOMAIN out : out[i].what = "number"
        /\ pc[1] = last => /\ Len(out) = NThreads + 1
                           /\ \A i \in DOMAIN out : out[i].what = "number" <=> i # NThreads + 1
        /\ shared = Cardinality(Ahead(4))
    BY BoundsAssumption DEF Inv, Join1Inv
  <1>2. pc[1] = last
    BY <1>1 DEF Printed
  <1>3. \A t \in 2 .. 1 + NThreads : pc[t] = Gone
    <2>1. pc[1] > 2 * NThreads
      BY <1>1, <1>2
    <2>2. QED
      BY <2>1, <1>1, Join1MainAt
  <1>4. shared = NThreads
    BY <1>1, <1>3, AheadFinite
  <1>5. {i \in 1..Len(out) : out[i].what = "number"} = 1..NThreads
    <2>1. /\ Len(out) = NThreads + 1
          /\ \A i \in 1 .. NThreads + 1 : out[i].what = "number" <=> i # NThreads + 1
      BY <1>1, <1>2 DEF Places
    <2>2. QED
      BY <2>1, <1>1
  <1>6. Cardinality(1..NThreads) = NThreads
    BY <1>1, UpTo
  <1>7. QED
    BY <1>4, <1>5, <1>6 DEF Lines, LinesUpTo

LEMMA HelloOutcome ==
  ASSUME Inv, prog = "hello", \A t \in Threads : pc[t] <= 0
  PROVE  Len(out) = NThreads
  <1>1. Places /\ Started /\ Len(out) = Cardinality(Ahead(1))
    BY DEF Inv, Family, HelloInv
  <1>2. /\ 1 \in Threads /\ pc \in [Threads -> Int] /\ pc[1] <= 0
        /\ Team(prog) = 1 .. 1 + NThreads /\ Team(prog) \subseteq Threads /\ NThreads \in Nat
    BY <1>1, Bounds, Threads123, TeamOf, TeamIn DEF Places
  <1>3. ASSUME NEW t \in 2 .. 1 + NThreads PROVE pc[t] = Gone
    <2>1. t \in Team(prog) \ {1} /\ t \in Threads
      BY <1>2
    <2>2. ~(pc[1] \in 1 .. t - 1)
      BY <1>2
    <2>3. pc[t] # 0
      BY <1>1, <2>1, <2>2 DEF Started
    <2>4. ~(pc[t] \in 1..Len(Code(prog, t)))
      BY <2>1
    <2>5. QED
      BY <1>1, <2>1, <2>3, <2>4 DEF Places
  <1>4. QED
    BY <1>1, <1>3, AheadFinite

LEMMA IncOutcome ==
  ASSUME Inv, prog = "ex_pthread1", Printed("x")
  PROVE  shared = Last
  BY IncMain DEF Inv, IncInv

LEMMA MessageOutcome ==
  ASSUME Inv, prog = "ex_pthread2", Printed("returns")
  PROVE  Lines("message") = 2
  <1>1. /\ Places /\ pc[1] \in 1..6
        /\ pc[1] <= 5 => \A i \in DOMAIN out : out[i].what = "message"
        /\ pc[1] = 6 => Len(out) = 3 /\ \A i \in DOMAIN out : out[i].what = "message" <=> i # 3
    BY DEF Inv, MessageInv
  <1>2. pc[1] = 6
    BY <1>1 DEF Printed
  <1>3. {i \in 1..Len(out) : out[i].what = "message"} = 1..2
    <2>1. Len(out) = 3 /\ \A i \in 1..3 : out[i].what = "message" <=> i # 3
      BY <1>1, <1>2 DEF Places
    <2>2. QED
      BY <2>1
  <1>4. Cardinality(1..2) = 2
    <2>1. 2 \in Nat \ {0}
      OBVIOUS
    <2>2. QED
      BY <2>1, UpTo, Zenon
  <1>5. QED
    BY <1>3, <1>4 DEF Lines, LinesUpTo

LEMMA InvOutcome == Inv => Outcome
  <1> SUFFICES ASSUME Inv PROVE Outcome
    OBVIOUS
  <1>1. CASE prog = "mutex"
    <2>1. Adjacent("1:", "2:")
      BY <1>1 DEF Inv, MutexInv
    <2>2. QED
      BY <2>1, <1>1, Zenon DEF Outcome
  <1>2. CASE prog = "mutex1"
    BY <1>2, Mutex1Outcome, Zenon DEF Outcome
  <1>3. CASE prog = "join1"
    BY <1>3, Join1Outcome, Zenon DEF Outcome
  <1>4. CASE prog = "hello"
    BY <1>4, HelloOutcome, Zenon DEF Outcome
  <1>5. CASE prog = "ex_pthread1"
    BY <1>5, IncOutcome, Zenon DEF Outcome
  <1>6. CASE prog = "ex_pthread2"
    BY <1>6, MessageOutcome, Zenon DEF Outcome
  <1>7. CASE prog = "oddevev"
    BY <1>7, OddOutcome, Zenon DEF Outcome
  <1>8. CASE prog = "sem_ex1"
    <2>1. SectionsApart
      BY <1>8 DEF Inv, KinInv, KinLines
    <2>2. QED
      BY <2>1, <1>8, Zenon DEF Outcome
  <1>9. CASE prog \notin {"mutex", "mutex1", "join1", "hello", "ex_pthread1", "ex_pthread2", "oddevev",
                          "sem_ex1"}
    BY <1>9, Zenon DEF Outcome
  <1>10. QED
    BY <1>1, <1>2, <1>3, <1>4, <1>5, <1>6, <1>7, <1>8, <1>9

\* Every exercise shows what it is there for, whatever the scheduler does and for
\* every number of threads and every limit: mutex.c prints its lines in pairs; the
\* counters of mutex1.c and join1.c lose no increment; mutex1.c reaches its exit
\* with a line of every thread or a message for the one it could not create; main of
\* join1.c prints the final count; oddevev.c counts without a gap to one beyond its
\* limit at most; no line of hello.c, ex_pthread1.c and ex_pthread2.c is missing at
\* the end; and the sections of sem_ex1.cpp that hold the semaphore do not mix.
THEOREM OutcomeShown == Spec => []Outcome
  <1>1. Spec => []Inv
    BY InvInit, InvNext, PTL DEF Spec
  <1>2. QED
    BY <1>1, InvOutcome, PTL

=============================================================================
