---------------------------- MODULE Mysh_proofs ----------------------------
(***************************************************************************)
(* Proofs about modules CommandLine and Mysh, for scripts of any length    *)
(* and lines of any length over any words: how lines are taken apart, what *)
(* the shells do with them, and that a shell keeps the promise of module   *)
(* Foreground.                                                             *)
(*                                                                         *)
(* strtok and the read loop go through a line character by character, so   *)
(* the first part is by induction on the characters read.  The induction   *)
(* principle is stated for sets (a set that holds 0 and with n also n + 1  *)
(* holds every natural number), and the recursive functions of module      *)
(* CommandLine are shown to satisfy their equations first.                 *)
(*                                                                         *)
(* The invariant of the second part says what the shell executes (LineInv),*)
(* when it has a child (WaitInv) and in which ways its variable status may *)
(* be 0 (StatusInv): by exit, or because main never assigned it.           *)
(***************************************************************************)
EXTENDS Mysh, FiniteSetTheorems, SequenceTheorems, WellFoundedInduction, TLAPS

\* A set of natural numbers that is not empty has a least element.
LEMMA Least ==
  ASSUME NEW U, U \subseteq Nat, U # {}
  PROVE  \E m \in U : \A n \in U : m <= n
  <1>1. PICK m \in U : \A n \in U : ~(<<n, m>> \in OpToRel(<, Nat))
    BY NatLessThanWellFounded, WFMin
  <1>2. \A n \in U : ~(n < m)
    BY <1>1 DEF OpToRel
  <1>3. QED
    BY <1>2

\* Induction over the positions of a sequence.
LEMMA Induction ==
  ASSUME NEW N \in Nat, NEW T, 0 \in T, \A n \in 0 .. N - 1 : n \in T => n + 1 \in T
  PROVE  0..N \subseteq T
  <1> SUFFICES ASSUME 0..N \ T # {} PROVE FALSE
    OBVIOUS
  <1> DEFINE U == 0..N \ T
  <1>1. PICK m \in U : \A n \in U : m <= n
    <2>1. U \subseteq Nat /\ U # {}
      OBVIOUS
    <2> HIDE DEF U
    <2>2. QED
      BY <2>1, Least
  <1>2. m # 0 /\ m - 1 \in 0 .. N - 1 /\ m - 1 < m
    OBVIOUS
  <1>3. m - 1 \in T
    BY <1>1, <1>2
  <1>4. QED
    BY <1>2, <1>3

-----------------------------------------------------------------------------
(* strtok                                                                  *)

Nothing == [tokens |-> <<>>, open |-> FALSE]

\* The scan of a line satisfies the equation that defines it.
LEMMA ScanEquation ==
  ASSUME NEW s, NEW d, Len(s) \in Nat
  PROVE  /\ Scan(s, d)[0] = Nothing
         /\ \A k \in 1..Len(s) : Scan(s, d)[k] = StrtokStep(Scan(s, d)[k - 1], s[k], d)
  <1> DEFINE Is(f, m) == f = [k \in 0..m |-> IF k = 0 THEN [tokens |-> <<>>, open |-> FALSE]
                                             ELSE StrtokStep(f[k - 1], s[k], d)]
             T == {m \in 0..Len(s) : \E f : Is(f, m)}
  <1>1. 0 \in T
    <2> DEFINE g == [k \in 0..0 |-> [tokens |-> <<>>, open |-> FALSE]]
    <2>1. Is(g, 0)
      <3>1. \A k \in 0..0 : k = 0
        OBVIOUS
      <3>2. QED
        BY <3>1, Zenon
    <2> HIDE DEF g, Is
    <2>2. 0 \in 0..Len(s)
      OBVIOUS
    <2>3. QED
      BY <2>1, <2>2
  <1>2. ASSUME NEW m \in 0 .. Len(s) - 1, m \in T PROVE m + 1 \in T
    <2>1. PICK f : Is(f, m)
      BY <1>2
    <2> DEFINE g == [k \in 0 .. m + 1 |-> IF k = m + 1 THEN StrtokStep(f[m], s[m + 1], d) ELSE f[k]]
    <2>2. \A k \in 0 .. m + 1 : g[k] = IF k = 0 THEN [tokens |-> <<>>, open |-> FALSE]
                                      ELSE StrtokStep(g[k - 1], s[k], d)
      <3> TAKE k \in 0 .. m + 1
      <3>1. CASE k = m + 1
        BY <3>1
      <3>2. CASE k # m + 1
        <4>1. k \in 0..m /\ g[k] = f[k] /\ (k # 0 => g[k - 1] = f[k - 1])
          BY <3>2
        <4>2. f[k] = IF k = 0 THEN [tokens |-> <<>>, open |-> FALSE]
                     ELSE StrtokStep(f[k - 1], s[k], d)
          BY <2>1, <4>1
        <4>3. QED
          BY <4>1, <4>2
      <3>3. QED
        BY <3>1, <3>2
    <2>3. Is(g, m + 1)
      BY <2>2
    <2> HIDE DEF g, Is
    <2>4. m + 1 \in 0..Len(s)
      OBVIOUS
    <2>5. QED
      BY <2>3, <2>4
  <1>3. \E f : Is(f, Len(s))
    <2> HIDE DEF T
    <2>1. 0..Len(s) \subseteq T
      BY <1>1, <1>2, Induction
    <2>2. QED
      BY <2>1 DEF T
  <1>4. Scan(s, d) = CHOOSE f : Is(f, Len(s))
    BY DEF Scan
  <1>5. Is(Scan(s, d), Len(s))
    <2> HIDE DEF Is
    <2>1. QED
      BY <1>3, <1>4
  <1>6. 0 \in 0..Len(s) /\ \A k \in 1..Len(s) : k \in 0..Len(s) /\ k # 0
    OBVIOUS
  <1>7. \A k \in 0..Len(s) : Scan(s, d)[k] = IF k = 0 THEN [tokens |-> <<>>, open |-> FALSE]
                                             ELSE StrtokStep(Scan(s, d)[k - 1], s[k], d)
    BY <1>5, Zenon
  <1>8. QED
    BY <1>6, <1>7 DEF Nothing

\* What Append does to a sequence.
LEMMA Appended ==
  ASSUME NEW S, NEW q \in Seq(S), NEW e \in S
  PROVE  /\ Append(q, e) \in Seq(S) /\ Append(q, e) # <<>>
         /\ Len(Append(q, e)) = Len(q) + 1 /\ Len(q) \in Nat
         /\ Append(q, e)[Len(q) + 1] = e
         /\ \A k \in 1 .. Len(q) : Append(q, e)[k] = q[k] /\ q[k] \in S
  OBVIOUS

\* Words are not empty.
Words(X) == Seq(X) \ {<<>>}
Scans(X) == [tokens : Seq(Words(X)), open : BOOLEAN]

\* What a character does to the tokens.
LEMMA StepFacts ==
  ASSUME NEW X, NEW acc \in Scans(X), acc.open => acc.tokens # <<>>, NEW c \in X, NEW d,
         NEW r, r = StrtokStep(acc, c, d)
  PROVE  /\ r \in Scans(X) /\ (r.open <=> c # d) /\ (r.open => r.tokens # <<>>)
         /\ c = d => r.tokens = acc.tokens
         /\ c # d /\ acc.open =>
               /\ Len(acc.tokens) \in Nat \ {0} /\ Len(r.tokens) = Len(acc.tokens)
               /\ r.tokens[Len(acc.tokens)] = Append(acc.tokens[Len(acc.tokens)], c)
               /\ \A i \in 1 .. Len(acc.tokens) - 1 : r.tokens[i] = acc.tokens[i]
         /\ c # d /\ ~acc.open => r.tokens = Append(acc.tokens, <<c>>)
  <1> DEFINE t == acc.tokens
             n == Len(t)
  <1>0. t \in Seq(Words(X)) /\ acc.open \in BOOLEAN
    BY DEF Scans
  <1>1. CASE c = d
    <2>1. r = [acc EXCEPT !.open = FALSE]
      BY <1>1 DEF StrtokStep
    <2>2. r \in Scans(X) /\ r.open = FALSE /\ r.tokens = t
      BY <2>1 DEF Scans
    <2>3. QED
      BY <1>1, <2>2
  <1>2. CASE c # d /\ acc.open
    <2>1. n \in Nat \ {0} /\ n \in 1..n /\ t[n] \in Words(X)
      BY <1>0, <1>2
    <2>2. r = [tokens |-> [t EXCEPT ![n] = Append(t[n], c)], open |-> acc.open]
      <3>1. r = [acc EXCEPT !.tokens = [acc.tokens EXCEPT ![n] = Append(t[n], c)]]
        BY <1>2 DEF StrtokStep
      <3>2. QED
        BY <3>1 DEF Scans
    <2>3. Append(t[n], c) \in Words(X)
      <3>1. t[n] \in Seq(X)
        BY <2>1 DEF Words
      <3>2. Append(t[n], c) \in Seq(X) /\ Append(t[n], c) # <<>>
        BY <3>1
      <3>3. QED
        BY <3>2 DEF Words
    <2>4. /\ [t EXCEPT ![n] = Append(t[n], c)] \in Seq(Words(X))
          /\ Len([t EXCEPT ![n] = Append(t[n], c)]) = n
          /\ [t EXCEPT ![n] = Append(t[n], c)][n] = Append(t[n], c)
          /\ \A i \in 1 .. n - 1 : [t EXCEPT ![n] = Append(t[n], c)][i] = t[i]
      BY <1>0, <2>1, <2>3
    <2> HIDE DEF t, n
    <2>5. r \in Scans(X) /\ r.open = TRUE /\ r.tokens = [t EXCEPT ![n] = Append(t[n], c)]
      BY <1>2, <2>2, <2>4 DEF Scans
    <2>6. r.tokens # <<>>
      BY <2>1, <2>4, <2>5
    <2>7. QED
      BY <1>2, <2>1, <2>4, <2>5, <2>6 DEF t, n
  <1>3. CASE c # d /\ ~acc.open
    <2>1. r = [tokens |-> Append(t, <<c>>), open |-> TRUE]
      BY <1>3 DEF StrtokStep
    <2>2. <<c>> \in Words(X)
      BY DEF Words
    <2>3. Append(t, <<c>>) \in Seq(Words(X)) /\ Append(t, <<c>>) # <<>>
      <3> DEFINE w == <<c>>
      <3>1. w \in Words(X)
        BY <2>2
      <3> HIDE DEF w, t
      <3>2. Append(t, w) \in Seq(Words(X)) /\ Append(t, w) # <<>>
        BY <1>0, <3>1, Appended
      <3>3. QED
        BY <3>2 DEF w, t
    <2>4. QED
      BY <1>3, <2>1, <2>3 DEF Scans
  <1>4. QED
    BY <1>0, <1>1, <1>2, <1>3

\* Where runs begin among the first k characters, and how many do.
StartsIn(s, d, k) == {i \in 1..k : s[i] # d /\ (i = 1 \/ s[i - 1] = d)}
Number(s, d, k) == Cardinality(StartsIn(s, d, k))

\* s[i] .. s[j] is a run of the first k characters.
IsRunIn(s, d, k, i, j) ==
    /\ i \in StartsIn(s, d, k) /\ j \in i..k
    /\ \A m \in i..j : s[m] # d
    /\ j = k \/ s[j + 1] = d

\* How the number of runs grows with the characters read.
LEMMA Numbers ==
  ASSUME NEW s, NEW d, NEW k \in Nat
  PROVE  /\ IsFiniteSet(StartsIn(s, d, k)) /\ Number(s, d, k) \in Nat
         /\ s[k + 1] = d \/ (k > 0 /\ s[k] # d) =>
               /\ StartsIn(s, d, k + 1) = StartsIn(s, d, k)
               /\ Number(s, d, k + 1) = Number(s, d, k)
         /\ s[k + 1] # d /\ (k = 0 \/ s[k] = d) =>
               /\ StartsIn(s, d, k + 1) = StartsIn(s, d, k) \cup {k + 1}
               /\ Number(s, d, k + 1) = Number(s, d, k) + 1
  <1>1. IsFiniteSet(StartsIn(s, d, k))
    <2>1. IsFiniteSet(1..k)
      BY FS_Interval
    <2>2. StartsIn(s, d, k) \in SUBSET (1..k)
      BY DEF StartsIn
    <2>3. QED
      BY <2>1, <2>2, FS_Subset
  <1>2. Number(s, d, k) \in Nat
    BY <1>1, FS_CardinalityType DEF Number
  <1>3. ASSUME s[k + 1] = d \/ (k > 0 /\ s[k] # d)
        PROVE  StartsIn(s, d, k + 1) = StartsIn(s, d, k) /\ Number(s, d, k + 1) = Number(s, d, k)
    <2>1. StartsIn(s, d, k + 1) = StartsIn(s, d, k)
      <3>1. \A i \in 1 .. k + 1 : i \in 1..k \/ i = k + 1
        OBVIOUS
      <3>2. ~(s[k + 1] # d /\ (k + 1 = 1 \/ s[k + 1 - 1] = d))
        BY <1>3
      <3>3. QED
        BY <3>1, <3>2 DEF StartsIn
    <2>2. QED
      BY <2>1 DEF Number
  <1>4. ASSUME s[k + 1] # d, k = 0 \/ s[k] = d
        PROVE  /\ StartsIn(s, d, k + 1) = StartsIn(s, d, k) \cup {k + 1}
               /\ Number(s, d, k + 1) = Number(s, d, k) + 1
    <2>1. StartsIn(s, d, k + 1) = StartsIn(s, d, k) \cup {k + 1}
      <3>1. \A i : i \in 1 .. k + 1 <=> i \in 1..k \/ i = k + 1
        OBVIOUS
      <3>2. s[k + 1] # d /\ (k + 1 = 1 \/ s[k + 1 - 1] = d)
        BY <1>4
      <3>3. QED
        BY <3>1, <3>2 DEF StartsIn
    <2>2. k + 1 \notin StartsIn(s, d, k)
      BY DEF StartsIn
    <2>3. QED
      BY <1>1, <2>1, <2>2, FS_AddElement DEF Number
  <1>5. QED
    BY <1>1, <1>2, <1>3, <1>4

\* Runs are numbered in their order.
LEMMA NumbersGrow ==
  ASSUME NEW s, NEW d, NEW k \in Nat, NEW i \in StartsIn(s, d, k)
  PROVE  /\ i \in 1..k /\ i \in StartsIn(s, d, i) /\ Number(s, d, i) \in 1 .. Number(s, d, k)
         /\ {q \in StartsIn(s, d, k) : q <= i} = StartsIn(s, d, i)
         /\ \A j \in 1..k : j > i /\ j \in StartsIn(s, d, k) => Number(s, d, i) < Number(s, d, j)
  <1>1. i \in 1..k /\ i \in StartsIn(s, d, i)
    BY DEF StartsIn
  <1>2. \A j \in i..k : StartsIn(s, d, i) \subseteq StartsIn(s, d, j) /\ IsFiniteSet(StartsIn(s, d, j))
    <2> SUFFICES ASSUME NEW j \in i..k
                 PROVE  StartsIn(s, d, i) \subseteq StartsIn(s, d, j) /\ IsFiniteSet(StartsIn(s, d, j))
      OBVIOUS
    <2>1. StartsIn(s, d, i) \subseteq StartsIn(s, d, j)
      BY <1>1 DEF StartsIn
    <2>2. j \in Nat
      BY <1>1
    <2>3. QED
      BY <2>1, <2>2, Numbers
  <1>3. \A j \in i..k : Number(s, d, i) <= Number(s, d, j)
    BY <1>2, FS_Subset DEF Number
  <1>4. Number(s, d, i) \in Nat \ {0}
    <2>1. Number(s, d, i) \in Nat
      BY <1>1, Numbers
    <2>2. Number(s, d, i) # 0
      BY <1>1, <1>2, FS_EmptySet DEF Number
    <2>3. QED
      BY <2>1, <2>2
  <1>5. {q \in StartsIn(s, d, k) : q <= i} = StartsIn(s, d, i)
    BY <1>1 DEF StartsIn
  <1>6. ASSUME NEW j \in 1..k, j > i, j \in StartsIn(s, d, k)
        PROVE  Number(s, d, i) < Number(s, d, j)
    <2>1. j \in i..k /\ j \in StartsIn(s, d, j) /\ j \notin StartsIn(s, d, i)
      BY <1>1, <1>6 DEF StartsIn
    <2>2. Number(s, d, i) # Number(s, d, j)
      BY <1>2, <2>1, FS_Subset DEF Number
    <2>3. Number(s, d, i) \in Nat /\ Number(s, d, j) \in Nat
      BY <1>1, Numbers
    <2>4. QED
      BY <1>3, <2>1, <2>2, <2>3
  <1>7. Number(s, d, k) \in Nat
    BY Numbers
  <1>8. QED
    BY <1>1, <1>3, <1>4, <1>5, <1>6, <1>7

\* A piece of a line with the next character.
LEMMA PieceGrows ==
  ASSUME NEW X, NEW s \in Seq(X), NEW k \in 1 .. Len(s) - 1, NEW i \in 1..k
  PROVE  SubSeq(s, i, k + 1) = Append(SubSeq(s, i, k), s[k + 1])
  <1>1. SubSeq(s, i, k + 1) = SubSeq(s, i, k) \o <<s[k + 1]>>
    <2>1. i \in 1..Len(s) /\ k + 1 \in i..Len(s) /\ k + 1 - 1 = k
      OBVIOUS
    <2>2. QED
      BY <2>1, SubSeqRecursiveSecond
  <1>2. SubSeq(s, i, k) \in Seq(X)
    <2>1. \A m \in i..k : s[m] \in X
      OBVIOUS
    <2>2. QED
      BY <2>1, SubSeqProperties
  <1>3. QED
    BY <1>1, <1>2

\* What the scan of the first k characters tells: the tokens are their runs, in order,
\* and the last one is open if its run goes on to the end.
Scanned(s, d, X, k) ==
    LET acc == Scan(s, d)[k] IN
    /\ acc \in Scans(X)
    /\ acc.open <=> k > 0 /\ s[k] # d
    /\ acc.open => \E i \in StartsIn(s, d, k) : \A m \in i..k : s[m] # d
    /\ Len(acc.tokens) = Number(s, d, k)
    /\ \A i \in 1..k : \A j \in i..k :
          IsRunIn(s, d, k, i, j) => acc.tokens[Number(s, d, i)] = SubSeq(s, i, j)

LEMMA ScannedStep ==
  ASSUME NEW X, NEW s \in Seq(X), NEW d, NEW k \in 0 .. Len(s) - 1, Scanned(s, d, X, k)
  PROVE  Scanned(s, d, X, k + 1)
  <1> DEFINE acc == Scan(s, d)[k]
             r == Scan(s, d)[k + 1]
             c == s[k + 1]
             n == Number(s, d, k)
  <1>1. /\ acc \in Scans(X) /\ (acc.open <=> k > 0 /\ s[k] # d)
        /\ acc.open => \E i \in StartsIn(s, d, k) : \A m \in i..k : s[m] # d
        /\ Len(acc.tokens) = n
        /\ \A i \in 1..k : \A j \in i..k :
              IsRunIn(s, d, k, i, j) => acc.tokens[Number(s, d, i)] = SubSeq(s, i, j)
    BY DEF Scanned
  <1>2. k \in Nat /\ k + 1 \in 1..Len(s) /\ c \in X /\ n \in Nat /\ Len(s) \in Nat /\ c = s[k + 1]
    BY Numbers
  <1>3. r = StrtokStep(acc, c, d)
    <2>1. k + 1 - 1 = k
      BY <1>2
    <2>2. QED
      BY <1>2, <2>1, ScanEquation
  <1>4. acc.open => acc.tokens # <<>> /\ n > 0
    <2>1. ASSUME acc.open PROVE n > 0
      <3>1. PICK i \in StartsIn(s, d, k) : TRUE
        BY <1>1, <2>1
      <3>2. QED
        BY <1>2, <3>1, NumbersGrow
    <2>2. Len(<<>>) = 0
      OBVIOUS
    <2>3. QED
      BY <1>1, <1>2, <2>1, <2>2
  <1> HIDE DEF acc, r, n, c
  <1>5. /\ r \in Scans(X) /\ (r.open <=> c # d) /\ (r.open => r.tokens # <<>>)
        /\ c = d => r.tokens = acc.tokens
        /\ c # d /\ acc.open =>
              /\ Len(acc.tokens) \in Nat \ {0} /\ Len(r.tokens) = Len(acc.tokens)
              /\ r.tokens[Len(acc.tokens)] = Append(acc.tokens[Len(acc.tokens)], c)
              /\ \A i \in 1 .. Len(acc.tokens) - 1 : r.tokens[i] = acc.tokens[i]
        /\ c # d /\ ~acc.open => r.tokens = Append(acc.tokens, <<c>>)
    <2>1. acc \in Scans(X) /\ (acc.open => acc.tokens # <<>>) /\ c \in X /\ r = StrtokStep(acc, c, d)
      BY <1>1, <1>2, <1>3, <1>4
    <2>2. QED
      BY <2>1, StepFacts
  <1>6. \A i, j : IsRunIn(s, d, k + 1, i, j) /\ j <= k /\ i <= k => IsRunIn(s, d, k, i, j) /\ s[j + 1] = d
    BY <1>2 DEF IsRunIn, StartsIn
  <1> DEFINE Goal ==
               /\ r.open => \E i \in StartsIn(s, d, k + 1) : \A m \in i .. k + 1 : s[m] # d
               /\ Len(r.tokens) = Number(s, d, k + 1)
               /\ \A i \in 1 .. k + 1 : \A j \in i .. k + 1 :
                     IsRunIn(s, d, k + 1, i, j) => r.tokens[Number(s, d, i)] = SubSeq(s, i, j)
  <1>7. ASSUME c = d PROVE Goal
    <2>1. StartsIn(s, d, k + 1) = StartsIn(s, d, k) /\ Number(s, d, k + 1) = n
      <3>1. s[k + 1] = d
        BY <1>2, <1>7
      <3>2. QED
        BY <1>2, <3>1, Numbers DEF n
    <2>2. r.tokens = acc.tokens /\ ~r.open
      BY <1>5, <1>7
    <2>3. ASSUME NEW i \in 1 .. k + 1, NEW j \in i .. k + 1, IsRunIn(s, d, k + 1, i, j)
          PROVE  r.tokens[Number(s, d, i)] = SubSeq(s, i, j)
      <3>1. j <= k /\ i <= k
        BY <1>2, <1>7, <2>3 DEF IsRunIn, c
      <3>2. i \in 1..k /\ j \in i..k /\ IsRunIn(s, d, k, i, j)
        BY <1>2, <1>6, <2>3, <3>1
      <3>3. QED
        BY <1>1, <2>2, <3>2
    <2>4. QED
      BY <1>1, <2>1, <2>2, <2>3
  <1>8. ASSUME c # d /\ acc.open PROVE Goal
    <2>1. k > 0 /\ s[k] # d /\ StartsIn(s, d, k + 1) = StartsIn(s, d, k) /\ Number(s, d, k + 1) = n
      BY <1>1, <1>2, <1>8, Numbers DEF n
    <2>2. PICK o \in StartsIn(s, d, k) : \A m \in o..k : s[m] # d
      BY <1>1, <1>8
    <2>3. o \in 1..k /\ o \in StartsIn(s, d, k + 1) /\ \A m \in o .. k + 1 : s[m] # d
      BY <1>2, <1>8, <2>1, <2>2 DEF StartsIn
    <2>4. /\ n \in Nat \ {0} /\ Len(r.tokens) = n
          /\ r.tokens[n] = Append(acc.tokens[n], c)
          /\ \A i \in 1 .. n - 1 : r.tokens[i] = acc.tokens[i]
      BY <1>1, <1>5, <1>8
    <2>5. \A i \in StartsIn(s, d, k) : i <= o
      <3> SUFFICES ASSUME NEW i \in StartsIn(s, d, k), i > o PROVE FALSE
        BY <2>3 DEF StartsIn
      <3>1. i \in 1..k /\ i - 1 \in o..k /\ s[i - 1] = d
        BY <2>3 DEF StartsIn
      <3>2. QED
        BY <2>2, <3>1
    <2>6. Number(s, d, o) = n
      <3>1. {q \in StartsIn(s, d, k) : q <= o} = StartsIn(s, d, k)
        BY <2>5
      <3>2. {q \in StartsIn(s, d, k) : q <= o} = StartsIn(s, d, o)
        BY <1>2, <2>2, NumbersGrow
      <3>3. QED
        BY <3>1, <3>2 DEF Number, n
    <2>7. ASSUME NEW i \in 1 .. k + 1, NEW j \in i .. k + 1, IsRunIn(s, d, k + 1, i, j)
          PROVE  r.tokens[Number(s, d, i)] = SubSeq(s, i, j)
      <3>1. i \in StartsIn(s, d, k) /\ i \in 1..k
        BY <2>1, <2>7 DEF IsRunIn, StartsIn
      <3>2. CASE i = o
        <4>1. j = k + 1
          <5>1. \A m \in i .. k + 1 : s[m] # d
            BY <2>3, <3>2
          <5>2. j = k + 1 \/ s[j + 1] = d
            BY <2>7 DEF IsRunIn
          <5>3. QED
            BY <1>2, <5>1, <5>2
        <4>2. IsRunIn(s, d, k, i, k)
          BY <2>2, <2>3, <3>1, <3>2 DEF IsRunIn
        <4>3. acc.tokens[n] = SubSeq(s, i, k)
          BY <1>1, <2>6, <3>1, <3>2, <4>2
        <4>4. SubSeq(s, i, k + 1) = Append(SubSeq(s, i, k), c)
          <5>1. k \in 1 .. Len(s) - 1
            BY <1>2, <2>1
          <5>2. QED
            BY <1>2, <3>1, <5>1, PieceGrows
        <4>5. QED
          BY <2>4, <2>6, <3>2, <4>1, <4>3, <4>4
      <3>3. CASE i # o
        <4>1. i < o
          BY <2>3, <2>5, <3>1, <3>3
        <4>2. Number(s, d, i) \in 1 .. n - 1
          <5>1. Number(s, d, i) < Number(s, d, o) /\ Number(s, d, i) \in 1..n
            BY <1>2, <2>2, <2>3, <3>1, <4>1, NumbersGrow DEF n
          <5>2. QED
            BY <2>4, <2>6, <5>1
        <4>3. j <= k
          <5>1. j # k + 1
            <6>1. o - 1 \in i .. k + 1 /\ s[o - 1] = d
              BY <1>2, <2>2, <2>3, <4>1, <3>1 DEF StartsIn
            <6>2. QED
              BY <2>7, <6>1 DEF IsRunIn
          <5>2. QED
            BY <5>1
        <4>4. j \in i..k /\ IsRunIn(s, d, k, i, j)
          BY <1>6, <2>7, <3>1, <4>3
        <4>5. QED
          BY <1>1, <2>4, <3>1, <4>2, <4>4
      <3>4. QED
        BY <3>2, <3>3
    <2>8. QED
      BY <2>1, <2>3, <2>4, <2>7
  <1>9. ASSUME c # d /\ ~acc.open PROVE Goal
    <2>1. (k = 0 \/ s[k] = d) /\ StartsIn(s, d, k + 1) = StartsIn(s, d, k) \cup {k + 1}
          /\ Number(s, d, k + 1) = n + 1
      BY <1>1, <1>2, <1>9, Numbers DEF n
    <2>2. r.tokens = Append(acc.tokens, <<c>>) /\ acc.tokens \in Seq(Words(X)) /\ <<c>> \in Words(X)
      BY <1>1, <1>2, <1>5, <1>9 DEF Scans, Words
    <2>3. /\ Len(r.tokens) = n + 1 /\ r.tokens[n + 1] = <<c>>
          /\ \A i \in 1..n : r.tokens[i] = acc.tokens[i]
      <3> DEFINE w == <<c>>
      <3>1. r.tokens = Append(acc.tokens, w) /\ w \in Words(X) /\ w = <<c>>
        BY <2>2
      <3> HIDE DEF w
      <3>2. QED
        BY <1>1, <2>2, <3>1, Appended
    <2>4. ASSUME NEW i \in 1 .. k + 1, NEW j \in i .. k + 1, IsRunIn(s, d, k + 1, i, j)
          PROVE  r.tokens[Number(s, d, i)] = SubSeq(s, i, j)
      <3>1. CASE i = k + 1
        <4>1. j = k + 1 /\ s[k + 1] \in X
          BY <1>2, <3>1
        <4>2. SubSeq(s, k + 1, k + 1) = <<s[k + 1]>>
          <5>1. SubSeq(s, k + 1, k + 1) = SubSeq(s, k + 1, k + 1 - 1) \o <<s[k + 1]>>
            BY <1>2, SubSeqRecursiveSecond
          <5>2. SubSeq(s, k + 1, k + 1 - 1) = <<>>
            BY <1>2, SubSeqEmpty
          <5>3. <<>> \o <<s[k + 1]>> = <<s[k + 1]>>
            OBVIOUS
          <5>4. QED
            BY <5>1, <5>2, <5>3
        <4>3. Number(s, d, i) = n + 1
          BY <2>1, <3>1
        <4>4. QED
          BY <1>2, <2>3, <3>1, <4>1, <4>2, <4>3
      <3>2. CASE i # k + 1
        <4>1. i \in 1..k /\ i \in StartsIn(s, d, k)
          BY <1>2, <2>4, <3>2 DEF IsRunIn, StartsIn
        <4>2. j <= k
          BY <1>2, <2>1, <2>4, <4>1 DEF IsRunIn
        <4>3. j \in i..k /\ IsRunIn(s, d, k, i, j)
          BY <1>2, <1>6, <2>4, <4>1, <4>2
        <4>4. Number(s, d, i) \in 1..n
          BY <1>2, <4>1, NumbersGrow DEF n
        <4>5. QED
          BY <1>1, <2>3, <4>1, <4>3, <4>4
      <3>3. QED
        BY <3>1, <3>2
    <2>5. k + 1 \in StartsIn(s, d, k + 1) /\ \A m \in k + 1 .. k + 1 : s[m] # d
      BY <1>2, <1>9, <2>1
    <2>6. QED
      BY <2>1, <2>3, <2>4, <2>5
  <1>10. Goal
    <2> HIDE DEF Goal
    <2>1. acc.open \in BOOLEAN
      BY <1>1 DEF Scans
    <2>2. QED
      BY <1>7, <1>8, <1>9
  <1>11. r.open <=> k + 1 > 0 /\ s[k + 1] # d
    BY <1>2, <1>5
  <1>12. QED
    BY <1>5, <1>10, <1>11 DEF Scanned, r

LEMMA ScannedAlways ==
  ASSUME NEW X, NEW s \in Seq(X), NEW d
  PROVE  \A k \in 0..Len(s) : Scanned(s, d, X, k)
  <1> DEFINE T == {k \in 0..Len(s) : Scanned(s, d, X, k)}
  <1>1. Len(s) \in Nat
    OBVIOUS
  <1>2. 0 \in T
    <2>1. Scan(s, d)[0] = [tokens |-> <<>>, open |-> FALSE]
      BY <1>1, ScanEquation DEF Nothing
    <2>2. StartsIn(s, d, 0) = {} /\ Number(s, d, 0) = 0
      BY FS_EmptySet DEF StartsIn, Number
    <2>3. [tokens |-> <<>>, open |-> FALSE] \in Scans(X)
      BY DEF Scans
    <2>4. Scanned(s, d, X, 0)
      BY <2>1, <2>2, <2>3 DEF Scanned
    <2>5. QED
      BY <1>1, <2>4
  <1>3. ASSUME NEW k \in 0 .. Len(s) - 1, k \in T PROVE k + 1 \in T
    BY <1>1, <1>3, ScannedStep
  <1> HIDE DEF T
  <1>4. 0..Len(s) \subseteq T
    BY <1>1, <1>2, <1>3, Induction
  <1>5. QED
    BY <1>4 DEF T

\* strtok returns the maximal runs of other characters than the delimiter, in order and
\* none of them empty, whatever the line (lines 142-150, 315-324 of myshHeader.h).
THEOREM StrtokListsRuns ==
  ASSUME NEW X, NEW s \in Seq(X), NEW d
  PROVE  Strtok(s, d) \in Seq(Words(X)) /\ ListsRuns(Strtok(s, d), s, d)
  <1> DEFINE n == Len(s)
  <1>1. n \in Nat /\ Scanned(s, d, X, n)
    BY ScannedAlways
  <1>2. StartsIn(s, d, n) = Starts(s, d)
    BY DEF Starts, StartsIn
  <1>3. Strtok(s, d) \in Seq(Words(X)) /\ Len(Strtok(s, d)) = Cardinality(Starts(s, d))
    BY <1>1, <1>2 DEF Scanned, Scans, Strtok, Number
  <1>4. ASSUME NEW i \in Starts(s, d), NEW j \in i..n, IsRun(s, d, i, j)
        PROVE  Strtok(s, d)[Cardinality({q \in Starts(s, d) : q <= i})] = SubSeq(s, i, j)
    <2>1. i \in 1..n /\ IsRunIn(s, d, n, i, j)
      BY <1>2, <1>4 DEF IsRun, IsRunIn, Starts
    <2>2. Cardinality({q \in Starts(s, d) : q <= i}) = Number(s, d, i)
      <3>1. {q \in StartsIn(s, d, n) : q <= i} = StartsIn(s, d, i)
        BY <1>1, <1>2, NumbersGrow
      <3>2. QED
        BY <1>2, <3>1 DEF Number
    <2>3. QED
      BY <1>1, <2>1, <2>2 DEF Scanned, Strtok
  <1>5. QED
    BY <1>3, <1>4 DEF ListsRuns

\* A character that is no delimiter belongs to a run.
LEMMA RunBefore ==
  ASSUME NEW X, NEW s \in Seq(X), NEW d, NEW k \in 1..Len(s), s[k] # d
  PROVE  \E i \in Starts(s, d) : i <= k /\ \A m \in i..k : s[m] # d
  <1>1. Len(s) \in Nat /\ k \in 0..Len(s) /\ Scanned(s, d, X, k)
    BY ScannedAlways
  <1>2. PICK i \in StartsIn(s, d, k) : \A m \in i..k : s[m] # d
    BY <1>1 DEF Scanned
  <1>3. i \in Starts(s, d) /\ i <= k
    BY <1>1, <1>2 DEF StartsIn, Starts
  <1>4. QED
    BY <1>2, <1>3

\* A run that begins ends.
LEMMA RunEnds ==
  ASSUME NEW X, NEW s \in Seq(X), NEW d, NEW i \in Starts(s, d)
  PROVE  \E j \in i..Len(s) : IsRun(s, d, i, j)
  <1> DEFINE U == {j \in i..Len(s) : j = Len(s) \/ s[j + 1] = d}
  <1>1. Len(s) \in Nat /\ i \in 1..Len(s) /\ s[i] # d
    BY DEF Starts
  <1>2. U \subseteq Nat /\ Len(s) \in U
    BY <1>1
  <1>3. PICK j \in U : \A k \in U : j <= k
    <2> HIDE DEF U
    <2>1. QED
      BY <1>2, Least
  <1>4. ASSUME NEW m \in i..j, s[m] = d PROVE FALSE
    <2>1. m # i /\ m - 1 \in i..Len(s) /\ m - 1 + 1 = m
      BY <1>1, <1>3, <1>4
    <2>2. m - 1 \in U
      BY <1>4, <2>1
    <2>3. j <= m - 1
      BY <1>3, <2>2
    <2>4. m \in Int /\ j \in Int /\ m <= j
      BY <1>1
    <2>5. QED
      BY <2>3, <2>4
  <1>5. QED
    BY <1>3, <1>4 DEF IsRun

\* Starts is a finite set.
LEMMA StartsFinite ==
  ASSUME NEW X, NEW s \in Seq(X), NEW d
  PROVE  IsFiniteSet(Starts(s, d))
  <1>1. StartsIn(s, d, Len(s)) = Starts(s, d)
    BY DEF Starts, StartsIn
  <1>2. QED
    BY <1>1, Numbers

\* No token: nothing but delimiters.
LEMMA NoToken ==
  ASSUME NEW X, NEW s \in Seq(X), NEW d, Strtok(s, d) = <<>>
  PROVE  \A k \in 1..Len(s) : s[k] = d
  <1>1. Len(<<>>) = 0
    OBVIOUS
  <1>2. Cardinality(Starts(s, d)) = 0
    BY <1>1, StrtokListsRuns DEF ListsRuns
  <1>3. Starts(s, d) = {}
    BY <1>2, StartsFinite, FS_EmptySet
  <1>4. QED
    BY <1>3, RunBefore

\* One token of one character: there is no other but delimiters.
LEMMA OneToken ==
  ASSUME NEW X, NEW s \in Seq(X), NEW d, NEW c, Len(Strtok(s, d)) = 1, Strtok(s, d)[1] = <<c>>
  PROVE  \E i \in 1..Len(s) : s[i] = c /\ \A k \in 1..Len(s) : k # i => s[k] = d
  <1>1. ListsRuns(Strtok(s, d), s, d) /\ IsFiniteSet(Starts(s, d)) /\ Len(s) \in Nat
    BY StrtokListsRuns, StartsFinite
  <1>2. PICK i : Starts(s, d) = {i}
    BY <1>1, FS_Singleton DEF ListsRuns
  <1>3. i \in Starts(s, d) /\ i \in 1..Len(s)
    BY <1>2 DEF Starts
  <1>4. PICK j \in i..Len(s) : IsRun(s, d, i, j)
    BY <1>3, RunEnds
  <1>5. Cardinality({q \in Starts(s, d) : q <= i}) = 1
    <2>1. {q \in Starts(s, d) : q <= i} = {i}
      BY <1>2, <1>3
    <2>2. QED
      BY <2>1, FS_Singleton
  <1>6. SubSeq(s, i, j) = <<c>>
    <2>1. Strtok(s, d)[Cardinality({q \in Starts(s, d) : q <= i})] = SubSeq(s, i, j)
      BY <1>1, <1>3, <1>4 DEF ListsRuns
    <2>2. QED
      BY <1>5, <2>1
  <1>7. j = i /\ s[i] = c
    <2>1. \A m \in i..j : s[m] \in X
      BY <1>3
    <2>2. /\ Len(SubSeq(s, i, j)) = j - i + 1
          /\ \A m \in 1 .. j - i + 1 : SubSeq(s, i, j)[m] = s[i + m - 1]
      BY <1>3, <2>1, SubSeqProperties
    <2>3. Len(<<c>>) = 1 /\ <<c>>[1] = c
      OBVIOUS
    <2>4. j - i + 1 = 1 /\ 1 \in 1 .. j - i + 1 /\ i + 1 - 1 = i
      BY <1>3, <1>6, <2>2, <2>3
    <2>5. SubSeq(s, i, j)[1] = s[i + 1 - 1]
      BY <2>2, <2>4
    <2>6. j = i
      BY <1>3, <2>4
    <2>7. QED
      BY <1>6, <2>3, <2>4, <2>5, <2>6
  <1>8. ASSUME NEW k \in 1..Len(s), k # i, s[k] # d PROVE FALSE
    <2>1. i <= k /\ \A m \in i..k : s[m] # d
      BY <1>2, <1>8, RunBefore
    <2>2. i + 1 \in i..k /\ i # Len(s)
      BY <1>3, <1>8, <2>1
    <2>3. s[i + 1] = d
      BY <1>4, <1>7, <2>2 DEF IsRun
    <2>4. QED
      BY <2>1, <2>2, <2>3
  <1>9. QED
    BY <1>3, <1>7, <1>8

\* The empty line has no token.
LEMMA EmptyLine == ASSUME NEW d PROVE Strtok(<<>>, d) = <<>>
  <1>1. Len(<<>>) = 0
    OBVIOUS
  <1>2. Scan(<<>>, d)[0] = Nothing
    BY <1>1, ScanEquation
  <1>3. QED
    BY <1>1, <1>2 DEF Strtok, Nothing

\* A delimiter in front changes nothing.
LEMMA DelimiterInFront ==
  ASSUME NEW X, NEW s \in Seq(X), s # <<>>, NEW d, s[1] = d
  PROVE  Strtok(Tail(s), d) = Strtok(s, d)
  <1> DEFINE t == Tail(s)
             T == {k \in 0..Len(t) : Scan(t, d)[k] = Scan(s, d)[k + 1]}
  <1>1. t \in Seq(X) /\ Len(s) \in Nat \ {0} /\ Len(t) = Len(s) - 1 /\ Len(t) \in Nat
        /\ \A k \in 1..Len(t) : t[k] = s[k + 1]
    BY HeadTailProperties
  <1> HIDE DEF t
  <1>2. 0 \in T
    <2>1. Scan(t, d)[0] = Nothing /\ Scan(s, d)[0] = Nothing
      BY <1>1, ScanEquation
    <2>2. 1 \in 1..Len(s) /\ 1 - 1 = 0
      BY <1>1
    <2>3. Scan(s, d)[1] = StrtokStep(Nothing, d, d)
      BY <1>1, <2>1, <2>2, ScanEquation
    <2>4. StrtokStep(Nothing, d, d) = Nothing
      BY DEF StrtokStep, Nothing
    <2>5. QED
      BY <1>1, <2>1, <2>3, <2>4
  <1>3. ASSUME NEW k \in 0 .. Len(t) - 1, k \in T PROVE k + 1 \in T
    <2>1. k + 1 \in 1..Len(t) /\ k + 2 \in 1..Len(s) /\ k + 1 - 1 = k /\ k + 2 - 1 = k + 1 /\ k + 1 + 1 = k + 2
      BY <1>1
    <2>2. Scan(t, d)[k + 1] = StrtokStep(Scan(t, d)[k], t[k + 1], d)
      BY <1>1, <2>1, ScanEquation
    <2>3. Scan(s, d)[k + 2] = StrtokStep(Scan(s, d)[k + 1], s[k + 2], d)
      BY <1>1, <2>1, ScanEquation
    <2>4. Scan(t, d)[k] = Scan(s, d)[k + 1] /\ t[k + 1] = s[k + 2]
      BY <1>1, <1>3, <2>1
    <2>5. QED
      BY <1>1, <2>1, <2>2, <2>3, <2>4
  <1>4. Len(t) \in T
    <2> HIDE DEF T
    <2>1. 0..Len(t) \subseteq T
      BY <1>1, <1>2, <1>3, Induction
    <2>2. QED
      BY <1>1, <2>1
  <1>5. Scan(t, d)[Len(t)] = Scan(s, d)[Len(s)]
    <2>1. Len(t) + 1 = Len(s)
      BY <1>1
    <2>2. QED
      BY <1>4, <2>1
  <1>6. QED
    BY <1>5 DEF Strtok, t

\* execPipe's two commands: what stands before the first bar, and behind the last one
\* without the space it begins with.
LEMMA PipelineTakenApart ==
  ASSUME NEW X, NEW s \in Seq(X), NEW k \in 2 .. Len(s) - 1, s[k] = Bar, s[k + 1] = Space
  PROVE  LET before == SubSeq(s, 1, k - 1)
             behind == SubSeq(s, k + 1, Len(s))
         IN /\ ~HasBar(before) => FirstCmd(s) = before
            /\ ~HasBar(behind) => Args(SecondCmd(s)) = Args(behind)
  <1> DEFINE n == Len(s)
             before == SubSeq(s, 1, k - 1)
             behind == SubSeq(s, k + 1, n)
             starts == Starts(s, Bar)
             tokens == Strtok(s, Bar)
  <1>1. n \in Nat /\ k \in 2 .. n - 1 /\ \A m \in 1..n : s[m] \in X
    OBVIOUS
  <1>2. tokens \in Seq(Words(X)) /\ ListsRuns(tokens, s, Bar) /\ IsFiniteSet(starts)
    BY StrtokListsRuns, StartsFinite
  <1>3. ASSUME ~HasBar(before) PROVE FirstCmd(s) = before
    <2>1. Len(before) = k - 1 /\ \A m \in 1 .. k - 1 : before[m] = s[m]
      <3>1. 1 <= k - 1 /\ (k - 1) - 1 + 1 = k - 1 /\ \A m \in 1 .. k - 1 : s[m] \in X /\ 1 + m - 1 = m
        BY <1>1
      <3>2. /\ Len(before) = (k - 1) - 1 + 1
            /\ \A m \in 1 .. (k - 1) - 1 + 1 : before[m] = s[1 + m - 1]
        BY <1>1, <3>1, SubSeqProperties
      <3>3. QED
        BY <3>1, <3>2
    <2>2. \A m \in 1 .. k - 1 : s[m] # Bar
      BY <1>3, <2>1 DEF HasBar
    <2>3. 1 \in starts /\ k - 1 \in 1..n /\ IsRun(s, Bar, 1, k - 1)
      BY <1>1, <2>2 DEF Starts, IsRun
    <2>4. {q \in starts : q <= 1} = {1}
      BY <1>1, <2>3 DEF Starts
    <2>5. tokens[1] = before
      BY <1>2, <2>3, <2>4, FS_Singleton DEF ListsRuns
    <2>6. Head(tokens) = tokens[1]
      OBVIOUS
    <2>7. QED
      BY <2>5, <2>6 DEF FirstCmd
  <1>4. ASSUME ~HasBar(behind) PROVE Args(SecondCmd(s)) = Args(behind)
    <2>1. /\ behind \in Seq(X) /\ Len(behind) = n - k
          /\ \A m \in 1 .. n - k : behind[m] = s[k + m]
      <3>1. k + 1 <= n /\ n - (k + 1) + 1 = n - k /\ \A m \in k + 1 .. n : s[m] \in X
        BY <1>1
      <3>2. \A m \in 1 .. n - k : k + 1 + m - 1 = k + m
        BY <1>1
      <3>3. /\ behind \in Seq(X) /\ Len(behind) = n - (k + 1) + 1
            /\ \A m \in 1 .. n - (k + 1) + 1 : behind[m] = s[k + 1 + m - 1]
        BY <1>1, <3>1, SubSeqProperties
      <3>4. QED
        BY <3>1, <3>2, <3>3
    <2>2. \A m \in k + 1 .. n : s[m] # Bar
      <3> SUFFICES ASSUME NEW m \in k + 1 .. n PROVE s[m] # Bar
        OBVIOUS
      <3>1. m - k \in 1 .. n - k /\ k + (m - k) = m
        BY <1>1
      <3>2. behind[m - k] = s[m]
        BY <2>1, <3>1
      <3>3. QED
        BY <1>4, <2>1, <3>1, <3>2 DEF HasBar
    <2>3. k + 1 \in starts /\ IsRun(s, Bar, k + 1, n) /\ n \in k + 1 .. n
      BY <1>1, <2>2 DEF Starts, IsRun
    <2>4. {q \in starts : q <= k + 1} = starts
      <3> SUFFICES ASSUME NEW q \in starts, q > k + 1 PROVE FALSE
        BY <1>1 DEF Starts
      <3>1. q - 1 \in k + 1 .. n /\ s[q - 1] = Bar
        BY <1>1 DEF Starts
      <3>2. QED
        BY <2>2, <3>1
    <2>5. tokens[Len(tokens)] = behind
      BY <1>2, <2>3, <2>4 DEF ListsRuns
    <2>6. behind # <<>> /\ behind[1] = Space
      <3> HIDE DEF behind, n
      <3>1. 1 \in 1 .. n - k /\ n - k # 0
        BY <1>1
      <3>2. behind[1] = s[k + 1]
        BY <2>1, <3>1
      <3>3. Len(<<>>) = 0
        OBVIOUS
      <3>4. behind # <<>>
        BY <2>1, <3>1, <3>3
      <3>5. QED
        BY <3>2, <3>4
    <2>7. SecondCmd(s) = Tail(behind)
      <3>1. Head(behind) = behind[1]
        OBVIOUS
      <3>2. QED
        BY <2>5, <2>6, <3>1 DEF SecondCmd, Last, DropFirstChar
    <2>8. QED
      BY <2>1, <2>6, <2>7, DelimiterInFront DEF Args
  <1>5. QED
    BY <1>3, <1>4

-----------------------------------------------------------------------------
(* The line as it is stored                                                *)

\* The read loop of mysh1 keeps characters of the line.
LEMMA DropSpacesType ==
  ASSUME NEW X, NEW s \in Seq(X)
  PROVE  DropSpaces(s) \in Seq(X)
  <1> DEFINE Is(f, m) == f = [k \in 0..m |-> IF k = 0 THEN <<>>
                                ELSE IF s[k] = Space THEN f[k - 1] ELSE Append(f[k - 1], s[k])]
             T == {m \in 0..Len(s) : \E f \in [0..m -> Seq(X)] : Is(f, m)}
  <1>1. Len(s) \in Nat
    OBVIOUS
  <1>2. 0 \in T
    <2> DEFINE g == [k \in 0..0 |-> <<>>]
    <2>1. Is(g, 0) /\ g \in [0..0 -> Seq(X)]
      <3>1. \A k \in 0..0 : k = 0
        OBVIOUS
      <3>2. <<>> \in Seq(X)
        OBVIOUS
      <3>3. QED
        BY <3>1, <3>2, Zenon
    <2> HIDE DEF g, Is
    <2>2. 0 \in 0..Len(s)
      BY <1>1
    <2>3. QED
      BY <2>1, <2>2
  <1>3. ASSUME NEW m \in 0 .. Len(s) - 1, m \in T PROVE m + 1 \in T
    <2>1. PICK f \in [0..m -> Seq(X)] : Is(f, m)
      BY <1>3
    <2> DEFINE last == IF s[m + 1] = Space THEN f[m] ELSE Append(f[m], s[m + 1])
               g == [k \in 0 .. m + 1 |-> IF k = m + 1 THEN last ELSE f[k]]
    <2>2. last \in Seq(X)
      <3>1. f[m] \in Seq(X) /\ s[m + 1] \in X
        BY <1>1
      <3>2. QED
        BY <3>1
    <2>3. g \in [0 .. m + 1 -> Seq(X)]
      <3> HIDE DEF last
      <3>1. \A k \in 0 .. m + 1 : k # m + 1 => k \in 0..m
        BY <1>1
      <3>2. QED
        BY <2>2, <3>1
    <2>4. \A k \in 0 .. m + 1 : g[k] = IF k = 0 THEN <<>>
                                ELSE IF s[k] = Space THEN g[k - 1] ELSE Append(g[k - 1], s[k])
      <3> TAKE k \in 0 .. m + 1
      <3>1. CASE k = m + 1
        <4>1. k # 0 /\ k - 1 = m /\ m \in 0 .. m + 1 /\ m # m + 1
          BY <1>1, <3>1
        <4>2. g[k] = last /\ g[k - 1] = f[m]
          BY <3>1, <4>1
        <4>3. QED
          BY <3>1, <4>1, <4>2
      <3>2. CASE k # m + 1
        <4>1. k \in 0..m /\ g[k] = f[k] /\ (k # 0 => g[k - 1] = f[k - 1])
          BY <3>2
        <4>2. f[k] = IF k = 0 THEN <<>>
                     ELSE IF s[k] = Space THEN f[k - 1] ELSE Append(f[k - 1], s[k])
          BY <2>1, <4>1, Zenon
        <4>3. QED
          BY <4>1, <4>2
      <3>3. QED
        BY <3>1, <3>2
    <2>5. Is(g, m + 1)
      <3> HIDE DEF last
      <3>1. QED
        BY <2>4
    <2> HIDE DEF g, Is
    <2>6. m + 1 \in 0..Len(s)
      BY <1>1
    <2>7. QED
      BY <2>3, <2>5, <2>6
  <1>4. \E f \in [0..Len(s) -> Seq(X)] : Is(f, Len(s))
    <2> HIDE DEF T
    <2>1. 0..Len(s) \subseteq T
      BY <1>1, <1>2, <1>3, Induction
    <2>2. Len(s) \in T
      BY <1>1, <2>1
    <2> HIDE DEF Is
    <2>3. QED
      BY <2>2 DEF T
  <1> DEFINE kept == CHOOSE f : Is(f, Len(s))
  <1>5. DropSpaces(s) = kept[Len(s)]
    BY DEF DropSpaces
  <1>6. Is(kept, Len(s))
    <2> HIDE DEF Is
    <2>1. QED
      BY <1>4
  <1> DEFINE U == {m \in 0..Len(s) : kept[m] \in Seq(X)}
  <1> HIDE DEF kept
  <1>7. \A k \in 0..Len(s) : kept[k] = IF k = 0 THEN <<>>
                                ELSE IF s[k] = Space THEN kept[k - 1] ELSE Append(kept[k - 1], s[k])
    BY <1>6, Zenon
  <1>8. 0 \in U
    <2>1. kept[0] = <<>> /\ 0 \in 0..Len(s)
      BY <1>1, <1>7
    <2>2. <<>> \in Seq(X)
      OBVIOUS
    <2>3. kept[0] \in Seq(X)
      BY <2>1, <2>2
    <2>4. QED
      BY <2>1, <2>3
  <1>9. ASSUME NEW m \in 0 .. Len(s) - 1, m \in U PROVE m + 1 \in U
    <2>1. m + 1 \in 0..Len(s) /\ m + 1 # 0 /\ m + 1 - 1 = m /\ s[m + 1] \in X /\ kept[m] \in Seq(X)
      BY <1>1, <1>9
    <2>2. kept[m + 1] = IF s[m + 1] = Space THEN kept[m] ELSE Append(kept[m], s[m + 1])
      BY <1>7, <2>1
    <2>3. Append(kept[m], s[m + 1]) \in Seq(X)
      BY <2>1
    <2>4. kept[m + 1] \in Seq(X)
      BY <2>1, <2>2, <2>3
    <2>5. QED
      BY <2>1, <2>4
  <1>10. 0..Len(s) \subseteq U
    <2> HIDE DEF U
    <2>1. QED
      BY <1>1, <1>8, <1>9, Induction
  <1>11. QED
    BY <1>1, <1>5, <1>10

\* Every line a shell stores is a sequence of words again.
LEMMA StoredLineType ==
  ASSUME NEW line \in Seq(Symbols)
  PROVE  StoredLine(line) \in Seq(Symbols)
  BY DropSpacesType DEF StoredLine, KeepAll

-----------------------------------------------------------------------------
(* The invariants                                                          *)

\* What a shell executes is the line it took from its buffer last.
LineInv ==
    /\ input \in Seq(Symbols)
    /\ pc # "getchar" /\ input # <<>> => pos > 1 /\ input = StoredLine(script[pos - 1])
    /\ pc \in {"dispatch", "waitpid", "test", "crashed"} => input # <<>> \/ prog = "lsh"

\* A shell has a child while it waits for one and at no other time; it has
\* collected it once its wait loop may end.  It never waits for cd.
WaitInv ==
    /\ pc \notin {"waitpid", "test"} => child = "none"
    /\ pc = "waitpid" => child \notin {"none", "reaped"}
    /\ pc = "test" => IF wstatus \in Over THEN child = "reaped" ELSE child \notin {"none", "reaped"}
    /\ pc \in {"waitpid", "test"} => ~Command("cd") \/ Callee(input) # "executeCommand"

\* A shell that has only read empty lines has done nothing else.
Untouched ==
    /\ \A i \in 1 .. pos - 1 : StoredLine(script[i]) = <<>>
    /\ pc # "getchar" => input = <<>>
    /\ off = hi - 1
    /\ writer = NoWriter

AskedToExit == ExitAlone(input) \/ (prog = "lsh" /\ Command("exit"))

\* The three ways in which the variable status may be 0.
StatusInv ==
    status = 0 =>
        \/ pc \in {"while", "returned"} /\ AskedToExit
        \/ prog # "lsh" /\ pc \in {"getchar", "while", "returned"} /\ Untouched
        \/ prog # "lsh" /\ pc \in {"dispatch", "waitpid", "test", "crashed"}

CrashInv ==
    pc = "crashed" => prog # "lsh" /\ \A i \in 1..Len(input) : input[i] \in {Space, Bar}

ReturnInv == pc = "returned" => status = 0

IInv == TypeOK /\ LineInv /\ WaitInv /\ StatusInv /\ CrashInv /\ ReturnInv

\* The file offset of a pipe or a terminal stays behind what was read.
OffInv == off = hi - 1

\* The last line that was executed, if the present one is not being executed yet.
Done == IF pc = "dispatch" THEN pos - 2 ELSE pos - 1

\* An error message was for an earlier line.
FailedInv == prog # "lsh" /\ failed # 0 => failed <= Done

\* Only "cd ~/..." leaves a block in front of the free list.
RecycledInv ==
    recycled > 0 => prog # "lsh" /\ CdInBefore(Done)

\* What holds besides when the offset of standard input cannot be moved.
PipeInv == OffInv /\ RecycledInv /\ FailedInv /\ CdGoesThere

-----------------------------------------------------------------------------
(* The steps                                                               *)

ChildStep == SetUp \/ ProgramEnds \/ WriterExecvp \/ Kill \/ Stop \/ Continue

DispatchStep ==
    TooManyBars \/ Crash \/ Cd \/ Exit \/ HelpOrEmpty \/ ExecuteCommand \/ ExecPipe \/ ForkFails

LEMMA Cases ==
  [Next]_vars => \/ Fill \/ ReadLine \/ ReadEof \/ While \/ DispatchStep \/ WaitPid \/ LoopTest
                 \/ ChildStep \/ UNCHANGED vars
  BY DEF Next, Shell, DispatchStep, ChildStep, ShellOver

Untold == <<prog, script, path, recycled, failed, pc, status, wstatus, input, pos, hi, eof>>

\* A child changes nothing the shell has, except the offset they share, and that
\* only if it can be moved.
LEMMA ChildSteps ==
  ASSUME TypeOK, ChildStep
  PROVE  /\ UNCHANGED Untold
         /\ \/ child' = child
            \/ ChildAlive /\ child' \in {"execvp", "running"} \cup Over
         /\ off' \in 0..off /\ (off' = off \/ (Seekable /\ (ChildAlive \/ writer # NoWriter)))
         /\ writer' \in NoWriter..Len(script) /\ (writer' # NoWriter => writer # NoWriter \/ ChildAlive)
         /\ stopped' \in BOOLEAN /\ report' \in BOOLEAN /\ stops' \in 0..MaxStops
  <1>1. script \in Seq(Seq(Symbols)) /\ Len(script) \in Nat /\ MaxStops \in Nat /\ NoWriter = -1
    BY ScriptsAssumption, MyshAssumption DEF TypeOK, NoWriter
  <1>2. /\ pos \in Int /\ hi \in Int /\ hi - pos \in 0..Len(script)
        /\ off \in Nat /\ writer \in NoWriter..Len(script) /\ stops \in 0..MaxStops
        /\ child \in {"none", "runPipeCmd", "execvp", "running", "reaped"} \cup Over
        /\ stopped \in BOOLEAN /\ report \in BOOLEAN
    BY <1>1 DEF TypeOK
  <1>3. ASSUME NEW n \in Nat, GiveBack(n)
        PROVE  off' \in 0..off /\ (off' = off \/ Seekable)
    BY <1>2, <1>3 DEF GiveBack
  <1>4. CASE RunPipeCmd
    BY <1>1, <1>2, <1>4 DEF RunPipeCmd, Untold, directory, stdin, ChildAlive
  <1>5. CASE ChildExits
    <2>1. hi - pos \in Nat /\ GiveBack(hi - pos)
      BY <1>1, <1>2, <1>5 DEF ChildExits
    <2>2. QED
      BY <1>1, <1>2, <1>3, <1>5, <2>1 DEF ChildExits, ChildOver, Untold, directory, ChildAlive, Over
  <1>6. CASE Execvp
    BY <1>1, <1>2, <1>6 DEF Execvp, Untold, directory, stdin, ChildAlive
  <1>7. CASE ProgramEnds
    <2>1. stopped' = FALSE /\ report' = FALSE
      BY <1>7 DEF ProgramEnds, ChildOver
    <2>2. stopped' \in BOOLEAN /\ report' \in BOOLEAN
      BY <2>1, Zenon
    <2>3. QED
      BY <1>1, <1>2, <1>7, <2>2 DEF ProgramEnds, ChildOver, Untold, directory, stdin, ChildAlive, Over
  <1>8. CASE WriterExecvp
    <2>1. writer \in Nat /\ writer # NoWriter /\ (off' = off \/ GiveBack(writer))
      BY <1>1, <1>2, <1>8 DEF WriterExecvp
    <2>2. off' \in 0..off /\ (off' = off \/ Seekable)
      BY <1>2, <1>3, <2>1
    <2>3. QED
      BY <1>1, <1>2, <1>8, <2>1, <2>2 DEF WriterExecvp, Untold, directory
  <1>9. CASE Kill
    <2>1. stopped' = FALSE /\ report' = FALSE
      BY <1>9 DEF Kill, ChildOver
    <2>2. stopped' \in BOOLEAN /\ report' \in BOOLEAN
      BY <2>1, Zenon
    <2>3. QED
      BY <1>1, <1>2, <1>9, <2>2 DEF Kill, ChildOver, Untold, directory, stdin, Over
  <1>10. CASE Stop
    BY <1>1, <1>2, <1>10 DEF Stop, Untold, directory, stdin
  <1>11. CASE Continue
    <2>1. stopped' = FALSE /\ report' = FALSE
      BY <1>11 DEF Continue
    <2>2. stopped' \in BOOLEAN /\ report' \in BOOLEAN
      BY <2>1, Zenon
    <2>3. QED
      BY <1>1, <1>2, <1>11, <2>2 DEF Continue, Untold, directory, stdin
  <1>12. QED
    BY <1>4, <1>5, <1>6, <1>7, <1>8, <1>9, <1>10, <1>11 DEF ChildStep, SetUp

\* What the shells call for a line.
LEMMA Callees ==
  ASSUME prog \in Shells, NEW line
  PROVE  /\ prog = "lsh" => Callee(line) = "lsh_execute"
         /\ prog # "lsh" => Callee(line) \in {"executeCommand", "execPipe", "ignore"}
  BY MyshAssumption DEF Callee, CalleeMysh12, CalleeMysh3, CalleeMysh4, CalleeLsh

\* Executing a line leaves the line, the script and the buffer alone, and ends in
\* a crash, in waiting for a child, or in a new value of status.
LEMMA DispatchSteps ==
  ASSUME DispatchStep
  PROVE  /\ pc = "dispatch" /\ UNCHANGED <<prog, script, input, pos, hi, off, eof>>
         /\ UNCHANGED <<stopped, report, writer, stops>>
         /\ failed' = failed \/ failed' = pos - 1
         /\ \/ Crash /\ pc' = "crashed" /\ UNCHANGED <<path, recycled, status, wstatus, child>>
            \/ /\ pc' = "waitpid" /\ UNCHANGED <<path, recycled, status>>
               /\ wstatus' = "unset" /\ child' \in {"execvp", "runPipeCmd"}
               /\ External \/ Callee(input) = "execPipe"
            \/ /\ pc' = "while" /\ UNCHANGED <<wstatus, child>>
               /\ \/ Cd /\ status' = 1
                  \/ /\ UNCHANGED <<path, recycled>> /\ (Exit \/ status' = 1)
                     /\ ~Command("cd") \/ Callee(input) # "executeCommand"
  <1>1. CASE TooManyBars
    BY <1>1 DEF TooManyBars, Call, directory, stdin, procs
  <1>2. CASE Crash
    BY <1>2 DEF Crash, Call, directory, stdin, procs
  <1>3. CASE Cd
    <2>1. failed' = failed \/ failed' = pos - 1
      BY <1>3 DEF Cd, LshCd, MyCd, CdInHome, Chdir, Perror
    <2>2. QED
      BY <1>3, <2>1 DEF Cd, Builtin, Call, stdin, procs
  <1>4. CASE Exit
    BY <1>4 DEF Exit, Perror, Builtin, Call, Command, stdin, procs
  <1>5. CASE HelpOrEmpty
    BY <1>5 DEF HelpOrEmpty, Call, directory, stdin, procs
  <1>6. CASE ExecuteCommand
    BY <1>6 DEF ExecuteCommand, Fork, Call, directory, stdin
  <1>7. CASE ExecPipe
    BY <1>7 DEF ExecPipe, Fork, Call, directory, stdin
  <1>8. CASE ForkFails
    BY <1>8 DEF ForkFails, Perror, External, Builtins, Call, stdin, procs
  <1>9. QED
    BY <1>1, <1>2, <1>3, <1>4, <1>5, <1>6, <1>7, <1>8 DEF DispatchStep

Parts == Symbols \cup PathParts

\* The argument of cd, and the path built from it, are sequences of words.
LEMMA ArgsType ==
  ASSUME input \in Seq(Symbols)
  PROVE  Args(input) \in Seq(Words(Symbols)) /\ Len(Args(input)) \in Nat
         /\ \A i \in 1..Len(Args(input)) :
               /\ Args(input)[i] \in Seq(Parts) /\ Args(input)[i] # <<>>
               /\ Tail(Args(input)[i]) \in Seq(Parts)
  <1>1. Args(input) \in Seq(Words(Symbols))
    BY StrtokListsRuns DEF Args
  <1>2. ASSUME NEW w \in Words(Symbols) PROVE w \in Seq(Parts) /\ w # <<>> /\ Tail(w) \in Seq(Parts)
    BY DEF Words, Parts
  <1> HIDE DEF Words
  <1>3. \A i \in 1..Len(Args(input)) : Args(input)[i] \in Words(Symbols)
    BY <1>1
  <1>4. Len(Args(input)) \in Nat
    BY <1>1
  <1>5. QED
    BY <1>1, <1>2, <1>3, <1>4

LEMMA HomePathsType ==
  ASSUME NEW n, NEW home \in HomePaths(n), NEW rest \in Seq(Parts)
  PROVE  home \in Seq(Parts) /\ home \o <<InDir>> \o rest \in Seq(Parts)
  <1>1. Home \in Seq(Parts) /\ <<"garbage">> \in Seq(Parts) /\ <<InDir>> \in Seq(Parts)
    BY DEF Home, Parts, PathParts
  <1>2. home \in Seq(Parts)
    <2>1. home = Home \/ home = <<"garbage">> \o Home
      BY DEF HomePaths
    <2>2. <<"garbage">> \o Home \in Seq(Parts)
      BY <1>1
    <2>3. QED
      BY <1>1, <2>1, <2>2
  <1>3. QED
    BY <1>1, <1>2

\* cd keeps the types: an argument has a character at least, and no more than
\* two blocks are ever free.
LEMMA CdType ==
  ASSUME TypeOK, input \in Seq(Symbols), Cd
  PROVE  path' \in Seq(Parts) /\ recycled' \in 0..2
  <1> DEFINE args == Args(input)
  <1>1. Len(args) \in Nat /\ Len(args) > 0
    BY ArgsType DEF Cd, Builtin, Command
  <1>2. \A i \in 1..Len(args) : args[i] \in Seq(Parts) /\ Tail(args[i]) \in Seq(Parts)
    BY ArgsType
  <1>3. path \in Seq(Parts) /\ recycled \in 0..2
    BY DEF TypeOK, Parts
  <1> HIDE DEF args
  <1>4. Len(args) # 1 => args[2] \in Seq(Parts) /\ Tail(args[2]) \in Seq(Parts)
    <2> DEFINE n == Len(args)
    <2>3. n \in Nat /\ n > 0
      BY <1>1
    <2> HIDE DEF n
    <2>4. n # 1 => 2 \in 1..n
      BY <2>3
    <2>1. Len(args) # 1 => 2 \in 1..Len(args)
      BY <2>4 DEF n
    <2>2. QED
      BY <1>2, <2>1
  <1>5. CASE prog = "lsh"
    <2>1. LshCd(args)
      BY <1>5 DEF Cd, args
    <2>2. QED
      BY <1>3, <1>4, <2>1 DEF LshCd, Chdir
  <1>6. CASE prog # "lsh"
    <2>1. MyCd(args)
      BY <1>6 DEF Cd, args
    <2>2. CASE Len(args) = 1
      <3>1. path' \in HomePaths(0) /\ recycled' = Taken(1)
        BY <2>1, <2>2 DEF MyCd
      <3>2. <<>> \in Seq(Parts)
        OBVIOUS
      <3>3. path' \in Seq(Parts)
        BY <3>1, <3>2, HomePathsType
      <3>4. QED
        BY <1>3, <3>1, <3>3 DEF Taken
    <2>3. CASE Len(args) # 1 /\ InHome(args[2])
      <3>1. CdInHome(args[2])
        BY <2>1, <2>3 DEF MyCd
      <3>2. PICK home \in HomePaths(2) : path' = home \o <<InDir>> \o Tail(args[2])
        BY <3>1 DEF CdInHome, Chdir
      <3>3. path' \in Seq(Parts)
        BY <1>4, <2>3, <3>2, HomePathsType
      <3>4. recycled' = Taken(3) + 2
        BY <3>1 DEF CdInHome
      <3>5. QED
        BY <1>3, <3>3, <3>4 DEF Taken
    <2>4. CASE Len(args) # 1 /\ ~InHome(args[2])
      BY <1>3, <1>4, <2>1, <2>4 DEF MyCd, Chdir, Taken
    <2>5. QED
      BY <2>2, <2>3, <2>4
  <1>7. QED
    BY <1>5, <1>6

\* The types, variable by variable.
PlaceType == /\ prog \in Shells /\ script \in Scripts
             /\ pc \in {"getchar", "dispatch", "waitpid", "test", "while", "returned", "crashed"}
             /\ status \in {0, 1} /\ wstatus \in {"unset", "stopped"} \cup Over
DirectoryType == path \in Seq(Parts) /\ recycled \in 0..2 /\ failed \in 0..Len(script)
StdinType == /\ pos \in 1..hi /\ hi \in 1 .. Len(script) + 1 /\ off \in 0..Len(script)
             /\ eof \in BOOLEAN
ProcsType == /\ child \in {"none", "runPipeCmd", "execvp", "running", "reaped"} \cup Over
             /\ stopped \in BOOLEAN /\ report \in BOOLEAN
             /\ writer \in NoWriter..Len(script) /\ stops \in 0..MaxStops

LEMMA Types == TypeOK <=> PlaceType /\ DirectoryType /\ StdinType /\ ProcsType
  BY DEF TypeOK, Parts, PlaceType, DirectoryType, StdinType, ProcsType

\* The buffer after it is filled from offset o to offset q.
LEMMA Refilled ==
  ASSUME NEW n \in Nat, NEW o \in Nat, NEW q \in o + 1 .. n
  PROVE  o + 1 \in 1 .. q + 1 /\ q + 1 \in 1 .. n + 1 /\ q \in 0..n
  OBVIOUS

LEMMA TypeNext ==
  ASSUME TypeOK, input \in Seq(Symbols), [Next]_vars
  PROVE  TypeOK'
  <1>1. script \in Seq(Seq(Symbols)) /\ Len(script) \in Nat
    BY ScriptsAssumption DEF TypeOK
  <1>2. PlaceType /\ DirectoryType /\ StdinType /\ ProcsType
    BY Types
  <1>3. CASE Fill
    <2>1. /\ off \in Nat /\ off < Len(script)
          /\ off' \in off + 1 .. Len(script) /\ pos' = off + 1 /\ hi' = off' + 1
      BY <1>1, <1>2, <1>3 DEF Fill, StdinType
    <2>2. StdinType'
      <3>1. UNCHANGED <<script, eof>>
        BY <1>3 DEF Fill
      <3>2. pos' \in 1..hi' /\ hi' \in 1 .. Len(script) + 1 /\ off' \in 0..Len(script)
        BY <1>1, <2>1, Refilled
      <3>3. QED
        BY <1>2, <3>1, <3>2 DEF StdinType
    <2>3. PlaceType' /\ DirectoryType' /\ ProcsType'
      BY <1>2, <1>3 DEF Fill, PlaceType, DirectoryType, ProcsType, procs, directory
    <2>4. QED
      BY <2>2, <2>3
        DEF TypeOK, Parts, PlaceType, DirectoryType, StdinType, ProcsType
  <1>4. CASE ReadLine
    <2>1. StdinType'
      BY <1>1, <1>2, <1>4 DEF ReadLine, StdinType
    <2>2. PlaceType' /\ DirectoryType' /\ ProcsType'
      BY <1>2, <1>4 DEF ReadLine, AfterReading, PlaceType, DirectoryType, ProcsType, procs, directory
    <2>3. QED
      BY <2>1, <2>2
        DEF TypeOK, Parts, PlaceType, DirectoryType, StdinType, ProcsType
  <1>5. CASE ReadEof
    <2>1. StdinType'
      <3>1. eof' = TRUE /\ UNCHANGED <<script, pos, hi, off>>
        BY <1>5 DEF ReadEof
      <3>2. eof' \in BOOLEAN
        BY <3>1, Zenon
      <3>3. QED
        BY <1>2, <3>1, <3>2 DEF StdinType
    <2>2. PlaceType' /\ DirectoryType' /\ ProcsType'
      BY <1>2, <1>5 DEF ReadEof, AfterReading, PlaceType, DirectoryType, ProcsType, procs, directory
    <2>3. QED
      BY <2>1, <2>2
        DEF TypeOK, Parts, PlaceType, DirectoryType, StdinType, ProcsType
  <1>6. CASE While
    BY <1>2, <1>6
    DEF While, TypeOK, Parts, PlaceType, DirectoryType, StdinType, ProcsType, directory, stdin, procs
  <1>7. CASE DispatchStep
    <2>1. StdinType'
      BY <1>2, <1>7, DispatchSteps DEF StdinType
    <2>2. ProcsType'
      BY <1>2, <1>7, DispatchSteps DEF ProcsType
    <2>7. failed' \in 0..Len(script) /\ UNCHANGED script
      <3>1. pos - 1 \in 0..Len(script) /\ failed \in 0..Len(script)
        BY <1>1, <1>2 DEF StdinType, DirectoryType
      <3>2. QED
        BY <1>7, <3>1, DispatchSteps
    <2>3. DirectoryType'
      BY <1>2, <1>7, <2>7, DispatchSteps, CdType DEF DirectoryType
    <2>4. Exit => status' \in {0, 1}
      BY DEF Exit
    <2>5. PlaceType'
      BY <1>2, <1>7, <2>4, DispatchSteps DEF PlaceType
    <2>6. QED
      BY <2>1, <2>2, <2>3, <2>5
        DEF TypeOK, Parts, PlaceType, DirectoryType, StdinType, ProcsType
  <1>8. CASE WaitPid
    <2>1. StdinType' /\ DirectoryType'
      BY <1>2, <1>8 DEF WaitPid, StdinType, DirectoryType, stdin, directory
    <2>2. PlaceType'
      BY <1>2, <1>8 DEF WaitPid, PlaceType
    <2>3. report' \in BOOLEAN
      <3>1. UNCHANGED report \/ report' = FALSE
        BY <1>8 DEF WaitPid
      <3>2. QED
        BY <1>2, <3>1 DEF ProcsType
    <2>4. ProcsType'
      BY <1>2, <1>8, <2>3 DEF WaitPid, ProcsType
    <2>5. QED
      BY <2>1, <2>2, <2>4
        DEF TypeOK, Parts, PlaceType, DirectoryType, StdinType, ProcsType
  <1>9. CASE LoopTest
    BY <1>2, <1>9
    DEF LoopTest, TypeOK, Parts, PlaceType, DirectoryType, StdinType, ProcsType, directory, stdin
  <1>10. CASE ChildStep
    <2>1. PlaceType' /\ DirectoryType'
      BY <1>2, <1>10, ChildSteps DEF Untold, PlaceType, DirectoryType
    <2>2. off' \in 0..Len(script)
      BY <1>1, <1>2, <1>10, ChildSteps DEF StdinType
    <2>3. StdinType'
      BY <1>2, <1>10, <2>2, ChildSteps DEF Untold, StdinType
    <2>4. ProcsType'
      BY <1>2, <1>10, ChildSteps DEF Untold, ProcsType
    <2>5. QED
      BY <2>1, <2>3, <2>4
        DEF TypeOK, Parts, PlaceType, DirectoryType, StdinType, ProcsType
  <1>11. CASE UNCHANGED vars
    BY <1>2, <1>11
    DEF vars, TypeOK, Parts, PlaceType, DirectoryType, StdinType, ProcsType, directory
  <1>12. QED
    BY <1>3, <1>4, <1>5, <1>6, <1>7, <1>8, <1>9, <1>10, <1>11, Cases

LEMMA LineNext ==
  ASSUME TypeOK, LineInv, [Next]_vars
  PROVE  LineInv'
  <1>1. script \in Seq(Seq(Symbols)) /\ Len(script) \in Nat
    BY ScriptsAssumption DEF TypeOK
  <1>2. input \in Seq(Symbols) /\ pos \in Nat \ {0}
    BY <1>1 DEF TypeOK, LineInv
  <1>3. CASE Fill
    BY <1>2, <1>3 DEF Fill, LineInv, StoredLine
  <1>4. CASE ReadLine
    <2>1. pos \in 1..Len(script)
      BY <1>1, <1>2, <1>4 DEF ReadLine, TypeOK
    <2>2. script[pos] \in Seq(Symbols)
      BY <1>1, <2>1
    <2>3. input' \in Seq(Symbols)
      BY <1>4, <2>2, StoredLineType DEF ReadLine
    <2>4. /\ pc = "getchar" /\ prog' = prog /\ script' = script /\ pos' = pos + 1
          /\ input' = StoredLine(script[pos]) /\ pos' > 1 /\ pos' - 1 = pos
      BY <1>2, <1>4 DEF ReadLine
    <2>5. pc' = IF input' = <<>> /\ prog # "lsh" THEN "while" ELSE "dispatch"
      BY <1>4 DEF ReadLine, AfterReading
    <2>6. input' = StoredLine(script[pos - 1])'
      BY <2>4 DEF StoredLine
    <2>7. QED
      BY <2>3, <2>4, <2>5, <2>6 DEF LineInv
  <1>5. CASE ReadEof
    BY <1>2, <1>5 DEF ReadEof, AfterReading, LineInv
  <1>6. ASSUME UNCHANGED <<prog, script, input, pos>>,
               pc # "getchar" \/ pc' = "getchar",
               \/ pc' \notin {"dispatch", "waitpid", "test", "crashed"}
               \/ pc \in {"dispatch", "waitpid", "test", "crashed"}
        PROVE  LineInv'
    BY <1>2, <1>6 DEF LineInv, StoredLine
  <1>7. CASE While
    BY <1>6, <1>7 DEF While, stdin
  <1>8. CASE DispatchStep
    BY <1>6, <1>8, DispatchSteps
  <1>9. CASE WaitPid \/ LoopTest
    BY <1>6, <1>9 DEF WaitPid, LoopTest, stdin
  <1>10. CASE ChildStep
    BY <1>6, <1>10, ChildSteps DEF Untold
  <1>11. CASE UNCHANGED vars
    BY <1>6, <1>11 DEF vars
  <1>12. QED
    BY <1>3, <1>4, <1>5, <1>7, <1>8, <1>9, <1>10, <1>11, Cases

\* What a line means depends on the program alone.
LEMMA SameText ==
  ASSUME UNCHANGED <<prog, input>>
  PROVE  /\ Callee(input)' = Callee(input)
         /\ \A name : Command(name)' <=> Command(name)
  BY DEF Callee, CalleeMysh12, CalleeMysh3, CalleeMysh4, CalleeLsh, Command

LEMMA WaitNext ==
  ASSUME TypeOK, WaitInv, [Next]_vars
  PROVE  WaitInv'
  <1>1. CASE Fill
    BY <1>1 DEF Fill, WaitInv, procs
  <1>2. CASE ReadLine
    BY <1>2 DEF ReadLine, AfterReading, WaitInv, procs
  <1>3. CASE ReadEof
    BY <1>3 DEF ReadEof, AfterReading, WaitInv, procs
  <1>4. CASE While
    BY <1>4 DEF While, WaitInv, procs
  <1>5. CASE DispatchStep
    <2>1. pc = "dispatch" /\ UNCHANGED <<prog, input>> /\ child = "none"
      BY <1>5, DispatchSteps DEF WaitInv
    <2>2. CASE pc' \in {"crashed", "while"}
      BY <1>5, <2>1, <2>2, DispatchSteps DEF WaitInv
    <2>3. CASE pc' = "waitpid"
      <3>1. child' \in {"execvp", "runPipeCmd"} /\ (External \/ Callee(input) = "execPipe")
        BY <1>5, <2>3, DispatchSteps
      <3>2. External => ~Command("cd")
        BY DEF External, Builtins
      <3>3. QED
        BY <2>1, <2>3, <3>1, <3>2, SameText DEF WaitInv
    <2>4. QED
      BY <1>5, <2>2, <2>3, DispatchSteps
  <1>6. CASE WaitPid
    <2>1. UNCHANGED <<prog, input>> /\ pc = "waitpid" /\ pc' = "test"
          /\ \/ child \in Over /\ wstatus' = child /\ child' = "reaped"
             \/ wstatus' = "stopped" /\ child' = child
      BY <1>6 DEF WaitPid
    <2>2. QED
      BY <2>1, SameText DEF WaitInv, Over
  <1>7. CASE LoopTest
    <2>1. UNCHANGED <<prog, input, wstatus>> /\ pc = "test"
          /\ \/ wstatus \in Over /\ pc' = "while" /\ child' = "none"
             \/ wstatus \notin Over /\ pc' = "waitpid" /\ child' = child
      BY <1>7 DEF LoopTest
    <2>2. QED
      BY <2>1, SameText DEF WaitInv
  <1>8. CASE ChildStep
    <2>1. UNCHANGED <<prog, input, pc, wstatus>>
      BY <1>8, ChildSteps DEF Untold
    <2>2. child' = child \/ (ChildAlive /\ child' \in {"execvp", "running"} \cup Over)
      BY <1>8, ChildSteps
    <2>3. QED
      BY <2>1, <2>2, SameText DEF WaitInv, ChildAlive, Over
  <1>9. CASE UNCHANGED vars
    BY <1>9, SameText DEF vars, WaitInv
  <1>10. QED
    BY <1>1, <1>2, <1>3, <1>4, <1>5, <1>6, <1>7, <1>8, <1>9, Cases

\* exit without an argument is a line of that word and spaces.
LEMMA ExitLine ==
  ASSUME input \in Seq(Symbols), Command("exit"), ~(Len(Args(input)) > 1)
  PROVE  ExitAlone(input)
  <1>1. Len(Args(input)) = 1
    <2> DEFINE args == Args(input)
    <2>1. args \in Seq(Words(Symbols)) /\ Len(args) \in Nat
      BY ArgsType
    <2>2. args # <<>>
      BY DEF Command
    <2> HIDE DEF args
    <2>3. Len(args) # 0
      BY <2>1, <2>2
    <2>4. ~(Len(args) > 1)
      BY DEF args
    <2> DEFINE n == Len(args)
    <2>5. n \in Nat /\ n # 0 /\ ~(n > 1)
      BY <2>1, <2>3, <2>4
    <2> HIDE DEF n
    <2>6. n = 1
      BY <2>5
    <2>7. QED
      BY <2>6 DEF n, args
  <1>2. Args(input)[1] = <<"exit">>
    BY DEF Command
  <1>3. QED
    BY <1>1, <1>2, OneToken DEF Args, ExitAlone

LEMMA StatusNext ==
  ASSUME TypeOK, LineInv, WaitInv, StatusInv, [Next]_vars
  PROVE  StatusInv'
  <1>1. script \in Seq(Seq(Symbols)) /\ pos \in Nat \ {0} /\ hi \in Nat /\ status \in {0, 1}
        /\ input \in Seq(Symbols)
    BY ScriptsAssumption DEF TypeOK, LineInv
  <1>2. CASE Fill
    <2> SUFFICES ASSUME status' = 0 PROVE StatusInv'
      BY DEF StatusInv
    <2>1. status = 0 /\ prog # "lsh" /\ pc = "getchar" /\ Untouched
      BY <1>2 DEF Fill, StatusInv
    <2>2. /\ UNCHANGED <<prog, script, input, pc, writer>> /\ pos' = off + 1 /\ hi' = off' + 1
          /\ off' \in Int /\ pos = hi
      BY <1>2, ScriptsAssumption DEF Fill, procs, TypeOK
    <2>3. pos' = pos /\ off' = hi' - 1
      <3>1. off = hi - 1
        BY <2>1 DEF Untouched
      <3>2. pos' = hi
        BY <1>1, <2>2, <3>1
      <3>3. \A q \in Int : q = (q + 1) - 1
        OBVIOUS
      <3>4. off' = (off' + 1) - 1
        BY <2>2, <3>3
      <3>5. QED
        BY <2>2, <3>2, <3>4
    <2>4. Untouched'
      BY <2>1, <2>2, <2>3 DEF Untouched, StoredLine
    <2>5. QED
      BY <2>1, <2>2, <2>4 DEF StatusInv
  <1>3. CASE ReadLine
    <2> SUFFICES ASSUME status' = 0 PROVE StatusInv'
      BY DEF StatusInv
    <2>1. status = 0 /\ prog # "lsh" /\ pc = "getchar" /\ Untouched
      BY <1>3 DEF ReadLine, StatusInv
    <2>2. /\ UNCHANGED <<prog, script, hi, off, writer>> /\ pos' = pos + 1
          /\ input' = StoredLine(script[pos])
          /\ pc' = IF input' = <<>> THEN "while" ELSE "dispatch"
      BY <1>3, <2>1 DEF ReadLine, AfterReading, procs
    <2>3. CASE input' = <<>>
      <3>1. \A i \in 1 .. pos' - 1 : i = pos \/ i \in 1 .. pos - 1
        BY <1>1, <2>2
      <3>2. \A i \in 1 .. pos' - 1 : StoredLine(script[i]) = <<>>
        BY <2>1, <2>2, <2>3, <3>1 DEF Untouched
      <3>3. \A i \in 1 .. pos' - 1 : StoredLine(script[i])' = <<>>
        BY <2>2, <3>2 DEF StoredLine
      <3>4. Untouched'
        BY <2>1, <2>2, <2>3, <3>3 DEF Untouched
      <3>5. QED
        BY <2>1, <2>2, <2>3, <3>4 DEF StatusInv
    <2>4. CASE input' # <<>>
      BY <2>1, <2>2, <2>4 DEF StatusInv
    <2>5. QED
      BY <2>3, <2>4
  <1>4. CASE ReadEof
    <2> SUFFICES ASSUME status' = 0 PROVE StatusInv'
      BY DEF StatusInv
    <2>1. status = 0 /\ prog # "lsh" /\ pc = "getchar" /\ Untouched
      BY <1>4 DEF ReadEof, StatusInv
    <2>2. /\ UNCHANGED <<prog, script, pos, hi, off, writer>> /\ input' = <<>> /\ pc' = "while"
      BY <1>4, <2>1 DEF ReadEof, AfterReading, procs
    <2>3. Untouched'
      BY <2>1, <2>2 DEF Untouched, StoredLine
    <2>4. QED
      BY <2>1, <2>2, <2>3 DEF StatusInv
  <1>5. ASSUME UNCHANGED <<prog, script, input, status, pos, hi>>,
               pc' = pc \/ (pc = "while" /\ pc' = "returned" /\ status = 0)
                        \/ (pc = "while" /\ pc' = "getchar" /\ status # 0),
               (off' = off /\ writer' = writer) \/ ChildAlive \/ writer # NoWriter
        PROVE  StatusInv'
    <2> SUFFICES ASSUME status' = 0 PROVE StatusInv'
      BY DEF StatusInv
    <2>1. status = 0
      BY <1>5
    <2>2. CASE pc \in {"while", "returned"} /\ AskedToExit
      BY <1>5, <2>1, <2>2 DEF StatusInv, AskedToExit, ExitAlone, Command
    <2>3. CASE prog # "lsh" /\ pc \in {"getchar", "while", "returned"} /\ Untouched
      <3>1. ~ChildAlive
        BY <2>3 DEF WaitInv, ChildAlive
      <3>2. off' = off /\ writer' = writer
        BY <1>5, <2>3, <3>1 DEF Untouched
      <3>3. pc' # "getchar" => pc # "getchar"
        BY <1>5, <2>1
      <3>4. Untouched'
        BY <1>5, <2>3, <3>2, <3>3 DEF Untouched, StoredLine
      <3>5. QED
        BY <1>5, <2>1, <2>3, <3>4 DEF StatusInv
    <2>4. CASE prog # "lsh" /\ pc \in {"dispatch", "waitpid", "test", "crashed"}
      BY <1>5, <2>4 DEF StatusInv
    <2>5. QED
      BY <2>1, <2>2, <2>3, <2>4 DEF StatusInv
  <1>6. CASE While
    BY <1>5, <1>6 DEF While, stdin, procs
  <1>7. CASE DispatchStep
    <2> SUFFICES ASSUME status' = 0 PROVE StatusInv'
      BY DEF StatusInv
    <2>1. pc = "dispatch" /\ UNCHANGED <<prog, script, input>>
      BY <1>7, DispatchSteps
    <2>2. CASE pc' \in {"crashed", "waitpid"}
      BY <1>7, <2>1, <2>2, DispatchSteps DEF StatusInv
    <2>3. CASE pc' = "while"
      <3>1. Exit
        BY <1>7, <2>3, DispatchSteps
      <3>2. Command("exit") /\ (~(Len(Args(input)) > 1) \/ prog = "lsh")
        BY <3>1 DEF Exit, Builtin
      <3>3. AskedToExit
        BY <1>1, <3>2, ExitLine DEF AskedToExit
      <3>4. AskedToExit'
        BY <2>1, <3>3 DEF AskedToExit, ExitAlone, Command
      <3>5. QED
        BY <2>3, <3>4 DEF StatusInv
    <2>4. QED
      BY <1>7, <2>2, <2>3, DispatchSteps
  <1>8. CASE WaitPid
    BY <1>8 DEF WaitPid, StatusInv
  <1>9. CASE LoopTest
    BY <1>9 DEF LoopTest, StatusInv
  <1>10. CASE ChildStep
    <2>1. /\ UNCHANGED <<prog, script, input, status, pos, hi, pc>>
          /\ off' = off \/ ChildAlive \/ writer # NoWriter
          /\ writer' # NoWriter => writer # NoWriter \/ ChildAlive
      BY <1>10, ChildSteps DEF Untold
    <2>2. QED
      BY <1>5, <2>1
  <1>11. CASE UNCHANGED vars
    BY <1>5, <1>11 DEF vars
  <1>12. QED
    BY <1>2, <1>3, <1>4, <1>6, <1>7, <1>8, <1>9, <1>10, <1>11, Cases

LEMMA EndNext ==
  ASSUME TypeOK, LineInv, CrashInv, ReturnInv, [Next]_vars
  PROVE  CrashInv' /\ ReturnInv'
  <1>1. ASSUME pc' \notin {"crashed", "returned"} PROVE CrashInv' /\ ReturnInv'
    BY <1>1 DEF CrashInv, ReturnInv
  <1>2. ASSUME UNCHANGED <<prog, input, pc, status>> PROVE CrashInv' /\ ReturnInv'
    BY <1>2 DEF CrashInv, ReturnInv
  <1>3. CASE Fill \/ ReadLine \/ ReadEof
    BY <1>1, <1>3 DEF Fill, ReadLine, ReadEof, AfterReading
  <1>4. CASE While
    BY <1>4 DEF While, CrashInv, ReturnInv
  <1>5. CASE DispatchStep
    <2>1. UNCHANGED <<prog, input>> /\ (pc' \in {"while", "waitpid"} \/ (Crash /\ pc' = "crashed"))
      BY <1>5, DispatchSteps
    <2>2. CASE Crash /\ pc' = "crashed"
      <3>1. prog # "lsh" /\ (Args(input) = <<>> \/ Strtok(input, Bar) = <<>>)
        BY <2>2, Callees DEF Crash, Call, TypeOK
      <3>2. input \in Seq(Symbols)
        BY DEF LineInv
      <3>3. \A i \in 1..Len(input) : input[i] \in {Space, Bar}
        BY <3>1, <3>2, NoToken DEF Args
      <3>4. QED
        BY <2>1, <2>2, <3>1, <3>3 DEF CrashInv, ReturnInv
    <2>3. QED
      BY <1>1, <2>1, <2>2
  <1>6. CASE WaitPid \/ LoopTest
    BY <1>1, <1>6 DEF WaitPid, LoopTest
  <1>7. CASE ChildStep
    BY <1>2, <1>7, ChildSteps DEF Untold
  <1>8. CASE UNCHANGED vars
    BY <1>2, <1>8 DEF vars
  <1>9. QED
    BY <1>3, <1>4, <1>5, <1>6, <1>7, <1>8, Cases

LEMMA Start == Init => IInv
  <1> SUFFICES ASSUME Init PROVE IInv
    OBVIOUS
  <1>1. script \in Seq(Seq(Symbols)) /\ Len(script) \in Nat /\ MaxStops \in Nat /\ NoWriter = -1
    BY ScriptsAssumption, MyshAssumption DEF Init, NoWriter
  <1>2. TypeOK
    <2>1. /\ pos = 1 /\ hi = 1 /\ off = 0 /\ writer = -1 /\ stops = 0 /\ recycled = 0 /\ failed = 0
          /\ status \in {0, 1} /\ path = <<>>
      BY DEF Init, NoWriter
    <2>2. /\ pos \in 1..hi /\ hi \in 1 .. Len(script) + 1 /\ off \in 0..Len(script)
          /\ writer \in NoWriter..Len(script) /\ stops \in 0..MaxStops /\ recycled \in 0..2
          /\ failed \in 0..Len(script)
      BY <1>1, <2>1
    <2>3. <<>> \in Seq(Symbols \cup PathParts)
      OBVIOUS
    <2>4. eof = FALSE /\ stopped = FALSE /\ report = FALSE
      BY DEF Init
    <2>5. eof \in BOOLEAN /\ stopped \in BOOLEAN /\ report \in BOOLEAN
      BY <2>4, Zenon
    <2>6. /\ prog \in Shells /\ script \in Scripts /\ pc = "getchar" /\ wstatus = "unset"
          /\ child = "none"
      BY DEF Init
    <2>7. QED
      BY <2>1, <2>2, <2>3, <2>5, <2>6 DEF TypeOK
  <1>3. LineInv /\ WaitInv /\ CrashInv /\ ReturnInv
    BY DEF Init, LineInv, WaitInv, CrashInv, ReturnInv
  <1>4. StatusInv
    BY DEF Init, StatusInv, Untouched
  <1>5. QED
    BY <1>2, <1>3, <1>4 DEF IInv

LEMMA Invariance == Spec => []IInv
  <1>1. IInv /\ [Next]_vars => IInv'
    <2> SUFFICES ASSUME IInv, [Next]_vars PROVE IInv'
      OBVIOUS
    <2>1. TypeOK /\ LineInv /\ WaitInv /\ StatusInv /\ CrashInv /\ ReturnInv /\ input \in Seq(Symbols)
      BY DEF IInv, LineInv
    <2>2. TypeOK' /\ LineInv' /\ WaitInv'
      BY <2>1, TypeNext, LineNext, WaitNext
    <2>3. StatusInv' /\ CrashInv' /\ ReturnInv'
      BY <2>1, StatusNext, EndNext
    <2>4. QED
      BY <2>2, <2>3 DEF IInv
  <1>2. QED
    BY <1>1, Start, PTL DEF Spec

\* Types; the stdio buffer stays a window of the script, also when children give
\* lines back to the file.
THEOREM TypeCorrect == Spec => []TypeOK
  BY Invariance, PTL DEF IInv

\* Every line a shell executes is taken apart as it should be: its words, the
\* commands between its bars, and the two commands execPipe keeps, for lines of
\* any length over any words.
THEOREM LinesTakenApart == Spec => []TakenApart
  <1>1. IInv => TakenApart
    <2> SUFFICES ASSUME LineInv PROVE TakenApart
      BY DEF IInv
    <2>1. input \in Seq(Symbols)
      BY DEF LineInv
    <2>2. ListsRuns(Args(input), input, Space) /\ ListsRuns(Strtok(input, Bar), input, Bar)
      BY <2>1, StrtokListsRuns DEF Args
    <2>3. QED
      BY <2>1, <2>2, PipelineTakenApart DEF TakenApart
  <1>2. QED
    BY <1>1, Invariance, PTL

\* A shell returns for exit alone, and crashes for lines of spaces and bars alone,
\* whatever value status has at the start and whatever happens to its children.
THEOREM Ends == Spec => []EndsOnlyByExit
  <1>1. IInv => EndsOnlyByExit
    <2> SUFFICES ASSUME TypeOK, StatusInv, CrashInv, ReturnInv PROVE EndsOnlyByExit
      BY DEF IInv
    <2>1. CASE pc = "returned"
      <3>1. AskedToExit \/ (prog # "lsh" /\ Untouched)
        BY <2>1 DEF ReturnInv, StatusInv
      <3>2. QED
        BY <2>1, <3>1 DEF AskedToExit, Untouched, EndsOnlyByExit
    <2>2. CASE pc # "returned"
      BY <2>2 DEF CrashInv, EndsOnlyByExit
    <2>3. QED
      BY <2>1, <2>2
  <1>2. QED
    BY <1>1, Invariance, PTL

-----------------------------------------------------------------------------
(* The refinement of Foreground                                            *)

\* The shells keep the safety part of the promise of Foreground: one command at a
\* time, and the next line only when its child is over.
THEOREM Refinement == Spec => Fg!Safety
  <1>1. Init => Fg!Init
    BY DEF Init, Fg!Init, Over
  <1>2. IInv /\ [Next]_vars => [Fg!Next]_(Fg!fgVars)
    <2> SUFFICES ASSUME TypeOK, WaitInv, [Next]_vars
                 PROVE  Fg!Next \/ UNCHANGED Fg!fgVars
      BY DEF IInv
    <2>1. CASE Fill \/ ReadLine \/ ReadEof \/ While
      BY <2>1 DEF Fill, ReadLine, ReadEof, While, AfterReading, procs, WaitInv, Fg!fgVars
    <2>2. CASE DispatchStep
      <3>1. pc = "dispatch" /\ child = "none"
        BY <2>2, DispatchSteps DEF WaitInv
      <3>2. CASE pc' \in {"crashed", "while"}
        BY <2>2, <3>1, <3>2, DispatchSteps DEF Fg!fgVars
      <3>3. CASE pc' = "waitpid"
        <4>1. child' \in {"execvp", "runPipeCmd"}
          BY <2>2, <3>3, DispatchSteps
        <4>2. QED
          BY <3>1, <3>3, <4>1 DEF Fg!Next, Fg!Launch, Over
      <3>4. QED
        BY <2>2, <3>2, <3>3, DispatchSteps
    <2>3. CASE WaitPid
      BY <2>3 DEF WaitPid, WaitInv, Over, Fg!fgVars
    <2>4. CASE LoopTest
      <3>1. CASE wstatus \in Over
        <4>1. pc = "test" /\ child = "reaped" /\ pc' = "while" /\ child' = "none"
          BY <2>4, <3>1 DEF LoopTest, WaitInv
        <4>2. QED
          BY <4>1 DEF Fg!Next, Fg!Return, Over
      <3>2. CASE wstatus \notin Over
        BY <2>4, <3>2 DEF LoopTest, Fg!fgVars
      <3>3. QED
        BY <3>1, <3>2
    <2>5. CASE ChildStep
      <3>1. pc' = pc /\ (child' = child \/ (ChildAlive /\ child' \in {"execvp", "running"} \cup Over))
        BY <2>5, ChildSteps DEF Untold
      <3>2. CASE child' = child
        BY <3>1, <3>2 DEF Fg!fgVars
      <3>3. CASE ChildAlive /\ child' \in {"execvp", "running"}
        BY <3>1, <3>3 DEF Fg!fgVars, ChildAlive, Over
      <3>4. CASE ChildAlive /\ child' \in Over
        BY <3>1, <3>4 DEF Fg!Next, Fg!Finish, ChildAlive, Over
      <3>5. QED
        BY <3>1, <3>2, <3>3, <3>4
    <2>6. CASE UNCHANGED vars
      BY <2>6 DEF vars, Fg!fgVars
    <2>7. QED
      BY <2>1, <2>2, <2>3, <2>4, <2>5, <2>6, Cases
  <1>3. QED
    BY <1>1, <1>2, Invariance, PTL DEF Spec, Fg!Safety

-----------------------------------------------------------------------------
(* What holds when the offset of standard input cannot be moved            *)

LEMMA OffNext ==
  ASSUME ~Seekable, TypeOK, OffInv, [Next]_vars
  PROVE  OffInv' /\ pos' >= pos
  <1>1. pos \in Nat /\ hi \in Nat /\ off \in Nat /\ Len(script) \in Nat
    BY ScriptsAssumption DEF TypeOK
  <1>2. CASE Fill
    <2>1. pos = hi /\ pos' = off + 1 /\ hi' = off' + 1 /\ off' \in Int
      BY <1>1, <1>2 DEF Fill
    <2>2. off = hi - 1
      BY DEF OffInv
    <2>3. pos' = pos
      BY <1>1, <2>1, <2>2
    <2>4. \A q \in Int : q = (q + 1) - 1
      OBVIOUS
    <2>5. off' = (off' + 1) - 1
      BY <2>1, <2>4
    <2>6. off' = hi' - 1
      BY <2>1, <2>5
    <2>7. pos' >= pos
      BY <1>1, <2>3
    <2>8. QED
      BY <2>6, <2>7 DEF OffInv
  <1>3. CASE ReadLine
    BY <1>1, <1>3 DEF ReadLine, OffInv
  <1>4. ASSUME UNCHANGED <<pos, hi, off>> PROVE OffInv' /\ pos' >= pos
    BY <1>1, <1>4 DEF OffInv
  <1>5. CASE ReadEof \/ While \/ WaitPid \/ LoopTest
    BY <1>4, <1>5 DEF ReadEof, While, WaitPid, LoopTest, stdin
  <1>6. CASE DispatchStep
    BY <1>4, <1>6, DispatchSteps
  <1>7. CASE ChildStep
    BY <1>4, <1>7, ChildSteps DEF Untold
  <1>8. CASE UNCHANGED vars
    BY <1>4, <1>8 DEF vars
  <1>9. QED
    BY <1>2, <1>3, <1>5, <1>6, <1>7, <1>8, Cases

\* A line cd executes is that of cd, and only "cd ~/..." frees a block for good.
LEMMA CdStep ==
  ASSUME TypeOK, LineInv, RecycledInv, Cd, prog # "lsh"
  PROVE  /\ pc = "dispatch" /\ recycled \in Nat
         /\ recycled > 0 => CdInBefore(pos - 2)
         /\ recycled' > 0 => CdInBefore(pos - 1)
         /\ LET args == Args(input) IN
            /\ Len(args) \in Nat \ {0}
            /\ Len(args) = 1 => path' = Home \/ CdInBefore(pos - 2) \/ failed # 0
            /\ Len(args) > 1 =>
                  IF InHome(args[2])
                  THEN \/ path' = Home \o <<InDir>> \o Tail(args[2])
                       \/ CdInBefore(pos - 2) /\ failed # 0
                  ELSE path' = args[2]
  <1> DEFINE args == Args(input)
             n == Len(args)
  <1>1. pc = "dispatch" /\ input # <<>> /\ Command("cd") /\ MyCd(args)
    BY DEF Cd, Builtin, Call, LineInv
  <1>2. pos \in Nat /\ pos > 1 /\ input = StoredLine(script[pos - 1]) /\ input \in Seq(Symbols)
    <2>1. pos > 1 /\ input = StoredLine(script[pos - 1]) /\ input \in Seq(Symbols)
      BY <1>1 DEF LineInv
    <2>2. pos \in Nat
      BY ScriptsAssumption DEF TypeOK
    <2>3. QED
      BY <2>1, <2>2
  <1>3. recycled \in 0..2
    BY DEF TypeOK
  <1>4. n \in Nat \ {0}
    <2>1. args \in Seq(Words(Symbols)) /\ args # <<>>
      BY <1>1, <1>2, ArgsType DEF Command
    <2> HIDE DEF args
    <2>2. QED
      BY <2>1
  <1>5. recycled > 0 => CdInBefore(pos - 2)
    BY <1>1 DEF RecycledInv, Done
  <1>6. recycled > 0 => CdInBefore(pos - 1)
    <2> SUFFICES ASSUME recycled > 0 PROVE CdInBefore(pos - 1)
      OBVIOUS
    <2>1. \A i \in 1 .. pos - 2 : i \in 1 .. pos - 1
      BY <1>2
    <2>2. QED
      BY <1>5, <2>1 DEF CdInBefore
  <1>7. Taken(1) \in Nat /\ (Taken(1) > 0 => recycled > 0)
    BY <1>3 DEF Taken
  <1>8. n = 1 => path' \in HomePaths(0) /\ recycled' = Taken(1)
    BY <1>1 DEF MyCd
  <1>9. n > 1 /\ ~InHome(args[2]) => path' = args[2] /\ recycled' = Taken(1)
    BY <1>1, <1>4 DEF MyCd, Chdir
  <1>10. n > 1 /\ InHome(args[2]) =>
            /\ \/ path' = Home \o <<InDir>> \o Tail(args[2])
               \/ CdInBefore(pos - 2) /\ failed # 0
            /\ CdInBefore(pos - 1)
    <2> SUFFICES ASSUME n > 1, InHome(args[2])
                 PROVE  /\ \/ path' = Home \o <<InDir>> \o Tail(args[2])
                           \/ CdInBefore(pos - 2) /\ failed # 0
                        /\ CdInBefore(pos - 1)
      OBVIOUS
    <2>1. CdInHome(args[2])
      BY <1>1, <1>4 DEF MyCd
    <2>2. PICK home \in HomePaths(2) : path' = home \o <<InDir>> \o Tail(args[2])
      BY <2>1 DEF CdInHome, Chdir
    <2>3. home = Home \/ Used(2)
      BY DEF HomePaths
    <2>4. Used(2) => CdInBefore(pos - 2) /\ failed # 0
      BY <1>3, <1>5 DEF Used
    <2>5. args[1] = <<"cd">> /\ args = Args(StoredLine(script[pos - 1])) /\ pos - 1 \in 1 .. pos - 1
      BY <1>1, <1>2 DEF Command
    <2>6. CdInBefore(pos - 1)
      BY <2>5 DEF CdInBefore
    <2>7. QED
      BY <2>2, <2>3, <2>4, <2>6
  <1>11. recycled' > 0 => CdInBefore(pos - 1)
    <2> HIDE DEF n
    <2>1. n = 1 \/ n > 1
      BY <1>4
    <2>2. QED
      BY <1>6, <1>7, <1>8, <1>9, <1>10, <2>1
  <1>12. pc = "dispatch" /\ recycled \in Nat
    BY <1>1, <1>3
  <1>13. n = 1 => path' = Home \/ CdInBefore(pos - 2) \/ failed # 0
    <2>1. Used(0) => recycled > 0 \/ failed # 0
      BY <1>3 DEF Used
    <2>2. QED
      BY <1>5, <1>8, <2>1 DEF HomePaths
  <1>14. n > 1 => IF InHome(args[2])
                  THEN \/ path' = Home \o <<InDir>> \o Tail(args[2])
                       \/ CdInBefore(pos - 2) /\ failed # 0
                  ELSE path' = args[2]
    <2> HIDE DEF n, args
    <2>1. QED
      BY <1>9, <1>10
  <1>15. QED
    BY <1>4, <1>5, <1>11, <1>12, <1>13, <1>14

\* What stands before p stands before q.
LEMMA Later ==
  ASSUME NEW p \in Nat, NEW q \in Nat, q >= p
  PROVE  /\ \A i \in 1 .. p - 2 : i \in 1 .. q - 2 /\ i \in 1 .. q - 1
         /\ \A i \in 1 .. p - 1 : i \in 1 .. q - 1
         /\ q = p + 1 => q - 2 = p - 1
  OBVIOUS

LEMMA RecycledNext ==
  ASSUME ~Seekable, TypeOK, LineInv, OffInv, RecycledInv, [Next]_vars
  PROVE  RecycledInv'
  <1>1. pos \in Nat /\ pos' \in Nat /\ pos' >= pos
    <2>1. TypeOK' /\ pos' >= pos
      BY TypeNext, OffNext DEF LineInv
    <2>2. QED
      BY <2>1, ScriptsAssumption DEF TypeOK
  <1>2. ASSUME UNCHANGED <<prog, script, recycled>>,
               recycled > 0 /\ pc' = "dispatch" => pc = "dispatch" \/ pos' = pos + 1
        PROVE  RecycledInv'
    <2> SUFFICES ASSUME recycled > 0 PROVE RecycledInv'
      BY <1>2 DEF RecycledInv, Done
    <2>1. CASE pc = "dispatch"
      <3>1. CdInBefore(pos - 2) /\ prog # "lsh"
        BY <2>1 DEF RecycledInv, Done
      <3>2. \A i \in 1 .. pos - 2 : i \in 1 .. pos' - 2 /\ i \in 1 .. pos' - 1
        BY <1>1, Later
      <3>3. CdInBefore(pos - 2)' /\ CdInBefore(pos - 1)'
        BY <1>2, <3>1, <3>2 DEF CdInBefore, StoredLine
      <3>4. QED
        BY <1>2, <3>1, <3>3 DEF RecycledInv, Done
    <2>2. CASE pc # "dispatch"
      <3>1. CdInBefore(pos - 1) /\ prog # "lsh"
        BY <2>2 DEF RecycledInv, Done
      <3>2. CASE pc' = "dispatch"
        <4>1. pos' - 2 = pos - 1
          BY <1>1, <1>2, <2>2, <3>2, Later
        <4>2. CdInBefore(pos - 2)'
          BY <1>2, <3>1, <4>1 DEF CdInBefore, StoredLine
        <4>3. QED
          BY <1>2, <3>1, <3>2, <4>2 DEF RecycledInv, Done
      <3>3. CASE pc' # "dispatch"
        <4>1. \A i \in 1 .. pos - 1 : i \in 1 .. pos' - 1
          BY <1>1, Later
        <4>2. CdInBefore(pos - 1)'
          BY <1>2, <3>1, <4>1 DEF CdInBefore, StoredLine
        <4>3. QED
          BY <1>2, <3>1, <3>3, <4>2 DEF RecycledInv, Done
      <3>4. QED
        BY <3>2, <3>3
    <2>3. QED
      BY <2>1, <2>2
  <1>3. CASE Fill
    BY <1>2, <1>3 DEF Fill, directory
  <1>4. CASE ReadLine
    BY <1>2, <1>4 DEF ReadLine, directory
  <1>5. CASE ReadEof
    BY <1>2, <1>5 DEF ReadEof, AfterReading, RecycledInv, Done, directory
  <1>6. CASE While \/ WaitPid \/ LoopTest
    BY <1>2, <1>6 DEF While, WaitPid, LoopTest, directory
  <1>7. CASE DispatchStep
    <2>1. pc' # "dispatch" /\ UNCHANGED <<prog, script, pos>> /\ (Cd \/ UNCHANGED recycled)
      BY <1>7, DispatchSteps
    <2>2. CASE UNCHANGED recycled
      BY <1>2, <2>1, <2>2
    <2>3. CASE Cd /\ prog = "lsh"
      BY <1>2, <2>1, <2>3 DEF Cd, LshCd
    <2>4. CASE Cd /\ prog # "lsh"
      <3>1. recycled' > 0 => CdInBefore(pos - 1)
        BY <2>4, CdStep
      <3>2. recycled' > 0 => CdInBefore(pos - 1)'
        BY <2>1, <3>1 DEF CdInBefore, StoredLine
      <3>3. QED
        BY <2>1, <2>4, <3>2 DEF RecycledInv, Done
    <2>5. QED
      BY <2>1, <2>2, <2>3, <2>4
  <1>8. CASE ChildStep
    BY <1>2, <1>8, ChildSteps DEF Untold
  <1>9. CASE UNCHANGED vars
    BY <1>2, <1>9 DEF vars, directory
  <1>10. QED
    BY <1>3, <1>4, <1>5, <1>6, <1>7, <1>8, <1>9, Cases

\* What lies behind p lies behind q.
LEMMA Behind ==
  ASSUME NEW p \in Nat, NEW q \in Nat, q >= p
  PROVE  /\ p - 2 <= q - 2 /\ p - 2 <= q - 1 /\ p - 1 <= q - 1
         /\ q = p + 1 => p - 1 <= q - 2
  OBVIOUS

\* The lines that have given an error message are behind the shell.
LEMMA FailedNext ==
  ASSUME ~Seekable, TypeOK, LineInv, OffInv, FailedInv, [Next]_vars
  PROVE  FailedInv'
  <1>1. pos \in Nat /\ pos' \in Nat /\ pos' >= pos /\ failed \in Nat
    <2>1. TypeOK' /\ pos' >= pos
      BY TypeNext, OffNext DEF LineInv
    <2>2. QED
      BY <2>1, ScriptsAssumption DEF TypeOK
  <1>2. ASSUME UNCHANGED <<prog, failed>>,
               prog # "lsh" /\ pc' = "dispatch" => pc = "dispatch" \/ pos' = pos + 1
        PROVE  FailedInv'
    <2> SUFFICES ASSUME prog' # "lsh", failed' # 0 PROVE failed' <= Done'
      BY DEF FailedInv
    <2>1. prog # "lsh" /\ failed' = failed /\ failed <= Done
      BY <1>2 DEF FailedInv
    <2>2. Done <= Done'
      <3>1. pos - 2 <= pos' - 2 /\ pos - 2 <= pos' - 1 /\ pos - 1 <= pos' - 1
        BY <1>1, Behind
      <3>2. pos' = pos + 1 => pos - 1 <= pos' - 2
        BY <1>1, Behind
      <3>3. pc' = "dispatch" => pc = "dispatch" \/ pos' = pos + 1
        BY <1>2, <2>1
      <3>4. /\ Done = IF pc = "dispatch" THEN pos - 2 ELSE pos - 1
            /\ Done' = IF pc' = "dispatch" THEN pos' - 2 ELSE pos' - 1
        BY DEF Done
      <3>5. QED
        BY <3>1, <3>2, <3>3, <3>4, Zenon
    <2>3. Done \in Int /\ Done' \in Int
      BY <1>1 DEF Done
    <2>4. QED
      BY <1>1, <2>1, <2>2, <2>3
  <1>3. CASE Fill
    BY <1>2, <1>3 DEF Fill, directory
  <1>4. CASE ReadLine
    BY <1>2, <1>4 DEF ReadLine, directory
  <1>5. CASE ReadEof
    BY <1>2, <1>5 DEF ReadEof, AfterReading, directory
  <1>6. CASE While \/ WaitPid \/ LoopTest
    BY <1>2, <1>6 DEF While, WaitPid, LoopTest, directory
  <1>7. CASE DispatchStep
    <2>1. /\ pc = "dispatch" /\ pc' # "dispatch" /\ UNCHANGED <<prog, pos>>
          /\ failed' = failed \/ failed' = pos - 1
      BY <1>7, DispatchSteps
    <2>2. QED
      BY <1>1, <2>1 DEF FailedInv, Done
  <1>8. CASE ChildStep
    BY <1>2, <1>8, ChildSteps DEF Untold
  <1>9. CASE UNCHANGED vars
    BY <1>2, <1>9 DEF vars, directory
  <1>10. QED
    BY <1>3, <1>4, <1>5, <1>6, <1>7, <1>8, <1>9, Cases

\* What CdGoesThere says of the path.
GoesThere ==
    LET args == Args(input)
        failedBefore == failed \in 1 .. pos - 2
    IN /\ Len(args) = 1 => path = Home \/ CdInBefore(pos - 2) \/ failedBefore
       /\ Len(args) > 1 =>
             IF InHome(args[2])
             THEN \/ path = Home \o <<InDir>> \o Tail(args[2])
                  \/ CdInBefore(pos - 2) /\ failedBefore
             ELSE path = args[2]

LEMMA CdGoesNext ==
  ASSUME TypeOK, LineInv, WaitInv, RecycledInv, FailedInv, CdGoesThere, [Next]_vars
  PROVE  CdGoesThere'
  <1>1. ASSUME pc' # "while" \/ ~Command("cd")' \/ Callee(input)' # "executeCommand"
        PROVE  CdGoesThere'
    BY <1>1 DEF CdGoesThere
  <1>2. ASSUME GoesThere' PROVE CdGoesThere'
    BY <1>2 DEF CdGoesThere, GoesThere
  <1>3. ASSUME UNCHANGED <<prog, script, input, path, failed, pos, pc>> PROVE CdGoesThere'
    <2>1. GoesThere <=> GoesThere'
      BY <1>3 DEF GoesThere, CdInBefore, StoredLine
    <2>2. CASE pc = "while" /\ Command("cd") /\ Callee(input) = "executeCommand"
      <3>1. GoesThere
        BY <2>2 DEF CdGoesThere, GoesThere
      <3>2. QED
        BY <1>2, <2>1, <3>1
    <2>3. CASE pc # "while" \/ ~Command("cd") \/ Callee(input) # "executeCommand"
      BY <1>1, <1>3, <2>3, SameText
    <2>4. QED
      BY <2>2, <2>3
  <1>4. CASE Fill
    BY <1>1, <1>4 DEF Fill
  <1>5. CASE ReadLine \/ ReadEof
    <2>1. pc' = "while" => input' = <<>>
      BY <1>5 DEF ReadLine, ReadEof, AfterReading
    <2>2. input' = <<>> => ~Command("cd")'
      BY EmptyLine DEF Command, Args
    <2>3. QED
      BY <1>1, <2>1, <2>2
  <1>6. CASE While
    BY <1>1, <1>6 DEF While
  <1>7. CASE DispatchStep
    <2>1. UNCHANGED <<prog, script, input, pos>>
          /\ (pc' # "while" \/ Cd \/ ~Command("cd") \/ Callee(input) # "executeCommand")
      BY <1>7, DispatchSteps
    <2>2. CASE pc' # "while" \/ ~Command("cd") \/ Callee(input) # "executeCommand"
      BY <1>1, <2>1, <2>2, SameText
    <2>3. CASE Cd /\ Callee(input) = "executeCommand"
      <3>1. prog # "lsh"
        BY <2>3, Callees DEF TypeOK
      <3> DEFINE args == Args(input)
      <3>2. /\ pc = "dispatch"
            /\ Len(args) = 1 => path' = Home \/ CdInBefore(pos - 2) \/ failed # 0
            /\ Len(args) > 1 =>
                  IF InHome(args[2])
                  THEN \/ path' = Home \o <<InDir>> \o Tail(args[2])
                       \/ CdInBefore(pos - 2) /\ failed # 0
                  ELSE path' = args[2]
        BY <2>3, <3>1, CdStep
      <3>3. failed # 0 => failed' \in 1 .. pos - 2
        <4>1. failed \in Nat /\ pos \in Nat
          BY ScriptsAssumption DEF TypeOK
        <4>2. failed # 0 => failed' = failed
          BY <2>3 DEF Cd, MyCd, LshCd, CdInHome, Chdir, Perror
        <4>3. failed # 0 => failed <= pos - 2
          BY <3>1, <3>2 DEF FailedInv, Done
        <4>4. QED
          BY <4>1, <4>2, <4>3
      <3>4. CdInBefore(pos - 2) => CdInBefore(pos - 2)'
        BY <2>1 DEF CdInBefore, StoredLine
      <3>5. GoesThere'
        BY <2>1, <3>2, <3>3, <3>4 DEF GoesThere
      <3>6. QED
        BY <1>2, <3>5
    <2>4. QED
      BY <2>1, <2>2, <2>3
  <1>8. CASE WaitPid
    BY <1>1, <1>8 DEF WaitPid
  <1>9. CASE LoopTest
    <2>1. UNCHANGED <<prog, input>> /\ (~Command("cd") \/ Callee(input) # "executeCommand")
      BY <1>9 DEF LoopTest, WaitInv
    <2>2. QED
      BY <1>1, <2>1, SameText
  <1>10. CASE ChildStep
    BY <1>3, <1>10, ChildSteps DEF Untold
  <1>11. CASE UNCHANGED vars
    BY <1>3, <1>11 DEF vars, directory
  <1>12. QED
    BY <1>4, <1>5, <1>6, <1>7, <1>8, <1>9, <1>10, <1>11, Cases

LEMMA PipeInvariance == ~Seekable => (Spec => []PipeInv)
  <1> SUFFICES ASSUME ~Seekable PROVE Spec => []PipeInv
    OBVIOUS
  <1>1. Init => PipeInv
    <2> SUFFICES ASSUME Init PROVE PipeInv
      OBVIOUS
    <2>1. off = 0 /\ hi = 1 /\ recycled = 0 /\ failed = 0 /\ pc = "getchar"
      BY DEF Init
    <2>2. QED
      BY <2>1 DEF PipeInv, OffInv, RecycledInv, FailedInv, CdGoesThere
  <1>2. IInv /\ PipeInv /\ [Next]_vars => PipeInv'
    <2> SUFFICES ASSUME IInv, PipeInv, [Next]_vars PROVE PipeInv'
      OBVIOUS
    <2>1. TypeOK /\ LineInv /\ WaitInv /\ OffInv /\ RecycledInv /\ FailedInv /\ CdGoesThere
      BY DEF IInv, PipeInv
    <2>2. QED
      BY <2>1, OffNext, RecycledNext, FailedNext, CdGoesNext DEF PipeInv
  <1>3. QED
    BY <1>1, <1>2, Invariance, PTL DEF Spec

\* cd goes where it says, if no child moves the script back under the shell.
THEOREM CdGoes == ~Seekable => (Spec => []CdGoesThere)
  <1> SUFFICES ASSUME ~Seekable PROVE Spec => []CdGoesThere
    OBVIOUS
  <1>1. QED
    BY PipeInvariance, PTL DEF PipeInv

\* At a pipe or a terminal every shell executes each line once: stdio may have read
\* ahead in the shell and in its children, but no exit can give anything back.
THEOREM LinesExecutedOnce == ~Seekable => (Spec => EachLineOnce)
  <1> SUFFICES ASSUME ~Seekable PROVE Spec => EachLineOnce
    OBVIOUS
  <1>1. IInv /\ PipeInv /\ [Next]_vars => [pos' >= pos]_vars
    BY OffNext DEF IInv, PipeInv
  <1>2. QED
    BY <1>1, Invariance, PipeInvariance, PTL DEF Spec, EachLineOnce
=============================================================================
