-------------------------- MODULE CoverageRunProofs -------------------------
(***************************************************************************)
(* Proofs about CoverageRun, for any sites, any shapes of chunks and any   *)
(* parameters of the plan: first that plans are whole and cut without a    *)
(* gap, that rings follow on and are gone round, then what holds while a   *)
(* plan is driven.                                                         *)
(***************************************************************************)
EXTENDS CoverageRun, SequenceTheorems, FiniteSetTheorems, SetInduction, TLAPS

-----------------------------------------------------------------------------
(* Sequences.                                                               *)

\* Some elements of a sequence, in order.
LEMMA OnlyUnfold ==
  ASSUME NEW A, NEW s \in Seq(A), NEW places
  PROVE  \E f \in [0 .. Len(s) -> Seq(A)] :
           /\ f[0] = << >> /\ Only(s, places) = f[Len(s)]
           /\ \A n \in 1 .. Len(s) :
                f[n] = IF n \in places THEN Append(f[n - 1], s[n]) ELSE f[n - 1]
<1> DEFINE N == Len(s)
           V == Seq(A)
           move == [p \in (1 .. N) \X V |-> IF p[1] \in places THEN Append(p[2], s[p[1]]) ELSE p[2]]
           Is(g) == g = [n \in 0 .. N |->
                           IF n = 0 THEN << >>
                           ELSE IF n \in places THEN Append(g[n - 1], s[n]) ELSE g[n - 1]]
           Upto == CHOOSE g : Is(g)
<1>1. N \in Nat /\ << >> \in V /\ \A n \in 1 .. N : s[n] \in A
  BY LenProperties, EmptySeq, ElementOfSeq
<1>2. move \in [(1 .. N) \X V -> V]
  <2>1. ASSUME NEW n \in 1 .. N, NEW t \in V PROVE Append(t, s[n]) \in V
    BY <1>1
  <2> HIDE DEF N, V
  <2> QED BY <2>1
<1>3. IsStepwise(V, N, << >>, move)
  <2> HIDE DEF N, V, move
  <2> QED BY <1>1, <1>2 DEF IsStepwise
<1>4. PICK f \in [0 .. N -> V] : f[0] = << >> /\ \A n \in 1 .. N : f[n] = move[<<n, f[n - 1]>>]
  <2> HIDE DEF N, V, move
  <2> QED BY <1>3, StepwiseRecursion
<1>5. \A n \in 1 .. N : f[n] = IF n \in places THEN Append(f[n - 1], s[n]) ELSE f[n - 1]
  <2> TAKE n \in 1 .. N
  <2>1. f[n - 1] \in V
    BY <1>1
  <2> HIDE DEF V
  <2> QED BY <1>4, <2>1
<1>6. Is(f)
  <2> HIDE DEF N, V
  <2>1. \A n \in 0 .. N : n = 0 \/ n \in 1 .. N
    BY <1>1
  <2> QED BY <1>4, <1>5, <2>1
<1>7. Is(Upto)
  <2> HIDE DEF Is
  <2> QED BY <1>6
<1>8. /\ Upto[0] = << >>
      /\ \A n \in 1 .. N : Upto[n] = IF n \in places THEN Append(Upto[n - 1], s[n]) ELSE Upto[n - 1]
      /\ DOMAIN Upto = 0 .. N
  <2>1. \A n \in 0 .. N : Upto[n] = IF n = 0 THEN << >>
                                   ELSE IF n \in places THEN Append(Upto[n - 1], s[n]) ELSE Upto[n - 1]
    <3> HIDE DEF Upto, N
    <3> QED BY <1>7, Zenon
  <2>2. DOMAIN Upto = 0 .. N
    <3> HIDE DEF Upto, N
    <3> QED BY <1>7, Zenon
  <2> HIDE DEF Upto, N
  <2>3. 0 \in 0 .. N /\ \A n \in 1 .. N : n \in 0 .. N /\ n # 0
    BY <1>1
  <2> QED BY <2>1, <2>2, <2>3, Zenon
<1>9. \A n \in 0 .. N : Upto[n] \in V
  <2>1. \A n \in 1 .. N : Upto[n - 1] \in V => Upto[n] = move[<<n, Upto[n - 1]>>]
    <3> HIDE DEF N, V, Upto
    <3> QED BY <1>8
  <2> DEFINE start == << >>
  <2>2. IsStepwise(V, N, start, move) /\ Upto[0] = start
    BY <1>3, <1>8
  <2> HIDE DEF N, V, move, Upto, start
  <2> QED BY <2>1, <2>2, StepwiseType
<1>10. Upto \in [0 .. N -> V]
  <2>1. Upto = [n \in 0 .. N |-> Upto[n]]
    <3> HIDE DEF Upto
    <3> QED BY <1>7
  <2> HIDE DEF N, V, Upto
  <2> QED BY <1>9, <2>1
<1>11. Only(s, places) = Upto[N]
  BY Zenon DEF Only
<1> HIDE DEF N, V, Upto
<1> QED BY <1>8, <1>10, <1>11 DEF N, V

\* What is in a sequence, and when it is there once.
LEMMA ToSetIs ==
  ASSUME NEW A, NEW s \in Seq(A)
  PROVE  /\ ToSet(s) \subseteq A
         /\ \A x : x \in ToSet(s) <=> \E i \in 1 .. Len(s) : x = s[i]
         /\ IsInjective(s) <=> \A i, j \in 1 .. Len(s) : s[i] = s[j] => i = j
<1>1. DOMAIN s = 1 .. Len(s) /\ \A i \in 1 .. Len(s) : s[i] \in A
  BY LenProperties, ElementOfSeq
<1> QED BY <1>1 DEF ToSet, IsInjective

\* Nothing is in an empty sequence.
LEMMA EmptyIs == ToSet(<< >>) = {} /\ IsInjective(<< >>)
<1>1. << >> \in Seq({}) /\ Len(<< >>) = 0
  BY EmptySeq
<1>2. \A i \in 1 .. 0 : FALSE
  OBVIOUS
<1> DEFINE e == << >>
<1> HIDE DEF e
<1>3. e \in Seq({}) /\ Len(e) = 0
  BY <1>1 DEF e
<1>4. ToSet(e) = {} /\ IsInjective(e)
  BY <1>2, <1>3, ToSetIs
<1> QED BY <1>4 DEF e

\* One element more.
LEMMA AppendIs ==
  ASSUME NEW A, NEW s \in Seq(A), NEW e \in A
  PROVE  /\ Append(s, e) \in Seq(A) /\ Len(Append(s, e)) = Len(s) + 1
         /\ \A i \in 1 .. Len(s) : Append(s, e)[i] = s[i]
         /\ Append(s, e)[Len(s) + 1] = e
         /\ ToSet(Append(s, e)) = ToSet(s) \union {e}
         /\ IsInjective(s) /\ e \notin ToSet(s) => IsInjective(Append(s, e))
<1> DEFINE t == Append(s, e)
<1>1. /\ t \in Seq(A) /\ Len(t) = Len(s) + 1 /\ Len(s) \in Nat
      /\ \A i \in 1 .. Len(s) : t[i] = s[i]
      /\ t[Len(s) + 1] = e
  OBVIOUS
<1> HIDE DEF t
<1>2. \A i : i \in 1 .. Len(t) <=> i \in 1 .. Len(s) \/ i = Len(s) + 1
  BY <1>1
<1>3. /\ \A x : x \in ToSet(t) <=> \E i \in 1 .. Len(t) : x = t[i]
      /\ \A x : x \in ToSet(s) <=> \E i \in 1 .. Len(s) : x = s[i]
      /\ IsInjective(s) => \A i, j \in 1 .. Len(s) : s[i] = s[j] => i = j
      /\ (\A i, j \in 1 .. Len(t) : t[i] = t[j] => i = j) => IsInjective(t)
  BY <1>1, ToSetIs
<1>4. ToSet(t) = ToSet(s) \union {e}
  <2>1. \A x : x \in ToSet(t) <=> x \in ToSet(s) \/ x = e
    BY <1>1, <1>2, <1>3
  <2> QED BY <2>1
<1>5. ASSUME IsInjective(s), e \notin ToSet(s) PROVE IsInjective(t)
  <2>1. \A i \in 1 .. Len(s) : t[i] # e
    BY <1>1, <1>3, <1>5
  <2>2. ASSUME NEW i \in 1 .. Len(t), NEW j \in 1 .. Len(t), t[i] = t[j] PROVE i = j
    BY <1>1, <1>2, <1>3, <1>5, <2>1, <2>2
  <2> QED BY <1>3, <2>2
<1> QED BY <1>1, <1>4, <1>5 DEF t

\* One sequence behind another.
LEMMA ConcatIs ==
  ASSUME NEW A, NEW s \in Seq(A), NEW t \in Seq(A)
  PROVE  /\ s \o t \in Seq(A) /\ Len(s \o t) = Len(s) + Len(t)
         /\ ToSet(s \o t) = ToSet(s) \union ToSet(t)
         /\ IsInjective(s) /\ IsInjective(t) /\ ToSet(s) \cap ToSet(t) = {} => IsInjective(s \o t)
<1> DEFINE u == s \o t
           m == Len(s)
           n == Len(t)
<1>1. /\ u \in Seq(A) /\ Len(u) = m + n /\ m \in Nat /\ n \in Nat
      /\ \A i \in 1 .. (m + n) : u[i] = IF i <= m THEN s[i] ELSE t[i - m]
  BY ConcatProperties, LenProperties
<1> HIDE DEF u, m, n
<1>2. /\ \A i \in 1 .. m : i \in 1 .. (m + n) /\ u[i] = s[i]
      /\ \A i \in 1 .. n : m + i \in 1 .. (m + n) /\ u[m + i] = t[i]
      /\ \A i \in 1 .. (m + n) : \/ i \in 1 .. m /\ u[i] = s[i]
                                 \/ i - m \in 1 .. n /\ u[i] = t[i - m]
  <2>1. ASSUME NEW i \in 1 .. m PROVE i \in 1 .. (m + n) /\ u[i] = s[i]
    BY <1>1
  <2>2. ASSUME NEW i \in 1 .. n PROVE m + i \in 1 .. (m + n) /\ u[m + i] = t[i]
    <3>1. m + i \in 1 .. (m + n) /\ ~(m + i <= m) /\ (m + i) - m = i
      BY <1>1
    <3> QED BY <1>1, <3>1
  <2>3. ASSUME NEW i \in 1 .. (m + n)
        PROVE  \/ i \in 1 .. m /\ u[i] = s[i]
               \/ i - m \in 1 .. n /\ u[i] = t[i - m]
    BY <1>1
  <2> QED BY <2>1, <2>2, <2>3
<1>3. /\ \A x : x \in ToSet(u) <=> \E i \in 1 .. (m + n) : x = u[i]
      /\ \A x : x \in ToSet(s) <=> \E i \in 1 .. m : x = s[i]
      /\ \A x : x \in ToSet(t) <=> \E i \in 1 .. n : x = t[i]
      /\ IsInjective(s) => \A i, j \in 1 .. m : s[i] = s[j] => i = j
      /\ IsInjective(t) => \A i, j \in 1 .. n : t[i] = t[j] => i = j
      /\ (\A i, j \in 1 .. (m + n) : u[i] = u[j] => i = j) => IsInjective(u)
  <2>1. \A r \in Seq(A) : /\ \A x : x \in ToSet(r) <=> \E i \in 1 .. Len(r) : x = r[i]
                          /\ IsInjective(r) <=> \A i, j \in 1 .. Len(r) : r[i] = r[j] => i = j
    BY ToSetIs
  <2>2. m = Len(s) /\ n = Len(t) /\ m + n = Len(u)
    BY <1>1 DEF m, n
  <2>3. /\ \A x : x \in ToSet(u) <=> \E i \in 1 .. (m + n) : x = u[i]
        /\ (\A i, j \in 1 .. (m + n) : u[i] = u[j] => i = j) => IsInjective(u)
    <3>1. 1 .. Len(u) = 1 .. (m + n)
      BY <2>2
    <3>2. /\ \A x : x \in ToSet(u) <=> \E i \in 1 .. Len(u) : x = u[i]
          /\ IsInjective(u) <=> \A i, j \in 1 .. Len(u) : u[i] = u[j] => i = j
      BY <1>1, <2>1, Zenon
    <3> QED BY <3>1, <3>2, Zenon
  <2>4. 1 .. Len(s) = 1 .. m /\ 1 .. Len(t) = 1 .. n
    BY <2>2
  <2> HIDE DEF m, n
  <2>5. /\ \A x : x \in ToSet(s) <=> \E i \in 1 .. m : x = s[i]
        /\ IsInjective(s) => \A i, j \in 1 .. m : s[i] = s[j] => i = j
    BY <2>1, <2>4
  <2>6. /\ \A x : x \in ToSet(t) <=> \E i \in 1 .. n : x = t[i]
        /\ IsInjective(t) => \A i, j \in 1 .. n : t[i] = t[j] => i = j
    BY <2>1, <2>4
  <2> QED BY <2>3, <2>5, <2>6
<1>4. ToSet(u) = ToSet(s) \union ToSet(t)
  <2>1. \A x : x \in ToSet(u) <=> x \in ToSet(s) \/ x \in ToSet(t)
    <3>1. ASSUME NEW x, x \in ToSet(u) PROVE x \in ToSet(s) \/ x \in ToSet(t)
      BY <1>2, <1>3, <3>1
    <3>2. ASSUME NEW x, x \in ToSet(s) PROVE x \in ToSet(u)
      BY <1>2, <1>3, <3>2
    <3>3. ASSUME NEW x, x \in ToSet(t) PROVE x \in ToSet(u)
      BY <1>2, <1>3, <3>3
    <3> QED BY <3>1, <3>2, <3>3
  <2> QED BY <2>1
<1>5. ASSUME IsInjective(s), IsInjective(t), ToSet(s) \cap ToSet(t) = {} PROVE IsInjective(u)
  <2> SUFFICES ASSUME NEW i \in 1 .. (m + n), NEW j \in 1 .. (m + n), u[i] = u[j] PROVE i = j
    BY <1>3
  <2>1. CASE i \in 1 .. m /\ u[i] = s[i] /\ j \in 1 .. m /\ u[j] = s[j]
    BY <1>3, <1>5, <2>1
  <2>2. CASE i - m \in 1 .. n /\ u[i] = t[i - m] /\ j - m \in 1 .. n /\ u[j] = t[j - m]
    <3>1. i - m = j - m
      BY <1>3, <1>5, <2>2
    <3> QED BY <1>1, <3>1
  <2>3. CASE i \in 1 .. m /\ u[i] = s[i] /\ j - m \in 1 .. n /\ u[j] = t[j - m]
    <3>1. u[i] \in ToSet(s) /\ u[j] \in ToSet(t)
      BY <1>3, <2>3
    <3> QED BY <1>5, <3>1
  <2>4. CASE i - m \in 1 .. n /\ u[i] = t[i - m] /\ j \in 1 .. m /\ u[j] = s[j]
    <3>1. u[i] \in ToSet(t) /\ u[j] \in ToSet(s)
      BY <1>3, <2>4
    <3> QED BY <1>5, <3>1
  <2> QED BY <1>2, <2>1, <2>2, <2>3, <2>4
<1> QED BY <1>1, <1>4, <1>5 DEF u, m, n

\* The elements at some places are there once each, if they are in the sequence.
LEMMA OnlyIs ==
  ASSUME NEW A, NEW s \in Seq(A), NEW places
  PROVE  /\ Only(s, places) \in Seq(A)
         /\ \A x : x \in ToSet(Only(s, places)) <=> \E i \in 1 .. Len(s) : i \in places /\ x = s[i]
         /\ IsInjective(s) => IsInjective(Only(s, places))
<1> DEFINE N == Len(s)
           V == Seq(A)
           At(n, x) == \E i \in 1 .. n : i \in places /\ x = s[i]
<1>1. PICK f \in [0 .. N -> V] :
        /\ f[0] = << >> /\ Only(s, places) = f[N]
        /\ \A n \in 1 .. N : f[n] = IF n \in places THEN Append(f[n - 1], s[n]) ELSE f[n - 1]
  BY OnlyUnfold
<1>2. N \in Nat /\ \A n \in 1 .. N : s[n] \in A
  BY LenProperties, ElementOfSeq
<1>3. IsInjective(s) => \A i, j \in 1 .. N : s[i] = s[j] => i = j
  BY ToSetIs
<1> HIDE DEF N
<1> DEFINE T == {n \in Nat : n <= N => /\ \A x : x \in ToSet(f[n]) <=> At(n, x)
                                       /\ IsInjective(s) => IsInjective(f[n])}
<1>4. 0 \in T
  <2>1. \A x : ~At(0, x)
    BY <1>2
  <2> QED BY <1>1, <2>1, EmptyIs
<1>5. ASSUME NEW n \in 0 .. (N - 1), n \in T PROVE n + 1 \in T
  <2> DEFINE m == n + 1
  <2>1. m \in 1 .. N /\ m - 1 = n /\ n \in Nat /\ n <= N /\ m \in Nat /\ n \in 0 .. N
    BY <1>2
  <2>2. \A i : i \in 1 .. m <=> i \in 1 .. n \/ i = m
    BY <2>1
  <2>3. f[m] = IF m \in places THEN Append(f[n], s[m]) ELSE f[n]
    BY <1>1, <2>1
  <2>4. f[n] \in V /\ s[m] \in A
    BY <1>1, <1>2, <2>1
  <2>5. /\ \A x : x \in ToSet(f[n]) <=> At(n, x)
        /\ IsInjective(s) => IsInjective(f[n])
    BY <1>5, <2>1
  <2> HIDE DEF m
  <2>6. CASE m \in places
    <3>1. /\ ToSet(f[m]) = ToSet(f[n]) \union {s[m]}
          /\ IsInjective(f[n]) /\ s[m] \notin ToSet(f[n]) => IsInjective(f[m])
      BY <2>3, <2>4, <2>6, AppendIs
    <3>2. \A x : x \in ToSet(f[m]) <=> At(m, x)
      BY <2>2, <2>5, <2>6, <3>1
    <3>3. ASSUME IsInjective(s) PROVE s[m] \notin ToSet(f[n])
      <4>1. \A i \in 1 .. n : i \in 1 .. N /\ i # m
        BY <1>2, <2>1 DEF m
      <4> QED BY <1>3, <2>1, <2>5, <3>3, <4>1
    <3> QED BY <2>1, <2>5, <3>1, <3>2, <3>3 DEF m
  <2>7. CASE m \notin places
    <3>1. \A x : At(m, x) <=> At(n, x)
      BY <2>2, <2>7
    <3> QED BY <2>1, <2>3, <2>5, <2>7, <3>1 DEF m
  <2> QED BY <2>6, <2>7
<1>6. 0 .. N \subseteq T
  <2> HIDE DEF T
  <2> QED BY <1>2, <1>4, <1>5, SetOfIntervalInduction
<1>7. N \in T
  BY <1>2, <1>6
<1>8. N \in 0 .. N /\ N <= N
  BY <1>2
<1> QED BY <1>1, <1>7, <1>8 DEF N
-----------------------------------------------------------------------------
(* The chunks of a segment.                                                 *)

\* How far each pose of a segment is along it.
LEMMA AlongUnfold ==
  ASSUME NEW s \in Seq(Nat)
  PROVE  \E f \in [0 .. Len(s) -> Nat] :
           /\ f[0] = 0 /\ \A i, j : LengthOf(s, i, j) = f[j] - f[i]
           /\ \A n \in 1 .. Len(s) : f[n] = f[n - 1] + s[n]
<1> DEFINE N == Len(s)
           V == Nat
           start == 0
           Next_(c, n) == c + s[n]
           move == [p \in (1 .. N) \X V |-> Next_(p[2], p[1])]
           Is(g) == g = [n \in 0 .. N |-> IF n = 0 THEN start ELSE Next_(g[n - 1], n)]
           Upto == CHOOSE g : Is(g)
<1>1. N \in Nat /\ start \in V
  BY LenProperties
<1>2. ASSUME NEW n \in 1 .. N, NEW c \in V PROVE Next_(c, n) \in V
  BY <1>1, ElementOfSeq
<1> HIDE DEF start, Next_
<1>3. move \in [(1 .. N) \X V -> V]
  <2> HIDE DEF N, V
  <2> QED BY <1>2
<1>4. IsStepwise(V, N, start, move)
  <2> HIDE DEF N, V, move
  <2> QED BY <1>1, <1>3 DEF IsStepwise
<1>5. PICK f \in [0 .. N -> V] : f[0] = start /\ \A n \in 1 .. N : f[n] = move[<<n, f[n - 1]>>]
  <2> HIDE DEF N, V, move
  <2> QED BY <1>4, StepwiseRecursion
<1>6. \A n \in 1 .. N : f[n] = Next_(f[n - 1], n)
  <2> TAKE n \in 1 .. N
  <2>1. f[n - 1] \in V
    <3>1. n - 1 \in 0 .. N
      BY <1>1
    <3> HIDE DEF N, V
    <3> QED BY <3>1
  <2> HIDE DEF N, V
  <2> QED BY <1>5, <2>1
<1>7. Is(f)
  <2> HIDE DEF N, V
  <2>1. \A n \in 0 .. N : n = 0 \/ n \in 1 .. N
    BY <1>1
  <2> QED BY <1>5, <1>6, <2>1
<1>8. Is(Upto)
  <2> HIDE DEF Is
  <2> QED BY <1>7
<1>9. /\ Upto[0] = start /\ DOMAIN Upto = 0 .. N
      /\ \A n \in 1 .. N : Upto[n] = Next_(Upto[n - 1], n)
  <2> HIDE DEF Upto, N
  <2>1. \A n \in 0 .. N : Upto[n] = IF n = 0 THEN start ELSE Next_(Upto[n - 1], n)
    BY <1>8, Zenon
  <2>2. DOMAIN Upto = 0 .. N
    BY <1>8, Zenon
  <2>3. 0 \in 0 .. N /\ \A n \in 1 .. N : n \in 0 .. N /\ n # 0
    BY <1>1
  <2> QED BY <2>1, <2>2, <2>3, Zenon
<1>10. \A n \in 0 .. N : Upto[n] \in V
  <2>1. \A n \in 1 .. N : Upto[n - 1] \in V => Upto[n] = move[<<n, Upto[n - 1]>>]
    <3> HIDE DEF N, V, Upto
    <3> QED BY <1>9
  <2>2. IsStepwise(V, N, start, move) /\ Upto[0] = start
    BY <1>4, <1>9
  <2> HIDE DEF N, V, move, Upto
  <2> QED BY <2>1, <2>2, StepwiseType
<1>11. Upto \in [0 .. N -> V]
  <2>1. Upto = [n \in 0 .. N |-> Upto[n]]
    <3> HIDE DEF Upto
    <3> QED BY <1>8
  <2> HIDE DEF N, V, Upto
  <2> QED BY <1>10, <2>1
<1>12. \A i, j : LengthOf(s, i, j) = Upto[j] - Upto[i]
  BY Zenon DEF start, Next_, LengthOf
<1> HIDE DEF Upto
<1> QED BY <1>9, <1>11, <1>12 DEF start, Next_

\* What is cut off at each pose of a segment.
LEMMA CutUnfold ==
  ASSUME NEW s \in Seq(Nat), Len(s) > 0
  PROVE  \E f \in [0 .. (Len(s) - 1) -> [chunks : Seq(Nat \X Nat), first : Nat, length : Nat]] :
           /\ f[0] = [chunks |-> << >>, first |-> 1, length |-> 0] /\ Cut(s) = f[Len(s) - 1]
           /\ \A n \in 1 .. (Len(s) - 1) : f[n] = 
             IF f[n - 1].length + s[n + 1] >= ChunkLength
               THEN [chunks |-> Append(f[n - 1].chunks, <<f[n - 1].first, n + 1>>), first |-> n + 1, length |-> 0]
               ELSE [chunks |-> f[n - 1].chunks, first |-> f[n - 1].first, length |-> f[n - 1].length + s[n + 1]]
<1> DEFINE N == (Len(s) - 1)
           V == [chunks : Seq(Nat \X Nat), first : Nat, length : Nat]
           start == [chunks |-> << >>, first |-> 1, length |-> 0]
           Next_(c, n) == 
             IF c.length + s[n + 1] >= ChunkLength
               THEN [chunks |-> Append(c.chunks, <<c.first, n + 1>>), first |-> n + 1, length |-> 0]
               ELSE [chunks |-> c.chunks, first |-> c.first, length |-> c.length + s[n + 1]]
           move == [p \in (1 .. N) \X V |-> Next_(p[2], p[1])]
           Is(g) == g = [n \in 0 .. N |-> IF n = 0 THEN start ELSE Next_(g[n - 1], n)]
           Upto == CHOOSE g : Is(g)
<1>1. N \in Nat /\ start \in V
  BY LenProperties
<1>2. ASSUME NEW n \in 1 .. N, NEW c \in V PROVE Next_(c, n) \in V
  <2>1. n + 1 \in 1 .. Len(s) /\ n + 1 \in Nat
    BY <1>1
  <2>2. s[n + 1] \in Nat
    BY <2>1, ElementOfSeq
  <2>3. Append(c.chunks, <<c.first, n + 1>>) \in Seq(Nat \X Nat)
    BY <2>1
  <2> QED BY <2>1, <2>2, <2>3
<1> HIDE DEF start, Next_
<1>3. move \in [(1 .. N) \X V -> V]
  <2> HIDE DEF N, V
  <2> QED BY <1>2
<1>4. IsStepwise(V, N, start, move)
  <2> HIDE DEF N, V, move
  <2> QED BY <1>1, <1>3 DEF IsStepwise
<1>5. PICK f \in [0 .. N -> V] : f[0] = start /\ \A n \in 1 .. N : f[n] = move[<<n, f[n - 1]>>]
  <2> HIDE DEF N, V, move
  <2> QED BY <1>4, StepwiseRecursion
<1>6. \A n \in 1 .. N : f[n] = Next_(f[n - 1], n)
  <2> TAKE n \in 1 .. N
  <2>1. f[n - 1] \in V
    <3>1. n - 1 \in 0 .. N
      BY <1>1
    <3> HIDE DEF N, V
    <3> QED BY <3>1
  <2> HIDE DEF N, V
  <2> QED BY <1>5, <2>1
<1>7. Is(f)
  <2> HIDE DEF N, V
  <2>1. \A n \in 0 .. N : n = 0 \/ n \in 1 .. N
    BY <1>1
  <2> QED BY <1>5, <1>6, <2>1
<1>8. Is(Upto)
  <2> HIDE DEF Is
  <2> QED BY <1>7
<1>9. /\ Upto[0] = start /\ DOMAIN Upto = 0 .. N
      /\ \A n \in 1 .. N : Upto[n] = Next_(Upto[n - 1], n)
  <2> HIDE DEF Upto, N
  <2>1. \A n \in 0 .. N : Upto[n] = IF n = 0 THEN start ELSE Next_(Upto[n - 1], n)
    BY <1>8, Zenon
  <2>2. DOMAIN Upto = 0 .. N
    BY <1>8, Zenon
  <2>3. 0 \in 0 .. N /\ \A n \in 1 .. N : n \in 0 .. N /\ n # 0
    BY <1>1
  <2> QED BY <2>1, <2>2, <2>3, Zenon
<1>10. \A n \in 0 .. N : Upto[n] \in V
  <2>1. \A n \in 1 .. N : Upto[n - 1] \in V => Upto[n] = move[<<n, Upto[n - 1]>>]
    <3> HIDE DEF N, V, Upto
    <3> QED BY <1>9
  <2>2. IsStepwise(V, N, start, move) /\ Upto[0] = start
    BY <1>4, <1>9
  <2> HIDE DEF N, V, move, Upto
  <2> QED BY <2>1, <2>2, StepwiseType
<1>11. Upto \in [0 .. N -> V]
  <2>1. Upto = [n \in 0 .. N |-> Upto[n]]
    <3> HIDE DEF Upto
    <3> QED BY <1>8
  <2> HIDE DEF N, V, Upto
  <2> QED BY <1>10, <2>1
<1>12. Cut(s) = Upto[Len(s) - 1]
  BY Zenon DEF start, Next_, Cut
<1> HIDE DEF Upto
<1> QED BY <1>9, <1>11, <1>12 DEF start, Next_

\* A part of a segment is not shorter when it goes on further.
LEMMA LengthGrows ==
  ASSUME NEW s \in Seq(Nat), NEW i \in 0 .. Len(s), NEW j \in i .. Len(s), NEW k \in j .. Len(s)
  PROVE  /\ LengthOf(s, i, i) = 0
         /\ LengthOf(s, i, j) \in Int
         /\ LengthOf(s, i, j) <= LengthOf(s, i, k)
         /\ j < Len(s) => LengthOf(s, i, j + 1) = LengthOf(s, i, j) + s[j + 1]
<1> DEFINE N == Len(s)
<1>1. N \in Nat /\ \A n \in 1 .. N : s[n] \in Nat
  BY LenProperties, ElementOfSeq
<1>2. PICK f \in [0 .. N -> Nat] : /\ \A a, b : LengthOf(s, a, b) = f[b] - f[a]
                                   /\ \A n \in 1 .. N : f[n] = f[n - 1] + s[n]
  BY AlongUnfold
<1>3. i \in 0 .. N /\ j \in i .. N /\ k \in j .. N
  OBVIOUS
<1> HIDE DEF N
<1> DEFINE T == {n \in Nat : n <= N => \A a \in 0 .. n : f[a] <= f[n]}
<1>4. 0 \in T
  BY <1>1
<1>5. ASSUME NEW n \in 0 .. (N - 1), n \in T PROVE n + 1 \in T
  <2>1. n + 1 \in 1 .. N /\ n + 1 \in Nat /\ (n + 1) - 1 = n /\ n \in 0 .. N
    BY <1>1
  <2>2. f[n + 1] = f[n] + s[n + 1] /\ s[n + 1] \in Nat /\ f[n] \in Nat
    BY <1>1, <1>2, <2>1
  <2>3. ASSUME NEW a \in 0 .. (n + 1) PROVE f[a] <= f[n + 1]
    <3>1. CASE a = n + 1
      BY <2>2, <3>1
    <3>2. CASE a # n + 1
      <4>1. a \in 0 .. n /\ a \in 0 .. N
        BY <1>1, <3>2
      <4>2. f[a] <= f[n] /\ f[a] \in Nat
        BY <1>1, <1>5, <4>1
      <4> QED BY <2>2, <4>2
    <3> QED BY <3>1, <3>2
  <2> QED BY <2>1, <2>3
<1>6. 0 .. N \subseteq T
  <2> HIDE DEF T
  <2> QED BY <1>1, <1>4, <1>5, SetOfIntervalInduction
<1>7. f[i] \in Nat /\ f[j] \in Nat /\ f[k] \in Nat /\ f[j] <= f[k]
  <2>1. k \in T /\ i \in 0 .. N /\ j \in 0 .. N /\ k \in 0 .. N /\ j \in 0 .. k /\ k <= N
    BY <1>1, <1>3, <1>6
  <2> QED BY <2>1
<1>8. j < N => f[j + 1] = f[j] + s[j + 1] /\ s[j + 1] \in Nat
  <2>1. j < N => j + 1 \in 1 .. N /\ (j + 1) - 1 = j
    BY <1>1, <1>3
  <2> QED BY <1>1, <1>2, <2>1
<1>9. j < N => LengthOf(s, i, j + 1) = LengthOf(s, i, j) + s[j + 1]
  <2>1. LengthOf(s, i, j + 1) = f[j + 1] - f[i] /\ LengthOf(s, i, j) = f[j] - f[i]
    BY <1>2
  <2> QED BY <1>7, <1>8, <2>1
<1>10. LengthOf(s, i, i) = f[i] - f[i] /\ LengthOf(s, i, j) = f[j] - f[i] /\ LengthOf(s, i, k) = f[k] - f[i]
  BY <1>2
<1> QED BY <1>7, <1>9, <1>10 DEF N

\* A chunk that was cut off at some pose or before, of at least some length.
IsPart(s, chunk_, pose, length) ==
  /\ chunk_ \in Nat \X Nat
  /\ 1 <= chunk_[1] /\ chunk_[1] <= chunk_[2] /\ chunk_[2] <= pose
  /\ LengthOf(s, chunk_[1], chunk_[2]) >= length

\* Each chunk starts where the one before it ended.
Follow(chunks) == \A k \in 2 .. Len(chunks) : chunks[k][1] = chunks[k - 1][2]

\* The chunks that were cut off up to a pose: from the first pose to where the next one starts.
IsCut(s, cut, pose) ==
  /\ cut \in [chunks : Seq(Nat \X Nat), first : Nat, length : Nat]
  /\ 1 <= cut.first /\ cut.first <= pose
  /\ cut.length = LengthOf(s, cut.first, pose)
  /\ Len(cut.chunks) = 0 => cut.first = 1
  /\ Len(cut.chunks) > 0 => cut.chunks[1][1] = 1 /\ cut.chunks[Len(cut.chunks)][2] = cut.first
  /\ Follow(cut.chunks)
  /\ \A k \in 1 .. Len(cut.chunks) : IsPart(s, cut.chunks[k], pose, ChunkLength)

\* One more chunk, from where the last one ended.
LEMMA OneMore ==
  ASSUME NEW chunks \in Seq(Nat \X Nat), NEW first \in Nat, NEW last \in Nat, Follow(chunks),
         Len(chunks) = 0 => first = 1,
         Len(chunks) > 0 => chunks[1][1] = 1 /\ chunks[Len(chunks)][2] = first
  PROVE  LET more == Append(chunks, <<first, last>>)
         IN /\ more \in Seq(Nat \X Nat) /\ Len(more) = Len(chunks) + 1
            /\ Follow(more)
            /\ more[1][1] = 1 /\ more[Len(more)] = <<first, last>>
            /\ \A k \in 1 .. Len(chunks) : more[k] = chunks[k]
<1> DEFINE e == <<first, last>>
           more == Append(chunks, e)
           N == Len(chunks)
<1>1. e \in Nat \X Nat /\ e[1] = first
  OBVIOUS
<1> HIDE DEF e
<1>2. /\ more \in Seq(Nat \X Nat) /\ Len(more) = N + 1 /\ N \in Nat
      /\ \A k \in 1 .. N : more[k] = chunks[k]
      /\ more[N + 1] = e
  BY <1>1, AppendIs, LenProperties
<1> HIDE DEF more, N
<1>3. ASSUME NEW k \in 2 .. (N + 1) PROVE more[k][1] = more[k - 1][2]
  <2>1. CASE k = N + 1
    <3>1. N > 0 /\ k - 1 = N /\ N \in 1 .. N
      BY <1>2, <2>1
    <3> QED BY <1>1, <1>2, <2>1, <3>1 DEF N
  <2>2. CASE k # N + 1
    <3>1. k \in 2 .. N /\ k \in 1 .. N /\ k - 1 \in 1 .. N
      BY <1>2, <2>2
    <3> QED BY <1>2, <3>1 DEF Follow, N
  <2> QED BY <2>1, <2>2
<1>4. more[1][1] = 1
  <2>1. CASE N = 0
    <3>1. more[1] = e
      BY <1>2, <2>1
    <3> QED BY <1>1, <2>1, <3>1 DEF N
  <2>2. CASE N # 0
    <3>1. 1 \in 1 .. N /\ N > 0
      BY <1>2, <2>2
    <3> QED BY <1>2, <3>1 DEF N
  <2> QED BY <2>1, <2>2
<1>5. Follow(more)
  BY <1>2, <1>3 DEF Follow
<1> QED BY <1>2, <1>4, <1>5 DEF more, N, e

\* The cutting loop keeps to its part of the segment.
LEMMA CutIs ==
  ASSUME NEW s \in Seq(Nat), Len(s) > 0
  PROVE  IsCut(s, Cut(s), Len(s))
<1> DEFINE N == Len(s) - 1
           V == [chunks : Seq(Nat \X Nat), first : Nat, length : Nat]
<1>1. PICK f \in [0 .. N -> V] :
        /\ f[0] = [chunks |-> << >>, first |-> 1, length |-> 0] /\ Cut(s) = f[N]
        /\ \A n \in 1 .. N : f[n] =
             IF f[n - 1].length + s[n + 1] >= ChunkLength
               THEN [chunks |-> Append(f[n - 1].chunks, <<f[n - 1].first, n + 1>>), first |-> n + 1, length |-> 0]
               ELSE [chunks |-> f[n - 1].chunks, first |-> f[n - 1].first, length |-> f[n - 1].length + s[n + 1]]
  BY CutUnfold
<1>2. N \in Nat /\ Len(s) = N + 1 /\ \A n \in 0 .. N : s[n + 1] \in Nat
  <2>1. N \in Nat /\ Len(s) = N + 1 /\ \A n \in 0 .. N : n + 1 \in 1 .. Len(s)
    BY LenProperties
  <2> QED BY <2>1, ElementOfSeq
<1> HIDE DEF N
<1> DEFINE T == {n \in Nat : n <= N => IsCut(s, f[n], n + 1)}
<1>3. 0 \in T
  <2> DEFINE e == << >>
  <2>1. e \in Seq(Nat \X Nat) /\ Len(e) = 0
    BY EmptySeq
  <2> HIDE DEF e
  <2>2. f[0].chunks = e /\ f[0].first = 1 /\ f[0].length = 0 /\ f[0] \in V
    BY <1>1, <1>2 DEF e
  <2>3. 1 \in 0 .. Len(s) /\ 1 \in 1 .. Len(s)
    BY <1>2
  <2>4. LengthOf(s, 1, 1) = 0
    BY <2>3, LengthGrows
  <2>5. Follow(e) /\ \A k \in 1 .. Len(e) : FALSE
    BY <2>1 DEF Follow
  <2> QED BY <2>1, <2>2, <2>4, <2>5 DEF IsCut
<1>4. ASSUME NEW n \in 0 .. (N - 1), n \in T PROVE n + 1 \in T
  <2> DEFINE m == n + 1
             c == f[n]
             d == f[m]
             pose == m + 1
  <2>1. m \in 1 .. N /\ m - 1 = n /\ n \in Nat /\ n <= N /\ m \in Nat /\ n \in 0 .. N /\ m \in 0 .. N
        /\ pose \in Nat /\ m < Len(s) /\ m \in 0 .. Len(s)
    BY <1>2
  <2>2. d = IF c.length + s[pose] >= ChunkLength
              THEN [chunks |-> Append(c.chunks, <<c.first, pose>>), first |-> pose, length |-> 0]
              ELSE [chunks |-> c.chunks, first |-> c.first, length |-> c.length + s[pose]]
    <3> HIDE DEF m
    <3> QED BY <1>1, <2>1
  <2>3. IsCut(s, c, m) /\ c \in V /\ d \in V
    BY <1>1, <1>4, <2>1
  <2>4. s[pose] \in Nat
    BY <1>2, <2>1
  <2> HIDE DEF c, d, V
  <2>5. /\ c.chunks \in Seq(Nat \X Nat) /\ c.first \in Nat /\ c.length \in Nat
        /\ 1 <= c.first /\ c.first <= m
        /\ c.length = LengthOf(s, c.first, m)
        /\ Len(c.chunks) = 0 => c.first = 1
        /\ Len(c.chunks) > 0 => c.chunks[1][1] = 1 /\ c.chunks[Len(c.chunks)][2] = c.first
        /\ Follow(c.chunks)
        /\ \A k \in 1 .. Len(c.chunks) : IsPart(s, c.chunks[k], m, ChunkLength)
    BY <2>3 DEF IsCut, V
  <2>6. LengthOf(s, c.first, pose) = c.length + s[pose]
    <3>1. c.first \in 0 .. Len(s) /\ m \in c.first .. Len(s) /\ m \in m .. Len(s)
      BY <2>1, <2>5
    <3> HIDE DEF m
    <3> QED BY <2>1, <2>5, <3>1, LengthGrows
  <2>7. \A x : IsPart(s, x, m, ChunkLength) => IsPart(s, x, pose, ChunkLength)
    <3> HIDE DEF m
    <3>1. \A a \in Nat : a <= m => a <= pose
      BY <2>1
    <3> QED BY <3>1 DEF IsPart
  <2>8. CASE ~(c.length + s[pose] >= ChunkLength)
    <3>1. d.chunks = c.chunks /\ d.first = c.first /\ d.length = c.length + s[pose]
      BY <2>2, <2>8
    <3>2. c.first <= pose
      BY <2>1, <2>5
    <3>3. IsCut(s, d, pose)
      <4> HIDE DEF pose
      <4> QED BY <2>3, <2>5, <2>6, <2>7, <3>1, <3>2 DEF IsCut, V
    <3> QED BY <2>1, <3>3 DEF d
  <2>9. CASE c.length + s[pose] >= ChunkLength
    <3> DEFINE e == <<c.first, pose>>
               more == Append(c.chunks, e)
    <3>1. d.chunks = more /\ d.first = pose /\ d.length = 0
      BY <2>2, <2>9
    <3>2. /\ more \in Seq(Nat \X Nat) /\ Len(more) = Len(c.chunks) + 1
          /\ Follow(more)
          /\ more[1][1] = 1 /\ more[Len(more)] = e
          /\ \A k \in 1 .. Len(c.chunks) : more[k] = c.chunks[k]
      <4> HIDE DEF pose
      <4> QED BY <2>1, <2>5, OneMore
    <3>3. e[1] = c.first /\ e[2] = pose /\ e \in Nat \X Nat
      BY <2>1, <2>5
    <3>4. IsPart(s, e, pose, ChunkLength)
      <4>1. c.first <= pose
        BY <2>1, <2>5
      <4> HIDE DEF pose, e
      <4> QED BY <2>1, <2>5, <2>6, <2>9, <3>3, <4>1 DEF IsPart
    <3> HIDE DEF e, more
    <3>5. Len(c.chunks) \in Nat
      BY <2>5
    <3>6. \A k \in 1 .. Len(more) : IsPart(s, more[k], pose, ChunkLength)
      <4> TAKE k \in 1 .. Len(more)
      <4>1. CASE k \in 1 .. Len(c.chunks)
        <5>1. more[k] = c.chunks[k]
          BY <3>2, <4>1
        <5>2. IsPart(s, c.chunks[k], m, ChunkLength)
          BY <2>5, <4>1
        <5> QED BY <2>7, <5>1, <5>2
      <4>2. CASE k = Len(more)
        <5>1. more[k] = e
          BY <3>2, <4>2
        <5> QED BY <3>4, <5>1
      <4>3. k \in 1 .. Len(c.chunks) \/ k = Len(more)
        <5> DEFINE L == Len(c.chunks)
                   K == Len(more)
        <5>1. L \in Nat /\ K = L + 1 /\ k \in 1 .. K
          BY <3>2, <3>5
        <5> HIDE DEF K, L
        <5>2. k \in 1 .. L \/ k = K
          BY <5>1
        <5> QED BY <5>2 DEF K, L
      <4> QED BY <4>1, <4>2, <4>3
    <3>7. LengthOf(s, pose, pose) = 0
      <4>1. pose \in 0 .. Len(s) /\ pose \in pose .. Len(s)
        BY <1>2, <2>1
      <4> HIDE DEF pose
      <4> QED BY <4>1, LengthGrows
    <3>8. 1 <= pose /\ Len(more) # 0
      BY <2>1, <3>2, <3>5
    <3>9. IsCut(s, d, pose)
      <4>1. pose <= pose
        BY <2>1
      <4> HIDE DEF pose
      <4> QED BY <2>3, <3>1, <3>2, <3>3, <3>6, <3>7, <3>8, <4>1 DEF IsCut, V
    <3> QED BY <2>1, <3>9 DEF d
  <2> QED BY <2>8, <2>9
<1>5. 0 .. N \subseteq T
  <2> HIDE DEF T
  <2> QED BY <1>2, <1>3, <1>4, SetOfIntervalInduction
<1>6. N \in T /\ N <= N
  BY <1>2, <1>5
<1> QED BY <1>1, <1>2, <1>6

\* Every segment is cut into chunks that join.
LEMMA ChunksAreJoined ==
  ASSUME NEW s \in Seq(Nat), Len(s) > 0
  PROVE  Chunks(s) \in Seq(Nat \X Nat) /\ Len(Chunks(s)) > 0 /\ Joined(s)
<1> DEFINE c == Chunks(s)
           N == Len(s)
           cut == Cut(s)
<1>1. N \in Nat /\ N > 0 /\ ChunkLength \in Nat /\ MinChunk \in Nat /\ MinChunk <= ChunkLength
  BY LenProperties, CoveragePlanAssumption
<1>2. /\ c = IF N < 2 \/ ChunkLength = 0 THEN <<<<1, N>>>>
             ELSE IF cut.first = N THEN cut.chunks
             ELSE IF Len(cut.chunks) > 0 /\ cut.length < MinChunk
                  THEN [cut.chunks EXCEPT ![Len(cut.chunks)] = <<@[1], N>>]
                  ELSE Append(cut.chunks, <<cut.first, N>>)
      /\ IsCut(s, cut, N)
  BY CutIs DEF Chunks
<1>3. ASSUME c \in Seq(Nat \X Nat), Len(c) > 0, c[1][1] = 1, c[Len(c)][2] = N, Follow(c),
             Len(c) > 1 => \A k \in 1 .. Len(c) : LengthOf(s, c[k][1], c[k][2]) >= MinChunk
      PROVE  c \in Seq(Nat \X Nat) /\ Len(c) > 0 /\ Joined(s)
  <2>1. DOMAIN c = 1 .. Len(c)
    BY <1>3, LenProperties
  <2> HIDE DEF c
  <2>2. Last(c) = c[Len(c)]
    BY DEF Last
  <2>3. Chunks(s) = c
    BY DEF c
  <2> QED BY <1>3, <2>1, <2>2, <2>3 DEF Joined, Follow
<1> SUFFICES c \in Seq(Nat \X Nat) /\ Len(c) > 0 /\ Joined(s)
  OBVIOUS
<1> HIDE DEF c, cut, N
<1>4. CASE N < 2 \/ ChunkLength = 0
  <2>1. c = <<<<1, N>>>>
    BY <1>2, <1>4
  <2>2. c \in Seq(Nat \X Nat) /\ Len(c) = 1 /\ c[1] = <<1, N>>
    BY <1>1, <2>1
  <2>3. Follow(c)
    BY <2>2 DEF Follow
  <2>4. c[1][1] = 1 /\ c[1][2] = N
    BY <2>2
  <2> QED BY <1>3, <2>2, <2>3, <2>4
<1> SUFFICES ASSUME N >= 2, ChunkLength # 0
             PROVE  c \in Seq(Nat \X Nat) /\ Len(c) > 0 /\ Joined(s)
  BY <1>1, <1>4
<1>5. /\ cut.chunks \in Seq(Nat \X Nat) /\ cut.first \in Nat /\ cut.length \in Nat
      /\ 1 <= cut.first /\ cut.first <= N
      /\ cut.length = LengthOf(s, cut.first, N)
      /\ Len(cut.chunks) = 0 => cut.first = 1
      /\ Len(cut.chunks) > 0 => cut.chunks[1][1] = 1 /\ cut.chunks[Len(cut.chunks)][2] = cut.first
      /\ Follow(cut.chunks)
      /\ \A k \in 1 .. Len(cut.chunks) : IsPart(s, cut.chunks[k], N, ChunkLength)
      /\ Len(cut.chunks) \in Nat
  BY <1>2 DEF IsCut
<1>6. ASSUME NEW x, IsPart(s, x, N, ChunkLength)
      PROVE  /\ x \in Nat \X Nat /\ LengthOf(s, x[1], x[2]) >= MinChunk
             /\ LengthOf(s, x[1], N) >= MinChunk
  <2>1. /\ x \in Nat \X Nat /\ x[1] \in Nat /\ x[2] \in Nat
        /\ 1 <= x[1] /\ x[1] <= x[2] /\ x[2] <= N
        /\ LengthOf(s, x[1], x[2]) >= ChunkLength
    BY <1>6 DEF IsPart
  <2>2. x[1] \in 0 .. N /\ x[2] \in x[1] .. N /\ N \in x[2] .. N /\ N \in x[1] .. N
    BY <1>1, <2>1
  <2>3. \A i \in 0 .. N : \A j \in i .. N : \A k \in j .. N :
          LengthOf(s, i, j) \in Int /\ LengthOf(s, i, j) <= LengthOf(s, i, k)
    BY LengthGrows DEF N
  <2>4. LengthOf(s, x[1], x[2]) \in Int /\ LengthOf(s, x[1], N) \in Int
        /\ LengthOf(s, x[1], x[2]) <= LengthOf(s, x[1], N)
    BY <2>2, <2>3
  <2> QED BY <1>1, <2>1, <2>4
<1>7. CASE cut.first = N
  <2>1. c = cut.chunks
    BY <1>1, <1>2, <1>7
  <2>2. Len(c) > 0
    BY <1>5, <1>7, <2>1
  <2> QED BY <1>3, <1>5, <1>6, <1>7, <2>1, <2>2
<1>8. CASE cut.first # N /\ Len(cut.chunks) > 0 /\ cut.length < MinChunk
  <2> DEFINE m == Len(cut.chunks)
             e == <<cut.chunks[m][1], N>>
  <2>1. m \in 1 .. m /\ m \in Nat
    BY <1>5, <1>8
  <2>2. cut.chunks[m] \in Nat \X Nat /\ e \in Nat \X Nat /\ e[1] = cut.chunks[m][1] /\ e[2] = N
    <3>1. IsPart(s, cut.chunks[m], N, ChunkLength)
      BY <1>5, <2>1
    <3>2. cut.chunks[m] \in Nat \X Nat
      BY <3>1 DEF IsPart
    <3> QED BY <1>1, <3>2
  <2>3. c = [cut.chunks EXCEPT ![m] = e]
    BY <1>1, <1>2, <1>8
  <2> HIDE DEF m, e
  <2>4. /\ c \in Seq(Nat \X Nat) /\ Len(c) = m /\ c[m] = e
        /\ \A k \in 1 .. m : k # m => c[k] = cut.chunks[k]
    <3> DEFINE old == cut.chunks
               T == Nat \X Nat
    <3>1. old \in Seq(T) /\ m = Len(old) /\ m \in 1 .. Len(old) /\ e \in T /\ c = [old EXCEPT ![m] = e]
      BY <1>5, <2>1, <2>2, <2>3 DEF m
    <3> HIDE DEF old, T
    <3>2. c \in Seq(T) /\ Len(c) = Len(old)
      BY ONLY <3>1
    <3>3. c[m] = e /\ \A k \in 1 .. m : k # m => c[k] = old[k]
      BY ONLY <3>1
    <3> QED BY <3>1, <3>2, <3>3 DEF old, T
  <2>5. \A k \in 1 .. m : c[k][1] = cut.chunks[k][1]
    BY <2>2, <2>4
  <2>6. Follow(c)
    <3>1. ASSUME NEW k \in 2 .. m PROVE c[k][1] = c[k - 1][2]
      <4>1. k \in 1 .. m /\ k - 1 \in 1 .. m /\ k - 1 # m
        BY <2>1
      <4>2. cut.chunks[k][1] = cut.chunks[k - 1][2]
        BY <1>5 DEF Follow, m
      <4> QED BY <2>4, <2>5, <4>1, <4>2
    <3> QED BY <2>4, <3>1 DEF Follow
  <2>7. ASSUME NEW k \in 1 .. m PROVE LengthOf(s, c[k][1], c[k][2]) >= MinChunk
    <3>1. IsPart(s, cut.chunks[k], N, ChunkLength)
      BY <1>5 DEF m
    <3>2. CASE k = m
      BY <1>6, <2>2, <2>4, <3>1, <3>2
    <3>3. CASE k # m
      BY <1>6, <2>4, <3>1, <3>3
    <3> QED BY <3>2, <3>3
  <2>8. 1 \in 1 .. m /\ Len(c) > 0
    BY <2>1, <2>4
  <2>9. c[1][1] = 1 /\ c[m][2] = N
    BY <1>5, <1>8, <2>2, <2>4, <2>5, <2>8
  <2> QED BY <1>3, <2>4, <2>6, <2>7, <2>8, <2>9
<1>9. CASE cut.first # N /\ ~(Len(cut.chunks) > 0 /\ cut.length < MinChunk)
  <2> DEFINE e == <<cut.first, N>>
             m == Len(cut.chunks)
             more == Append(cut.chunks, e)
  <2>1. c = more
    BY <1>1, <1>2, <1>9
  <2>2. /\ c \in Seq(Nat \X Nat) /\ Len(c) = m + 1
        /\ Follow(c)
        /\ c[1][1] = 1 /\ c[Len(c)] = e
        /\ \A k \in 1 .. m : c[k] = cut.chunks[k]
    <3>1. /\ more \in Seq(Nat \X Nat) /\ Len(more) = m + 1
          /\ Follow(more)
          /\ more[1][1] = 1 /\ more[Len(more)] = e
          /\ \A k \in 1 .. m : more[k] = cut.chunks[k]
      BY <1>1, <1>5, OneMore
    <3> HIDE DEF more, e, m
    <3> QED BY <2>1, <3>1
  <2>3. e[1] = cut.first /\ e[2] = N /\ m \in Nat
    BY <1>5
  <2>4. \A k \in 1 .. m : IsPart(s, cut.chunks[k], N, ChunkLength)
    BY <1>5
  <2>5. m > 0 => LengthOf(s, e[1], e[2]) >= MinChunk
    BY <1>1, <1>5, <1>9, <2>3
  <2> HIDE DEF e, m
  <2>6. ASSUME NEW k \in 1 .. (m + 1), m > 0 PROVE LengthOf(s, c[k][1], c[k][2]) >= MinChunk
    <3>1. CASE k = m + 1
      BY <2>2, <2>5, <2>6, <3>1
    <3>2. CASE k # m + 1
      <4>1. k \in 1 .. m
        BY <2>3, <3>2
      <4> QED BY <1>6, <2>2, <2>4, <4>1
    <3> QED BY <3>1, <3>2
  <2>7. Len(c) > 0 /\ (Len(c) > 1 => m > 0)
    BY <2>2, <2>3
  <2> QED BY <1>3, <2>2, <2>3, <2>6, <2>7
<1> QED BY <1>7, <1>8, <1>9

-----------------------------------------------------------------------------
(* The segments of a path, and one sequence made of several.                *)

\* No segment is without a pose.
LEMMA SegmentsUnfold ==
  ASSUME NEW path \in Seq(Nat)
  PROVE  \E f \in [0 .. Len(path) -> Seq(Seq(Nat) \ {<< >>})] :
           /\ f[0] = << >> /\ Segments(path) = f[Len(path)]
           /\ \A n \in 1 .. Len(path) : f[n] = 
             IF f[n - 1] = << >> \/ path[n] > GapThreshold THEN Append(f[n - 1], <<path[n]>>)
             ELSE [f[n - 1] EXCEPT ![Len(f[n - 1])] = Append(@, path[n])]
<1> DEFINE N == Len(path)
           V == Seq(Seq(Nat) \ {<< >>})
           start == << >>
           Next_(c, n) == 
             IF c = << >> \/ path[n] > GapThreshold THEN Append(c, <<path[n]>>)
             ELSE [c EXCEPT ![Len(c)] = Append(@, path[n])]
           move == [p \in (1 .. N) \X V |-> Next_(p[2], p[1])]
           Is(g) == g = [n \in 0 .. N |-> IF n = 0 THEN start ELSE Next_(g[n - 1], n)]
           Upto == CHOOSE g : Is(g)
<1>1. N \in Nat /\ start \in V
  BY LenProperties, EmptySeq
<1>2. ASSUME NEW n \in 1 .. N, NEW c \in V PROVE Next_(c, n) \in V
  <2> DEFINE W == Seq(Nat) \ {<< >>}
  <2>1. path[n] \in Nat
    BY <1>1, ElementOfSeq
  <2>2. <<path[n]>> \in W /\ \A s \in Seq(Nat) : Append(s, path[n]) \in W
    <3> DEFINE e == path[n]
    <3> HIDE DEF e
    <3>1. e \in Nat
      BY <2>1 DEF e
    <3>2. <<e>> \in Seq(Nat) /\ Len(<<e>>) = 1
      BY <3>1
    <3>3. \A s \in Seq(Nat) : Append(s, e) \in Seq(Nat) /\ Len(Append(s, e)) # 0
      BY <3>1
    <3>4. \A s \in Seq(Nat) : Len(s) # 0 => s # << >>
      BY EmptySeq
    <3> QED BY <3>2, <3>3, <3>4 DEF e
  <2>3. c \in Seq(W)
    OBVIOUS
  <2>4. CASE c # << >>
    <3>1. Len(c) \in 1 .. Len(c) /\ c[Len(c)] \in W
      <4> HIDE DEF W
      <4> QED BY <2>3, <2>4, EmptySeq, LenProperties, ElementOfSeq
    <3>2. Append(c[Len(c)], path[n]) \in W
      BY <2>2, <3>1
    <3> HIDE DEF W
    <3>3. [c EXCEPT ![Len(c)] = Append(@, path[n])] \in Seq(W) /\ Append(c, <<path[n]>>) \in Seq(W)
      BY <2>2, <2>3, <3>1, <3>2
    <3> QED BY <3>3 DEF W
  <2>5. CASE c = << >>
    <3> HIDE DEF W
    <3>1. Append(c, <<path[n]>>) \in Seq(W)
      BY <2>2, <2>3
    <3> QED BY <2>5, <3>1 DEF W
  <2> QED BY <2>4, <2>5
<1> HIDE DEF start, Next_
<1>3. move \in [(1 .. N) \X V -> V]
  <2> HIDE DEF N, V
  <2> QED BY <1>2
<1>4. IsStepwise(V, N, start, move)
  <2> HIDE DEF N, V, move
  <2> QED BY <1>1, <1>3 DEF IsStepwise
<1>5. PICK f \in [0 .. N -> V] : f[0] = start /\ \A n \in 1 .. N : f[n] = move[<<n, f[n - 1]>>]
  <2> HIDE DEF N, V, move
  <2> QED BY <1>4, StepwiseRecursion
<1>6. \A n \in 1 .. N : f[n] = Next_(f[n - 1], n)
  <2> TAKE n \in 1 .. N
  <2>1. f[n - 1] \in V
    <3>1. n - 1 \in 0 .. N
      BY <1>1
    <3> HIDE DEF N, V
    <3> QED BY <3>1
  <2> HIDE DEF N, V
  <2> QED BY <1>5, <2>1
<1>7. Is(f)
  <2> HIDE DEF N, V
  <2>1. \A n \in 0 .. N : n = 0 \/ n \in 1 .. N
    BY <1>1
  <2> QED BY <1>5, <1>6, <2>1
<1>8. Is(Upto)
  <2> HIDE DEF Is
  <2> QED BY <1>7
<1>9. /\ Upto[0] = start /\ DOMAIN Upto = 0 .. N
      /\ \A n \in 1 .. N : Upto[n] = Next_(Upto[n - 1], n)
  <2> HIDE DEF Upto, N
  <2>1. \A n \in 0 .. N : Upto[n] = IF n = 0 THEN start ELSE Next_(Upto[n - 1], n)
    BY <1>8, Zenon
  <2>2. DOMAIN Upto = 0 .. N
    BY <1>8, Zenon
  <2>3. 0 \in 0 .. N /\ \A n \in 1 .. N : n \in 0 .. N /\ n # 0
    BY <1>1
  <2> QED BY <2>1, <2>2, <2>3, Zenon
<1>10. \A n \in 0 .. N : Upto[n] \in V
  <2>1. \A n \in 1 .. N : Upto[n - 1] \in V => Upto[n] = move[<<n, Upto[n - 1]>>]
    <3> HIDE DEF N, V, Upto
    <3> QED BY <1>9
  <2>2. IsStepwise(V, N, start, move) /\ Upto[0] = start
    BY <1>4, <1>9
  <2> HIDE DEF N, V, move, Upto
  <2> QED BY <2>1, <2>2, StepwiseType
<1>11. Upto \in [0 .. N -> V]
  <2>1. Upto = [n \in 0 .. N |-> Upto[n]]
    <3> HIDE DEF Upto
    <3> QED BY <1>8
  <2> HIDE DEF N, V, Upto
  <2> QED BY <1>10, <2>1
<1>12. Segments(path) = Upto[Len(path)]
  BY Zenon DEF start, Next_, Segments
<1> HIDE DEF Upto
<1> QED BY <1>9, <1>11, <1>12 DEF start, Next_

\* A path is taken apart into segments, none of them empty.
LEMMA SegmentsType ==
  ASSUME NEW path \in Seq(Nat)
  PROVE  Segments(path) \in Seq(Seq(Nat) \ {<< >>})
<1> DEFINE W == Seq(Nat) \ {<< >>}
           N == Len(path)
<1>1. N \in 0 .. N
  BY LenProperties
<1>2. PICK f \in [0 .. N -> Seq(W)] : Segments(path) = f[N]
  <2>1. \E f \in [0 .. N -> Seq(W)] : f[0] = << >> /\ Segments(path) = f[N]
    BY SegmentsUnfold
  <2> HIDE DEF N, W
  <2> QED BY <2>1
<1> HIDE DEF N, W
<1>3. Segments(path) \in Seq(W)
  BY <1>1, <1>2
<1> QED BY <1>3 DEF W

\* One sequence after the other.
LEMMA FlattenUnfold ==
  ASSUME NEW A, NEW seqs \in Seq(Seq(A))
  PROVE  \E f \in [0 .. Len(seqs) -> Seq(A)] :
           /\ f[0] = << >> /\ FlattenSeq(seqs) = f[Len(seqs)]
           /\ \A n \in 1 .. Len(seqs) : f[n] = f[n - 1] \o seqs[n]
<1> DEFINE N == Len(seqs)
           V == Seq(A)
           start == << >>
           move == [p \in (1 .. N) \X V |-> p[2] \o seqs[p[1]]]
           Is(g) == g = [i \in 1 .. N |-> IF i = 1 THEN seqs[i] ELSE g[i - 1] \o seqs[i]]
           Upto == CHOOSE g : Is(g)
<1>1. N \in Nat /\ start \in V /\ \A n \in 1 .. N : seqs[n] \in V
  BY LenProperties, EmptySeq, ElementOfSeq
<1>2. move \in [(1 .. N) \X V -> V]
  <2>1. ASSUME NEW n \in 1 .. N, NEW t \in V PROVE t \o seqs[n] \in V
    BY <1>1, ConcatProperties
  <2> HIDE DEF N, V
  <2> QED BY <2>1
<1>3. IsStepwise(V, N, start, move)
  <2> HIDE DEF N, V, move, start
  <2> QED BY <1>1, <1>2 DEF IsStepwise
<1>4. PICK f \in [0 .. N -> V] : f[0] = start /\ \A n \in 1 .. N : f[n] = move[<<n, f[n - 1]>>]
  <2> HIDE DEF N, V, move, start
  <2> QED BY <1>3, StepwiseRecursion
<1>5. \A n \in 1 .. N : n - 1 \in 0 .. N /\ f[n - 1] \in V /\ f[n] = f[n - 1] \o seqs[n]
  <2> TAKE n \in 1 .. N
  <2>1. n - 1 \in 0 .. N
    BY <1>1
  <2> HIDE DEF N, V
  <2> QED BY <1>4, <2>1
<1>6. N > 0 => f[1] = seqs[1]
  <2> SUFFICES ASSUME N > 0 PROVE f[1] = seqs[1]
    OBVIOUS
  <2>1. 1 \in 1 .. N /\ 1 - 1 = 0
    BY <1>1
  <2>2. f[1] = start \o seqs[1] /\ seqs[1] \in V
    <3> HIDE DEF N, V, start
    <3> QED BY <1>1, <1>4, <1>5, <2>1
  <2> HIDE DEF N
  <2> QED BY <2>2, ConcatEmptySeq
<1>7. Is([i \in 1 .. N |-> f[i]])
  <2> DEFINE g == [i \in 1 .. N |-> f[i]]
  <2>1. ASSUME NEW i \in 1 .. N PROVE g[i] = IF i = 1 THEN seqs[i] ELSE g[i - 1] \o seqs[i]
    <3>1. CASE i = 1
      <4>1. N > 0
        BY <1>1
      <4> HIDE DEF N
      <4> QED BY <1>6, <3>1, <4>1
    <3>2. CASE i # 1
      <4>1. i - 1 \in 1 .. N
        BY <1>1, <3>2
      <4>2. g[i - 1] = f[i - 1] /\ g[i] = f[i]
        <5> HIDE DEF N
        <5> QED BY <4>1
      <4> HIDE DEF g, N
      <4> QED BY <1>5, <3>2, <4>2
    <3> QED BY <3>1, <3>2
  <2>2. g = [i \in 1 .. N |-> g[i]]
    <3> HIDE DEF N
    <3> QED OBVIOUS
  <2> HIDE DEF g, N
  <2>3. Is(g)
    BY <2>1, <2>2
  <2> QED BY <2>3 DEF g
<1>8. Is(Upto)
  <2> HIDE DEF Is
  <2> QED BY <1>7
<1>9. /\ N > 0 => Upto[1] = seqs[1]
      /\ \A n \in 1 .. N : n # 1 => Upto[n] = Upto[n - 1] \o seqs[n]
  <2> HIDE DEF Upto
  <2>1. \A n \in 1 .. N : Upto[n] = IF n = 1 THEN seqs[n] ELSE Upto[n - 1] \o seqs[n]
    <3> HIDE DEF N
    <3> QED BY <1>8, Zenon
  <2>2. N > 0 => 1 \in 1 .. N
    BY <1>1
  <2> HIDE DEF N
  <2> QED BY <2>1, <2>2, Zenon
<1> DEFINE T == {n \in Nat : 0 < n /\ n <= N => Upto[n] = f[n]}
<1>10. 0 .. N \subseteq T
  <2> HIDE DEF Upto
  <2>1. 0 \in T
    OBVIOUS
  <2>2. ASSUME NEW n \in 0 .. (N - 1), n \in T PROVE n + 1 \in T
    <3>1. n + 1 \in 1 .. N /\ (n + 1) - 1 = n /\ n + 1 \in Nat /\ n \in Nat
      BY <1>1
    <3>2. CASE n = 0
      <4>1. N > 0
        BY <1>1
      <4>2. Upto[1] = f[1]
        <5> HIDE DEF N
        <5> QED BY <1>6, <1>9, <4>1
      <4> QED BY <3>2, <4>2
    <3>3. CASE n # 0
      <4>1. Upto[n] = f[n]
        BY <1>1, <2>2, <3>1, <3>3
      <4>2. n + 1 # 1
        BY <3>1, <3>3
      <4>3. Upto[n + 1] = Upto[n] \o seqs[n + 1] /\ f[n + 1] = f[n] \o seqs[n + 1]
        <5> DEFINE m == n + 1
        <5>1. m - 1 = n /\ m \in 1 .. N /\ m # 1
          BY <3>1, <4>2
        <5> HIDE DEF m, N
        <5>2. Upto[m] = Upto[m - 1] \o seqs[m] /\ f[m] = f[m - 1] \o seqs[m]
          BY <1>5, <1>9, <5>1
        <5> QED BY <5>1, <5>2 DEF m
      <4> QED BY <3>1, <4>1, <4>3
    <3> QED BY <3>2, <3>3
  <2> HIDE DEF T, N
  <2> QED BY <1>1, <2>1, <2>2, SetOfIntervalInduction
<1>11. FlattenSeq(seqs) = f[N]
  <2>1. CASE N = 0
    <3>1. seqs = << >>
      BY <2>1, EmptySeq
    <3>2. FlattenSeq(seqs) = seqs
      BY <2>1 DEF FlattenSeq
    <3> QED BY <1>4, <2>1, <3>1, <3>2
  <2>2. CASE N # 0
    <3>1. FlattenSeq(seqs) = Upto[N]
      BY <2>2, Zenon DEF FlattenSeq
    <3>2. N \in T /\ 0 < N /\ N <= N
      <4>1. N \in 0 .. N /\ 0 < N /\ N <= N
        BY <1>1, <2>2
      <4> HIDE DEF N, T
      <4> QED BY <1>10, <4>1
    <3> HIDE DEF N, Upto
    <3> QED BY <3>1, <3>2
  <2> QED BY <2>1, <2>2
<1>12. f[0] = << >>
  BY <1>4
<1> HIDE DEF N, V
<1>13. \A n \in 1 .. N : f[n] = f[n - 1] \o seqs[n]
  BY <1>5
<1> HIDE DEF start, move, Upto, T
<1> QED BY <1>4, <1>11, <1>12, <1>13 DEF N, V

\* What is in one of several sequences is in the one made of them.
LEMMA FlattenIs ==
  ASSUME NEW A, NEW seqs \in Seq(Seq(A))
  PROVE  /\ FlattenSeq(seqs) \in Seq(A)
         /\ \A x : x \in ToSet(FlattenSeq(seqs)) <=> \E n \in 1 .. Len(seqs) : x \in ToSet(seqs[n])
         /\ /\ \A n \in 1 .. Len(seqs) : IsInjective(seqs[n])
            /\ \A m, n \in 1 .. Len(seqs) : m # n => ToSet(seqs[m]) \cap ToSet(seqs[n]) = {}
            => IsInjective(FlattenSeq(seqs))
<1> DEFINE N == Len(seqs)
           V == Seq(A)
           Apart == /\ \A n \in 1 .. N : IsInjective(seqs[n])
                    /\ \A m, n \in 1 .. N : m # n => ToSet(seqs[m]) \cap ToSet(seqs[n]) = {}
<1>1. PICK f \in [0 .. N -> V] : /\ f[0] = << >> /\ FlattenSeq(seqs) = f[N]
                                 /\ \A n \in 1 .. N : f[n] = f[n - 1] \o seqs[n]
  BY FlattenUnfold
<1>2. N \in Nat /\ \A n \in 1 .. N : seqs[n] \in V
  BY LenProperties, ElementOfSeq
<1> HIDE DEF N
<1> DEFINE T == {n \in Nat : n <= N =>
                   /\ \A x : x \in ToSet(f[n]) <=> \E k \in 1 .. n : x \in ToSet(seqs[k])
                   /\ Apart => IsInjective(f[n])}
<1>3. 0 \in T
  <2>1. \A k \in 1 .. 0 : FALSE
    OBVIOUS
  <2> HIDE DEF Apart
  <2> QED BY <1>1, <2>1, EmptyIs
<1>4. ASSUME NEW n \in 0 .. (N - 1), n \in T PROVE n + 1 \in T
  <2> DEFINE m == n + 1
  <2>1. m \in 1 .. N /\ m - 1 = n /\ n \in Nat /\ n <= N /\ m \in Nat /\ n \in 0 .. N
        /\ \A k \in 1 .. n : k \in 1 .. N /\ k # m
    BY <1>2
  <2>2. \A i : i \in 1 .. m <=> i \in 1 .. n \/ i = m
    BY <2>1
  <2>3. /\ \A x : x \in ToSet(f[n]) <=> \E k \in 1 .. n : x \in ToSet(seqs[k])
        /\ Apart => IsInjective(f[n])
    <3> HIDE DEF Apart
    <3> QED BY <1>4, <2>1
  <2> HIDE DEF m
  <2>4. f[m] = f[n] \o seqs[m] /\ f[n] \in V /\ seqs[m] \in V
    BY <1>1, <1>2, <2>1
  <2>5. /\ ToSet(f[m]) = ToSet(f[n]) \union ToSet(seqs[m])
        /\ IsInjective(f[n]) /\ IsInjective(seqs[m]) /\ ToSet(f[n]) \cap ToSet(seqs[m]) = {} => IsInjective(f[m])
    BY <2>4, ConcatIs
  <2>6. \A x : x \in ToSet(f[m]) <=> \E k \in 1 .. m : x \in ToSet(seqs[k])
    BY <2>2, <2>3, <2>5
  <2>7. ASSUME Apart PROVE IsInjective(f[m])
    <3>1. ASSUME NEW x, x \in ToSet(f[n]), x \in ToSet(seqs[m]) PROVE FALSE
      <4>1. PICK k \in 1 .. n : x \in ToSet(seqs[k])
        BY <2>3, <3>1
      <4>2. k \in 1 .. N /\ k # m /\ m \in 1 .. N
        BY <2>1
      <4>3. ToSet(seqs[k]) \cap ToSet(seqs[m]) = {}
        BY <2>7, <4>2
      <4> QED BY <3>1, <4>1, <4>3
    <3>2. ToSet(f[n]) \cap ToSet(seqs[m]) = {}
      BY <3>1
    <3>3. IsInjective(seqs[m])
      BY <2>1, <2>7
    <3> HIDE DEF Apart
    <3> QED BY <2>3, <2>5, <2>7, <3>2, <3>3
  <2> HIDE DEF Apart
  <2> QED BY <2>1, <2>6, <2>7 DEF m
<1>5. 0 .. N \subseteq T
  <2> HIDE DEF T
  <2> QED BY <1>2, <1>3, <1>4, SetOfIntervalInduction
<1>6. N \in T /\ N <= N /\ N \in 0 .. N
  <2>1. N <= N /\ N \in 0 .. N
    BY <1>2
  <2> HIDE DEF T
  <2> QED BY <1>5, <2>1
<1>7. /\ \A x : x \in ToSet(f[N]) <=> \E k \in 1 .. N : x \in ToSet(seqs[k])
      /\ Apart => IsInjective(f[N])
  <2> HIDE DEF Apart
  <2> QED BY <1>6
<1> QED BY <1>1, <1>6, <1>7 DEF N

-----------------------------------------------------------------------------
(* Rings into groups: what is in a group, and nothing twice.                *)

AnyRing == [kind : {"headland", "obstacle", "mainland"}, loop : Nat, i : Nat, at : Int]

AnyGroup == Seq(AnyRing) \ {<< >>}

Members(groups) == UNION {ToSet(groups[g]) : g \in 1 .. Len(groups)}

\* No ring is in two groups, or twice in one.
Apart(groups) ==
  /\ \A g \in 1 .. Len(groups) : IsInjective(groups[g])
  /\ \A g, h \in 1 .. Len(groups) : g # h => ToSet(groups[g]) \cap ToSet(groups[h]) = {}

\* A distance is a natural number.
LEMMA DistanceType == ASSUME NEW x \in Int, NEW y \in Int PROVE Distance(x, y) \in Nat
  BY DEF Distance

\* The nearest free ring is one of the free rings.
LEMMA NearestIsFree ==
  ASSUME NEW ring, NEW free, free # {}, free \subseteq Nat, NEW at \in Int,
         \A i \in free : ring[i].at \in Int
  PROVE  NearestFree(ring, free, at) \in free
<1> DEFINE D(i) == Distance(ring[i].at, at)
           all == {D(i) : i \in free}
<1>1. \A i \in free : D(i) \in Nat
  BY DistanceType
<1> HIDE DEF D
<1>2. PICK d \in all : \A e \in all : d <= e
  <2>1. all \subseteq Nat /\ all # {}
    BY <1>1
  <2> HIDE DEF all
  <2> QED BY <2>1, LeastExists
<1> DEFINE least == {i \in free : D(i) = d}
<1>3. PICK i \in least : \A j \in least : i <= j
  <2>1. least \subseteq Nat /\ least # {}
    BY <1>2
  <2> HIDE DEF least
  <2> QED BY <2>1, LeastExists
<1>4. ASSUME NEW j \in free PROVE D(i) < D(j) \/ (D(i) = D(j) /\ i <= j)
  <2>1. D(i) \in Nat /\ D(j) \in Nat /\ D(i) <= D(j)
    BY <1>1, <1>2, <1>3
  <2>2. D(i) = D(j) => i <= j
    BY <1>3
  <2> QED BY <2>1, <2>2
<1>5. NearestFree(ring, free, at) = CHOOSE k \in free : \A j \in free : D(k) < D(j) \/ (D(k) = D(j) /\ k <= j)
  BY DEF NearestFree, D
<1>6. i \in free
  BY <1>3
<1> QED BY <1>4, <1>5, <1>6

\* A group has a first and a latest ring, each at a point of the line.
LEMMA LastOfGroup ==
  ASSUME NEW group \in AnyGroup
  PROVE  Last(group).at \in Int /\ group[1].at \in Int /\ group[1] \in ToSet(group)
<1>1. Len(group) \in 1 .. Len(group) /\ 1 \in 1 .. Len(group) /\ group \in Seq(AnyRing)
  BY EmptySeq, LenProperties DEF AnyGroup
<1>2. group[Len(group)] \in AnyRing /\ group[1] \in AnyRing
  BY <1>1, ElementOfSeq
<1>3. group[1] \in ToSet(group)
  BY <1>1, ToSetIs
<1> QED BY <1>2, <1>3 DEF Last, AnyRing

\* Groups and further groups.
LEMMA GroupsConcat ==
  ASSUME NEW s \in Seq(AnyGroup), NEW t \in Seq(AnyGroup)
  PROVE  /\ s \o t \in Seq(AnyGroup)
         /\ Members(s \o t) = Members(s) \union Members(t)
         /\ Apart(s) /\ Apart(t) /\ Members(s) \cap Members(t) = {} => Apart(s \o t)
<1> DEFINE u == s \o t
           m == Len(s)
           n == Len(t)
<1>1. /\ u \in Seq(AnyGroup) /\ Len(u) = m + n /\ m \in Nat /\ n \in Nat
      /\ \A i \in 1 .. (m + n) : u[i] = IF i <= m THEN s[i] ELSE t[i - m]
  BY ConcatProperties, LenProperties
<1> HIDE DEF u
<1>2. Len(u) = m + n /\ Len(s) = m /\ Len(t) = n
  BY <1>1
<1> HIDE DEF m, n
<1>3. /\ \A i \in 1 .. m : i \in 1 .. (m + n) /\ u[i] = s[i]
      /\ \A i \in 1 .. n : m + i \in 1 .. (m + n) /\ u[m + i] = t[i]
      /\ \A i \in 1 .. (m + n) : \/ i \in 1 .. m /\ u[i] = s[i]
                                 \/ i - m \in 1 .. n /\ u[i] = t[i - m]
  <2>1. ASSUME NEW i \in 1 .. m PROVE i \in 1 .. (m + n) /\ u[i] = s[i]
    BY <1>1
  <2>2. ASSUME NEW i \in 1 .. n PROVE m + i \in 1 .. (m + n) /\ u[m + i] = t[i]
    <3>1. m + i \in 1 .. (m + n) /\ ~(m + i <= m) /\ (m + i) - m = i
      BY <1>1
    <3> QED BY <1>1, <3>1
  <2>3. ASSUME NEW i \in 1 .. (m + n)
        PROVE  \/ i \in 1 .. m /\ u[i] = s[i]
               \/ i - m \in 1 .. n /\ u[i] = t[i - m]
    BY <1>1
  <2> QED BY <2>1, <2>2, <2>3
<1>4. Members(u) = Members(s) \union Members(t)
  <2>1. ASSUME NEW x PROVE x \in Members(u) <=> x \in Members(s) \/ x \in Members(t)
    <3>1. ASSUME x \in Members(u) PROVE x \in Members(s) \/ x \in Members(t)
      <4>1. PICK i \in 1 .. (m + n) : x \in ToSet(u[i])
        BY <1>2, <3>1 DEF Members
      <4> QED BY <1>2, <1>3, <4>1 DEF Members
    <3>2. ASSUME x \in Members(s) PROVE x \in Members(u)
      BY <1>2, <1>3, <3>2 DEF Members
    <3>3. ASSUME x \in Members(t) PROVE x \in Members(u)
      BY <1>2, <1>3, <3>3 DEF Members
    <3> QED BY <3>1, <3>2, <3>3
  <2> QED BY <2>1
<1>5. ASSUME Apart(s), Apart(t), Members(s) \cap Members(t) = {} PROVE Apart(u)
  <2>1. ASSUME NEW i \in 1 .. (m + n) PROVE IsInjective(u[i])
    BY <1>2, <1>3, <1>5 DEF Apart
  <2>2. ASSUME NEW i \in 1 .. (m + n), NEW j \in 1 .. (m + n), i # j
        PROVE  ToSet(u[i]) \cap ToSet(u[j]) = {}
    <3>1. CASE i \in 1 .. m /\ u[i] = s[i] /\ j \in 1 .. m /\ u[j] = s[j]
      BY <1>2, <1>5, <2>2, <3>1 DEF Apart
    <3>2. CASE i - m \in 1 .. n /\ u[i] = t[i - m] /\ j - m \in 1 .. n /\ u[j] = t[j - m]
      <4>1. i - m # j - m
        BY <1>1, <2>2
      <4> QED BY <1>2, <1>5, <3>2, <4>1 DEF Apart
    <3>3. CASE i \in 1 .. m /\ u[i] = s[i] /\ j - m \in 1 .. n /\ u[j] = t[j - m]
      <4>1. ToSet(u[i]) \subseteq Members(s) /\ ToSet(u[j]) \subseteq Members(t)
        BY <1>2, <3>3 DEF Members
      <4> QED BY <1>5, <4>1
    <3>4. CASE i - m \in 1 .. n /\ u[i] = t[i - m] /\ j \in 1 .. m /\ u[j] = s[j]
      <4>1. ToSet(u[i]) \subseteq Members(t) /\ ToSet(u[j]) \subseteq Members(s)
        BY <1>2, <3>4 DEF Members
      <4> QED BY <1>5, <4>1
    <3> QED BY <1>3, <3>1, <3>2, <3>3, <3>4
  <2> QED BY <1>2, <2>1, <2>2 DEF Apart
<1> QED BY <1>1, <1>4, <1>5 DEF u

\* The members of groups, one after the other.
LEMMA FlattenGroups ==
  ASSUME NEW groups \in Seq(Seq(AnyRing))
  PROVE  /\ FlattenSeq(groups) \in Seq(AnyRing)
         /\ ToSet(FlattenSeq(groups)) = Members(groups)
         /\ Apart(groups) => IsInjective(FlattenSeq(groups))
<1> DEFINE flat == FlattenSeq(groups)
<1>1. /\ flat \in Seq(AnyRing)
      /\ \A x : x \in ToSet(flat) <=> \E n \in 1 .. Len(groups) : x \in ToSet(groups[n])
      /\ Apart(groups) => IsInjective(flat)
  BY FlattenIs DEF Apart
<1> HIDE DEF flat
<1>2. ToSet(flat) = Members(groups)
  BY <1>1 DEF Members
<1> QED BY <1>1, <1>2 DEF flat

\* The rings that are free after each group has taken one.
IsFree(groups, ring, f) ==
  /\ f \in [0 .. Len(groups) -> SUBSET DOMAIN ring]
  /\ f[0] = DOMAIN ring
  /\ \A n \in 1 .. Len(groups) :
       f[n] = IF f[n - 1] = {} THEN {} ELSE f[n - 1] \ {NearestFree(ring, f[n - 1], Last(groups[n]).at)}
  /\ AddLoop(groups, ring) =
       [n \in DOMAIN groups |->
          IF f[n - 1] = {} THEN groups[n]
          ELSE Append(groups[n], ring[NearestFree(ring, f[n - 1], Last(groups[n]).at)])]
       \o [i \in DOMAIN Only(ring, f[Len(groups)]) |-> <<Only(ring, f[Len(groups)])[i]>>]

\* The rings that are still free after each group, one group after the other.
LEMMA FreeUnfold == ASSUME NEW groups, NEW ring, Len(groups) \in Nat PROVE \E f : IsFree(groups, ring, f)
<1> DEFINE N == Len(groups)
           V == SUBSET DOMAIN ring
           start == DOMAIN ring
           Next_(c, n) == 
             IF c = {} THEN {} ELSE c \ {NearestFree(ring, c, Last(groups[n]).at)}
           move == [p \in (1 .. N) \X V |-> Next_(p[2], p[1])]
           Is(g) == g = [n \in 0 .. N |-> IF n = 0 THEN start ELSE Next_(g[n - 1], n)]
           Upto == CHOOSE g : Is(g)
<1>1. N \in Nat /\ start \in V
  OBVIOUS
<1>2. ASSUME NEW n \in 1 .. N, NEW c \in V PROVE Next_(c, n) \in V
  OBVIOUS
<1> HIDE DEF start, Next_
<1>3. move \in [(1 .. N) \X V -> V]
  <2> HIDE DEF N, V
  <2> QED BY <1>2
<1>4. IsStepwise(V, N, start, move)
  <2> HIDE DEF N, V, move
  <2> QED BY <1>1, <1>3 DEF IsStepwise
<1>5. PICK f \in [0 .. N -> V] : f[0] = start /\ \A n \in 1 .. N : f[n] = move[<<n, f[n - 1]>>]
  <2> HIDE DEF N, V, move
  <2> QED BY <1>4, StepwiseRecursion
<1>6. \A n \in 1 .. N : f[n] = Next_(f[n - 1], n)
  <2> TAKE n \in 1 .. N
  <2>1. f[n - 1] \in V
    <3>1. n - 1 \in 0 .. N
      BY <1>1
    <3> HIDE DEF N, V
    <3> QED BY <3>1
  <2> HIDE DEF N, V
  <2> QED BY <1>5, <2>1
<1>7. Is(f)
  <2> HIDE DEF N, V
  <2>1. \A n \in 0 .. N : n = 0 \/ n \in 1 .. N
    BY <1>1
  <2> QED BY <1>5, <1>6, <2>1
<1>8. Is(Upto)
  <2> HIDE DEF Is
  <2> QED BY <1>7
<1>9. /\ Upto[0] = start /\ DOMAIN Upto = 0 .. N
      /\ \A n \in 1 .. N : Upto[n] = Next_(Upto[n - 1], n)
  <2> HIDE DEF Upto, N
  <2>1. \A n \in 0 .. N : Upto[n] = IF n = 0 THEN start ELSE Next_(Upto[n - 1], n)
    BY <1>8, Zenon
  <2>2. DOMAIN Upto = 0 .. N
    BY <1>8, Zenon
  <2>3. 0 \in 0 .. N /\ \A n \in 1 .. N : n \in 0 .. N /\ n # 0
    BY <1>1
  <2> QED BY <2>1, <2>2, <2>3, Zenon
<1>10. \A n \in 0 .. N : Upto[n] \in V
  <2>1. \A n \in 1 .. N : Upto[n - 1] \in V => Upto[n] = move[<<n, Upto[n - 1]>>]
    <3> HIDE DEF N, V, Upto
    <3> QED BY <1>9
  <2>2. IsStepwise(V, N, start, move) /\ Upto[0] = start
    BY <1>4, <1>9
  <2> HIDE DEF N, V, move, Upto
  <2> QED BY <2>1, <2>2, StepwiseType
<1>11. Upto \in [0 .. N -> V]
  <2>1. Upto = [n \in 0 .. N |-> Upto[n]]
    <3> HIDE DEF Upto
    <3> QED BY <1>8
  <2> HIDE DEF N, V, Upto
  <2> QED BY <1>10, <2>1
<1>12. AddLoop(groups, ring) =
                    [n \in DOMAIN groups |->
                       IF Upto[n - 1] = {} THEN groups[n]
                       ELSE Append(groups[n], ring[NearestFree(ring, Upto[n - 1], Last(groups[n]).at)])]
                    \o [i \in DOMAIN Only(ring, Upto[Len(groups)]) |-> <<Only(ring, Upto[Len(groups)])[i]>>]
  BY Zenon DEF start, Next_, AddLoop
<1> HIDE DEF Upto
<1>13. IsFree(groups, ring, Upto)
  BY <1>9, <1>11, <1>12 DEF start, Next_, IsFree
<1> QED BY <1>13

\* Groups of one ring each.
LEMMA Alone ==
  ASSUME NEW left \in Seq(AnyRing)
  PROVE  LET groups == [i \in DOMAIN left |-> <<left[i]>>]
         IN /\ groups \in Seq(AnyGroup)
            /\ Members(groups) = ToSet(left)
            /\ IsInjective(left) => Apart(groups)
<1> DEFINE groups == [i \in DOMAIN left |-> <<left[i]>>]
           K == Len(left)
<1>1. K \in Nat /\ DOMAIN left = 1 .. K /\ \A i \in 1 .. K : left[i] \in AnyRing
  BY LenProperties, ElementOfSeq
<1>2. ASSUME NEW e \in AnyRing PROVE <<e>> \in AnyGroup /\ ToSet(<<e>>) = {e} /\ IsInjective(<<e>>)
  <2> DEFINE s == << >>
  <2>1. s \in Seq(AnyRing) /\ ToSet(s) = {} /\ IsInjective(s) /\ Len(s) = 0
    BY EmptySeq, EmptyIs
  <2>4. Append(s, e) = <<e>>
    OBVIOUS
  <2> HIDE DEF s
  <2>7. s \in Seq(AnyRing)
    BY <2>1
  <2>2. /\ Append(s, e) \in Seq(AnyRing) /\ Len(Append(s, e)) = Len(s) + 1
        /\ ToSet(Append(s, e)) = ToSet(s) \union {e}
        /\ IsInjective(s) /\ e \notin ToSet(s) => IsInjective(Append(s, e))
    BY <2>7, AppendIs
  <2> DEFINE t == Append(s, e)
  <2> HIDE DEF t
  <2>3. t \in Seq(AnyRing) /\ Len(t) # 0
    BY <2>1, <2>2 DEF t
  <2>5. t \in AnyGroup
    BY <2>3, EmptySeq DEF AnyGroup
  <2>6. ToSet(t) = {e} /\ IsInjective(t)
    BY <2>1, <2>2 DEF t
  <2> QED BY <2>4, <2>5, <2>6 DEF t
<1> HIDE DEF K
<1>3. \A i \in 1 .. K : groups[i] = <<left[i]>> /\ groups[i] \in AnyGroup
                        /\ ToSet(groups[i]) = {left[i]} /\ IsInjective(groups[i])
  <2> TAKE i \in 1 .. K
  <2>1. groups[i] = <<left[i]>>
    BY <1>1
  <2> HIDE DEF groups
  <2> QED BY <1>1, <1>2, <2>1
<1>4. groups \in Seq(AnyGroup) /\ Len(groups) = K
  <2>1. groups = [i \in 1 .. K |-> groups[i]]
    BY <1>1
  <2> HIDE DEF groups
  <2>2. groups \in [1 .. K -> AnyGroup]
    BY <1>3, <2>1
  <2>3. \A T : \A n \in Nat : \A h \in [1 .. n -> T] : h \in Seq(T) /\ Len(h) = n
    OBVIOUS
  <2> QED BY <1>1, <2>2, <2>3
<1> HIDE DEF groups
<1>5. Members(groups) = ToSet(left)
  <2>1. \A x : x \in ToSet(left) <=> \E i \in 1 .. K : x = left[i]
    BY ToSetIs DEF K
  <2>2. \A x : x \in Members(groups) <=> \E i \in 1 .. K : x \in ToSet(groups[i])
    BY <1>4 DEF Members
  <2>3. \A i \in 1 .. K : \A x : x \in ToSet(groups[i]) <=> x = left[i]
    BY <1>3
  <2>4. \A x : x \in Members(groups) <=> x \in ToSet(left)
    BY <2>1, <2>2, <2>3, Zenon
  <2> QED BY <2>4
<1>6. ASSUME IsInjective(left) PROVE Apart(groups)
  <2>1. \A i, j \in 1 .. K : left[i] = left[j] => i = j
    BY <1>6, ToSetIs DEF K
  <2> QED BY <1>3, <1>4, <2>1 DEF Apart
<1> QED BY <1>4, <1>5, <1>6 DEF groups

\* A loop is shared out among the groups: none of its rings is lost, and none is taken twice.
LEMMA AddLoopIs ==
  ASSUME NEW groups \in Seq(AnyGroup), NEW ring \in Seq(AnyRing)
  PROVE  /\ AddLoop(groups, ring) \in Seq(AnyGroup)
         /\ Members(AddLoop(groups, ring)) = Members(groups) \union ToSet(ring)
         /\ /\ Apart(groups) /\ IsInjective(ring)
            /\ Members(groups) \cap ToSet(ring) = {}
            => Apart(AddLoop(groups, ring))
<1> DEFINE N == Len(groups)
           M == Len(ring)
<1>1. /\ N \in Nat /\ DOMAIN groups = 1 .. N /\ \A n \in 1 .. N : groups[n] \in AnyGroup
      /\ M \in Nat /\ DOMAIN ring = 1 .. M /\ \A i \in 1 .. M : ring[i] \in AnyRing
  BY LenProperties, ElementOfSeq
<1>2. PICK F : IsFree(groups, ring, F)
  BY <1>1, FreeUnfold
<1>20. /\ F \in [0 .. N -> SUBSET DOMAIN ring]
       /\ F[0] = DOMAIN ring
       /\ \A n \in 1 .. N : F[n] = IF F[n - 1] = {} THEN {}
                                   ELSE F[n - 1] \ {NearestFree(ring, F[n - 1], Last(groups[n]).at)}
  BY <1>2 DEF IsFree
<1> DEFINE p == [n \in 1 .. N |-> NearestFree(ring, F[n - 1], Last(groups[n]).at)]
           left == Only(ring, F[N])
           G == [n \in 1 .. N |-> IF F[n - 1] = {} THEN groups[n] ELSE Append(groups[n], ring[p[n]])]
           L == [i \in DOMAIN left |-> <<left[i]>>]
<1> HIDE DEF N, M
<1>3. AddLoop(groups, ring) = G \o L
  <2>1. G = [n \in DOMAIN groups |->
                IF F[n - 1] = {} THEN groups[n]
                ELSE Append(groups[n], ring[NearestFree(ring, F[n - 1], Last(groups[n]).at)])]
    BY <1>1
  <2> HIDE DEF G, p
  <2> QED BY <1>2, <2>1 DEF IsFree, N, left, L
<1>4. \A n \in 0 .. N : F[n] \subseteq 1 .. M
  BY <1>1, <1>20
<1>5. ASSUME NEW n \in 1 .. N
      PROVE  /\ n - 1 \in 0 .. N
             /\ F[n] = IF F[n - 1] = {} THEN {} ELSE F[n - 1] \ {p[n]}
             /\ F[n - 1] # {} => p[n] \in F[n - 1]
  <2>1. n - 1 \in 0 .. N
    BY <1>1
  <2>2. p[n] = NearestFree(ring, F[n - 1], Last(groups[n]).at)
    OBVIOUS
  <2> HIDE DEF p
  <2>3. F[n] = IF F[n - 1] = {} THEN {} ELSE F[n - 1] \ {p[n]}
    BY <1>20, <2>2
  <2>4. ASSUME F[n - 1] # {} PROVE p[n] \in F[n - 1]
    <3> DEFINE at_ == Last(groups[n]).at
               free_ == F[n - 1]
    <3>1. at_ \in Int
      BY <1>1, LastOfGroup
    <3>2. free_ \subseteq 1 .. M
      BY <1>4, <2>1
    <3>3. free_ \subseteq Nat /\ \A i \in free_ : ring[i].at \in Int
      BY <1>1, <3>2 DEF AnyRing
    <3> HIDE DEF at_, free_
    <3>4. free_ # {} => NearestFree(ring, free_, at_) \in free_
      BY <3>1, <3>3, NearestIsFree
    <3> QED BY <2>2, <2>4, <3>4 DEF at_, free_
  <2> QED BY <2>1, <2>3, <2>4
<1> HIDE DEF p
<1> DEFINE T == {n \in Nat : n <= N =>
                   /\ \A m \in 0 .. n : F[n] \subseteq F[m]
                   /\ \A i \in 1 .. M : i \in F[n] \/ \E k \in 1 .. n : F[k - 1] # {} /\ i = p[k]}
<1>6. 0 .. N \subseteq T
  <2>1. 0 \in T
    <3>1. \A m \in 0 .. 0 : m = 0
      OBVIOUS
    <3> QED BY <1>1, <1>20, <3>1
  <2>2. ASSUME NEW n \in 0 .. (N - 1), n \in T PROVE n + 1 \in T
    <3> DEFINE j == n + 1
    <3>1. j \in 1 .. N /\ j - 1 = n /\ j \in Nat /\ n \in Nat /\ n <= N /\ n \in 0 .. n
          /\ (\A m \in 0 .. j : m \in 0 .. n \/ m = j)
          /\ (\A k : k \in 1 .. j <=> k \in 1 .. n \/ k = j)
      BY <1>1
    <3>2. /\ \A m \in 0 .. n : F[n] \subseteq F[m]
          /\ \A i \in 1 .. M : i \in F[n] \/ \E k \in 1 .. n : F[k - 1] # {} /\ i = p[k]
      BY <2>2, <3>1
    <3> HIDE DEF j
    <3>3. F[j] = IF F[n] = {} THEN {} ELSE F[n] \ {p[j]}
      BY <1>5, <3>1
    <3>4. \A m \in 0 .. j : F[j] \subseteq F[m]
      <4>1. F[j] \subseteq F[n]
        BY <3>3
      <4> QED BY <3>1, <3>2, <4>1
    <3>5. ASSUME NEW i \in 1 .. M PROVE i \in F[j] \/ \E k \in 1 .. j : F[k - 1] # {} /\ i = p[k]
      <4>1. CASE i \in F[n]
        <5>1. i \in F[j] \/ (F[j - 1] # {} /\ i = p[j])
          BY <3>1, <3>3, <4>1
        <5>2. j \in 1 .. j
          BY <3>1
        <5> QED BY <5>1, <5>2
      <4>2. CASE \E k \in 1 .. n : F[k - 1] # {} /\ i = p[k]
        BY <3>1, <4>2
      <4> QED BY <3>2, <4>1, <4>2
    <3> QED BY <3>1, <3>4, <3>5 DEF j
  <2> HIDE DEF T
  <2> QED BY <1>1, <2>1, <2>2, SetOfIntervalInduction
<1>7. ASSUME NEW k \in 1 .. N, NEW n \in k .. N, F[k - 1] # {} PROVE p[k] \notin F[n]
  <2>1. n \in 0 .. N /\ k \in 0 .. n /\ n \in Nat /\ n <= N
    BY <1>1
  <2>2. F[n] \subseteq F[k]
    BY <1>6, <2>1
  <2> QED BY <1>5, <1>7, <2>2
<1>8. \A i \in 1 .. M : i \in F[N] \/ \E k \in 1 .. N : F[k - 1] # {} /\ i = p[k]
  <2>1. N \in 0 .. N /\ N <= N
    BY <1>1
  <2> QED BY <1>6, <2>1
<1> HIDE DEF T
\* What the groups have taken, and what is left.
<1>9. ASSUME NEW n \in 1 .. N
      PROVE  /\ G[n] \in AnyGroup
             /\ F[n - 1] = {} => G[n] = groups[n]
             /\ F[n - 1] # {} => /\ p[n] \in 1 .. M /\ ring[p[n]] \in AnyRing
                                 /\ ToSet(G[n]) = ToSet(groups[n]) \union {ring[p[n]]}
                                 /\ IsInjective(groups[n]) /\ ring[p[n]] \notin ToSet(groups[n])
                                      => IsInjective(G[n])
  <2>1. G[n] = IF F[n - 1] = {} THEN groups[n] ELSE Append(groups[n], ring[p[n]])
    OBVIOUS
  <2> HIDE DEF G
  <2>2. groups[n] \in AnyGroup /\ groups[n] \in Seq(AnyRing)
    BY <1>1 DEF AnyGroup
  <2>3. CASE F[n - 1] = {}
    BY <2>1, <2>2, <2>3
  <2>4. CASE F[n - 1] # {}
    <3> DEFINE e == ring[p[n]]
               s == groups[n]
    <3>1. p[n] \in 1 .. M /\ e \in AnyRing
      BY <1>1, <1>4, <1>5, <2>4
    <3>2. s \in Seq(AnyRing) /\ G[n] = Append(s, e)
      BY <2>1, <2>2, <2>4
    <3> HIDE DEF e, s
    <3>3. /\ Append(s, e) \in Seq(AnyRing) /\ Len(Append(s, e)) = Len(s) + 1
          /\ ToSet(Append(s, e)) = ToSet(s) \union {e}
          /\ IsInjective(s) /\ e \notin ToSet(s) => IsInjective(Append(s, e))
      BY <3>1, <3>2, AppendIs
    <3>4. Append(s, e) # << >>
      <4> DEFINE t == Append(s, e)
      <4>1. t \in Seq(AnyRing) /\ Len(t) = Len(s) + 1 /\ Len(s) \in Nat
        BY <3>2, <3>3, LenProperties
      <4> HIDE DEF t
      <4>2. t # << >>
        BY <4>1, EmptySeq
      <4> QED BY <4>2 DEF t
    <3> QED BY <2>4, <3>1, <3>2, <3>3, <3>4 DEF AnyGroup, e, s
  <2> QED BY <2>3, <2>4
<1>10. G \in Seq(AnyGroup) /\ Len(G) = N
  <2>1. G = [n \in 1 .. N |-> G[n]]
    OBVIOUS
  <2> HIDE DEF G
  <2>2. G \in [1 .. N -> AnyGroup]
    BY <1>9, <2>1
  <2>3. \A U : \A n \in Nat : \A h \in [1 .. n -> U] : h \in Seq(U) /\ Len(h) = n
    OBVIOUS
  <2> QED BY <1>1, <2>2, <2>3
<1> HIDE DEF G
<1> DEFINE taken == {ring[p[n]] : n \in {k \in 1 .. N : F[k - 1] # {}}}
<1>11. Members(G) = Members(groups) \union taken
  <2>1. \A x : x \in Members(G) <=> \E n \in 1 .. N : x \in ToSet(G[n])
    BY <1>10 DEF Members
  <2>2. \A x : x \in Members(groups) <=> \E n \in 1 .. N : x \in ToSet(groups[n])
    BY DEF Members, N
  <2>3. \A x : x \in taken <=> \E n \in 1 .. N : F[n - 1] # {} /\ x = ring[p[n]]
    OBVIOUS
  <2>4. \A n \in 1 .. N : \A x : x \in ToSet(G[n]) <=> x \in ToSet(groups[n]) \/ (F[n - 1] # {} /\ x = ring[p[n]])
    BY <1>9
  <2> HIDE DEF taken
  <2>5. \A x : x \in Members(G) <=> x \in Members(groups) \/ x \in taken
    <3> TAKE x
    <3>1. ASSUME x \in Members(G) PROVE x \in Members(groups) \/ x \in taken
      <4>1. PICK n \in 1 .. N : x \in ToSet(G[n])
        BY <2>1, <3>1
      <4> QED BY <2>2, <2>3, <2>4, <4>1
    <3>2. ASSUME x \in Members(groups) PROVE x \in Members(G)
      BY <2>1, <2>2, <2>4, <3>2
    <3>3. ASSUME x \in taken PROVE x \in Members(G)
      <4>1. PICK n \in 1 .. N : F[n - 1] # {} /\ x = ring[p[n]]
        BY <2>3, <3>3
      <4> QED BY <2>1, <2>4, <4>1
    <3> QED BY <3>1, <3>2, <3>3
  <2> QED BY <2>5
<1>12. /\ left \in Seq(AnyRing)
       /\ \A x : x \in ToSet(left) <=> \E i \in 1 .. M : i \in F[N] /\ x = ring[i]
       /\ IsInjective(ring) => IsInjective(left)
  BY OnlyIs DEF M
<1> HIDE DEF left
<1>13. L \in Seq(AnyGroup) /\ Members(L) = ToSet(left) /\ (IsInjective(left) => Apart(L))
  BY <1>12, Alone
<1> HIDE DEF L
<1>14. \A x : x \in ToSet(ring) <=> \E i \in 1 .. M : x = ring[i]
  BY ToSetIs DEF M
<1>15. taken \union ToSet(left) = ToSet(ring)
  <2>1. ASSUME NEW x \in taken PROVE x \in ToSet(ring)
    BY <1>9, <1>14
  <2>2. ASSUME NEW x \in ToSet(left) PROVE x \in ToSet(ring)
    BY <1>12, <1>14
  <2>3. ASSUME NEW x \in ToSet(ring) PROVE x \in taken \/ x \in ToSet(left)
    BY <1>8, <1>12, <1>14
  <2> QED BY <2>1, <2>2, <2>3
<1>16. ASSUME Apart(groups), IsInjective(ring), Members(groups) \cap ToSet(ring) = {}
       PROVE  Apart(G \o L)
  <2>1. \A i, j \in 1 .. M : ring[i] = ring[j] => i = j
    BY <1>16, ToSetIs DEF M
  <2>2. ASSUME NEW x, x \in taken, x \in ToSet(left) PROVE FALSE
    <3>1. PICK n \in 1 .. N : F[n - 1] # {} /\ x = ring[p[n]]
      BY <2>2
    <3>2. PICK i \in 1 .. M : i \in F[N] /\ x = ring[i]
      BY <1>12, <2>2
    <3>3. N \in n .. N
      BY <1>1
    <3>4. p[n] \notin F[N] /\ p[n] \in 1 .. M
      BY <1>7, <1>9, <3>1, <3>3
    <3>5. p[n] = i
      BY <2>1, <3>1, <3>2, <3>4
    <3> QED BY <3>2, <3>4, <3>5
  <2>3. taken \subseteq ToSet(ring) /\ ToSet(left) \subseteq ToSet(ring)
    <3> HIDE DEF taken
    <3> QED BY <1>15
  <2>4. ASSUME NEW n \in 1 .. N PROVE ToSet(groups[n]) \subseteq Members(groups)
    BY DEF Members, N
  <2>5. ASSUME NEW n \in 1 .. N, F[n - 1] # {} PROVE ring[p[n]] \in taken
    BY <2>5
  <2>6. Apart(G)
    <3>1. ASSUME NEW n \in 1 .. N PROVE IsInjective(G[n])
      <4>1. IsInjective(groups[n])
        BY <1>16 DEF Apart, N
      <4>2. F[n - 1] # {} => ring[p[n]] \notin ToSet(groups[n])
        <5> HIDE DEF taken
        <5> QED BY <1>16, <2>3, <2>4, <2>5
      <4> QED BY <1>9, <4>1, <4>2
    <3>2. ASSUME NEW n \in 1 .. N, NEW m \in 1 .. N, n < m PROVE ToSet(G[n]) \cap ToSet(G[m]) = {}
      <4>1. ToSet(groups[n]) \cap ToSet(groups[m]) = {}
        <5>1. n # m
          BY <1>1, <3>2
        <5> QED BY <1>16, <5>1 DEF Apart, N
      <4>2. F[n - 1] # {} /\ F[m - 1] # {} => ring[p[n]] # ring[p[m]]
        <5> SUFFICES ASSUME F[n - 1] # {}, F[m - 1] # {} PROVE ring[p[n]] # ring[p[m]]
          OBVIOUS
        <5>1. m - 1 \in n .. N
          BY <1>1, <3>2
        <5>2. p[n] \notin F[m - 1] /\ p[m] \in F[m - 1]
          BY <1>5, <1>7, <5>1
        <5> QED BY <1>9, <2>1, <5>2
      <4>3. \A k \in 1 .. N : F[k - 1] # {} =>
               ring[p[k]] \notin ToSet(groups[n]) /\ ring[p[k]] \notin ToSet(groups[m])
        <5> HIDE DEF taken
        <5> QED BY <1>16, <2>3, <2>4, <2>5
      <4>4. ASSUME NEW k \in 1 .. N
            PROVE  \A x : x \in ToSet(G[k]) <=> x \in ToSet(groups[k]) \/ (F[k - 1] # {} /\ x = ring[p[k]])
        BY <1>9
      <4> QED BY <4>1, <4>2, <4>3, <4>4
    <3>3. \A n, m \in 1 .. N : n # m => ToSet(G[n]) \cap ToSet(G[m]) = {}
      <4>1. \A n, m \in 1 .. N : n # m => n < m \/ m < n
        BY <1>1
      <4> QED BY <3>2, <4>1
    <3> QED BY <1>10, <3>1, <3>3 DEF Apart
  <2>7. Members(G) \cap Members(L) = {}
    <3> HIDE DEF taken
    <3> QED BY <1>11, <1>13, <1>16, <2>2, <2>3
  <2> QED BY <1>10, <1>12, <1>13, <1>16, <2>6, <2>7, GroupsConcat
<1>17. G \o L \in Seq(AnyGroup) /\ Members(G \o L) = Members(groups) \union ToSet(ring)
  <2>1. G \o L \in Seq(AnyGroup) /\ Members(G \o L) = Members(G) \union Members(L)
    BY <1>10, <1>13, GroupsConcat
  <2> HIDE DEF taken
  <2> QED BY <1>11, <1>13, <1>15, <2>1
<1> QED BY <1>3, <1>16, <1>17

\* The groups after each loop.
LEMMA GroupsUnfold ==
  ASSUME NEW loops \in Seq(Seq(AnyRing))
  PROVE  \E f \in [0 .. Len(loops) -> Seq(AnyGroup)] :
           /\ f[0] = << >> /\ Groups(loops) = f[Len(loops)]
           /\ \A n \in 1 .. Len(loops) : f[n] = AddLoop(f[n - 1], loops[n])
<1> DEFINE N == Len(loops)
           V == Seq(AnyGroup)
           start == << >>
           Next_(c, n) == AddLoop(c, loops[n])
           move == [p \in (1 .. N) \X V |-> Next_(p[2], p[1])]
           Is(g) == g = [n \in 0 .. N |-> IF n = 0 THEN start ELSE Next_(g[n - 1], n)]
           Upto == CHOOSE g : Is(g)
<1>1. N \in Nat /\ start \in V
  BY LenProperties, EmptySeq
<1>2. ASSUME NEW n \in 1 .. N, NEW c \in V PROVE Next_(c, n) \in V
  <2>1. loops[n] \in Seq(AnyRing)
    BY <1>1, ElementOfSeq
  <2> QED BY <2>1, AddLoopIs
<1> HIDE DEF start, Next_
<1>3. move \in [(1 .. N) \X V -> V]
  <2> HIDE DEF N, V
  <2> QED BY <1>2
<1>4. IsStepwise(V, N, start, move)
  <2> HIDE DEF N, V, move
  <2> QED BY <1>1, <1>3 DEF IsStepwise
<1>5. PICK f \in [0 .. N -> V] : f[0] = start /\ \A n \in 1 .. N : f[n] = move[<<n, f[n - 1]>>]
  <2> HIDE DEF N, V, move
  <2> QED BY <1>4, StepwiseRecursion
<1>6. \A n \in 1 .. N : f[n] = Next_(f[n - 1], n)
  <2> TAKE n \in 1 .. N
  <2>1. f[n - 1] \in V
    <3>1. n - 1 \in 0 .. N
      BY <1>1
    <3> HIDE DEF N, V
    <3> QED BY <3>1
  <2> HIDE DEF N, V
  <2> QED BY <1>5, <2>1
<1>7. Is(f)
  <2> HIDE DEF N, V
  <2>1. \A n \in 0 .. N : n = 0 \/ n \in 1 .. N
    BY <1>1
  <2> QED BY <1>5, <1>6, <2>1
<1>8. Is(Upto)
  <2> HIDE DEF Is
  <2> QED BY <1>7
<1>9. /\ Upto[0] = start /\ DOMAIN Upto = 0 .. N
      /\ \A n \in 1 .. N : Upto[n] = Next_(Upto[n - 1], n)
  <2> HIDE DEF Upto, N
  <2>1. \A n \in 0 .. N : Upto[n] = IF n = 0 THEN start ELSE Next_(Upto[n - 1], n)
    BY <1>8, Zenon
  <2>2. DOMAIN Upto = 0 .. N
    BY <1>8, Zenon
  <2>3. 0 \in 0 .. N /\ \A n \in 1 .. N : n \in 0 .. N /\ n # 0
    BY <1>1
  <2> QED BY <2>1, <2>2, <2>3, Zenon
<1>10. \A n \in 0 .. N : Upto[n] \in V
  <2>1. \A n \in 1 .. N : Upto[n - 1] \in V => Upto[n] = move[<<n, Upto[n - 1]>>]
    <3> HIDE DEF N, V, Upto
    <3> QED BY <1>9
  <2>2. IsStepwise(V, N, start, move) /\ Upto[0] = start
    BY <1>4, <1>9
  <2> HIDE DEF N, V, move, Upto
  <2> QED BY <2>1, <2>2, StepwiseType
<1>11. Upto \in [0 .. N -> V]
  <2>1. Upto = [n \in 0 .. N |-> Upto[n]]
    <3> HIDE DEF Upto
    <3> QED BY <1>8
  <2> HIDE DEF N, V, Upto
  <2> QED BY <1>10, <2>1
<1>12. Groups(loops) = Upto[Len(loops)]
  BY Zenon DEF start, Next_, Groups
<1> HIDE DEF Upto
<1> QED BY <1>9, <1>11, <1>12 DEF start, Next_

\* Nothing is in no group.
LEMMA EmptyGroups == Members(<< >>) = {} /\ Apart(<< >>)
<1>1. Len(<< >>) = 0 /\ \A g \in 1 .. 0 : FALSE
  OBVIOUS
<1> DEFINE e == << >>
<1> HIDE DEF e
<1>2. \A g \in 1 .. Len(e) : FALSE
  BY <1>1 DEF e
<1>3. Members(e) = {} /\ Apart(e)
  BY <1>2 DEF Members, Apart
<1> QED BY <1>3 DEF e

\* All rings of all loops are in some group, once if they were in the loops once.
LEMMA GroupsAre ==
  ASSUME NEW loops \in Seq(Seq(AnyRing))
  PROVE  /\ Groups(loops) \in Seq(AnyGroup)
         /\ Members(Groups(loops)) = Members(loops)
         /\ Apart(loops) => Apart(Groups(loops))
<1> DEFINE N == Len(loops)
           V == Seq(AnyGroup)
<1>1. PICK f \in [0 .. N -> V] : /\ f[0] = << >> /\ Groups(loops) = f[N]
                                 /\ \A n \in 1 .. N : f[n] = AddLoop(f[n - 1], loops[n])
  BY GroupsUnfold
<1>2. N \in Nat /\ \A n \in 1 .. N : loops[n] \in Seq(AnyRing)
  BY LenProperties, ElementOfSeq
<1>3. /\ \A x : x \in Members(loops) <=> \E n \in 1 .. N : x \in ToSet(loops[n])
      /\ Apart(loops) => /\ \A n \in 1 .. N : IsInjective(loops[n])
                         /\ \A m, n \in 1 .. N : m # n => ToSet(loops[m]) \cap ToSet(loops[n]) = {}
  BY DEF Members, Apart
<1> HIDE DEF N
<1> DEFINE T == {n \in Nat : n <= N =>
                   /\ \A x : x \in Members(f[n]) <=> \E k \in 1 .. n : x \in ToSet(loops[k])
                   /\ Apart(loops) => Apart(f[n])}
<1>4. 0 \in T
  <2>1. \A k \in 1 .. 0 : FALSE
    OBVIOUS
  <2> QED BY <1>1, <2>1, EmptyGroups
<1>5. ASSUME NEW n \in 0 .. (N - 1), n \in T PROVE n + 1 \in T
  <2> DEFINE m == n + 1
  <2>1. m \in 1 .. N /\ m - 1 = n /\ n \in Nat /\ n <= N /\ m \in Nat /\ n \in 0 .. N
        /\ \A k \in 1 .. n : k \in 1 .. N /\ k # m
    BY <1>2
  <2>2. \A i : i \in 1 .. m <=> i \in 1 .. n \/ i = m
    BY <2>1
  <2>3. /\ \A x : x \in Members(f[n]) <=> \E k \in 1 .. n : x \in ToSet(loops[k])
        /\ Apart(loops) => Apart(f[n])
    BY <1>5, <2>1
  <2> HIDE DEF m
  <2>4. f[m] = AddLoop(f[n], loops[m]) /\ f[n] \in V /\ loops[m] \in Seq(AnyRing)
    BY <1>1, <1>2, <2>1
  <2>5. /\ Members(f[m]) = Members(f[n]) \union ToSet(loops[m])
        /\ Apart(f[n]) /\ IsInjective(loops[m]) /\ Members(f[n]) \cap ToSet(loops[m]) = {} => Apart(f[m])
    BY <2>4, AddLoopIs
  <2>6. \A x : x \in Members(f[m]) <=> \E k \in 1 .. m : x \in ToSet(loops[k])
    BY <2>2, <2>3, <2>5
  <2>7. ASSUME Apart(loops) PROVE Apart(f[m])
    <3>1. ASSUME NEW x, x \in Members(f[n]), x \in ToSet(loops[m]) PROVE FALSE
      <4>1. PICK k \in 1 .. n : x \in ToSet(loops[k])
        BY <2>3, <3>1
      <4>2. ToSet(loops[k]) \cap ToSet(loops[m]) = {}
        BY <1>3, <2>1, <2>7
      <4> QED BY <3>1, <4>1, <4>2
    <3>2. Members(f[n]) \cap ToSet(loops[m]) = {}
      BY <3>1
    <3> QED BY <1>3, <2>1, <2>3, <2>5, <2>7, <3>2
  <2> QED BY <2>1, <2>6, <2>7 DEF m
<1>6. 0 .. N \subseteq T
  <2> HIDE DEF T
  <2> QED BY <1>2, <1>4, <1>5, SetOfIntervalInduction
<1>7. N \in T /\ N <= N /\ N \in 0 .. N
  <2>1. N <= N /\ N \in 0 .. N
    BY <1>2
  <2> HIDE DEF T
  <2> QED BY <1>6, <2>1
<1>8. (\A x : x \in Members(f[N]) <=> x \in Members(loops)) /\ (Apart(loops) => Apart(f[N]))
  BY <1>3, <1>7
<1> QED BY <1>1, <1>7, <1>8 DEF N

-----------------------------------------------------------------------------
(* The swaths of a site.                                                    *)

\* A headland ring or an obstacle ring is a ring.
LEMMA SwathType ==
  ASSUME NEW k \in {"headland", "obstacle", "mainland"}, NEW l \in Nat, NEW i \in Nat, NEW at \in Int
  PROVE  /\ Swath(k, l, i, at) \in AnyRing
         /\ Swath(k, l, i, at).kind = k /\ Swath(k, l, i, at).loop = l /\ Swath(k, l, i, at).i = i
  BY DEF Swath, AnyRing

\* A sequence given by its elements.
LEMMA Listed ==
  ASSUME NEW A, NEW n \in Nat, NEW h \in [1 .. n -> A]
  PROVE  /\ h \in Seq(A) /\ Len(h) = n
         /\ \A x : x \in ToSet(h) <=> \E i \in 1 .. n : x = h[i]
         /\ (\A i, j \in 1 .. n : h[i] = h[j] => i = j) => IsInjective(h)
<1>1. h \in Seq(A) /\ Len(h) = n
  OBVIOUS
<1>2. /\ \A x : x \in ToSet(h) <=> \E i \in 1 .. Len(h) : x = h[i]
      /\ IsInjective(h) <=> \A i, j \in 1 .. Len(h) : h[i] = h[j] => i = j
  BY <1>1, ToSetIs
<1>3. 1 .. Len(h) = 1 .. n
  BY <1>1
<1> QED BY <1>1, <1>2, <1>3, Zenon

\* The rings of the field: as Fields2Cover found them, each loop by itself.
LEMMA FieldRingsAre ==
  ASSUME NEW site \in AnySite
  PROVE  /\ FieldRings(site) \in Seq(Seq(AnyRing))
         /\ Apart(FieldRings(site))
         /\ \A x : x \in Members(FieldRings(site)) <=>
              \E l \in DOMAIN site.rings : \E i \in DOMAIN site.rings[l] :
                 x = Swath("headland", l, i, site.rings[l][i])
         /\ \A x \in Members(FieldRings(site)) : x.kind = "headland"
<1> DEFINE rings == site.rings
           N == Len(rings)
           M(l) == Len(rings[l])
           S(l, i) == Swath("headland", l, i, rings[l][i])
           R(l) == [i \in 1 .. M(l) |-> S(l, i)]
           field == [l \in 1 .. N |-> R(l)]
<1>1. rings \in Seq(Seq(Int))
  BY DEF AnySite
<1>2. N \in Nat /\ DOMAIN rings = 1 .. N /\ \A l \in 1 .. N : rings[l] \in Seq(Int)
  <2> HIDE DEF rings
  <2> QED BY <1>1, LenProperties, ElementOfSeq
<1>3. ASSUME NEW l \in 1 .. N
      PROVE  M(l) \in Nat /\ DOMAIN rings[l] = 1 .. M(l) /\ \A i \in 1 .. M(l) : rings[l][i] \in Int
  <2>1. rings[l] \in Seq(Int)
    BY <1>2
  <2> HIDE DEF rings
  <2> QED BY <2>1, LenProperties, ElementOfSeq
<1>4. FieldRings(site) = field
  <2>1. FieldRings(site) = [l \in DOMAIN rings |-> [i \in DOMAIN rings[l] |-> S(l, i)]]
    BY DEF FieldRings
  <2> HIDE DEF rings, S, M, N
  <2> QED BY <1>2, <1>3, <2>1
<1> HIDE DEF rings, N, M
<1>5. ASSUME NEW l \in 1 .. N, NEW i \in 1 .. M(l)
      PROVE  S(l, i) \in AnyRing /\ S(l, i).kind = "headland" /\ S(l, i).loop = l /\ S(l, i).i = i
  <2>1. l \in Nat /\ i \in Nat /\ rings[l][i] \in Int
    BY <1>2, <1>3
  <2> QED BY <2>1, SwathType
<1> HIDE DEF S
<1>6. ASSUME NEW l \in 1 .. N
      PROVE  /\ R(l) \in Seq(AnyRing) /\ IsInjective(R(l))
             /\ \A x : x \in ToSet(R(l)) <=> \E i \in 1 .. M(l) : x = S(l, i)
  <2>1. R(l) \in [1 .. M(l) -> AnyRing] /\ \A i \in 1 .. M(l) : R(l)[i] = S(l, i)
    BY <1>5
  <2> HIDE DEF R
  <2>2. /\ R(l) \in Seq(AnyRing)
        /\ \A x : x \in ToSet(R(l)) <=> \E i \in 1 .. M(l) : x = R(l)[i]
        /\ (\A i, j \in 1 .. M(l) : R(l)[i] = R(l)[j] => i = j) => IsInjective(R(l))
    <3> DEFINE n == M(l)
               h == R(l)
    <3>1. n \in Nat /\ h \in [1 .. n -> AnyRing]
      BY <1>3, <2>1
    <3> HIDE DEF n, h
    <3>2. /\ h \in Seq(AnyRing)
          /\ \A x : x \in ToSet(h) <=> \E i \in 1 .. n : x = h[i]
          /\ (\A i, j \in 1 .. n : h[i] = h[j] => i = j) => IsInjective(h)
      BY <3>1, Listed
    <3> QED BY <3>2 DEF n, h
  <2>3. \A i, j \in 1 .. M(l) : R(l)[i] = R(l)[j] => i = j
    BY <1>5, <2>1
  <2> QED BY <2>1, <2>2, <2>3
<1> HIDE DEF R
<1>7. field \in Seq(Seq(AnyRing)) /\ Len(field) = N /\ \A l \in 1 .. N : field[l] = R(l)
  <2> DEFINE A == Seq(AnyRing)
  <2>1. field \in [1 .. N -> A] /\ \A l \in 1 .. N : field[l] = R(l)
    BY <1>6
  <2> HIDE DEF field, A
  <2>2. field \in Seq(A) /\ Len(field) = N
    BY <1>2, <2>1, Listed
  <2> QED BY <2>1, <2>2 DEF A
<1> HIDE DEF field
<1>8. \A x : x \in Members(field) <=> \E l \in 1 .. N : \E i \in 1 .. M(l) : x = S(l, i)
  <2>1. \A x : x \in Members(field) <=> \E l \in 1 .. N : x \in ToSet(R(l))
    BY <1>7 DEF Members
  <2> QED BY <1>6, <2>1
<1>9. Apart(field)
  <2>1. ASSUME NEW l \in 1 .. N, NEW k \in 1 .. N, l # k PROVE ToSet(R(l)) \cap ToSet(R(k)) = {}
    BY <1>5, <1>6, <2>1
  <2> QED BY <1>6, <1>7, <2>1 DEF Apart
<1>10. \A x \in Members(field) : x.kind = "headland"
  BY <1>5, <1>8
<1>11. \A x : (\E l \in 1 .. N : \E i \in 1 .. M(l) : x = S(l, i))
                <=> \E l \in DOMAIN rings : \E i \in DOMAIN rings[l] : x = S(l, i)
  BY <1>2, <1>3
<1>12. \A x : x \in Members(field) <=>
         \E l \in DOMAIN rings : \E i \in DOMAIN rings[l] : x = S(l, i)
  BY <1>8, <1>11
<1>13. \A x : x \in Members(field) <=>
         \E l \in DOMAIN site.rings : \E i \in DOMAIN site.rings[l] : x = Swath("headland", l, i, site.rings[l][i])
  BY <1>12 DEF S, rings
<1> QED BY <1>4, <1>7, <1>9, <1>10, <1>13

\* The rings around the exclusions: so many around each.
LEMMA ObstacleRingsAre ==
  ASSUME NEW site \in AnySite
  PROVE  /\ ObstacleRings(site) \in Seq(AnyRing)
         /\ IsInjective(ObstacleRings(site))
         /\ \A x \in ToSet(ObstacleRings(site)) : x.kind = "obstacle"
<1> DEFINE around == Applied(site.areas)
           N == Len(around)
           K == site.loops
           S(l, i) == Swath("obstacle", l, i, around[i].at)
           R(i) == [l \in 1 .. K |-> S(l, i)]
           loops == [i \in 1 .. N |-> R(i)]
<1>1. around \in Seq(Areas)
  <2>1. site.areas \in Seq(Areas)
    BY DEF AnySite
  <2> QED BY <2>1, OnlyIs DEF Applied
<1>2. N \in Nat /\ DOMAIN around = 1 .. N /\ (\A i \in 1 .. N : around[i].at \in Int) /\ K \in Nat
  <2>1. K \in Nat
    BY DEF AnySite
  <2> HIDE DEF around, K
  <2>2. N \in Nat /\ DOMAIN around = 1 .. N /\ \A i \in 1 .. N : around[i] \in Areas
    BY <1>1, LenProperties, ElementOfSeq
  <2> QED BY <2>1, <2>2 DEF Areas
<1>3. ObstacleRings(site) = FlattenSeq(loops)
  <2>1. ObstacleRings(site) =
          FlattenSeq([i \in DOMAIN around |-> [l \in 1 .. K |-> S(l, i)]])
    BY DEF ObstacleRings
  <2> HIDE DEF around, S, K
  <2> QED BY <1>2, <2>1
<1> HIDE DEF around, N, K
<1>5. ASSUME NEW i \in 1 .. N, NEW l \in 1 .. K
      PROVE  S(l, i) \in AnyRing /\ S(l, i).kind = "obstacle" /\ S(l, i).loop = l /\ S(l, i).i = i
  <2>1. l \in Nat /\ i \in Nat /\ around[i].at \in Int
    BY <1>2
  <2> QED BY <2>1, SwathType
<1> HIDE DEF S
<1>6. ASSUME NEW i \in 1 .. N
      PROVE  /\ R(i) \in Seq(AnyRing) /\ IsInjective(R(i))
             /\ \A x : x \in ToSet(R(i)) <=> \E l \in 1 .. K : x = S(l, i)
  <2>1. R(i) \in [1 .. K -> AnyRing] /\ \A l \in 1 .. K : R(i)[l] = S(l, i)
    BY <1>5
  <2> HIDE DEF R
  <2>2. /\ R(i) \in Seq(AnyRing)
        /\ \A x : x \in ToSet(R(i)) <=> \E l \in 1 .. K : x = R(i)[l]
        /\ (\A k, l \in 1 .. K : R(i)[k] = R(i)[l] => k = l) => IsInjective(R(i))
    <3> DEFINE h == R(i)
    <3>1. K \in Nat /\ h \in [1 .. K -> AnyRing]
      BY <1>2, <2>1
    <3> HIDE DEF h
    <3>2. /\ h \in Seq(AnyRing)
          /\ \A x : x \in ToSet(h) <=> \E l \in 1 .. K : x = h[l]
          /\ (\A k, l \in 1 .. K : h[k] = h[l] => k = l) => IsInjective(h)
      <4>1. \A T : \A n \in Nat : \A g \in [1 .. n -> T] :
              /\ g \in Seq(T)
              /\ \A x : x \in ToSet(g) <=> \E l \in 1 .. n : x = g[l]
              /\ (\A k, l \in 1 .. n : g[k] = g[l] => k = l) => IsInjective(g)
        BY Listed
      <4> QED BY <3>1, <4>1, Zenon
    <3> QED BY <3>2 DEF h
  <2>3. \A k, l \in 1 .. K : R(i)[k] = R(i)[l] => k = l
    BY <1>5, <2>1
  <2> QED BY <2>1, <2>2, <2>3
<1> HIDE DEF R
<1>7. loops \in Seq(Seq(AnyRing)) /\ Len(loops) = N /\ \A i \in 1 .. N : loops[i] = R(i)
  <2> DEFINE A == Seq(AnyRing)
  <2>1. loops \in [1 .. N -> A] /\ \A i \in 1 .. N : loops[i] = R(i)
    BY <1>6
  <2> HIDE DEF loops, A
  <2>2. loops \in Seq(A) /\ Len(loops) = N
    BY <1>2, <2>1, Listed
  <2> QED BY <2>1, <2>2 DEF A
<1> HIDE DEF loops
<1>8. \A x : x \in Members(loops) <=> \E i \in 1 .. N : \E l \in 1 .. K : x = S(l, i)
  <2>1. \A x : x \in Members(loops) <=> \E i \in 1 .. N : x \in ToSet(R(i))
    BY <1>7 DEF Members
  <2> QED BY <1>6, <2>1
<1>9. Apart(loops)
  <2>1. ASSUME NEW i \in 1 .. N, NEW j \in 1 .. N, i # j PROVE ToSet(R(i)) \cap ToSet(R(j)) = {}
    BY <1>5, <1>6, <2>1
  <2> QED BY <1>6, <1>7, <2>1 DEF Apart
<1>10. /\ FlattenSeq(loops) \in Seq(AnyRing) /\ IsInjective(FlattenSeq(loops))
       /\ ToSet(FlattenSeq(loops)) = Members(loops)
  BY <1>7, <1>9, FlattenGroups
<1>11. \A x \in Members(loops) : x.kind = "obstacle"
  BY <1>5, <1>8
<1> QED BY <1>3, <1>10, <1>11

\* The swaths of the mainland.
LEMMA MainlandIs ==
  ASSUME NEW site \in AnySite
  PROVE  /\ Mainland(site) \in Seq(AnyRing)
         /\ IsInjective(Mainland(site))
         /\ \A x \in ToSet(Mainland(site)) : x.kind = "mainland"
<1> DEFINE K == site.mainland
           S(i) == Swath("mainland", 0, i, 0)
           h == [i \in 1 .. K |-> S(i)]
<1>1. K \in Nat
  BY DEF AnySite
<1>2. ASSUME NEW i \in 1 .. K PROVE S(i) \in AnyRing /\ S(i).kind = "mainland" /\ S(i).i = i
  BY SwathType
<1>3. Mainland(site) = h
  BY DEF Mainland
<1> HIDE DEF S, K
<1>4. h \in [1 .. K -> AnyRing] /\ \A i \in 1 .. K : h[i] = S(i)
  BY <1>2
<1> HIDE DEF h
<1>5. /\ h \in Seq(AnyRing)
      /\ \A x : x \in ToSet(h) <=> \E i \in 1 .. K : x = h[i]
      /\ (\A i, j \in 1 .. K : h[i] = h[j] => i = j) => IsInjective(h)
  BY <1>1, <1>4, Listed
<1>6. \A i, j \in 1 .. K : h[i] = h[j] => i = j
  BY <1>2, <1>4
<1>7. \A x \in ToSet(h) : x.kind = "mainland"
  BY <1>2, <1>4, <1>5
<1> QED BY <1>3, <1>5, <1>6, <1>7

\* generateSwaths() returns every ring that is wanted, once.
LEMMA SwathsAre ==
  ASSUME NEW site \in AnySite
  PROVE  /\ Swaths(site) \in Seq(AnyRing)
         /\ IsInjective(Swaths(site))
         /\ site.cells # 0 /\ site.loops # 0 =>
              \A x : x \in ToSet(Swaths(site)) /\ x.kind # "mainland" <=> x \in Wanted(site)
         /\ site.cells = 0 => Swaths(site) = << >>
<1> DEFINE field == FieldRings(site)
           H == FlattenSeq(Groups(field))
           O == ObstacleRings(site)
           M == Mainland(site)
<1>1. /\ H \in Seq(AnyRing) /\ IsInjective(H) /\ \A x \in ToSet(H) : x.kind = "headland"
      /\ \A x : x \in ToSet(H) <=>
           \E l \in DOMAIN site.rings : \E i \in DOMAIN site.rings[l] : x = Swath("headland", l, i, site.rings[l][i])
  <2>1. /\ field \in Seq(Seq(AnyRing)) /\ Apart(field) /\ \A x \in Members(field) : x.kind = "headland"
        /\ \A x : x \in Members(field) <=>
             \E l \in DOMAIN site.rings : \E i \in DOMAIN site.rings[l] : x = Swath("headland", l, i, site.rings[l][i])
    BY FieldRingsAre
  <2> HIDE DEF field
  <2> DEFINE groups == Groups(field)
  <2>2. groups \in Seq(AnyGroup) /\ Apart(groups) /\ Members(groups) = Members(field)
    BY <2>1, GroupsAre
  <2> HIDE DEF groups
  <2>3. groups \in Seq(Seq(AnyRing))
    <3> DEFINE A == Seq(AnyRing)
               B == AnyGroup
    <3>1. B \subseteq A /\ groups \in Seq(B)
      BY <2>2 DEF AnyGroup
    <3> HIDE DEF A, B
    <3>2. groups \in Seq(A)
      BY <3>1
    <3> QED BY <3>2 DEF A
  <2>4. /\ FlattenSeq(groups) \in Seq(AnyRing) /\ IsInjective(FlattenSeq(groups))
        /\ ToSet(FlattenSeq(groups)) = Members(field)
    BY <2>2, <2>3, FlattenGroups
  <2> QED BY <2>1, <2>4 DEF groups
<1>2. O \in Seq(AnyRing) /\ IsInjective(O) /\ \A x \in ToSet(O) : x.kind = "obstacle"
  BY ObstacleRingsAre
<1>3. M \in Seq(AnyRing) /\ IsInjective(M) /\ \A x \in ToSet(M) : x.kind = "mainland"
  BY MainlandIs
<1>4. Swaths(site) = IF site.cells = 0 THEN << >> ELSE IF site.loops = 0 THEN M ELSE H \o O \o M
  BY DEF Swaths
<1>5. \A x : x \in Wanted(site) <=> x \in ToSet(H) \/ x \in ToSet(O)
  <2>1. \A x : x \in Wanted(site) <=>
          \/ \E l \in DOMAIN site.rings : \E i \in DOMAIN site.rings[l] : x = Swath("headland", l, i, site.rings[l][i])
          \/ x \in ToSet(O)
    <3> DEFINE W(l) == {Swath("headland", l, i, site.rings[l][i]) : i \in DOMAIN site.rings[l]}
               U == UNION {W(l) : l \in DOMAIN site.rings}
    <3>1. Wanted(site) = ToSet(O) \union U
      BY DEF Wanted
    <3>2. \A l : \A x : x \in W(l) <=> \E i \in DOMAIN site.rings[l] : x = Swath("headland", l, i, site.rings[l][i])
      OBVIOUS
    <3> HIDE DEF W, O
    <3>3. \A x : x \in U <=> \E l \in DOMAIN site.rings : x \in W(l)
      BY Zenon
    <3> HIDE DEF U
    <3> QED BY <3>1, <3>2, <3>3
  <2> HIDE DEF H, O
  <2> QED BY <1>1, <2>1
<1> HIDE DEF H, O, M
<1>6. /\ H \o O \in Seq(AnyRing) /\ ToSet(H \o O) = ToSet(H) \union ToSet(O)
      /\ IsInjective(H \o O)
  <2>1. ToSet(H) \cap ToSet(O) = {}
    BY <1>1, <1>2
  <2> QED BY <1>1, <1>2, <2>1, ConcatIs
<1> DEFINE HO == H \o O
           all == HO \o M
<1> HIDE DEF HO
<1>7. all \in Seq(AnyRing) /\ ToSet(all) = ToSet(HO) \union ToSet(M) /\ IsInjective(all)
  <2>1. ToSet(HO) \cap ToSet(M) = {}
    BY <1>1, <1>2, <1>3, <1>6 DEF HO
  <2>2. HO \in Seq(AnyRing) /\ IsInjective(HO)
    BY <1>6 DEF HO
  <2> QED BY <1>3, <2>1, <2>2, ConcatIs
<1> HIDE DEF all
<1>8. Swaths(site) = IF site.cells = 0 THEN << >> ELSE IF site.loops = 0 THEN M ELSE all
  BY <1>4 DEF all, HO
<1>9. \A x : x \in ToSet(all) /\ x.kind # "mainland" <=> x \in Wanted(site)
  <2>1. \A x : x \in ToSet(all) <=> x \in ToSet(H) \/ x \in ToSet(O) \/ x \in ToSet(M)
    BY <1>6, <1>7 DEF HO
  <2> QED BY <1>1, <1>2, <1>3, <1>5, <2>1
<1>10. << >> \in Seq(AnyRing)
  BY EmptySeq
<1> QED BY <1>3, <1>7, <1>8, <1>9, <1>10, EmptyIs

-----------------------------------------------------------------------------
(* Groups of as many rings as there are loops.                              *)

\* Quotient and remainder.
LEMMA QuotientIs ==
  ASSUME NEW a \in Nat, NEW d \in Nat \ {0}
  PROVE  a \div d \in Nat /\ (a \div d) * d <= a /\ a < (a \div d + 1) * d
  OBVIOUS

\* A product grows with its factors.
LEMMA ProductGrows ==
  ASSUME NEW p \in Nat, NEW q \in Nat, NEW d \in Nat, p <= q
  PROVE  p * d \in Nat /\ q * d \in Nat /\ p * d <= q * d
<1>1. p * d <= q * d
  OBVIOUS
<1>2. \A x \in Nat : x * d \in Nat
  OBVIOUS
<1> QED BY <1>1, <1>2

\* A rounded-up quotient is enough, and not one too many.
LEMMA QuotientBound ==
  ASSUME NEW a \in Nat, NEW d \in Nat \ {0}, NEW q \in Nat, q * d <= a
  PROVE  q <= a \div d
<1> DEFINE r == a \div d
<1>1. r \in Nat /\ a < (r + 1) * d
  BY QuotientIs
<1> HIDE DEF r
<1>2. ASSUME r + 1 <= q PROVE FALSE
  <2>1. (r + 1) * d <= q * d /\ q * d \in Nat /\ (r + 1) * d \in Nat
    BY <1>1, <1>2, ProductGrows
  <2> QED BY <1>1, <2>1
<1>3. q <= r
  BY <1>1, <1>2
<1> QED BY <1>3 DEF r

\* Where K rings are cut into groups of L.
LEMMA CutsAre ==
  ASSUME NEW K \in Nat, NEW L \in Nat \ {0}
  PROVE  LET count == (K + L - 1) \div L
         IN /\ count \in Nat
            /\ \A g \in 1 .. count : /\ (g - 1) * L \in Nat /\ g * L = (g - 1) * L + L
                                     /\ (g - 1) * L < K
            /\ \A i \in 1 .. K : \E g \in 1 .. count : (g - 1) * L < i /\ i <= g * L
            /\ \A g, h \in 1 .. count : g < h => g * L <= (h - 1) * L
<1> DEFINE a == K + L - 1
           count == a \div L
<1>1. a \in Nat /\ a = K + L - 1
  OBVIOUS
<1> HIDE DEF a
<1>2. count \in Nat /\ count * L <= a
  BY <1>1, QuotientIs
<1> HIDE DEF count
<1>3. ASSUME NEW p \in Nat PROVE p * L \in Nat /\ (p + 1) * L = p * L + L
  OBVIOUS
<1>4. ASSUME NEW g \in 1 .. count
      PROVE  (g - 1) * L \in Nat /\ g * L = (g - 1) * L + L /\ (g - 1) * L < K
  <2> DEFINE p == g - 1
  <2>1. p \in Nat /\ g = p + 1 /\ g \in Nat /\ g <= count
    BY <1>2
  <2> HIDE DEF p
  <2>2. p * L \in Nat /\ g * L = p * L + L
    BY <1>3, <2>1
  <2>3. g * L <= count * L /\ g * L \in Nat /\ count * L \in Nat
    BY <1>2, <2>1, ProductGrows
  <2>4. p * L < K
    <3> DEFINE x == p * L
               y == g * L
               z == count * L
    <3>1. x \in Nat /\ y = x + L /\ y <= z /\ z <= a /\ z \in Nat
      BY <1>2, <2>2, <2>3
    <3> HIDE DEF x, y, z
    <3>2. x < K
      BY <1>1, <3>1
    <3> QED BY <3>2 DEF x
  <2> QED BY <2>2, <2>4 DEF p
<1>5. ASSUME NEW i \in 1 .. K PROVE \E g \in 1 .. count : (g - 1) * L < i /\ i <= g * L
  <2> DEFINE b == i - 1
             q == b \div L
             g == q + 1
  <2>1. b \in Nat /\ i = b + 1 /\ b + 1 <= K
    OBVIOUS
  <2> HIDE DEF b
  <2>2. q \in Nat /\ q * L <= b /\ b < (q + 1) * L
    BY <2>1, QuotientIs
  <2> HIDE DEF q
  <2>3. g \in Nat /\ g - 1 = q /\ g >= 1
    BY <2>2
  <2>4. q * L \in Nat /\ g * L = q * L + L
    BY <1>3, <2>2
  <2> HIDE DEF g
  <2>5. g * L <= a /\ q * L < i /\ i <= g * L
    <3> DEFINE x == q * L
               y == g * L
    <3>1. x \in Nat /\ y = x + L /\ x <= b /\ b < y
      BY <2>2, <2>4 DEF g
    <3> HIDE DEF x, y
    <3>2. y <= a /\ x < i /\ i <= y
      BY <1>1, <2>1, <3>1
    <3> QED BY <3>2 DEF x, y
  <2>6. g <= count
    BY <1>1, <2>3, <2>5, QuotientBound DEF count
  <2>7. g \in 1 .. count
    BY <1>2, <2>3, <2>6
  <2> QED BY <2>3, <2>5, <2>7
<1>6. ASSUME NEW g \in 1 .. count, NEW h \in 1 .. count, g < h PROVE g * L <= (h - 1) * L
  <2>1. g \in Nat /\ h - 1 \in Nat /\ g <= h - 1 /\ L \in Nat
    BY <1>2, <1>6
  <2> QED BY <2>1, ProductGrows
<1> QED BY <1>2, <1>4, <1>5, <1>6 DEF count, a

\* Cut anew, the rings are all there still, in groups that are not empty.
LEMMA RegroupIs ==
  ASSUME NEW s \in Seq(AnyRing), IsInjective(s), NEW loops \in Nat \ {0}
  PROVE  /\ Regroup(s, loops) \in Seq(AnyGroup)
         /\ Apart(Regroup(s, loops))
         /\ \A x : x \in Members(Regroup(s, loops)) <=> x \in ToSet(s) /\ x.kind # "mainland"
<1> DEFINE rings == Only(s, {i \in DOMAIN s : s[i].kind # "mainland"})
           K == Len(rings)
           count == (K + loops - 1) \div loops
           From(g) == (g - 1) * loops + 1
           End(g) == IF g * loops < K THEN g * loops ELSE K
           R(g) == SubSeq(rings, From(g), End(g))
           groups == [g \in 1 .. count |-> R(g)]
<1>1. /\ rings \in Seq(AnyRing) /\ IsInjective(rings)
      /\ \A x : x \in ToSet(rings) <=> x \in ToSet(s) /\ x.kind # "mainland"
  <2> DEFINE places == {i \in DOMAIN s : s[i].kind # "mainland"}
  <2>1. DOMAIN s = 1 .. Len(s) /\ \A x : x \in ToSet(s) <=> \E i \in 1 .. Len(s) : x = s[i]
    BY LenProperties, ToSetIs
  <2>2. \A i \in 1 .. Len(s) : i \in places <=> s[i].kind # "mainland"
    BY <2>1
  <2> HIDE DEF places
  <2>3. /\ Only(s, places) \in Seq(AnyRing) /\ IsInjective(Only(s, places))
        /\ \A x : x \in ToSet(Only(s, places)) <=> \E i \in 1 .. Len(s) : i \in places /\ x = s[i]
    BY OnlyIs
  <2>4. \A x : x \in ToSet(Only(s, places)) <=> x \in ToSet(s) /\ x.kind # "mainland"
    BY <2>1, <2>2, <2>3
  <2> QED BY <2>3, <2>4 DEF places
<1>2. Regroup(s, loops) = groups
  BY DEF Regroup
<1> HIDE DEF rings
<1>3. /\ K \in Nat /\ \A i \in 1 .. K : rings[i] \in AnyRing
      /\ \A x : x \in ToSet(rings) <=> \E i \in 1 .. K : x = rings[i]
      /\ \A i, j \in 1 .. K : rings[i] = rings[j] => i = j
  <2>1. K \in Nat /\ \A i \in 1 .. K : rings[i] \in AnyRing
    BY <1>1, LenProperties, ElementOfSeq
  <2>2. /\ \A x : x \in ToSet(rings) <=> \E i \in 1 .. K : x = rings[i]
        /\ IsInjective(rings) <=> \A i, j \in 1 .. K : rings[i] = rings[j] => i = j
    BY <1>1, ToSetIs
  <2> QED BY <1>1, <2>1, <2>2
<1> HIDE DEF K
<1>4. /\ count \in Nat
      /\ \A g \in 1 .. count : /\ (g - 1) * loops \in Nat /\ g * loops = (g - 1) * loops + loops
                               /\ (g - 1) * loops < K
      /\ \A i \in 1 .. K : \E g \in 1 .. count : (g - 1) * loops < i /\ i <= g * loops
      /\ \A g, h \in 1 .. count : g < h => g * loops <= (h - 1) * loops
  BY <1>3, CutsAre
<1> HIDE DEF count
<1>5. ASSUME NEW g \in 1 .. count
      PROVE  /\ From(g) \in 1 .. K /\ End(g) \in From(g) .. K
             /\ \A i \in 1 .. K : i \in From(g) .. End(g) <=> (g - 1) * loops < i /\ i <= g * loops
  <2> DEFINE x == (g - 1) * loops
             y == g * loops
  <2>1. x \in Nat /\ y = x + loops /\ x < K /\ y \in Nat
    BY <1>4
  <2>2. From(g) = x + 1 /\ End(g) = IF y < K THEN y ELSE K
    OBVIOUS
  <2> HIDE DEF x, y, From, End
  <2>3. From(g) \in 1 .. K /\ End(g) \in From(g) .. K /\ \A i \in 1 .. K : i \in From(g) .. End(g) <=> x < i /\ i <= y
    BY <1>3, <2>1, <2>2
  <2> QED BY <2>3 DEF x, y
<1> HIDE DEF From, End
<1>6. ASSUME NEW g \in 1 .. count
      PROVE  /\ R(g) \in AnyGroup /\ IsInjective(R(g))
             /\ \A x : x \in ToSet(R(g)) <=> \E i \in From(g) .. End(g) : x = rings[i]
  <2> DEFINE m == From(g)
             n == End(g)
             r == SubSeq(rings, m, n)
  <2>1. m \in Int /\ n \in Int /\ 1 <= m /\ m <= n /\ n <= K /\ \A i \in m .. n : i \in 1 .. K
    BY <1>3, <1>5
  <2> HIDE DEF m, n
  <2>2. /\ r \in Seq(AnyRing) /\ Len(r) = n - m + 1
        /\ \A i \in 1 .. (n - m + 1) : r[i] = rings[m + i - 1]
    <3>1. \A i \in m .. n : rings[i] \in AnyRing
      BY <1>3, <2>1
    <3> QED BY <2>1, <3>1, SubSeqProperties
  <2> HIDE DEF r
  <2>3. /\ \A i \in 1 .. (n - m + 1) : m + i - 1 \in m .. n
        /\ \A i \in m .. n : i - m + 1 \in 1 .. (n - m + 1) /\ m + (i - m + 1) - 1 = i
        /\ n - m + 1 # 0
    BY <2>1
  <2>4. /\ \A x : x \in ToSet(r) <=> \E i \in 1 .. Len(r) : x = r[i]
        /\ IsInjective(r) <=> \A i, j \in 1 .. Len(r) : r[i] = r[j] => i = j
    BY <2>2, ToSetIs
  <2>5. r \in AnyGroup
    BY <2>2, <2>3, EmptySeq DEF AnyGroup
  <2>6. ASSUME NEW x PROVE x \in ToSet(r) <=> \E i \in m .. n : x = rings[i]
    <3>1. ASSUME x \in ToSet(r) PROVE \E i \in m .. n : x = rings[i]
      <4>1. PICK i \in 1 .. (n - m + 1) : x = r[i]
        BY <2>2, <2>4, <3>1
      <4> QED BY <2>2, <2>3, <4>1
    <3>2. ASSUME NEW i \in m .. n, x = rings[i] PROVE x \in ToSet(r)
      <4>1. i - m + 1 \in 1 .. (n - m + 1) /\ r[i - m + 1] = rings[i]
        BY <2>2, <2>3
      <4> QED BY <2>2, <2>4, <3>2, <4>1
    <3> QED BY <3>1, <3>2
  <2>7. IsInjective(r)
    <3>1. ASSUME NEW i \in 1 .. (n - m + 1), NEW j \in 1 .. (n - m + 1), r[i] = r[j] PROVE i = j
      <4>1. rings[m + i - 1] = rings[m + j - 1] /\ m + i - 1 \in 1 .. K /\ m + j - 1 \in 1 .. K
        BY <2>1, <2>2, <2>3, <3>1
      <4>2. m + i - 1 = m + j - 1
        BY <1>3, <4>1
      <4> QED BY <2>1, <4>2
    <3> QED BY <2>2, <2>4, <3>1
  <2> QED BY <2>5, <2>6, <2>7 DEF r, m, n
<1> HIDE DEF R
<1>7. groups \in Seq(AnyGroup) /\ Len(groups) = count /\ \A g \in 1 .. count : groups[g] = R(g)
  <2>1. groups \in [1 .. count -> AnyGroup] /\ \A g \in 1 .. count : groups[g] = R(g)
    BY <1>6
  <2> HIDE DEF groups
  <2>2. groups \in Seq(AnyGroup) /\ Len(groups) = count
    BY <1>4, <2>1, Listed
  <2> QED BY <2>1, <2>2
<1> HIDE DEF groups
<1>8. ASSUME NEW x PROVE x \in Members(groups) <=> x \in ToSet(rings)
  <2>1. x \in Members(groups) <=> \E g \in 1 .. count : x \in ToSet(R(g))
    BY <1>7 DEF Members
  <2>2. ASSUME NEW g \in 1 .. count, x \in ToSet(R(g)) PROVE x \in ToSet(rings)
    <3>1. \A i \in From(g) .. End(g) : i \in 1 .. K
      BY <1>3, <1>5
    <3> QED BY <1>3, <1>6, <2>2, <3>1
  <2>3. ASSUME NEW i \in 1 .. K, x = rings[i] PROVE \E g \in 1 .. count : x \in ToSet(R(g))
    <3>1. PICK g \in 1 .. count : (g - 1) * loops < i /\ i <= g * loops
      BY <1>4
    <3>2. i \in From(g) .. End(g)
      BY <1>5, <3>1
    <3> QED BY <1>6, <2>3, <3>2
  <2> QED BY <1>3, <2>1, <2>2, <2>3
<1>9. Apart(groups)
  <2>1. ASSUME NEW g \in 1 .. count, NEW h \in 1 .. count, g < h, NEW x, x \in ToSet(R(g)), x \in ToSet(R(h))
        PROVE  FALSE
    <3>1. PICK i \in From(g) .. End(g) : x = rings[i]
      BY <1>6, <2>1
    <3>2. PICK j \in From(h) .. End(h) : x = rings[j]
      BY <1>6, <2>1
    <3>3. i \in 1 .. K /\ j \in 1 .. K
      BY <1>3, <1>5
    <3>4. i = j
      BY <1>3, <3>1, <3>2, <3>3
    <3> DEFINE y == g * loops
               z == (h - 1) * loops
    <3>5. i <= y /\ z < j
      BY <1>5, <3>3
    <3>6. y <= z /\ z \in Nat
      BY <1>4, <2>1
    <3>7. y \in Nat
      BY <1>4
    <3> HIDE DEF y, z
    <3> QED BY <3>3, <3>4, <3>5, <3>6, <3>7
  <2>2. \A g, h \in 1 .. count : g # h => g < h \/ h < g
    BY <1>4
  <2>3. \A g, h \in 1 .. count : g # h => ToSet(R(g)) \cap ToSet(R(h)) = {}
    BY <2>1, <2>2
  <2> QED BY <1>6, <1>7, <2>3 DEF Apart
<1> QED BY <1>1, <1>2, <1>7, <1>8, <1>9

-----------------------------------------------------------------------------
(* The order of the groups.                                                 *)

\* A sequence without repetition has all numbers up to K when it is as long.
LEMMA AllOrNot ==
  ASSUME NEW K \in Nat, NEW c \in Seq(1 .. K), IsInjective(c)
  PROVE  ToSet(c) \subseteq 1 .. K /\ (Len(c) = K <=> ToSet(c) = 1 .. K)
<1> DEFINE n == Len(c)
<1>1. n \in Nat /\ DOMAIN c = 1 .. n /\ c \in [1 .. n -> 1 .. K]
  BY LenProperties
<1>2. /\ ToSet(c) \subseteq 1 .. K
      /\ \A x : x \in ToSet(c) <=> \E i \in 1 .. n : x = c[i]
  BY ToSetIs
<1> HIDE DEF n
<1>3. IsFiniteSet(1 .. K) /\ Cardinality(1 .. K) = K /\ Cardinality(1 .. n) = n
  BY <1>1, FS_Interval
<1>4. c \in Injection(1 .. n, 1 .. K)
  BY <1>1 DEF Injection
<1>5. Cardinality(1 .. n) = Cardinality(1 .. K) <=> c \in Surjection(1 .. n, 1 .. K)
  BY <1>3, <1>4, FS_Injection
<1>6. c \in Surjection(1 .. n, 1 .. K) <=> \A k \in 1 .. K : \E i \in 1 .. n : c[i] = k
  BY <1>1 DEF Surjection
<1>7. n = K <=> ToSet(c) = 1 .. K
  BY <1>2, <1>3, <1>5, <1>6
<1> QED BY <1>2, <1>7 DEF n

IsTour(c, n, K) == c \in Seq(1 .. K) /\ Len(c) = n /\ IsInjective(c)

TourNext(groups, c, n) ==
  IF n = 1 THEN <<1>>
  ELSE Append(c, NearestFree([g \in DOMAIN groups |-> groups[g][1]], DOMAIN groups \ ToSet(c),
                             Last(groups[Last(c)]).at))

\* The tour goes on to a group it has not been to.
LEMMA TourNextIs ==
  ASSUME NEW groups \in Seq(AnyGroup), NEW n \in 1 .. Len(groups), NEW c, IsTour(c, n - 1, Len(groups))
  PROVE  IsTour(TourNext(groups, c, n), n, Len(groups))
<1> DEFINE K == Len(groups)
<1>1. K \in Nat /\ DOMAIN groups = 1 .. K /\ \A g \in 1 .. K : groups[g] \in AnyGroup
  BY LenProperties, ElementOfSeq
<1>2. c \in Seq(1 .. K) /\ Len(c) = n - 1 /\ IsInjective(c)
  BY DEF IsTour
<1>3. n \in 1 .. K /\ n \in Nat
  BY <1>1
<1> HIDE DEF K
<1>4. CASE n = 1
  <2> DEFINE s == <<1>>
  <2>1. s \in Seq(1 .. K) /\ Len(s) = 1
    BY <1>1, <1>3, <1>4
  <2>2. IsInjective(s)
    <3>1. \A i, j \in 1 .. Len(s) : i = j
      BY <2>1
    <3> HIDE DEF s
    <3> QED BY <2>1, <3>1, ToSetIs
  <2>3. TourNext(groups, c, n) = s
    BY <1>4 DEF TourNext
  <2> HIDE DEF s
  <2> QED BY <1>4, <2>1, <2>2, <2>3 DEF IsTour, K
<1>5. CASE n # 1
  <2> DEFINE fronts == [g \in DOMAIN groups |-> groups[g][1]]
             rest == DOMAIN groups \ ToSet(c)
             at_ == Last(groups[Last(c)]).at
             e == NearestFree(fronts, rest, at_)
  <2>1. ToSet(c) \subseteq 1 .. K /\ (Len(c) = K <=> ToSet(c) = 1 .. K)
    BY <1>1, <1>2, AllOrNot
  <2>2. Len(c) # K
    BY <1>1, <1>2, <1>3
  <2>3. rest # {} /\ rest \subseteq 1 .. K /\ rest \cap ToSet(c) = {}
    BY <1>1, <2>1, <2>2
  <2>4. rest \subseteq Nat
    BY <1>1, <2>3
  <2>5. Last(c) \in 1 .. K
    <3>1. Len(c) \in 1 .. Len(c)
      BY <1>2, <1>3, <1>5
    <3>2. c[Len(c)] \in 1 .. K
      BY <1>2, <3>1, ElementOfSeq
    <3> QED BY <3>2 DEF Last
  <2>6. at_ \in Int
    BY <1>1, <2>5, LastOfGroup
  <2>7. \A i \in rest : fronts[i].at \in Int
    <3> TAKE i \in rest
    <3>1. i \in DOMAIN groups /\ groups[i] \in AnyGroup
      BY <1>1
    <3>2. fronts[i] = groups[i][1]
      BY <3>1
    <3> HIDE DEF fronts
    <3> QED BY <3>1, <3>2, LastOfGroup
  <2>8. TourNext(groups, c, n) = Append(c, e)
    BY <1>5 DEF TourNext
  <2> HIDE DEF fronts, rest, at_
  <2>9. e \in rest
    BY <2>3, <2>4, <2>6, <2>7, NearestIsFree
  <2>10. e \in 1 .. K /\ e \notin ToSet(c)
    BY <2>3, <2>9
  <2> HIDE DEF e
  <2>11. /\ Append(c, e) \in Seq(1 .. K) /\ Len(Append(c, e)) = Len(c) + 1
         /\ IsInjective(Append(c, e))
    <3> DEFINE A == 1 .. K
    <3>1. c \in Seq(A) /\ e \in A /\ IsInjective(c) /\ e \notin ToSet(c)
      BY <1>2, <2>10
    <3> HIDE DEF A
    <3>2. /\ Append(c, e) \in Seq(A) /\ Len(Append(c, e)) = Len(c) + 1
          /\ IsInjective(c) /\ e \notin ToSet(c) => IsInjective(Append(c, e))
      BY <3>1, AppendIs
    <3> QED BY <3>1, <3>2 DEF A
  <2>12. Len(c) + 1 = n
    BY <1>2, <1>3
  <2> QED BY <2>8, <2>11, <2>12 DEF IsTour, K
<1> QED BY <1>4, <1>5

\* Every group is gone to, once.
LEMMA TourIs ==
  ASSUME NEW groups \in Seq(AnyGroup)
  PROVE  /\ IsTour(Tour(groups), Len(groups), Len(groups))
         /\ ToSet(Tour(groups)) = 1 .. Len(groups)
<1> DEFINE K == Len(groups)
           V == Seq(1 .. K)
           start == << >>
           Next_(c, n) == TourNext(groups, c, n)
           move == [p \in (1 .. K) \X V |-> IF IsTour(p[2], p[1] - 1, K) THEN Next_(p[2], p[1]) ELSE p[2]]
           Is(g) == g = [n \in 0 .. K |-> IF n = 0 THEN start ELSE Next_(g[n - 1], n)]
           Upto == CHOOSE g : Is(g)
<1>1. K \in Nat
  BY LenProperties
<1>2. IsTour(start, 0, K) /\ start \in V
  BY EmptySeq, EmptyIs DEF IsTour
<1>3. ASSUME NEW n \in 1 .. K, NEW c, IsTour(c, n - 1, K) PROVE IsTour(Next_(c, n), n, K)
  BY <1>3, TourNextIs
<1> HIDE DEF K, start, Next_
<1>4. move \in [(1 .. K) \X V -> V]
  <2>1. ASSUME NEW n \in 1 .. K, NEW c \in V
        PROVE  (IF IsTour(c, n - 1, K) THEN Next_(c, n) ELSE c) \in V
    BY <1>3 DEF IsTour
  <2> HIDE DEF V
  <2> QED BY <2>1
<1>5. IsStepwise(V, K, start, move)
  <2> HIDE DEF V, move
  <2> QED BY <1>1, <1>2, <1>4 DEF IsStepwise
<1>6. PICK f \in [0 .. K -> V] : f[0] = start /\ \A n \in 1 .. K : f[n] = move[<<n, f[n - 1]>>]
  <2> HIDE DEF V, move
  <2> QED BY <1>5, StepwiseRecursion
<1>7. \A n \in 1 .. K : f[n] = IF IsTour(f[n - 1], n - 1, K) THEN Next_(f[n - 1], n) ELSE f[n - 1]
  <2> TAKE n \in 1 .. K
  <2>1. n - 1 \in 0 .. K
    BY <1>1
  <2> HIDE DEF V
  <2>2. f[n - 1] \in V
    BY <2>1
  <2> QED BY <1>6, <2>2
\* Whatever goes on this way is a tour.
<1>8. ASSUME NEW g, g[0] = start,
             \A n \in 1 .. K : IsTour(g[n - 1], n - 1, K) => g[n] = Next_(g[n - 1], n)
      PROVE  \A n \in 0 .. K : IsTour(g[n], n, K)
  <2> DEFINE T == {n \in Nat : IsTour(g[n], n, K)}
  <2>1. 0 \in T
    BY <1>2, <1>8
  <2>2. ASSUME NEW n \in 0 .. (K - 1), n \in T PROVE n + 1 \in T
    <3>1. n + 1 \in 1 .. K /\ (n + 1) - 1 = n /\ n + 1 \in Nat
      BY <1>1
    <3>2. IsTour(g[n], n, K)
      BY <2>2
    <3>3. g[n + 1] = Next_(g[n], n + 1)
      BY <1>8, <3>1, <3>2
    <3>4. IsTour(Next_(g[n], n + 1), n + 1, K)
      BY <1>3, <3>1, <3>2
    <3> QED BY <3>1, <3>3, <3>4
  <2>3. 0 .. K \subseteq T
    <3> HIDE DEF T
    <3> QED BY <1>1, <2>1, <2>2, SetOfIntervalInduction
  <2> QED BY <2>3
<1>9. Is(f)
  <2>1. \A n \in 0 .. K : IsTour(f[n], n, K)
    <3>1. \A n \in 1 .. K : IsTour(f[n - 1], n - 1, K) => f[n] = Next_(f[n - 1], n)
      BY <1>7
    <3> QED BY <1>6, <1>8, <3>1
  <2>2. \A n \in 1 .. K : n - 1 \in 0 .. K
    BY <1>1
  <2>3. \A n \in 1 .. K : f[n] = Next_(f[n - 1], n)
    BY <1>7, <2>1, <2>2
  <2> HIDE DEF V
  <2>4. \A n \in 0 .. K : n = 0 \/ n \in 1 .. K
    BY <1>1
  <2> QED BY <1>6, <2>3, <2>4
<1>10. Is(Upto)
  <2> HIDE DEF Is
  <2> QED BY <1>9
<1>11. Upto[0] = start /\ \A n \in 1 .. K : Upto[n] = Next_(Upto[n - 1], n)
  <2> HIDE DEF Upto
  <2>1. \A n \in 0 .. K : Upto[n] = IF n = 0 THEN start ELSE Next_(Upto[n - 1], n)
    BY <1>10, Zenon
  <2>2. 0 \in 0 .. K /\ \A n \in 1 .. K : n \in 0 .. K /\ n # 0
    BY <1>1
  <2> QED BY <2>1, <2>2, Zenon
<1>12. IsTour(Upto[K], K, K)
  <2> HIDE DEF Upto
  <2>1. \A n \in 0 .. K : IsTour(Upto[n], n, K)
    BY <1>8, <1>11
  <2>2. K \in 0 .. K
    BY <1>1
  <2> QED BY <2>1, <2>2
<1>13. Tour(groups) = Upto[K]
  BY Zenon DEF Tour, TourNext, start, Next_, K
<1> HIDE DEF Upto
<1>14. IsTour(Tour(groups), K, K)
  BY <1>12, <1>13
<1>15. ToSet(Tour(groups)) = 1 .. K
  <2> DEFINE t == Tour(groups)
  <2>1. t \in Seq(1 .. K) /\ Len(t) = K /\ IsInjective(t)
    BY <1>14 DEF IsTour
  <2> HIDE DEF t
  <2> QED BY <1>1, <2>1, AllOrNot DEF t
<1> QED BY <1>14, <1>15 DEF K

\* The rings in the order they are mowed in: the same rings, each once.
LEMMA OrderRingsAre ==
  ASSUME NEW s \in Seq(AnyRing), IsInjective(s), NEW loops \in Nat
  PROVE  /\ OrderRings(s, loops) \in Seq(AnyRing)
         /\ IsInjective(OrderRings(s, loops))
         /\ loops = 0 => OrderRings(s, loops) = << >>
         /\ loops # 0 => \A x : x \in ToSet(OrderRings(s, loops)) <=> x \in ToSet(s) /\ x.kind # "mainland"
<1>1. CASE loops = 0
  <2>1. OrderRings(s, loops) = << >>
    BY <1>1 DEF OrderRings
  <2>2. << >> \in Seq(AnyRing)
    BY EmptySeq
  <2> QED BY <1>1, <2>1, <2>2, EmptyIs
<1>2. CASE loops # 0
  <2> DEFINE groups == Regroup(s, loops)
             tour == Tour(groups)
             K == Len(groups)
             h == [n \in DOMAIN tour |-> groups[tour[n]]]
  <2>1. /\ groups \in Seq(AnyGroup) /\ Apart(groups)
        /\ \A x : x \in Members(groups) <=> x \in ToSet(s) /\ x.kind # "mainland"
    BY <1>2, RegroupIs
  <2>2. OrderRings(s, loops) = FlattenSeq(h)
    BY <1>2 DEF OrderRings
  <2> HIDE DEF groups
  <2>3. IsTour(tour, K, K) /\ ToSet(tour) = 1 .. K
    BY <2>1, TourIs
  <2> HIDE DEF tour
  <2>4. /\ K \in Nat /\ \A g \in 1 .. K : groups[g] \in AnyGroup
        /\ \A x : x \in Members(groups) <=> \E g \in 1 .. K : x \in ToSet(groups[g])
        /\ \A g \in 1 .. K : IsInjective(groups[g])
        /\ \A f, g \in 1 .. K : f # g => ToSet(groups[f]) \cap ToSet(groups[g]) = {}
    <3>1. K \in Nat /\ \A g \in 1 .. K : groups[g] \in AnyGroup
      BY <2>1, LenProperties, ElementOfSeq
    <3>2. \A x : x \in Members(groups) <=> \E g \in 1 .. K : x \in ToSet(groups[g])
      BY DEF Members
    <3>3. /\ \A g \in 1 .. K : IsInjective(groups[g])
          /\ \A f, g \in 1 .. K : f # g => ToSet(groups[f]) \cap ToSet(groups[g]) = {}
      BY <2>1 DEF Apart
    <3> QED BY <3>1, <3>2, <3>3
  <2> HIDE DEF K
  <2>5. /\ DOMAIN tour = 1 .. K
        /\ \A n \in 1 .. K : tour[n] \in 1 .. K
        /\ \A m, n \in 1 .. K : tour[m] = tour[n] => m = n
        /\ \A g \in 1 .. K : \E n \in 1 .. K : g = tour[n]
    <3> DEFINE A == 1 .. K
    <3>1. tour \in Seq(A) /\ Len(tour) = K /\ IsInjective(tour) /\ ToSet(tour) = A
      BY <2>3 DEF IsTour
    <3> HIDE DEF A
    <3>2. /\ \A n \in 1 .. Len(tour) : tour[n] \in A
          /\ DOMAIN tour = 1 .. Len(tour)
      BY <3>1, ElementOfSeq, LenProperties
    <3>3. /\ \A x : x \in ToSet(tour) <=> \E i \in 1 .. Len(tour) : x = tour[i]
          /\ IsInjective(tour) <=> \A i, j \in 1 .. Len(tour) : tour[i] = tour[j] => i = j
      BY <3>1, ToSetIs
    <3>4. 1 .. Len(tour) = 1 .. K
      BY <3>1
    <3> QED BY <3>1, <3>2, <3>3, <3>4 DEF A
  <2>6. h = [n \in 1 .. K |-> groups[tour[n]]]
    BY <2>5
  <2>7. h \in [1 .. K -> AnyGroup] /\ \A n \in 1 .. K : h[n] = groups[tour[n]]
    BY <2>4, <2>5
  <2> HIDE DEF h
  <2>8. h \in Seq(AnyGroup) /\ Len(h) = K
    BY <2>4, <2>7, Listed
  <2>9. Apart(h)
    <3>1. \A n \in 1 .. K : IsInjective(h[n])
      BY <2>4, <2>5, <2>7
    <3>2. \A m, n \in 1 .. K : m # n => ToSet(h[m]) \cap ToSet(h[n]) = {}
      <4> TAKE m, n \in 1 .. K
      <4>1. tour[m] \in 1 .. K /\ tour[n] \in 1 .. K /\ (m # n => tour[m] # tour[n])
        BY <2>5
      <4> QED BY <2>4, <2>7, <4>1
    <3> QED BY <2>8, <3>1, <3>2 DEF Apart
  <2>10. \A x : x \in Members(h) <=> x \in Members(groups)
    <3> TAKE x
    <3>1. x \in Members(h) <=> \E n \in 1 .. K : x \in ToSet(h[n])
      BY <2>8 DEF Members
    <3>2. ASSUME x \in Members(h) PROVE x \in Members(groups)
      BY <2>4, <2>5, <2>7, <3>1, <3>2
    <3>3. ASSUME x \in Members(groups) PROVE x \in Members(h)
      <4>1. PICK g \in 1 .. K : x \in ToSet(groups[g])
        BY <2>4, <3>3
      <4>2. PICK n \in 1 .. K : g = tour[n]
        BY <2>5
      <4> QED BY <2>7, <3>1, <4>1, <4>2
    <3> QED BY <3>2, <3>3
  <2>11. h \in Seq(Seq(AnyRing))
    <3> DEFINE A == Seq(AnyRing)
               B == AnyGroup
    <3>1. B \subseteq A /\ h \in Seq(B)
      BY <2>8 DEF AnyGroup
    <3> HIDE DEF A, B
    <3>2. h \in Seq(A)
      BY <3>1
    <3> QED BY <3>2 DEF A
  <2>12. /\ FlattenSeq(h) \in Seq(AnyRing) /\ IsInjective(FlattenSeq(h))
         /\ ToSet(FlattenSeq(h)) = Members(h)
    BY <2>9, <2>11, FlattenGroups
  <2> QED BY <1>2, <2>1, <2>2, <2>10, <2>12
<1> QED BY <1>1, <1>2

\* Every site is mowed whole.
LEMMA SitesAreWhole ==
  ASSUME NEW site \in AnySite
  PROVE  Whole(site) /\ OrderRings(Swaths(site), site.loops) \in Seq(AnyRing)
<1> DEFINE s == Swaths(site)
           loops == site.loops
           order == OrderRings(s, loops)
<1>1. /\ s \in Seq(AnyRing) /\ IsInjective(s)
      /\ site.cells # 0 /\ loops # 0 =>
           \A x : x \in ToSet(s) /\ x.kind # "mainland" <=> x \in Wanted(site)
      /\ site.cells = 0 => s = << >>
  BY SwathsAre
<1>2. loops \in Nat
  BY DEF AnySite
<1> HIDE DEF s
<1>3. /\ order \in Seq(AnyRing) /\ IsInjective(order)
      /\ loops = 0 => order = << >>
      /\ loops # 0 => \A x : x \in ToSet(order) <=> x \in ToSet(s) /\ x.kind # "mainland"
  BY <1>1, <1>2, OrderRingsAre
<1> HIDE DEF order
<1>4. ASSUME site.cells = 0 PROVE order = << >>
  <2>1. \A x : x \notin ToSet(order)
    BY <1>1, <1>3, <1>4, EmptyIs
  <2>2. Len(order) = 0
    <3>1. Len(order) # 0 => 1 \in 1 .. Len(order)
      BY <1>3, LenProperties
    <3> QED BY <1>3, <2>1, <3>1, ToSetIs
  <2> QED BY <1>3, <2>2, EmptySeq
<1>5. ASSUME site.cells # 0, loops # 0 PROVE ToSet(order) = Wanted(site)
  BY <1>1, <1>3, <1>5
<1>6. Whole(site) <=> IF site.cells = 0 \/ loops = 0 THEN order = << >>
                      ELSE ToSet(order) = Wanted(site) /\ IsInjective(order)
  BY DEF Whole, order, s
<1>7. Whole(site)
  BY <1>3, <1>4, <1>5, <1>6
<1> QED BY <1>3, <1>7 DEF order, s

-----------------------------------------------------------------------------
(* From the rings to the chunks.                                            *)

\* The path along some rings is a sequence of distances.
LEMMA PathType ==
  ASSUME NEW order \in Seq(AnyRing), NEW loops \in Nat
  PROVE  Path(order, loops) \in Seq(Nat)
<1> DEFINE N == Len(order)
           Jump(n) == IF n = 1 THEN 0 ELSE Distance(order[n - 1].at, order[n].at)
           Linked(n) == n > 1 /\ (n - 1) % loops # 0
           Way(n) == Connector(order[n - 1].at, order[n].at)
           ring == [k \in 1 .. RingSteps |-> 1]
           Poses(n) == IF Linked(n) THEN Way(n) \o <<0>> \o ring ELSE <<Jump(n)>> \o ring
           poses == [n \in DOMAIN order |-> Poses(n)]
<1>1. /\ N \in Nat /\ DOMAIN order = 1 .. N
      /\ \A n \in 1 .. N : order[n].at \in Int
  <2>1. N \in Nat /\ DOMAIN order = 1 .. N
    BY LenProperties
  <2>2. \A n \in 1 .. N : order[n] \in AnyRing
    BY ElementOfSeq
  <2> QED BY <2>1, <2>2 DEF AnyRing
<1>2. ring \in Seq(Nat) /\ <<0>> \in Seq(Nat)
  <2>1. RingSteps \in Nat
    BY CoveragePlanAssumption
  <2>2. ring \in [1 .. RingSteps -> Nat]
    OBVIOUS
  <2> HIDE DEF ring
  <2>3. ring \in Seq(Nat)
    BY <2>1, <2>2
  <2> QED BY <2>3
<1>3. ASSUME NEW x \in Int, NEW y \in Int PROVE Connector(x, y) \in Seq(Nat)
  <2>1. Distance(x, y) \in Nat
    BY DistanceType
  <2>2. [k \in 1 .. Distance(x, y) |-> 1] \in Seq(Nat)
    BY <2>1
  <2> QED BY <2>2 DEF Connector
<1> HIDE DEF ring
<1>4. ASSUME NEW n \in 1 .. N PROVE Poses(n) \in Seq(Nat)
  <2>1. CASE n = 1
    <3>1. ~Linked(n) /\ Jump(n) = 0
      BY <2>1
    <3>2. <<0>> \o ring \in Seq(Nat)
      BY <1>2
    <3> QED BY <3>1, <3>2
  <2>2. CASE n # 1
    <3>1. n - 1 \in 1 .. N
      BY <1>1, <2>2
    <3>2. Way(n) \in Seq(Nat)
      BY <1>1, <1>3, <3>1
    <3>3. Jump(n) \in Nat
      BY <1>1, <2>2, <3>1, DistanceType
    <3> HIDE DEF Way, Linked, Jump
    <3>4. Way(n) \o <<0>> \o ring \in Seq(Nat)
      BY <1>2, <3>2
    <3>5. <<Jump(n)>> \o ring \in Seq(Nat)
      BY <1>2, <3>3
    <3> QED BY <3>4, <3>5
  <2> QED BY <2>1, <2>2
<1>5. Path(order, loops) = FlattenSeq(poses)
  BY DEF Path, ring
<1> HIDE DEF Poses
<1>6. poses \in [1 .. N -> Seq(Nat)]
  BY <1>1, <1>4
<1> HIDE DEF poses, N
<1>7. poses \in Seq(Seq(Nat))
  BY <1>1, <1>6
<1>8. FlattenSeq(poses) \in Seq(Nat)
  BY <1>7, FlattenIs
<1> QED BY <1>5, <1>8

\* Every segment of what a site is answered with is cut into chunks that join.
LEMMA SitesAreCut ==
  ASSUME NEW site \in AnySite, NEW segs, segs = Segments(Answer(site).path)
  PROVE  \A k \in DOMAIN segs : Joined(segs[k]) /\ Len(Chunks(segs[k])) \in Nat \ {0}
<1> DEFINE path == Answer(site).path
<1>1. path \in Seq(Nat)
  <2>1. path = Path(OrderRings(Swaths(site), site.loops), site.loops)
    BY DEF Answer
  <2>2. site.loops \in Nat
    BY DEF AnySite
  <2> QED BY <2>1, <2>2, SitesAreWhole, PathType
<1> HIDE DEF path
<1>2. segs \in Seq(Seq(Nat) \ {<< >>})
  BY <1>1, SegmentsType DEF path
<1> TAKE k \in DOMAIN segs
<1>3. segs[k] \in Seq(Nat) /\ Len(segs[k]) > 0
  <2>1. segs[k] \in Seq(Nat) \ {<< >>}
    BY <1>2, LenProperties, ElementOfSeq
  <2> QED BY <2>1, EmptySeq, LenProperties
<1>4. /\ Joined(segs[k]) /\ Chunks(segs[k]) \in Seq(Nat \X Nat) /\ Len(Chunks(segs[k])) > 0
  BY <1>3, ChunksAreJoined
<1> QED BY <1>4, LenProperties

\* A plan names segments, each with a chunk.
LEMMA PlansAreCounts == ASSUME NEW plan \in Plans PROVE plan.counts \in Seq(Nat \ {0})
<1>1. PICK site \in Sites : plan = [code |-> Answer(site).code, counts |-> ChunkCounts(Answer(site).path)]
  BY DEF Plans
<1> DEFINE segs == Segments(Answer(site).path)
           counts == [k \in DOMAIN segs |-> Len(Chunks(segs[k]))]
<1>2. plan.counts = counts
  BY <1>1 DEF ChunkCounts
<1>3. site \in AnySite
  BY SitesAssumption
<1>4. segs \in Seq(Seq(Nat) \ {<< >>})
  <2>1. site.loops \in Nat
    BY <1>3 DEF AnySite
  <2>2. Answer(site).path \in Seq(Nat)
    BY <1>3, <2>1, SitesAreWhole, PathType DEF Answer
  <2> QED BY <2>2, SegmentsType
<1> HIDE DEF segs
<1>5. \A k \in DOMAIN segs : Len(Chunks(segs[k])) \in Nat \ {0}
  BY <1>3, SitesAreCut DEF segs
<1>6. Len(segs) \in Nat /\ DOMAIN segs = 1 .. Len(segs)
  BY <1>4, LenProperties
<1>7. counts \in [1 .. Len(segs) -> Nat \ {0}]
  BY <1>5, <1>6
<1> HIDE DEF counts
<1>8. counts \in Seq(Nat \ {0})
  BY <1>6, <1>7
<1> QED BY <1>2, <1>8

\* Whatever the map holds and Fields2Cover finds, every ring of the headland and every loop around
\* an exclusion is on the path of the plan once, however the rings are grouped by contour, grouped
\* anew by number and put in order (generateSwaths, orderHeadlandSwaths); or there is no path at all.
THEOREM PlanWhole == Spec => []PlanIsWhole
<1>1. PlanIsWhole
  BY SitesAssumption, SitesAreWhole DEF PlanIsWhole
<1> QED BY <1>1, PTL

\* Whatever the path, the chunks of each of its segments lead from its first pose to its last, each
\* from where the one before it ended, and none is shorter than the minimum unless it is all there is
\* (split_coverage_segments, split_follow_path_chunks).
THEOREM ChunksAlwaysJoin == Spec => []ChunksJoin
<1>1. ASSUME NEW site \in Sites PROVE LET s == Segments(Answer(site).path) IN \A k \in DOMAIN s : Joined(s[k])
  <2>1. site \in AnySite
    BY SitesAssumption
  <2> QED BY <2>1, SitesAreCut
<1>2. ChunksJoin
  BY <1>1 DEF ChunksJoin
<1> QED BY <1>2, PTL

-----------------------------------------------------------------------------
(* The walk of a group.                                                     *)

Point == Int \X Int

\* A ring that has an edge.
AnyWalk == {s \in Seq(Point) : Len(s) > 1}

\* No point of s is further from the one before it than length, and what rounding adds.
Even(s, length) == \A i \in 2 .. Len(s) : Gap(s[i - 1], s[i]) <= (length + 2) * (length + 2)

\* A square is never negative.
LEMMA SquareIs == \A x \in Int : x * x \in Nat /\ (x # 0 => x * x >= 1)
  OBVIOUS

\* A gap is a natural number, the same both ways, and none from a point to itself.
LEMMA GapType ==
  ASSUME NEW p \in Point, NEW q \in Point
  PROVE  Gap(p, q) \in Nat /\ (p = q => Gap(p, q) = 0) /\ Gap(p, q) = Gap(q, p)
<1> DEFINE x == p[1] - q[1]
           y == p[2] - q[2]
<1>1. x \in Int /\ y \in Int /\ p[1] \in Int /\ p[2] \in Int /\ q[1] \in Int /\ q[2] \in Int
  BY DEF Point
<1>2. Gap(p, q) = x * x + y * y
  BY DEF Gap
<1>3. Gap(q, p) = (0 - x) * (0 - x) + (0 - y) * (0 - y)
  <2>1. q[1] - p[1] = 0 - x /\ q[2] - p[2] = 0 - y
    BY <1>1
  <2> HIDE DEF x, y
  <2> QED BY <2>1 DEF Gap
<1>4. p = q => x = 0 /\ y = 0
  BY <1>1
<1> HIDE DEF x, y
<1>5. x * x \in Nat /\ y * y \in Nat /\ (0 - x) * (0 - x) = x * x /\ (0 - y) * (0 - y) = y * y
  BY <1>1, SquareIs
<1> QED BY <1>2, <1>3, <1>4, <1>5

\* The product of two numbers grows with both.
LEMMA Grows ==
  ASSUME NEW a \in Nat, NEW b \in Nat, NEW c \in Nat, NEW d \in Nat, a <= c, b <= d
  PROVE  a * b \in Nat /\ a * b <= c * d
<1>1. a * b <= a * d
  <2>1. d = b + (d - b) /\ d - b \in Nat
    OBVIOUS
  <2>2. a * d = a * b + a * (d - b) /\ a * (d - b) \in Nat
    BY <2>1
  <2> QED BY <2>2
<1>2. a * d <= c * d
  <2>1. c = a + (c - a) /\ c - a \in Nat
    OBVIOUS
  <2>2. c * d = a * d + (c - a) * d /\ (c - a) * d \in Nat
    BY <2>1
  <2> QED BY <2>2
<1> QED BY <1>1, <1>2

\* There are as many pieces as make each of them short enough, and no more.
LEMMA PiecesAre ==
  ASSUME NEW p \in Point, NEW q \in Point, NEW length \in Nat \ {0}
  PROVE  LET n == Pieces(p, q, length)
         IN  /\ n \in Nat \ {0} /\ (n * length) * (n * length) >= Gap(p, q)
             /\ n > 1 => ((n - 1) * length) * ((n - 1) * length) < Gap(p, q)
<1> DEFINE G == Gap(p, q)
           Short(n) == n * n * length * length >= G
           T == {n \in 1 .. G + 1 : Short(n)}
           Right(n) == Short(n) /\ (n = 1 \/ ~Short(n - 1))
<1>1. G \in Nat
  BY GapType
<1>2. Pieces(p, q, length) = CHOOSE n \in 1 .. G + 1 : Right(n)
  BY DEF Pieces
<1> HIDE DEF G
<1>3. \A n \in Nat : n * n * length * length = (n * length) * (n * length)
  OBVIOUS
<1>4. G + 1 \in T
  <2>1. G + 1 \in Nat /\ G + 1 <= (G + 1) * length
    <3>1. G + 1 \in Nat /\ length \in Nat /\ 1 <= length /\ 1 \in Nat /\ (G + 1) * 1 = G + 1
      BY <1>1
    <3> DEFINE m == G + 1
    <3> HIDE DEF m
    <3>2. m * 1 <= m * length
      BY <3>1, Grows DEF m
    <3> QED BY <3>1, <3>2 DEF m
  <2> DEFINE k == (G + 1) * length
  <2>2. k \in Nat
    BY <2>1
  <2> HIDE DEF k
  <2>3. k * 1 <= k * k
    BY <2>1, <2>2, <1>1, Grows DEF k
  <2>4. k * k >= G
    BY <1>1, <2>1, <2>2, <2>3 DEF k
  <2>5. Short(G + 1)
    BY <1>3, <2>1, <2>4 DEF k
  <2> HIDE DEF Short
  <2> QED BY <1>1, <2>5
<1> HIDE DEF Short
<1>5. PICK n \in T : \A m \in T : n <= m
  <2>1. T \subseteq Nat /\ T # {}
    BY <1>1, <1>4
  <2> HIDE DEF T
  <2> QED BY <2>1, LeastExists
<1>6. n \in 1 .. G + 1 /\ Right(n)
  <2>1. n # 1 => n - 1 \in 1 .. G + 1 /\ ~(n <= n - 1)
    BY <1>1
  <2> QED BY <1>5, <2>1
<1> HIDE DEF Right
<1>7. Pieces(p, q, length) \in 1 .. G + 1 /\ Right(Pieces(p, q, length))
  <2> HIDE DEF T
  <2> QED BY <1>2, <1>6
<1> DEFINE N == Pieces(p, q, length)
<1> HIDE DEF N
<1>8. N \in 1 .. G + 1 /\ Short(N)
  BY <1>7 DEF Right, N
<1>9. N \in Nat \ {0} /\ (N * length) * (N * length) >= G
  BY <1>1, <1>3, <1>8 DEF Short
<1>10. ASSUME N > 1 PROVE ((N - 1) * length) * ((N - 1) * length) < G
  <2>1. N - 1 \in Nat /\ N # 1
    BY <1>9, <1>10
  <2>2. ~Short(N - 1)
    BY <1>7, <2>1 DEF Right, N
  <2> DEFINE m == N - 1
             a == m * m * length * length
  <2>3. a = (m * length) * (m * length)
    BY <1>3, <2>1
  <2>4. a \in Int
    <3> HIDE DEF m
    <3> QED BY <2>1 DEF m
  <2>5. ~(a >= G)
    BY <2>2 DEF Short
  <2> HIDE DEF a, m
  <2>6. (m * length) * (m * length) < G
    BY <1>1, <2>3, <2>4, <2>5
  <2> QED BY <2>6 DEF m
<1> QED BY <1>9, <1>10 DEF N, G

\* What it means to divide and round down.
LEMMA FloorIs ==
  ASSUME NEW a \in Int, NEW n \in Nat \ {0}
  PROVE  a \div n \in Int /\ (a \div n) * n <= a /\ a < (a \div n) * n + n
  OBVIOUS

\* Two neighbours among the parts of a distance are as far apart as a part, and at most one more.
LEMMA PartsAre ==
  ASSUME NEW d \in Int, NEW n \in Nat \ {0}, NEW k \in Nat, NEW size \in Nat, size = d \/ size = 0 - d
  PROVE  LET e == (d * (k + 1)) \div n - (d * k) \div n
         IN  e \in Int /\ \E a \in Nat : n * a <= size /\ e <= a + 1 /\ 0 - e <= a + 1
<1> DEFINE x == (d * k) \div n
           y == (d * (k + 1)) \div n
           from == d * k
           to == d * (k + 1)
<1>1. from \in Int /\ to \in Int /\ to = from + d
  OBVIOUS
<1> HIDE DEF from, to
<1>2. /\ x \in Int /\ x * n <= from /\ from < x * n + n
      /\ y \in Int /\ y * n <= to /\ to < y * n + n
  <2>1. from \div n \in Int /\ (from \div n) * n <= from /\ from < (from \div n) * n + n
    BY <1>1, FloorIs
  <2>2. to \div n \in Int /\ (to \div n) * n <= to /\ to < (to \div n) * n + n
    BY <1>1, FloorIs
  <2> QED BY <2>1, <2>2 DEF from, to
<1> HIDE DEF x, y
<1>3. (y - x) * n = y * n - x * n /\ x * n \in Int /\ y * n \in Int
  BY <1>2
<1> DEFINE e == y - x
<1>4. e \in Int
  BY <1>2
<1>5. e * n - n < d /\ d < e * n + n
  BY <1>1, <1>2, <1>3
<1> HIDE DEF e
<1>6. \E a \in Nat : n * a <= size /\ e <= a + 1 /\ 0 - e <= a + 1
  <2>1. CASE e = 0
    <3>1. n * 0 <= size /\ e <= 0 + 1 /\ 0 - e <= 0 + 1
      BY <2>1
    <3> QED BY <3>1
  <2>2. CASE e > 0
    <3>1. e - 1 \in Nat /\ n * (e - 1) = e * n - n
      BY <1>4, <2>2
    <3>2. n * (e - 1) \in Nat
      BY <3>1, Grows
    <3>3. n * (e - 1) <= size
      BY <1>5, <3>1, <3>2
    <3> QED BY <1>4, <2>2, <3>1, <3>3
  <2>3. CASE e < 0
    <3> DEFINE a == 0 - e - 1
    <3>1. a \in Nat /\ n * a = 0 - (e * n) - n /\ e * n \in Int
      BY <1>4, <2>3
    <3>2. n * a \in Nat
      BY <3>1, Grows
    <3>3. e <= a + 1 /\ 0 - e <= a + 1
      BY <1>4, <2>3
    <3> HIDE DEF a
    <3>4. n * a <= size
      BY <1>5, <3>1, <3>2
    <3> QED BY <3>1, <3>3, <3>4
  <2> QED BY <1>4, <2>1, <2>2, <2>3
<1> QED BY <1>4, <1>6 DEF e, x, y

\* What is no longer than a has no greater square.
LEMMA SquareGrows ==
  ASSUME NEW e \in Int, NEW a \in Nat, e <= a, 0 - e <= a
  PROVE  e * e <= a * a
<1>1. CASE e >= 0
  BY <1>1, Grows
<1>2. CASE e < 0
  <2>1. 0 - e \in Nat /\ (0 - e) * (0 - e) = e * e
    BY <1>2
  <2>2. (0 - e) * (0 - e) <= a * a
    BY <2>1, Grows
  <2> QED BY <2>1, <2>2
<1> QED BY <1>1, <1>2

\* If n pieces as long as a on one axis and b on the other are no longer than n times length.
LEMMA RoundedPiece ==
  ASSUME NEW n \in Nat \ {0}, NEW a \in Nat, NEW b \in Nat, NEW length \in Nat,
         NEW size \in Nat, NEW other \in Nat, n * a <= size, n * b <= other,
         size * size + other * other <= (n * length) * (n * length),
         NEW e \in Int, NEW f \in Int, e <= a + 1, 0 - e <= a + 1, f <= b + 1, 0 - f <= b + 1
  PROVE  e * e + f * f <= (length + 2) * (length + 2)
<1>1. /\ n * a \in Nat /\ n * b \in Nat /\ a * a \in Nat /\ b * b \in Nat /\ length * length \in Nat
      /\ n * n \in Nat /\ n * n >= 1
  BY Grows, SquareIs
<1>2. (n * a) * (n * a) <= size * size /\ (n * b) * (n * b) <= other * other
  BY <1>1, Grows
<1>3. /\ (n * a) * (n * a) = (n * n) * (a * a) /\ (n * b) * (n * b) = (n * n) * (b * b)
      /\ (n * length) * (n * length) = (n * n) * (length * length)
  OBVIOUS
<1>4. a * a + b * b <= length * length
  <2> DEFINE m == n * n
             p == a * a
             q == b * b
             l == length * length
             s == size * size
             t == other * other
  <2>1. m \in Nat /\ m >= 1 /\ p \in Nat /\ q \in Nat /\ l \in Nat /\ s \in Nat /\ t \in Nat
    BY <1>1, Grows
  <2>2. m * p <= s /\ m * q <= t /\ s + t <= m * l
    BY <1>2, <1>3
  <2> HIDE DEF m, p, q, l, s, t
  <2>3. m * p \in Nat /\ m * q \in Nat /\ m * l \in Nat /\ m * (p + q) = m * p + m * q
    BY <2>1, Grows
  <2>4. m * (p + q) <= m * l
    BY <2>1, <2>2, <2>3
  <2>5. ASSUME p + q >= l + 1 PROVE FALSE
    <3>1. m * (l + 1) <= m * (p + q)
      BY <2>1, <2>5, Grows
    <3>2. m * (l + 1) = m * l + m
      BY <2>1
    <3> QED BY <2>1, <2>3, <2>4, <3>1, <3>2
  <2>6. p + q <= l
    BY <2>1, <2>5
  <2> QED BY <2>6 DEF p, q, l
<1>5. ASSUME NEW c \in Nat, c * c <= length * length PROVE c <= length
  <2> SUFFICES ASSUME c >= length + 1 PROVE FALSE
    BY <1>5
  <2>1. (length + 1) * (length + 1) <= c * c
    BY Grows
  <2>2. (length + 1) * (length + 1) = length * length + 2 * length + 1
    OBVIOUS
  <2> QED BY <1>1, <1>5, <2>1, <2>2
<1>6. a <= length /\ b <= length
  <2>1. a * a <= length * length /\ b * b <= length * length
    BY <1>1, <1>4
  <2> QED BY <1>5, <2>1
<1>7. e * e <= (a + 1) * (a + 1) /\ f * f <= (b + 1) * (b + 1)
  BY SquareGrows
<1>8. /\ (a + 1) * (a + 1) = a * a + 2 * a + 1 /\ (b + 1) * (b + 1) = b * b + 2 * b + 1
      /\ (length + 2) * (length + 2) = length * length + 4 * length + 4
      /\ e * e \in Nat /\ f * f \in Nat
  BY SquareIs
<1> QED BY <1>1, <1>4, <1>6, <1>7, <1>8

\* The points between two ends lead from one to the other, each near to the one before it.
LEMMA BetweenAre ==
  ASSUME NEW p \in Point, NEW q \in Point, NEW n \in Nat \ {0}, NEW length \in Nat,
         (n * length) * (n * length) >= Gap(p, q)
  PROVE  /\ \A k \in 0 .. n : Between(p, q, k, n) \in Point
         /\ Between(p, q, 0, n) = p /\ Between(p, q, n, n) = q
         /\ \A k \in 0 .. n - 1 :
              Gap(Between(p, q, k, n), Between(p, q, k + 1, n)) <= (length + 2) * (length + 2)
<1> DEFINE x == q[1] - p[1]
           y == q[2] - p[2]
<1>1. /\ x \in Int /\ y \in Int /\ p[1] \in Int /\ p[2] \in Int /\ q[1] \in Int /\ q[2] \in Int
      /\ p = <<p[1], p[2]>> /\ q = <<q[1], q[2]>>
  BY DEF Point
<1>2. \A k : Between(p, q, k, n) = <<p[1] + (x * k) \div n, p[2] + (y * k) \div n>>
  BY DEF Between
<1>3. x * x + y * y = Gap(p, q)
  <2>1. Gap(p, q) = Gap(q, p) /\ Gap(q, p) = x * x + y * y
    BY GapType DEF Gap
  <2> QED BY <2>1
<1>4. q[1] = p[1] + x /\ q[2] = p[2] + y
  BY <1>1
<1> HIDE DEF x, y
<1>5. ASSUME NEW k \in 0 .. n PROVE Between(p, q, k, n) \in Point
  <2>1. x * k \in Int /\ y * k \in Int
    BY <1>1
  <2>2. (x * k) \div n \in Int /\ (y * k) \div n \in Int
    BY <2>1, FloorIs
  <2> QED BY <1>1, <1>2, <2>2 DEF Point
<1>6. Between(p, q, 0, n) = p
  <2>1. (x * 0) \div n = 0 /\ (y * 0) \div n = 0
    <3>1. x * 0 = 0 /\ y * 0 = 0 /\ 0 \div n = 0
      BY <1>1
    <3> QED BY <3>1
  <2>2. Between(p, q, 0, n) = <<p[1] + 0, p[2] + 0>>
    BY <1>2, <2>1
  <2>3. p[1] + 0 = p[1] /\ p[2] + 0 = p[2]
    BY <1>1
  <2> QED BY <1>1, <2>2, <2>3
<1>7. Between(p, q, n, n) = q
  <2>1. ASSUME NEW d \in Int PROVE (d * n) \div n = d
    <3>1. d * n \in Int
      OBVIOUS
    <3> DEFINE r == (d * n) \div n
    <3>2. r \in Int /\ r * n <= d * n /\ d * n < r * n + n
      BY <3>1, FloorIs
    <3> HIDE DEF r
    <3>3. (d - r) * n = d * n - r * n /\ (d - r) * n >= 0 /\ (d - r) * n < n
      BY <3>2
    <3>4. d - r >= 1 => (d - r) * n >= n
      <4> SUFFICES ASSUME d - r >= 1 PROVE (d - r) * n >= n
        OBVIOUS
      <4>1. 1 * n <= (d - r) * n
        BY <3>2, Grows
      <4> QED BY <4>1
    <3>5. r - d >= 1 => (r - d) * n >= n
      <4> SUFFICES ASSUME r - d >= 1 PROVE (r - d) * n >= n
        OBVIOUS
      <4>1. 1 * n <= (r - d) * n
        BY <3>2, Grows
      <4> QED BY <4>1
    <3>6. (r - d) * n = 0 - (d - r) * n
      BY <3>2
    <3> QED BY <3>2, <3>3, <3>4, <3>5, <3>6 DEF r
  <2> QED BY <1>1, <1>2, <1>4, <2>1
<1>8. ASSUME NEW k \in 0 .. n - 1
      PROVE  Gap(Between(p, q, k, n), Between(p, q, k + 1, n)) <= (length + 2) * (length + 2)
  <2> DEFINE e == (x * (k + 1)) \div n - (x * k) \div n
             f == (y * (k + 1)) \div n - (y * k) \div n
             size == IF x >= 0 THEN x ELSE 0 - x
             other == IF y >= 0 THEN y ELSE 0 - y
  <2>1. /\ size \in Nat /\ (size = x \/ size = 0 - x)
        /\ other \in Nat /\ (other = y \/ other = 0 - y)
        /\ k \in Nat
    BY <1>1
  <2> HIDE DEF size, other
  <2>2. e \in Int /\ \E a \in Nat : n * a <= size /\ e <= a + 1 /\ 0 - e <= a + 1
    BY <1>1, <2>1, PartsAre
  <2>3. f \in Int /\ \E a \in Nat : n * a <= other /\ f <= a + 1 /\ 0 - f <= a + 1
    BY <1>1, <2>1, PartsAre
  <2>4. Gap(Between(p, q, k, n), Between(p, q, k + 1, n)) = e * e + f * f
    <3> DEFINE u == (x * k) \div n
               v == (y * k) \div n
               u1 == (x * (k + 1)) \div n
               v1 == (y * (k + 1)) \div n
    <3>1. u \in Int /\ v \in Int /\ u1 \in Int /\ v1 \in Int
      <4>1. x * k \in Int /\ y * k \in Int /\ x * (k + 1) \in Int /\ y * (k + 1) \in Int
        BY <1>1, <2>1
      <4> QED BY <4>1, FloorIs
    <3>2. /\ Between(p, q, k, n) = <<p[1] + u, p[2] + v>>
          /\ Between(p, q, k + 1, n) = <<p[1] + u1, p[2] + v1>>
          /\ e = u1 - u /\ f = v1 - v
      BY <1>2
    <3> HIDE DEF u, v, u1, v1, e, f
    <3>3. /\ (p[1] + u) - (p[1] + u1) = 0 - e /\ (p[2] + v) - (p[2] + v1) = 0 - f
          /\ e \in Int /\ f \in Int
      BY <1>1, <3>1, <3>2
    <3>4. Gap(Between(p, q, k, n), Between(p, q, k + 1, n)) = (0 - e) * (0 - e) + (0 - f) * (0 - f)
      BY <3>2, <3>3 DEF Gap
    <3>5. (0 - e) * (0 - e) = e * e /\ (0 - f) * (0 - f) = f * f
      BY <3>3
    <3> QED BY <3>4, <3>5
  <2> HIDE DEF e, f
  <2>5. PICK a \in Nat : n * a <= size /\ e <= a + 1 /\ 0 - e <= a + 1
    BY <2>2
  <2>6. PICK b \in Nat : n * b <= other /\ f <= b + 1 /\ 0 - f <= b + 1
    BY <2>3
  <2>7. size * size + other * other <= (n * length) * (n * length)
    <3>1. size * size = x * x /\ other * other = y * y
      BY <1>1, <2>1
    <3> QED BY <1>3, <3>1
  <2>8. e * e + f * f <= (length + 2) * (length + 2)
    BY <2>1, <2>2, <2>3, <2>5, <2>6, <2>7, RoundedPiece
  <2> QED BY <2>4, <2>8
<1> QED BY <1>5, <1>6, <1>7, <1>8

\* Where one sequence ends, another one may begin.
Meets(s, t, length) == Len(s) > 0 /\ Len(t) > 0 /\ Gap(s[Len(s)], t[1]) <= (length + 2) * (length + 2)

\* One even sequence after the other.
LEMMA EvenConcat ==
  ASSUME NEW s \in Seq(Point), NEW t \in Seq(Point), NEW length \in Nat,
         Even(s, length), Even(t, length), Meets(s, t, length)
  PROVE  /\ s \o t \in Seq(Point) /\ Len(s \o t) = Len(s) + Len(t) /\ Even(s \o t, length)
         /\ (s \o t)[1] = s[1] /\ (s \o t)[Len(s) + Len(t)] = t[Len(t)]
<1> DEFINE m == Len(s)
           n == Len(t)
           r == s \o t
           bound == (length + 2) * (length + 2)
<1>1. m \in Nat /\ n \in Nat /\ m > 0 /\ n > 0
  BY LenProperties DEF Meets
<1>2. /\ r \in Seq(Point) /\ Len(r) = m + n
      /\ \A i \in 1 .. m + n : r[i] = IF i <= m THEN s[i] ELSE t[i - m]
  BY ConcatProperties
<1>3. /\ \A i \in 2 .. m : Gap(s[i - 1], s[i]) <= bound
      /\ \A i \in 2 .. n : Gap(t[i - 1], t[i]) <= bound
      /\ Gap(s[m], t[1]) <= bound
  BY DEF Even, Meets
<1> HIDE DEF m, n, r, bound
<1>4. ASSUME NEW i \in 2 .. m + n PROVE Gap(r[i - 1], r[i]) <= bound
  <2>1. i \in 1 .. m + n /\ i - 1 \in 1 .. m + n
    BY <1>1
  <2>2. CASE i <= m
    <3>1. r[i] = s[i] /\ r[i - 1] = s[i - 1] /\ i \in 2 .. m
      BY <1>1, <1>2, <2>1, <2>2
    <3> QED BY <1>3, <3>1
  <2>3. CASE i = m + 1
    <3>1. r[i] = t[1] /\ r[i - 1] = s[m]
      <4>1. ~(i <= m) /\ i - m = 1 /\ i - 1 = m /\ i - 1 <= m
        BY <1>1, <2>3
      <4> QED BY <1>2, <2>1, <4>1
    <3> QED BY <1>3, <3>1
  <2>4. CASE i > m + 1
    <3>1. ~(i <= m) /\ ~(i - 1 <= m) /\ (i - 1) - m = (i - m) - 1 /\ i - m \in 2 .. n
      BY <1>1, <2>4
    <3>2. r[i] = t[i - m] /\ r[i - 1] = t[(i - m) - 1]
      BY <1>2, <2>1, <3>1
    <3> QED BY <1>3, <3>1, <3>2
  <2> QED BY <1>1, <2>2, <2>3, <2>4
<1>5. r[1] = s[1] /\ r[m + n] = t[n]
  <2>1. 1 \in 1 .. m + n /\ 1 <= m /\ m + n \in 1 .. m + n /\ ~(m + n <= m) /\ (m + n) - m = n
    BY <1>1
  <2> QED BY <1>2, <2>1
<1>6. Even(r, length)
  BY <1>2, <1>4 DEF Even, bound
<1> QED BY <1>2, <1>5, <1>6 DEF m, n, r

\* A single point is even.
LEMMA EvenOne ==
  ASSUME NEW p \in Point, NEW length
  PROVE  <<p>> \in Seq(Point) /\ Len(<<p>>) = 1 /\ <<p>>[1] = p /\ Even(<<p>>, length)
<1>1. <<p>> \in Seq(Point) /\ Len(<<p>>) = 1 /\ <<p>>[1] = p
  OBVIOUS
<1>2. \A i \in 2 .. 1 : FALSE
  OBVIOUS
<1> QED BY <1>1, <1>2 DEF Even

\* An edge in pieces, without its last point.
LEMMA EdgeIs ==
  ASSUME NEW p \in Point, NEW q \in Point, NEW n, n = Pieces(p, q, Width),
         NEW edge, edge = [k \in 1 .. n |-> Between(p, q, k - 1, n)]
  PROVE  /\ edge \in Seq(Point) /\ Len(edge) > 0 /\ Even(edge, Width) /\ edge[1] = p
         /\ Gap(edge[Len(edge)], q) <= (Width + 2) * (Width + 2)
<1>1. Width \in Nat \ {0}
  BY HeadlandRingsAssumption
<1>2. n \in Nat \ {0} /\ (n * Width) * (n * Width) >= Gap(p, q)
  BY <1>1, PiecesAre
<1>3. /\ \A k \in 0 .. n : Between(p, q, k, n) \in Point
      /\ Between(p, q, 0, n) = p /\ Between(p, q, n, n) = q
      /\ \A k \in 0 .. n - 1 :
           Gap(Between(p, q, k, n), Between(p, q, k + 1, n)) <= (Width + 2) * (Width + 2)
  <2> DEFINE w == Width
  <2>1. w \in Nat /\ (n * w) * (n * w) >= Gap(p, q)
    BY <1>1, <1>2
  <2> HIDE DEF w
  <2> QED BY <1>2, <2>1, BetweenAre DEF w
<1>4. edge \in [1 .. n -> Point] /\ \A k \in 1 .. n : edge[k] = Between(p, q, k - 1, n)
  <2>1. \A k \in 1 .. n : k - 1 \in 0 .. n
    BY <1>2
  <2> QED BY <1>3, <2>1
<1>5. edge \in Seq(Point) /\ Len(edge) = n
  <2>1. \A T : \A m \in Nat : \A h \in [1 .. m -> T] : h \in Seq(T) /\ Len(h) = m
    OBVIOUS
  <2> QED BY <1>2, <1>4, <2>1
<1>6. edge[1] = p
  <2>1. 1 \in 1 .. n /\ 1 - 1 = 0
    BY <1>2
  <2> QED BY <1>3, <1>4, <2>1
<1>7. Gap(edge[n], q) <= (Width + 2) * (Width + 2)
  <2>1. n \in 1 .. n /\ n - 1 \in 0 .. n - 1 /\ (n - 1) + 1 = n
    BY <1>2
  <2> QED BY <1>3, <1>4, <2>1
<1>8. Even(edge, Width)
  <2>1. ASSUME NEW i \in 2 .. n PROVE Gap(edge[i - 1], edge[i]) <= (Width + 2) * (Width + 2)
    <3>1. i \in 1 .. n /\ i - 1 \in 1 .. n /\ (i - 1) - 1 \in 0 .. n - 1 /\ ((i - 1) - 1) + 1 = i - 1
      BY <1>2
    <3>2. edge[i] = Between(p, q, i - 1, n) /\ edge[i - 1] = Between(p, q, (i - 1) - 1, n)
      BY <1>4, <3>1
    <3> QED BY <1>3, <3>1, <3>2
  <2> QED BY <1>5, <2>1 DEF Even
<1> QED BY <1>2, <1>5, <1>6, <1>7, <1>8

\* A ring in pieces: the same ends, and no gap.
LEMMA DensifyIs ==
  ASSUME NEW ring \in AnyWalk
  PROVE  LET d == Densify(ring)
         IN  d \in AnyWalk /\ d[1] = ring[1] /\ d[Len(d)] = ring[Len(ring)] /\ Even(d, Width)
<1> DEFINE N == Len(ring) - 1
           n_(i) == Pieces(ring[i], ring[i + 1], Width)
           Edge_(i) == [k \in 1 .. n_(i) |-> Between(ring[i], ring[i + 1], k - 1, n_(i))]
           edges == [i \in 1 .. N |-> Edge_(i)]
           bound == (Width + 2) * (Width + 2)
<1>1. /\ N \in Nat \ {0} /\ Len(ring) = N + 1
      /\ \A i \in 1 .. N + 1 : ring[i] \in Point
  <2>1. ring \in Seq(Point) /\ Len(ring) > 1
    BY DEF AnyWalk
  <2>2. Len(ring) \in Nat /\ \A i \in 1 .. Len(ring) : ring[i] \in Point
    BY <2>1, ElementOfSeq, LenProperties
  <2>3. Len(ring) = N + 1 /\ N \in Nat \ {0}
    BY <2>1, <2>2
  <2> HIDE DEF N
  <2> QED BY <2>2, <2>3
<1>2. Width \in Nat
  BY HeadlandRingsAssumption
<1>3. Densify(ring) = Append(FlattenSeq(edges), ring[N + 1])
  <2>1. Densify(ring) = Append(FlattenSeq(edges), ring[Len(ring)])
    BY DEF Densify
  <2> HIDE DEF edges, N
  <2> QED BY <1>1, <2>1
<1>4. ASSUME NEW i \in 1 .. N
      PROVE  /\ Edge_(i) \in Seq(Point) /\ Len(Edge_(i)) > 0 /\ Even(Edge_(i), Width) /\ Edge_(i)[1] = ring[i]
             /\ Gap(Edge_(i)[Len(Edge_(i))], ring[i + 1]) <= bound
  <2>1. i \in 1 .. N + 1 /\ i + 1 \in 1 .. N + 1
    BY <1>1
  <2> DEFINE p == ring[i]
             q == ring[i + 1]
             m == Pieces(p, q, Width)
             e == [k \in 1 .. m |-> Between(p, q, k - 1, m)]
  <2>2. p \in Point /\ q \in Point
    BY <1>1, <2>1
  <2>3. e = Edge_(i)
    OBVIOUS
  <2> HIDE DEF Edge_, e, m, p, q
  <2>4. /\ e \in Seq(Point) /\ Len(e) > 0 /\ Even(e, Width) /\ e[1] = p
        /\ Gap(e[Len(e)], q) <= bound
    BY <2>2, EdgeIs DEF e, m
  <2> QED BY <2>3, <2>4 DEF p, q
<1> HIDE DEF Edge_
<1>5. edges \in Seq(Seq(Point)) /\ Len(edges) = N /\ \A i \in 1 .. N : edges[i] = Edge_(i)
  <2>1. edges \in [1 .. N -> Seq(Point)]
    BY <1>4
  <2>2. \A i \in 1 .. N : edges[i] = Edge_(i)
    OBVIOUS
  <2> HIDE DEF edges, N
  <2> QED BY <1>1, <2>1, <2>2
<1>6. PICK f \in [0 .. Len(edges) -> Seq(Point)] :
        /\ f[0] = << >> /\ FlattenSeq(edges) = f[Len(edges)]
        /\ \A i \in 1 .. Len(edges) : f[i] = f[i - 1] \o edges[i]
  <2> HIDE DEF edges
  <2> QED BY <1>5, FlattenUnfold
<1> HIDE DEF edges, N, bound
<1>7. /\ \A i \in 0 .. N : f[i] \in Seq(Point)
      /\ f[0] = << >> /\ FlattenSeq(edges) = f[N]
      /\ \A i \in 1 .. N : f[i] = f[i - 1] \o Edge_(i)
  BY <1>5, <1>6
<1> DEFINE Good(i) == /\ Len(f[i]) > 0 /\ Even(f[i], Width) /\ f[i][1] = ring[1]
                      /\ Gap(f[i][Len(f[i])], ring[i + 1]) <= bound
           T == {i \in Nat : i <= N => i = 0 \/ Good(i)}
<1>8. 0 .. N \subseteq T
  <2>1. 0 \in T
    OBVIOUS
  <2>2. ASSUME NEW i \in 0 .. (N - 1), i \in T PROVE i + 1 \in T
    <3> DEFINE j == i + 1
               e == Edge_(j)
    <3>1. j \in 1 .. N /\ j \in Nat /\ j - 1 = i /\ i \in 0 .. N /\ i \in Nat /\ i <= N /\ j \in 0 .. N
      BY <1>1
    <3>2. /\ e \in Seq(Point) /\ Len(e) > 0 /\ Even(e, Width) /\ e[1] = ring[j]
          /\ Gap(e[Len(e)], ring[j + 1]) <= bound
      BY <1>4, <3>1
    <3>3. f[j] = f[i] \o e /\ f[i] \in Seq(Point)
      BY <1>7, <3>1
    <3>4. CASE i = 0
      <4>1. f[j] = e
        <5>1. f[i] = << >>
          BY <1>7, <3>4
        <5> HIDE DEF e
        <5> QED BY <3>2, <3>3, <5>1
      <4>2. Good(j)
        <5> HIDE DEF e
        <5> QED BY <3>2, <3>4, <4>1
      <4> QED BY <3>1, <4>2
    <3>5. CASE i # 0
      <4>1. Good(i)
        BY <2>2, <3>1, <3>5
      <4> DEFINE s == f[i]
                 m == Len(s)
                 l == Len(e)
      <4>2. s \in Seq(Point) /\ Len(s) > 0 /\ Even(s, Width) /\ s[1] = ring[1] /\ Gap(s[m], e[1]) <= bound
        BY <3>2, <3>3, <4>1
      <4> HIDE DEF s, e
      <4>3. /\ Len(s \o e) = m + l /\ Even(s \o e, Width)
            /\ (s \o e)[1] = s[1] /\ (s \o e)[m + l] = e[l]
        <5>1. Meets(s, e, Width)
          BY <3>2, <4>2 DEF Meets, bound
        <5>2. e \in Seq(Point) /\ Even(e, Width)
          BY <3>2
        <5> QED BY <1>2, <4>2, <5>1, <5>2, EvenConcat
      <4>4. m \in Nat /\ l \in Nat /\ m > 0
        BY <3>2, <4>2, LenProperties
      <4>5. f[j] = s \o e
        BY <3>3 DEF s
      <4> HIDE DEF m, l
      <4>6. Len(f[j]) = m + l /\ Len(f[j]) > 0
        BY <4>3, <4>4, <4>5
      <4>7. Good(j)
        BY <3>2, <4>2, <4>3, <4>5, <4>6 DEF l
      <4> QED BY <3>1, <4>7
    <3> QED BY <3>4, <3>5
  <2> HIDE DEF T
  <2> QED BY <1>1, <2>1, <2>2, SetOfIntervalInduction
<1>9. Good(N)
  <2>1. N \in T /\ N <= N /\ N # 0
    <3>1. N \in 0 .. N /\ N <= N /\ N # 0
      BY <1>1
    <3> HIDE DEF T
    <3> QED BY <1>8, <3>1
  <2> HIDE DEF Good
  <2> QED BY <2>1
<1> DEFINE s == f[N]
           p == ring[N + 1]
           d == Densify(ring)
<1>10. s \in Seq(Point) /\ Len(s) > 0 /\ Even(s, Width) /\ s[1] = ring[1] /\ Gap(s[Len(s)], p) <= bound
  <2>1. N \in 0 .. N
    BY <1>1
  <2> QED BY <1>7, <1>9, <2>1
<1>11. p \in Point
  BY <1>1
<1>12. d = s \o <<p>>
  <2>1. d = Append(s, p)
    BY <1>3, <1>7
  <2> HIDE DEF s, p, d
  <2> QED BY <1>10, <1>11, <2>1, AppendIsConcat
<1> HIDE DEF s, p, d
<1>13. <<p>> \in Seq(Point) /\ Len(<<p>>) = 1 /\ <<p>>[1] = p /\ Even(<<p>>, Width)
  BY <1>11, EvenOne
<1>14. /\ d \in Seq(Point) /\ Len(d) = Len(s) + 1 /\ Even(d, Width)
       /\ d[1] = s[1] /\ d[Len(s) + 1] = p
  <2> DEFINE t == <<p>>
  <2>1. t \in Seq(Point) /\ Len(t) = 1 /\ t[1] = p /\ Even(t, Width)
    BY <1>13
  <2> HIDE DEF t
  <2>2. /\ s \o t \in Seq(Point) /\ Len(s \o t) = Len(s) + Len(t) /\ Even(s \o t, Width)
        /\ (s \o t)[1] = s[1] /\ (s \o t)[Len(s) + Len(t)] = t[Len(t)]
    <3>1. Meets(s, t, Width)
      BY <1>10, <2>1 DEF Meets, bound
    <3> QED BY <1>2, <1>10, <2>1, <3>1, EvenConcat
  <2> QED BY <1>12, <2>1, <2>2 DEF t
<1>15. Len(s) \in Nat /\ Len(d) > 1
  BY <1>10, <1>14, LenProperties
<1>16. d \in AnyWalk /\ d[1] = ring[1] /\ d[Len(d)] = ring[Len(ring)] /\ Even(d, Width)
  BY <1>1, <1>10, <1>14, <1>15 DEF AnyWalk, p
<1> QED BY <1>16 DEF d

-----------------------------------------------------------------------------
(* One ring, from any of its points.                                        *)

\* What it means to divide with a remainder.
LEMMA RemainderIs ==
  ASSUME NEW x \in Nat, NEW c \in Nat \ {0}
  PROVE  x \div c \in Nat /\ x % c \in 0 .. c - 1 /\ x = (x \div c) * c + (x % c)
<1> DEFINE q == x \div c
           r == x % c
<1>1. q \in Nat /\ r \in 0 .. c - 1 /\ x = c * q + r
  <2>1. x \div c \in Nat
    OBVIOUS
  <2>2. x % c \in 0 .. c - 1
    OBVIOUS
  <2>3. x = c * (x \div c) + (x % c)
    OBVIOUS
  <2> QED BY <2>1, <2>2, <2>3
<1> HIDE DEF q, r
<1>2. c * q = q * c
  BY <1>1
<1>3. x = q * c + r
  BY <1>1, <1>2
<1> QED BY <1>1, <1>3, Zenon DEF q, r

\* The remainder is the only one.
LEMMA OneRemainder ==
  ASSUME NEW x \in Nat, NEW c \in Nat \ {0}, NEW q \in Nat, NEW r \in 0 .. c - 1, x = q * c + r
  PROVE  x % c = r
<1> DEFINE p == x \div c
           t == x % c
<1>1. p \in Nat /\ t \in 0 .. c - 1 /\ x = p * c + t
  BY RemainderIs
<1> HIDE DEF p, t
<1>2. p * c \in Nat /\ q * c \in Nat
  BY <1>1, Grows
<1>3. ASSUME p > q PROVE FALSE
  <2>1. (q + 1) * c <= p * c /\ (q + 1) * c = q * c + c
    BY <1>1, <1>3, Grows
  <2> QED BY <1>1, <1>2, <2>1
<1>4. ASSUME p < q PROVE FALSE
  <2>1. (p + 1) * c <= q * c /\ (p + 1) * c = p * c + c
    BY <1>1, <1>4, Grows
  <2> QED BY <1>1, <1>2, <2>1
<1>5. p = q
  BY <1>1, <1>3, <1>4
<1>6. t = r
  BY <1>1, <1>2, <1>5
<1> QED BY <1>6 DEF t

\* Going round: the remainder of the next number, and of one that is a round further.
LEMMA RoundIs ==
  ASSUME NEW x \in Nat, NEW c \in Nat \ {0}
  PROVE  /\ x % c \in 0 .. c - 1
         /\ x < c => x % c = x
         /\ (x + c) % c = x % c
         /\ ((x + 1) % c) = (x % c) + 1 \/ (x % c = c - 1 /\ ((x + 1) % c) = 0)
<1> DEFINE q == x \div c
           r == x % c
<1>1. q \in Nat /\ r \in 0 .. c - 1 /\ x = q * c + r
  BY RemainderIs
<1> HIDE DEF q, r
<1>2. q * c \in Nat
  BY <1>1, Grows
<1>3. x < c => x % c = x
  <2> SUFFICES ASSUME x < c PROVE x % c = x
    OBVIOUS
  <2>1. x \in 0 .. c - 1 /\ x = 0 * c + x
    OBVIOUS
  <2> QED BY <2>1, OneRemainder
<1>4. (x + c) % c = r
  <2>1. x + c = (q + 1) * c + r /\ q + 1 \in Nat /\ x + c \in Nat
    BY <1>1
  <2> QED BY <1>1, <2>1, OneRemainder
<1>5. CASE r = c - 1
  <2>1. x + 1 = (q + 1) * c + 0 /\ q + 1 \in Nat /\ x + 1 \in Nat /\ 0 \in 0 .. c - 1
    BY <1>1, <1>5
  <2>2. (x + 1) % c = 0
    BY <2>1, OneRemainder
  <2> QED BY <1>1, <1>3, <1>4, <1>5, <2>2 DEF r
<1>6. CASE r # c - 1
  <2>1. x + 1 = q * c + (r + 1) /\ x + 1 \in Nat /\ r + 1 \in 0 .. c - 1
    BY <1>1, <1>6
  <2>2. (x + 1) % c = r + 1
    BY <1>1, <2>1, OneRemainder
  <2> QED BY <1>1, <1>3, <1>4, <2>2 DEF r
<1> QED BY <1>5, <1>6

\* A closed ring, and an open one with its first point added, end where they start.
LEMMA CloseIs ==
  ASSUME NEW ring \in AnyWalk
  PROVE  Close(ring) \in AnyWalk /\ Closed(Close(ring))
<1>1. /\ ring \in Seq(Point) /\ Len(ring) \in Nat /\ Len(ring) > 1
      /\ 1 \in 1 .. Len(ring) /\ ring[1] \in Point
  <2>1. ring \in Seq(Point) /\ Len(ring) > 1 /\ Len(ring) \in Nat
    BY LenProperties DEF AnyWalk
  <2>2. 1 \in 1 .. Len(ring)
    BY <2>1
  <2> QED BY <2>1, <2>2, ElementOfSeq
<1>2. CASE Closed(ring)
  BY <1>2 DEF Close
<1>3. CASE ~Closed(ring)
  <2> DEFINE p == ring[1]
             c == Append(ring, p)
  <2>1. Close(ring) = c
    BY <1>3 DEF Close
  <2>2. /\ c \in Seq(Point) /\ Len(c) = Len(ring) + 1
        /\ \A i \in 1 .. Len(ring) : c[i] = ring[i]
        /\ c[Len(ring) + 1] = p
    <3>1. p \in Point
      BY <1>1
    <3> HIDE DEF p
    <3> QED BY <1>1, <3>1, AppendProperties
  <2> HIDE DEF c
  <2>3. c \in AnyWalk /\ c[1] = c[Len(c)]
    BY <1>1, <2>2 DEF AnyWalk
  <2> QED BY <2>1, <2>3 DEF Closed
<1> QED BY <1>2, <1>3

\* A ring the other way round.
LEMMA TurnedIs == ASSUME NEW ring \in AnyWalk PROVE Turned(ring) \in AnyWalk
<1> DEFINE n == Len(ring)
           h == [i \in 1 .. n |-> ring[n + 1 - i]]
<1>1. n \in Nat /\ n > 1 /\ DOMAIN ring = 1 .. n /\ \A i \in 1 .. n : ring[i] \in Point
  <2>1. ring \in Seq(Point) /\ Len(ring) > 1
    BY DEF AnyWalk
  <2> QED BY <2>1, ElementOfSeq, LenProperties
<1>2. Turned(ring) = h
  BY <1>1 DEF Turned
<1> HIDE DEF n
<1>3. h \in [1 .. n -> Point]
  <2>1. \A i \in 1 .. n : n + 1 - i \in 1 .. n
    BY <1>1
  <2> QED BY <1>1, <2>1
<1> HIDE DEF h
<1>4. h \in Seq(Point) /\ Len(h) = n
  <2>1. \A T : \A m \in Nat : \A g \in [1 .. m -> T] : g \in Seq(T) /\ Len(g) = m
    OBVIOUS
  <2> QED BY <1>1, <1>3, <2>1
<1> QED BY <1>1, <1>2, <1>4 DEF AnyWalk

\* A closed ring without a gap.
AnyRound == {w \in AnyWalk : Closed(w) /\ Even(w, Width)}

\* A normalized ring is closed and in pieces, whichever way it went.
LEMMA NormalizeIs ==
  ASSUME NEW ring \in AnyWalk, NEW clockwise PROVE Normalize(ring, clockwise) \in AnyRound
<1>1. ASSUME NEW r \in AnyWalk PROVE Densify(Close(r)) \in AnyRound
  <2> DEFINE c == Close(r)
             d == Densify(c)
  <2>1. c \in AnyWalk /\ Closed(c)
    BY CloseIs
  <2> HIDE DEF c
  <2>2. d \in AnyWalk /\ d[1] = c[1] /\ d[Len(d)] = c[Len(c)] /\ Even(d, Width)
    BY <2>1, DensifyIs
  <2> HIDE DEF d
  <2>3. d \in AnyRound
    BY <2>1, <2>2 DEF AnyRound, Closed
  <2> QED BY <2>3 DEF c, d
<1> DEFINE output == Densify(Close(ring))
           other == Densify(Close(Turned(output)))
           same == (Area2(output) < 0) = clockwise
<1>2. Normalize(ring, clockwise) = IF same THEN output ELSE other
  BY Zenon DEF Normalize
<1>3. output \in AnyRound
  BY <1>1
<1> HIDE DEF output
<1>4. Turned(output) \in AnyWalk
  BY <1>3, TurnedIs DEF AnyRound
<1>5. other \in AnyRound
  BY <1>1, <1>4
<1> HIDE DEF other, same
<1> QED BY <1>2, <1>3, <1>5

\* A closed walk has a point more than it has different places.
LEMMA RoundLength ==
  ASSUME NEW w \in AnyRound
  PROVE  w \in AnyWalk /\ Closed(w) /\ Unique(w) \in Nat \ {0} /\ Len(w) = Unique(w) + 1
<1> DEFINE m == Len(w)
           u == Unique(w)
<1>1. w \in AnyWalk /\ w \in Seq(Point) /\ Closed(w) /\ m > 1
  BY DEF AnyRound, AnyWalk
<1>2. m \in Nat /\ u = m - 1
  BY <1>1, LenProperties DEF Unique
<1> HIDE DEF m, u
<1>3. u \in Nat \ {0} /\ m = u + 1
  BY <1>1, <1>2
<1> QED BY <1>1, <1>3 DEF m, u

\* There is a nearest point, which is one of the ring's.
LEMMA NearestIs ==
  ASSUME NEW ring \in AnyRound, NEW place \in Point
  PROVE  /\ Unique(ring) \in Nat \ {0} /\ Len(ring) = Unique(ring) + 1
         /\ Nearest(ring, place) \in 1 .. Unique(ring)
         /\ \A j \in 1 .. Unique(ring) : Gap(ring[Nearest(ring, place)], place) <= Gap(ring[j], place)
<1> DEFINE n == Unique(ring)
           G(i) == Gap(ring[i], place)
           Right(i) == \A j \in 1 .. n : G(i) < G(j) \/ (G(i) = G(j) /\ i <= j)
<1>1. /\ n \in Nat \ {0} /\ Len(ring) = n + 1
      /\ \A i \in 1 .. n : G(i) \in Nat
  <2>1. ring \in Seq(Point) /\ n \in Nat \ {0} /\ Len(ring) = n + 1
    BY RoundLength DEF AnyWalk
  <2> HIDE DEF n
  <2>2. \A i \in 1 .. n : i \in 1 .. Len(ring)
    BY <2>1
  <2>3. \A i \in 1 .. n : ring[i] \in Point
    BY <2>1, <2>2, ElementOfSeq
  <2> QED BY <2>1, <2>3, GapType
<1>2. Nearest(ring, place) = CHOOSE i \in 1 .. n : Right(i)
  BY DEF Nearest
<1> HIDE DEF n, G
<1>3. \E i \in 1 .. n : Right(i)
  <2> DEFINE Values == {G(i) : i \in 1 .. n}
  <2>1. PICK v \in Values : \A w \in Values : v <= w
    <3>1. Values \subseteq Nat /\ Values # {}
      <4>1. 1 \in 1 .. n
        BY <1>1
      <4> QED BY <1>1, <4>1
    <3> HIDE DEF Values
    <3> QED BY <3>1, LeastExists
  <2> DEFINE Places == {i \in 1 .. n : G(i) = v}
  <2>2. PICK i \in Places : \A j \in Places : i <= j
    <3>1. Places \subseteq Nat /\ Places # {}
      BY <2>1
    <3> HIDE DEF Places
    <3> QED BY <3>1, LeastExists
  <2>3. ASSUME NEW j \in 1 .. n PROVE G(i) < G(j) \/ (G(i) = G(j) /\ i <= j)
    <3>1. v <= G(j) /\ v \in Nat /\ G(j) \in Nat
      BY <1>1, <2>1
    <3>2. G(i) = v
      BY <2>2
    <3>3. G(j) = v => i <= j
      BY <2>2
    <3> QED BY <3>1, <3>2, <3>3
  <2> QED BY <2>2, <2>3
<1> HIDE DEF Right
<1> DEFINE m == Nearest(ring, place)
<1>4. m \in 1 .. n /\ Right(m)
  BY <1>2, <1>3
<1> HIDE DEF m
<1>5. m \in 1 .. n /\ \A j \in 1 .. n : G(m) <= G(j)
  BY <1>1, <1>4 DEF Right
<1> QED BY <1>1, <1>5 DEF m, n, G

\* A walk that goes round a ring of n points from its i-th one.
RoundFrom(walk, ring, n, i) ==
  /\ walk \in AnyRound /\ Len(walk) = n + 1
  /\ \A k \in 1 .. n + 1 : \E j \in 1 .. n : walk[k] = ring[j]
  /\ i <= n => walk[1] = ring[i]
  /\ i > 1 => walk[n] = ring[i - 1]

\* A ring can be walked from any of its points: nothing of it changes but where it starts.
LEMMA StartAtIs ==
  ASSUME NEW ring \in AnyRound, NEW n \in Nat \ {0}, n = Unique(ring), Len(ring) = n + 1, NEW i \in 1 .. n + 1
  PROVE  RoundFrom(StartAt(ring, i), ring, n, i)
<1> DEFINE At(k) == ((i + k - 2) % n) + 1
           w == [k \in 1 .. n + 1 |-> ring[At(k)]]
           bound == (Width + 2) * (Width + 2)
<1>1. /\ ring[1] = ring[n + 1]
      /\ \A k \in 2 .. n + 1 : Gap(ring[k - 1], ring[k]) <= bound
      /\ \A k \in 1 .. n + 1 : ring[k] \in Point
  <2>1. ring \in Seq(Point) /\ Closed(ring) /\ Even(ring, Width)
    BY DEF AnyRound, AnyWalk
  <2>2. \A k \in 1 .. n + 1 : ring[k] \in Point
    BY <2>1, ElementOfSeq
  <2>3. \A k \in 2 .. n + 1 : Gap(ring[k - 1], ring[k]) <= bound
    <3> HIDE DEF bound
    <3> QED BY <2>1 DEF Even, bound
  <2> QED BY <2>1, <2>2, <2>3 DEF Closed
<1>2. StartAt(ring, i) = w
  BY DEF StartAt
<1> HIDE DEF bound
<1>3. ASSUME NEW k \in 1 .. n + 1
      PROVE  /\ At(k) \in 1 .. n
             /\ At(k + 1) = At(k) + 1 \/ (At(k) = n /\ At(k + 1) = 1)
  <2> DEFINE x == i + k - 2
  <2>1. x \in Nat /\ i + (k + 1) - 2 = x + 1
    OBVIOUS
  <2>2. At(k) = (x % n) + 1 /\ At(k + 1) = ((x + 1) % n) + 1
    BY <2>1
  <2> HIDE DEF x, At
  <2>3. /\ x % n \in 0 .. n - 1
        /\ (x + 1) % n = (x % n) + 1 \/ (x % n = n - 1 /\ (x + 1) % n = 0)
    BY <2>1, RoundIs
  <2> DEFINE r == x % n
             t == (x + 1) % n
  <2>4. /\ At(k) = r + 1 /\ At(k + 1) = t + 1 /\ r \in 0 .. n - 1
        /\ t = r + 1 \/ (r = n - 1 /\ t = 0)
    BY <2>2, <2>3
  <2> HIDE DEF r, t
  <2> QED BY <2>4
<1>4. At(1) = At(n + 1)
  <2>1. i - 1 \in Nat /\ i + 1 - 2 = i - 1 /\ i + (n + 1) - 2 = (i - 1) + n
    OBVIOUS
  <2>2. ((i - 1) + n) % n = (i - 1) % n
    BY <2>1, RoundIs
  <2> QED BY <2>1, <2>2
<1>5. ASSUME i <= n PROVE At(1) = i
  <2>1. i - 1 \in Nat /\ i + 1 - 2 = i - 1 /\ i - 1 < n
    BY <1>5
  <2>2. (i - 1) % n = i - 1
    BY <2>1, RoundIs
  <2>3. At(1) = (i - 1) + 1
    BY <2>1, <2>2
  <2> HIDE DEF At
  <2> QED BY <2>3
<1>6. ASSUME i > 1 PROVE At(n) = i - 1
  <2> DEFINE x == i - 2
  <2>1. x \in Nat /\ i + n - 2 = x + n /\ x < n /\ x + 1 = i - 1
    BY <1>6
  <2>2. At(n) = ((x + n) % n) + 1
    BY <2>1
  <2> HIDE DEF x, At
  <2>3. (x + n) % n = x
    BY <2>1, RoundIs
  <2> QED BY <2>1, <2>2, <2>3
<1> HIDE DEF At
<1>7. /\ w \in [1 .. n + 1 -> Point] /\ \A k \in 1 .. n + 1 : w[k] = ring[At(k)]
  <2>1. \A k \in 1 .. n + 1 : At(k) \in 1 .. n + 1
    BY <1>3
  <2> QED BY <1>1, <2>1
<1> HIDE DEF w
<1>8. w \in Seq(Point) /\ Len(w) = n + 1
  <2>1. \A T : \A m \in Nat : \A g \in [1 .. m -> T] : g \in Seq(T) /\ Len(g) = m
    OBVIOUS
  <2>2. n + 1 \in Nat
    OBVIOUS
  <2> QED BY <1>7, <2>1, <2>2
<1>9. 1 \in 1 .. n + 1 /\ n + 1 \in 1 .. n + 1 /\ n \in 1 .. n + 1
  OBVIOUS
<1>10. Closed(w)
  BY <1>4, <1>7, <1>8, <1>9 DEF Closed
<1>11. ASSUME NEW k \in 2 .. n + 1 PROVE Gap(w[k - 1], w[k]) <= bound
  <2>1. k \in 1 .. n + 1 /\ k - 1 \in 1 .. n + 1 /\ (k - 1) + 1 = k
    OBVIOUS
  <2>2. w[k - 1] = ring[At(k - 1)] /\ w[k] = ring[At(k)]
    BY <1>7, <2>1
  <2> DEFINE a == At(k - 1)
             b == At(k)
  <2>3. a \in 1 .. n /\ (b = a + 1 \/ (a = n /\ b = 1))
    <3>1. /\ At(k - 1) \in 1 .. n
          /\ At((k - 1) + 1) = At(k - 1) + 1 \/ (At(k - 1) = n /\ At((k - 1) + 1) = 1)
      BY <1>3, <2>1
    <3>2. At((k - 1) + 1) = At(k)
      BY <2>1
    <3> QED BY <3>1, <3>2
  <2> HIDE DEF a, b
  <2>4. ring[b] = ring[a + 1]
    BY <1>1, <2>3
  <2>5. Gap(ring[(a + 1) - 1], ring[a + 1]) <= bound /\ (a + 1) - 1 = a
    <3>1. a + 1 \in 2 .. n + 1 /\ (a + 1) - 1 = a
      BY <2>3
    <3> QED BY <1>1, <3>1
  <2> QED BY <2>2, <2>4, <2>5 DEF a, b
<1>12. Even(w, Width)
  BY <1>8, <1>11 DEF Even, bound
<1>13. \A k \in 1 .. n + 1 : \E j \in 1 .. n : w[k] = ring[j]
  BY <1>3, <1>7
<1>14. /\ i <= n => w[1] = ring[i]
       /\ i > 1 => w[n] = ring[i - 1]
  BY <1>5, <1>6, <1>7, <1>9
<1>15. w \in AnyRound
  <2>1. Len(w) > 1
    BY <1>8
  <2> QED BY <1>8, <1>10, <1>12, <2>1 DEF AnyRound, AnyWalk
<1>16. RoundFrom(w, ring, n, i)
  <2> HIDE DEF w
  <2> QED BY <1>8, <1>13, <1>14, <1>15 DEF RoundFrom
<1> QED BY <1>2, <1>16

\* A ring starts where it is asked to, or one point further.
LEMMA RotateIs ==
  ASSUME NEW ring \in AnyWalk, NEW place \in Point, NEW advance \in BOOLEAN, NEW clockwise
  PROVE  LET w == Rotate(ring, place, advance, clockwise)
         IN  w \in AnyRound /\ StartsNear(w, place, advance)
<1> DEFINE normal == Normalize(ring, clockwise)
           i == Nearest(normal, place)
           first == IF advance THEN i + 1 ELSE i
           w == StartAt(normal, first)
           n == Unique(normal)
<1>1. Rotate(ring, place, advance, clockwise) = w
  BY DEF Rotate
<1>2. normal \in AnyRound
  BY NormalizeIs
<1> HIDE DEF normal
<1>3. /\ n \in Nat \ {0} /\ Len(normal) = n + 1
      /\ i \in 1 .. n
      /\ \A j \in 1 .. n : Gap(normal[i], place) <= Gap(normal[j], place)
  BY <1>2, NearestIs
<1> HIDE DEF i
<1>4. first \in 1 .. n + 1 /\ (advance => first = i + 1) /\ (~advance => first = i)
  BY <1>3
<1> HIDE DEF first
<1>5. /\ w \in AnyRound /\ Len(w) = n + 1
      /\ \A k \in 1 .. n + 1 : \E j \in 1 .. n : w[k] = normal[j]
      /\ first <= n => w[1] = normal[first]
      /\ first > 1 => w[n] = normal[first - 1]
  <2>1. PICK m \in Nat \ {0} : m = n
    BY <1>3
  <2>2. m = Unique(normal)
    BY <2>1
  <2> HIDE DEF n
  <2>3. Len(normal) = m + 1 /\ first \in 1 .. m + 1
    BY <1>3, <1>4, <2>1
  <2>4. RoundFrom(StartAt(normal, first), normal, m, first)
    BY <1>2, <2>2, <2>3, StartAtIs
  <2>5. RoundFrom(w, normal, n, first)
    BY <2>1, <2>4
  <2> HIDE DEF w
  <2> QED BY <2>5 DEF RoundFrom
<1> HIDE DEF w, n
<1>6. DOMAIN w = 1 .. n + 1
  <2>1. w \in Seq(Point)
    BY <1>5 DEF AnyRound, AnyWalk
  <2> QED BY <1>5, <2>1, LenProperties
<1>7. \A k \in DOMAIN w : Gap(normal[i], place) <= Gap(w[k], place)
  BY <1>3, <1>5, <1>6
<1>8. advance => w[Len(w) - 1] = normal[i]
  <2> SUFFICES ASSUME advance PROVE w[Len(w) - 1] = normal[i]
    OBVIOUS
  <2>1. first > 1 /\ first - 1 = i /\ Len(w) - 1 = n
    BY <1>3, <1>4, <1>5
  <2> QED BY <1>5, <2>1
<1>9. ~advance => w[1] = normal[i]
  BY <1>3, <1>4, <1>5
<1>10. StartsNear(w, place, advance)
  BY <1>7, <1>8, <1>9 DEF StartsNear
<1> QED BY <1>1, <1>5, <1>10

-----------------------------------------------------------------------------
(* The rings of a tour, one after the other.                                *)

\* A tour, whatever its rings, as long as each has an edge.
AnyTours == Seq([ring : AnyWalk, place : Nat, clockwise : BOOLEAN])

\* The walks of a tour: each follows from its ring and from the walk before it.
IsOrdered(tour, g) ==
  /\ Ordered(tour) = g
  /\ g \in [1 .. Len(tour) -> AnyRound]
  /\ \A n \in 1 .. Len(tour) :
       g[n] = IF n > 1 THEN Rotate(Normalize(tour[n].ring, tour[n].clockwise), g[n - 1][1],
                                   tour[n].place > 2, tour[n].clockwise)
              ELSE Normalize(tour[1].ring, tour[1].clockwise)

LEMMA TourType ==
  ASSUME NEW tour \in AnyTours
  PROVE  /\ Len(tour) \in Nat
         /\ \A n \in 1 .. Len(tour) : tour[n].ring \in AnyWalk /\ tour[n].place \in Nat /\ tour[n].clockwise \in BOOLEAN
<1> DEFINE V == [ring : AnyWalk, place : Nat, clockwise : BOOLEAN]
<1>1. tour \in Seq(V)
  BY DEF AnyTours
<1>2. \A x \in V : x.ring \in AnyWalk /\ x.place \in Nat /\ x.clockwise \in BOOLEAN
  OBVIOUS
<1> HIDE DEF V
<1>3. Len(tour) \in Nat /\ \A n \in 1 .. Len(tour) : tour[n] \in V
  BY <1>1, LenProperties, ElementOfSeq
<1> QED BY <1>2, <1>3

\* Where a walk starts.
LEMMA FirstIs == ASSUME NEW w \in AnyRound PROVE w \in AnyWalk /\ w[1] \in Point
<1>1. w \in Seq(Point) /\ Len(w) > 1 /\ w \in AnyWalk
  BY DEF AnyRound, AnyWalk
<1>2. 1 \in 1 .. Len(w)
  BY <1>1, LenProperties
<1> QED BY <1>1, <1>2, ElementOfSeq

\* append_group() has a result: the recursion over the rings is well founded.
LEMMA OrderedUnfold ==
  ASSUME NEW tour \in AnyTours, Len(tour) > 0
  PROVE  \E g : IsOrdered(tour, g)
<1> DEFINE N == Len(tour)
           M == N - 1
           V == AnyRound
           Ring(n) == Normalize(tour[n].ring, tour[n].clockwise)
           start == Ring(1)
           Next_(c, n) == Rotate(Ring(n), c[1], tour[n].place > 2, tour[n].clockwise)
           move == [p \in (1 .. M) \X V |-> Next_(p[2], p[1] + 1)]
           Is(g) == g = [n \in 1 .. N |-> IF n > 1 THEN Next_(g[n - 1], n) ELSE start]
           Walk == CHOOSE g : Is(g)
           group == [n \in 1 .. N |-> Walk[n]]
<1>1. N \in Nat /\ M \in Nat /\ N = M + 1 /\ \A n \in 1 .. N : tour[n].ring \in AnyWalk
  <2>1. N \in Nat /\ N > 0 /\ \A n \in 1 .. N : tour[n].ring \in AnyWalk
    BY TourType
  <2> HIDE DEF N
  <2> QED BY <2>1
<1>2. Ordered(tour) = group
  BY Zenon DEF Ordered
<1>3. \A n \in 1 .. N : Ring(n) \in AnyWalk /\ Ring(n) \in AnyRound
  <2>1. ASSUME NEW n \in 1 .. N PROVE Ring(n) \in AnyRound
    BY <1>1, NormalizeIs
  <2> HIDE DEF Ring
  <2> QED BY <2>1, FirstIs
<1>4. start \in V
  <2>1. 1 \in 1 .. N
    BY <1>1
  <2> QED BY <1>3, <2>1
<1>5. ASSUME NEW n \in 1 .. N, NEW c \in V PROVE Next_(c, n) \in V
  <2> DEFINE r == Ring(n)
             place == c[1]
             advance == tour[n].place > 2
             clockwise == tour[n].clockwise
  <2>1. r \in AnyWalk /\ place \in Point /\ advance \in BOOLEAN
    BY <1>1, <1>3, <1>5, FirstIs
  <2> HIDE DEF r, place, advance, clockwise
  <2>2. Rotate(r, place, advance, clockwise) \in AnyRound
    BY <2>1, RotateIs
  <2> QED BY <2>2 DEF r, place, advance, clockwise
<1> HIDE DEF start, Next_
<1>6. IsStepwise(V, M, start, move)
  <2>1. move \in [(1 .. M) \X V -> V]
    <3>1. \A n \in 1 .. M : n + 1 \in 1 .. N
      BY <1>1
    <3> HIDE DEF N, M, V
    <3> QED BY <1>5, <3>1
  <2> HIDE DEF M, V, move
  <2> QED BY <1>1, <1>4, <2>1 DEF IsStepwise
<1>7. PICK f \in [0 .. M -> V] : f[0] = start /\ \A n \in 1 .. M : f[n] = move[<<n, f[n - 1]>>]
  <2> HIDE DEF M, V, move
  <2> QED BY <1>6, StepwiseRecursion
<1> DEFINE h == [n \in 1 .. N |-> f[n - 1]]
<1>8. \A n \in 1 .. M : f[n] = Next_(f[n - 1], n + 1)
  <2> TAKE n \in 1 .. M
  <2>1. f[n - 1] \in V
    <3>1. n - 1 \in 0 .. M
      BY <1>1
    <3> HIDE DEF M, V
    <3> QED BY <3>1
  <2> HIDE DEF M, V
  <2> QED BY <1>7, <2>1
<1>9. Is(h)
  <2>1. ASSUME NEW n \in 1 .. N PROVE h[n] = IF n > 1 THEN Next_(h[n - 1], n) ELSE start
    <3>1. h[n] = f[n - 1]
      OBVIOUS
    <3>2. CASE n > 1
      <4>1. n - 1 \in 1 .. M /\ (n - 1) + 1 = n /\ n - 1 \in 1 .. N
        BY <1>1, <3>2
      <4>2. h[n - 1] = f[(n - 1) - 1]
        BY <4>1
      <4>3. f[n - 1] = Next_(f[(n - 1) - 1], n)
        BY <1>8, <4>1
      <4> QED BY <3>1, <3>2, <4>2, <4>3
    <3>3. CASE ~(n > 1)
      <4>1. n - 1 = 0
        BY <1>1, <3>3
      <4> QED BY <1>7, <3>1, <3>3, <4>1
    <3> QED BY <3>2, <3>3
  <2> HIDE DEF N
  <2>2. h = [n \in 1 .. N |-> h[n]]
    OBVIOUS
  <2> HIDE DEF h
  <2> QED BY <2>1, <2>2
<1>10. Is(Walk)
  <2> HIDE DEF Is
  <2> QED BY <1>9
<1>11. \A n \in 1 .. N : Walk[n] = IF n > 1 THEN Next_(Walk[n - 1], n) ELSE start
  <2> HIDE DEF Walk, N
  <2> QED BY <1>10, Zenon
<1> HIDE DEF Walk, h
<1> DEFINE e == [n \in 0 .. M |-> Walk[n + 1]]
<1>12. \A n \in 0 .. M : e[n] \in V
  <2>1. e[0] = start
    <3>1. 0 \in 0 .. M /\ 1 \in 1 .. N /\ ~(1 > 1) /\ 0 + 1 = 1
      BY <1>1
    <3> HIDE DEF M, N
    <3> QED BY <1>11, <3>1
  <2>2. \A n \in 1 .. M : e[n - 1] \in V => e[n] = move[<<n, e[n - 1]>>]
    <3> TAKE n \in 1 .. M
    <3>1. n + 1 \in 1 .. N /\ n + 1 > 1 /\ (n + 1) - 1 = n /\ n \in 0 .. M /\ n - 1 \in 0 .. M /\ (n - 1) + 1 = n
      BY <1>1
    <3>2. e[n] = Walk[n + 1] /\ e[n - 1] = Walk[n]
      BY <3>1
    <3>3. Walk[n + 1] = Next_(Walk[n], n + 1)
      BY <1>11, <3>1
    <3> HIDE DEF e, M, N, V
    <3> QED BY <3>2, <3>3
  <2> HIDE DEF e, M, V, move
  <2> QED BY <1>6, <2>1, <2>2, StepwiseType
<1>13. \A n \in 1 .. N : Walk[n] \in V
  <2> TAKE n \in 1 .. N
  <2>1. n - 1 \in 0 .. M /\ (n - 1) + 1 = n
    BY <1>1
  <2>2. e[n - 1] = Walk[n]
    BY <2>1
  <2> HIDE DEF e, M, N, V
  <2> QED BY <1>12, <2>1, <2>2
<1>14. group \in [1 .. N -> V] /\ \A n \in 1 .. N : group[n] = Walk[n]
  BY <1>13
<1>15. \A n \in 1 .. N : group[n] = IF n > 1 THEN Next_(group[n - 1], n) ELSE start
  <2> TAKE n \in 1 .. N
  <2>1. n > 1 => n - 1 \in 1 .. N
    BY <1>1
  <2> HIDE DEF group, N
  <2> QED BY <1>11, <1>14, <2>1
<1> HIDE DEF group, Walk
<1>16. IsOrdered(tour, group)
  BY <1>2, <1>14, <1>15 DEF IsOrdered, Next_, start
<1> QED BY <1>16

\* What the order of a tour promises, whatever its rings.
LEMMA OrderedIs ==
  ASSUME NEW tour \in AnyTours, Len(tour) > 0
  PROVE  LET g == Ordered(tour)
         IN  /\ g \in Seq(AnyRound) /\ Len(g) = Len(tour)
             /\ \A n \in 2 .. Len(g) : StartsNear(g[n], g[n - 1][1], tour[n].place > 2)
<1> DEFINE N == Len(tour)
           Ring(n) == Normalize(tour[n].ring, tour[n].clockwise)
<1>1. N \in Nat /\ N > 0 /\ \A n \in 1 .. N : tour[n].ring \in AnyWalk
  BY TourType
<1>2. PICK g : IsOrdered(tour, g)
  BY OrderedUnfold
<1>3. /\ g \in [1 .. N -> AnyRound] /\ Ordered(tour) = g
      /\ \A n \in 1 .. N :
           g[n] = IF n > 1 THEN Rotate(Ring(n), g[n - 1][1], tour[n].place > 2, tour[n].clockwise) ELSE Ring(1)
  BY <1>2 DEF IsOrdered
<1>4. \A n \in 1 .. N : Ring(n) \in AnyWalk
  <2> TAKE n \in 1 .. N
  <2>1. Ring(n) \in AnyRound
    BY <1>1, NormalizeIs
  <2> HIDE DEF Ring
  <2> QED BY <2>1, FirstIs
<1> HIDE DEF N, Ring
<1>5. g \in Seq(AnyRound) /\ Len(g) = N
  <2>1. \A T : \A m \in Nat : \A h \in [1 .. m -> T] : h \in Seq(T) /\ Len(h) = m
    OBVIOUS
  <2> QED BY <1>1, <1>3, <2>1
<1>6. ASSUME NEW n \in 2 .. N PROVE StartsNear(g[n], g[n - 1][1], tour[n].place > 2)
  <2> DEFINE r == Ring(n)
             place == g[n - 1][1]
             advance == tour[n].place > 2
             clockwise == tour[n].clockwise
  <2>1. n \in 1 .. N /\ n > 1 /\ n - 1 \in 1 .. N
    BY <1>1
  <2>2. r \in AnyWalk /\ place \in Point /\ advance \in BOOLEAN
    BY <1>3, <1>4, <2>1, FirstIs
  <2>3. g[n] = Rotate(r, place, advance, clockwise)
    BY <1>3, <2>1
  <2> HIDE DEF r, place, advance, clockwise
  <2>4. StartsNear(g[n], place, advance)
    BY <2>2, <2>3, RotateIs
  <2> QED BY <2>4 DEF place, advance
<1> QED BY <1>3, <1>5, <1>6 DEF N

\* The longest piece of a path.
Longest == IF Width < ConnectorStep THEN ConnectorStep ELSE Width

\* Both lengths are at most the longest.
LEMMA LongestIs == /\ Longest \in Nat /\ Width \in Nat \ {0} /\ ConnectorStep \in Nat \ {0}
                   /\ Width <= Longest /\ ConnectorStep <= Longest
  BY HeadlandRingsAssumption DEF Longest

\* A sequence that is even for a length is even for a greater one.
LEMMA EvenGrows ==
  ASSUME NEW s \in Seq(Point), NEW a \in Nat, NEW b \in Nat, a <= b, Even(s, a)
  PROVE  Even(s, b) /\ (a + 2) * (a + 2) <= (b + 2) * (b + 2)
<1>1. (a + 2) * (a + 2) \in Nat /\ (a + 2) * (a + 2) <= (b + 2) * (b + 2)
  BY Grows
<1>2. (b + 2) * (b + 2) \in Nat
  BY Grows
<1> DEFINE x == (a + 2) * (a + 2)
           y == (b + 2) * (b + 2)
<1>3. x \in Nat /\ y \in Nat /\ x <= y
  BY <1>1, <1>2
<1>4. ASSUME NEW i \in 2 .. Len(s) PROVE Gap(s[i - 1], s[i]) <= y
  <2>1. i \in 1 .. Len(s) /\ i - 1 \in 1 .. Len(s)
    BY LenProperties
  <2>2. Gap(s[i - 1], s[i]) \in Nat
    <3>1. s[i - 1] \in Point /\ s[i] \in Point
      BY <2>1, ElementOfSeq
    <3> QED BY <3>1, GapType
  <2>3. Gap(s[i - 1], s[i]) <= x
    BY DEF Even, x
  <2> HIDE DEF x, y
  <2> QED BY <1>3, <2>2, <2>3
<1> QED BY <1>1, <1>4 DEF Even

\* A connector goes from one point to another.
LEMMA ConnectorIs ==
  ASSUME NEW p \in Point, NEW q \in Point
  PROVE  LET c == RingConnector(p, q)
         IN  /\ c \in Seq(Point) /\ Len(c) > 0 /\ c[Len(c)] = q /\ Even(c, ConnectorStep)
             /\ Gap(p, c[1]) <= (ConnectorStep + 2) * (ConnectorStep + 2)
<1> DEFINE w == ConnectorStep
           n == Pieces(p, q, w)
           m == IF n < 2 THEN 2 ELSE n
           bound == (w + 2) * (w + 2)
           c == [k \in 1 .. m |-> Between(p, q, k, m)]
<1>1. w \in Nat /\ w \in Nat \ {0} /\ bound \in Nat
  BY LongestIs, Grows
<1>2. CASE p = q
  <2>1. RingConnector(p, q) = <<q>>
    BY <1>2 DEF RingConnector
  <2>2. <<q>> \in Seq(Point) /\ Len(<<q>>) = 1 /\ <<q>>[1] = q /\ Even(<<q>>, w)
    BY EvenOne
  <2>3. Gap(p, q) <= bound
    BY <1>1, <1>2, GapType
  <2> DEFINE r == RingConnector(p, q)
  <2>4. r \in Seq(Point) /\ Len(r) > 0 /\ r[Len(r)] = q /\ Even(r, w) /\ Gap(p, r[1]) <= bound
    BY <2>1, <2>2, <2>3
  <2> QED BY <2>4
<1>3. CASE p # q
  <2>1. RingConnector(p, q) = c
    BY <1>3 DEF RingConnector
  <2> HIDE DEF w, bound
  <2>2. n \in Nat \ {0} /\ (n * w) * (n * w) >= Gap(p, q)
    BY <1>1, PiecesAre
  <2> HIDE DEF n
  <2>3. m \in Nat \ {0} /\ n <= m
    BY <2>2
  <2> HIDE DEF m
  <2>4. (m * w) * (m * w) >= Gap(p, q)
    <3>1. n * w \in Nat /\ m * w \in Nat /\ n * w <= m * w
      BY <1>1, <2>2, <2>3, Grows
    <3>2. (n * w) * (n * w) <= (m * w) * (m * w) /\ (n * w) * (n * w) \in Nat /\ (m * w) * (m * w) \in Nat
      BY <3>1, Grows
    <3> DEFINE x == (n * w) * (n * w)
               y == (m * w) * (m * w)
    <3>3. x \in Nat /\ y \in Nat /\ x <= y /\ x >= Gap(p, q) /\ Gap(p, q) \in Nat
      BY <2>2, <3>2, GapType
    <3> HIDE DEF x, y
    <3>4. y >= Gap(p, q)
      BY <3>3
    <3> QED BY <3>4 DEF y
  <2>5. /\ \A k \in 0 .. m : Between(p, q, k, m) \in Point
        /\ Between(p, q, 0, m) = p /\ Between(p, q, m, m) = q
        /\ \A k \in 0 .. m - 1 : Gap(Between(p, q, k, m), Between(p, q, k + 1, m)) <= bound
    BY <1>1, <2>3, <2>4, BetweenAre DEF bound
  <2>6. c \in [1 .. m -> Point] /\ \A k \in 1 .. m : c[k] = Between(p, q, k, m)
    <3>1. \A k \in 1 .. m : k \in 0 .. m
      BY <2>3
    <3> QED BY <2>5, <3>1
  <2> HIDE DEF c
  <2>7. c \in Seq(Point) /\ Len(c) = m
    <3>1. \A T : \A j \in Nat : \A h \in [1 .. j -> T] : h \in Seq(T) /\ Len(h) = j
      OBVIOUS
    <3> QED BY <2>3, <2>6, <3>1
  <2>8. Even(c, w)
    <3> SUFFICES ASSUME NEW i \in 2 .. m PROVE Gap(c[i - 1], c[i]) <= bound
      BY <2>7 DEF Even, bound
    <3>1. i \in 1 .. m /\ i - 1 \in 1 .. m /\ i - 1 \in 0 .. m - 1 /\ (i - 1) + 1 = i
      BY <2>3
    <3> QED BY <2>5, <2>6, <3>1
  <2>9. c[m] = q /\ Gap(p, c[1]) <= bound
    <3>1. m \in 1 .. m /\ 1 \in 1 .. m /\ 0 \in 0 .. m - 1 /\ 0 + 1 = 1
      BY <2>3
    <3> QED BY <2>5, <2>6, <3>1
  <2> DEFINE r == RingConnector(p, q)
  <2>10. r \in Seq(Point) /\ Len(r) > 0 /\ r[Len(r)] = q /\ Even(r, w) /\ Gap(p, r[1]) <= bound
    BY <2>1, <2>3, <2>7, <2>8, <2>9
  <2> QED BY <2>10 DEF w, bound
<1> QED BY <1>2, <1>3

\* The ring poses of a walk, and what leads to them, are points without a gap, up to where the
\* walk starts; a connector sets out from where the walk before it starts.
LEMMA LegIs ==
  ASSUME NEW g \in Seq(AnyRound), NEW loops, NEW m \in 1 .. Len(g)
  PROVE  LET r == Leg(g, m, loops)
         IN  /\ r \in Seq(Point) /\ Len(r) > 0 /\ Even(r, Longest) /\ r[Len(r)] = g[m][1]
             /\ IsLinked(m, loops) => Gap(g[m - 1][1], r[1]) <= (Longest + 2) * (Longest + 2)
<1> DEFINE N == Len(g)
           L == Longest
           bound == (L + 2) * (L + 2)
<1>1. N \in Nat /\ m \in 1 .. N /\ \A n \in 1 .. N : g[n] \in AnyRound
  BY LenProperties, ElementOfSeq
<1>2. L \in Nat /\ bound \in Nat
  BY LongestIs, Grows
<1> HIDE DEF L, N
<1>3. ASSUME NEW n \in 1 .. N
      PROVE  LET w == RingPoses(g[n])
             IN  /\ w \in Seq(Point) /\ Len(w) > 0 /\ Even(w, L)
                 /\ w[1] = g[n][1] /\ w[Len(w)] = g[n][1] /\ g[n][1] \in Point
  <2> DEFINE w == g[n]
  <2>1. w \in AnyRound
    BY <1>1
  <2>2. RingPoses(w) = w
    BY <2>1 DEF RingPoses, Close, AnyRound
  <2> HIDE DEF w
  <2>3. w \in Seq(Point) /\ Len(w) > 1 /\ Even(w, Width) /\ w[1] = w[Len(w)] /\ w[1] \in Point
    BY <2>1, FirstIs DEF AnyRound, AnyWalk, Closed
  <2>4. Even(w, L)
    <3> DEFINE a == Width
    <3>1. a \in Nat /\ a <= L /\ Even(w, a)
      BY <2>3, LongestIs DEF L
    <3> HIDE DEF a
    <3> QED BY <1>2, <2>3, <3>1, EvenGrows
  <2>5. Len(w) \in Nat /\ Len(w) > 0
    BY <2>3, LenProperties
  <2> QED BY <2>2, <2>3, <2>4, <2>5 DEF w
<1>4. CASE IsLinked(m, loops)
  <2> DEFINE p == g[m - 1][1]
             q == g[m][1]
             c == RingConnector(p, q)
             w == RingPoses(g[m])
             r == c \o w
  <2>1. m - 1 \in 1 .. N
    BY <1>1, <1>4 DEF IsLinked
  <2>2. Leg(g, m, loops) = r
    BY <1>4 DEF Leg
  <2>3. p \in Point /\ q \in Point
    BY <1>1, <1>3, <2>1
  <2>4. w \in Seq(Point) /\ Len(w) > 0 /\ Even(w, L) /\ w[1] = q /\ w[Len(w)] = q
    BY <1>1, <1>3
  <2> HIDE DEF p, q, w
  <2>5. c \in Seq(Point) /\ Len(c) > 0 /\ c[Len(c)] = q /\ Even(c, L) /\ Gap(p, c[1]) <= bound
    <3> DEFINE a == ConnectorStep
    <3>1. /\ c \in Seq(Point) /\ Len(c) > 0 /\ c[Len(c)] = q /\ Even(c, a)
          /\ Gap(p, c[1]) <= (a + 2) * (a + 2)
      BY <2>3, ConnectorIs
    <3>2. a \in Nat /\ a <= L
      BY LongestIs DEF L
    <3>3. Gap(p, c[1]) \in Nat /\ (a + 2) * (a + 2) \in Nat
      <4>1. 1 \in 1 .. Len(c)
        BY <3>1, LenProperties
      <4>2. c[1] \in Point
        BY <3>1, <4>1, ElementOfSeq
      <4> QED BY <2>3, <3>2, <4>2, GapType, Grows
    <3> HIDE DEF a, c, bound
    <3>4. Even(c, L) /\ (a + 2) * (a + 2) <= bound
      BY <1>2, <3>1, <3>2, EvenGrows DEF bound
    <3> DEFINE x == (a + 2) * (a + 2)
               d == Gap(p, c[1])
    <3>5. x \in Nat /\ d \in Nat /\ d <= x /\ x <= bound
      BY <3>1, <3>3, <3>4
    <3> HIDE DEF x, d
    <3>6. d <= bound
      BY <1>2, <3>5
    <3> QED BY <3>1, <3>4, <3>6 DEF d
  <2> HIDE DEF c
  <2>6. Gap(c[Len(c)], w[1]) <= bound
    BY <1>2, <2>3, <2>4, <2>5, GapType
  <2>7. /\ r \in Seq(Point) /\ Len(r) = Len(c) + Len(w) /\ Even(r, L)
        /\ r[1] = c[1] /\ r[Len(c) + Len(w)] = w[Len(w)]
    <3>1. Meets(c, w, L)
      BY <2>4, <2>5, <2>6 DEF Meets
    <3> QED BY <1>2, <2>4, <2>5, <3>1, EvenConcat
  <2>8. Len(c) \in Nat /\ Len(w) \in Nat
    BY <2>4, <2>5, LenProperties
  <2> HIDE DEF r, bound
  <2>9. Len(r) > 0 /\ r[Len(r)] = q /\ Gap(p, r[1]) <= bound
    BY <2>4, <2>5, <2>7, <2>8
  <2> QED BY <2>2, <2>7, <2>9 DEF p, q, bound, L
<1>5. CASE ~IsLinked(m, loops)
  <2>1. Leg(g, m, loops) = RingPoses(g[m])
    BY <1>5 DEF Leg
  <2> QED BY <1>1, <1>3, <1>5, <2>1 DEF L
<1> QED BY <1>4, <1>5

\* The path along closed walks has no gap, as long as there are connectors.
LEMMA HeadlandPathIs ==
  ASSUME NEW g \in Seq(AnyRound), NEW loops, NEW first \in 1 .. Len(g), NEW last \in first .. Len(g),
         \A n \in first + 1 .. last : IsLinked(n, loops)
  PROVE  Gapless(HeadlandPath(g, first, last, loops))
<1> DEFINE N == last - first + 1
           At(k) == first + k - 1
           L == Longest
           bound == (L + 2) * (L + 2)
           Part(k) == Leg(g, At(k), loops)
           parts == [k \in 1 .. N |-> Part(k)]
<1>1. /\ N \in Nat /\ N > 0 /\ 1 \in 1 .. N
      /\ \A k \in 1 .. N : At(k) \in 1 .. Len(g)
      /\ \A k \in 2 .. N : At(k) \in first + 1 .. last /\ k - 1 \in 1 .. N /\ k \in 1 .. N /\ At(k - 1) = At(k) - 1
  <2>1. Len(g) \in Nat
    BY LenProperties
  <2> QED BY <2>1
<1>2. L \in Nat /\ bound \in Nat
  BY LongestIs, Grows
<1>3. ASSUME NEW k \in 1 .. N
      PROVE  LET r == Part(k) IN r \in Seq(Point) /\ Len(r) > 0 /\ Even(r, L) /\ r[Len(r)] = g[At(k)][1]
  <2> DEFINE m == At(k)
  <2>1. m \in 1 .. Len(g)
    BY <1>1
  <2> HIDE DEF m
  <2>2. LET r == Leg(g, m, loops) IN r \in Seq(Point) /\ Len(r) > 0 /\ Even(r, Longest) /\ r[Len(r)] = g[m][1]
    BY <2>1, LegIs
  <2> QED BY <2>2 DEF m
<1>4. ASSUME NEW k \in 2 .. N
      PROVE  Gap(g[At(k - 1)][1], Part(k)[1]) <= bound
  <2> DEFINE m == At(k)
  <2>1. m \in 1 .. Len(g) /\ IsLinked(m, loops) /\ At(k - 1) = m - 1
    BY <1>1
  <2> HIDE DEF m, At
  <2>2. Gap(g[m - 1][1], Leg(g, m, loops)[1]) <= (Longest + 2) * (Longest + 2)
    BY <2>1, LegIs
  <2> QED BY <2>1, <2>2 DEF m
<1> HIDE DEF L, Part, At
<1>6. parts \in Seq(Seq(Point)) /\ Len(parts) = N /\ \A k \in 1 .. N : parts[k] = Part(k)
  <2> DEFINE V == Seq(Point)
  <2> HIDE DEF N
  <2>1. \A k \in 1 .. N : Part(k) \in V
    BY <1>3
  <2>2. parts \in [1 .. N -> V]
    BY <2>1
  <2>3. \A T : \A m \in Nat : \A h \in [1 .. m -> T] : h \in Seq(T) /\ Len(h) = m
    OBVIOUS
  <2> HIDE DEF V
  <2>4. parts \in Seq(V) /\ Len(parts) = N
    BY <1>1, <2>2, <2>3
  <2> QED BY <2>4 DEF V
<1>7. HeadlandPath(g, first, last, loops) = FlattenSeq(parts)
  <2>1. parts = [k \in 1 .. last - first + 1 |-> Leg(g, first + k - 1, loops)]
    BY DEF Part, At
  <2> QED BY <2>1 DEF HeadlandPath
<1> HIDE DEF parts
<1>8. PICK f \in [0 .. N -> Seq(Point)] :
        /\ f[0] = << >> /\ FlattenSeq(parts) = f[N]
        /\ \A n \in 1 .. N : f[n] = f[n - 1] \o parts[n]
  <2> HIDE DEF N
  <2>1. parts \in Seq(Seq(Point))
    BY <1>6
  <2>2. \E f \in [0 .. Len(parts) -> Seq(Point)] :
          /\ f[0] = << >> /\ FlattenSeq(parts) = f[Len(parts)]
          /\ \A n \in 1 .. Len(parts) : f[n] = f[n - 1] \o parts[n]
    BY <2>1, FlattenUnfold
  <2> QED BY <1>6, <2>2
<1> HIDE DEF N
<1> DEFINE T == {n \in 0 .. N - 1 : LET s == f[n + 1]
                                    IN  Len(s) > 0 /\ Even(s, L) /\ s[Len(s)] = g[At(n + 1)][1]}
<1>9. N - 1 \in Nat /\ \A n \in 0 .. N - 1 : f[n + 1] \in Seq(Point) /\ n + 1 \in 1 .. N
  BY <1>1
<1>10. 0 \in T
  <2> DEFINE s == Part(1)
  <2>1. s \in Seq(Point) /\ Len(s) > 0 /\ Even(s, L) /\ s[Len(s)] = g[At(1)][1]
    BY <1>1, <1>3
  <2> HIDE DEF s
  <2>2. f[1] = << >> \o s
    <3>1. 1 - 1 = 0
      OBVIOUS
    <3> QED BY <1>1, <1>6, <1>8, <3>1 DEF s
  <2>3. f[1] = s
    BY <2>1, <2>2, ConcatEmptySeq
  <2>4. 0 \in 0 .. N - 1 /\ 0 + 1 = 1
    BY <1>9
  <2> QED BY <2>1, <2>3, <2>4
<1>11. ASSUME NEW n \in 0 .. (N - 1) - 1, n \in T PROVE n + 1 \in T
  <2> DEFINE m == n + 1
             s == f[m]
             r == Part(m + 1)
  <2>1. m \in 1 .. N /\ m + 1 \in 2 .. N /\ m + 1 \in 1 .. N /\ (m + 1) - 1 = m /\ m \in 0 .. N - 1 /\ n \in 0 .. N - 1
    BY <1>1
  <2>2. s \in Seq(Point) /\ Len(s) > 0 /\ Even(s, L) /\ s[Len(s)] = g[At(m)][1]
    BY <1>9, <1>11, <2>1
  <2> HIDE DEF m, T
  <2>3. /\ r \in Seq(Point) /\ Len(r) > 0 /\ Even(r, L) /\ r[Len(r)] = g[At(m + 1)][1]
        /\ Gap(g[At(m)][1], r[1]) <= bound
    <3> DEFINE k == m + 1
    <3>1. k \in 2 .. N /\ k \in 1 .. N /\ k - 1 = m
      BY <2>1
    <3> HIDE DEF k
    <3>2. LET t == Part(k) IN t \in Seq(Point) /\ Len(t) > 0 /\ Even(t, L) /\ t[Len(t)] = g[At(k)][1]
      BY <1>3, <3>1
    <3>3. Gap(g[At(m)][1], Part(k)[1]) <= bound
      BY <1>4, <3>1
    <3> QED BY <3>2, <3>3 DEF k, r
  <2>4. f[m + 1] = s \o r
    <3> DEFINE k == m + 1
    <3>1. k \in 1 .. N /\ k - 1 = m
      BY <2>1
    <3> HIDE DEF k
    <3>2. f[k] = f[m] \o parts[k] /\ parts[k] = Part(k)
      BY <1>6, <1>8, <3>1
    <3> QED BY <3>2 DEF k
  <2> HIDE DEF s, r
  <2>5. /\ s \o r \in Seq(Point) /\ Len(s \o r) = Len(s) + Len(r) /\ Even(s \o r, L)
        /\ (s \o r)[Len(s) + Len(r)] = r[Len(r)]
    <3>1. Meets(s, r, L)
      BY <2>2, <2>3 DEF Meets
    <3>2. r \in Seq(Point) /\ Even(r, L)
      BY <2>3
    <3> QED BY <1>2, <2>2, <3>1, <3>2, EvenConcat
  <2>6. Len(s) \in Nat /\ Len(r) \in Nat
    BY <2>2, <2>3, LenProperties
  <2> DEFINE t == f[m + 1]
  <2>7. Len(t) > 0 /\ Even(t, L) /\ t[Len(t)] = g[At(m + 1)][1]
    <3> HIDE DEF t
    <3>1. t = s \o r
      BY <2>4 DEF t
    <3>2. Len(t) = Len(s) + Len(r) /\ t[Len(s) + Len(r)] = r[Len(r)]
      BY <2>5, <3>1
    <3>3. Len(t) > 0
      BY <2>2, <2>3, <2>6, <3>2
    <3> QED BY <2>3, <2>5, <3>1, <3>2, <3>3
  <2>8. m \in T
    BY <2>1, <2>7 DEF T
  <2> QED BY <2>8 DEF m
<1>12. N - 1 \in T
  <2> DEFINE M == N - 1
  <2>1. M \in Nat /\ 0 \in T /\ \A n \in 0 .. (M - 1) : n \in T => n + 1 \in T
    BY <1>9, <1>10, <1>11
  <2> HIDE DEF M, T
  <2>2. 0 .. M \subseteq T /\ M \in 0 .. M
    BY <2>1, SetOfIntervalInduction
  <2> QED BY <2>2 DEF M
<1>13. Even(f[N], L)
  <2>1. (N - 1) + 1 = N
    BY <1>1
  <2> QED BY <1>12, <2>1
<1> QED BY <1>7, <1>8, <1>13 DEF Gapless, Even, L, Longest

\* Within a group, the places of the rings are counted on from its first ring.
LEMMA PlacesGrow ==
  ASSUME NEW tour \in AnyTours, NEW first \in 1 .. Len(tour), NEW last \in first .. Len(tour),
         \A n \in 2 .. Len(tour) : StartsGroup(tour, n) \/ tour[n].place = tour[n - 1].place + 1,
         StartsGroup(tour, first), \A n \in first + 1 .. last : ~StartsGroup(tour, n),
         NEW m \in first + 1 .. last
  PROVE  tour[m].place = m - first + 1
<1> DEFINE M == last - first
           T == {k \in 0 .. M : tour[first + k].place = k + 1}
<1>1. M \in Nat /\ Len(tour) \in Nat
  BY LenProperties
<1>2. 0 \in T
  BY <1>1 DEF StartsGroup
<1>3. ASSUME NEW k \in 0 .. M - 1, k \in T PROVE k + 1 \in T
  <2> DEFINE n == first + (k + 1)
  <2>1. n \in 2 .. Len(tour) /\ n \in first + 1 .. last /\ n - 1 = first + k /\ k + 1 \in 0 .. M /\ k \in Nat
    BY <1>1
  <2>2. tour[n].place = tour[n - 1].place + 1
    BY <2>1
  <2>3. tour[first + k].place = k + 1
    BY <1>3
  <2>4. tour[n].place = (k + 1) + 1
    BY <2>1, <2>2, <2>3
  <2> QED BY <2>1, <2>4
<1> HIDE DEF T
<1>4. 0 .. M \subseteq T
  <2> HIDE DEF M
  <2> QED BY <1>1, <1>2, <1>3, SetOfIntervalInduction
<1>5. m - first \in T /\ first + (m - first) = m
  BY <1>1, <1>4
<1> QED BY <1>5 DEF T

\* What lies less than a divisor ahead of a multiple of it has what lies ahead as its remainder.
LEMMA MultipleAhead ==
  ASSUME NEW x \in Nat, NEW loops \in Nat \ {0}, x % loops = 0, NEW d \in 1 .. loops - 1
  PROVE  (x + d) % loops = d
<1> DEFINE q == x \div loops
<1>1. q \in Nat /\ x % loops \in 0 .. loops - 1 /\ x = q * loops + (x % loops)
  BY RemainderIs
<1> HIDE DEF q
<1>2. d \in 0 .. loops - 1 /\ x + d \in Nat /\ x + d = q * loops + d
  <2>1. q * loops \in Nat
    BY <1>1, Grows
  <2> DEFINE y == q * loops
  <2>2. y \in Nat /\ x = y
    BY <1>1, <2>1
  <2> HIDE DEF y
  <2>3. d \in 0 .. loops - 1 /\ x + d \in Nat /\ x + d = y + d
    BY <2>2
  <2> QED BY <2>3 DEF y
<1>3. (x + d) % loops = d
  <2> DEFINE y == x + d
  <2>1. y \in Nat /\ y = q * loops + d
    BY <1>2
  <2> HIDE DEF y
  <2>2. y % loops = d
    BY <1>1, <1>2, <2>1, OneRemainder
  <2> QED BY <2>2 DEF y
<1> QED BY <1>3

\* Whatever the rings of a tour are, as long as each has an edge: every ring has its walk, each walk
\* ends where it starts, next to where the one before it started, and the path along them has no gap
\* wider than a piece of a ring or of a connector but where the count of rings says that a group
\* starts; nor has a group that does start there (orderHeadlandSwaths(), createConnectedHeadlandPath()).
THEOREM RingsFollowOn ==
  ASSUME NEW tour \in AnyTours, Len(tour) > 0, NEW loops \in Nat \ {0},
         \A n \in 2 .. Len(tour) : StartsGroup(tour, n) \/ tour[n].place = tour[n - 1].place + 1,
         \A n \in 1 .. Len(tour) : tour[n].place \in 1 .. loops
  PROVE  LET walks == Ordered(tour)
         IN  /\ Len(walks) = Len(tour) /\ FollowOn(walks, tour)
             /\ Unbroken(walks, loops) /\ GroupsUnbroken(walks, tour, loops)
<1> DEFINE g == Ordered(tour)
<1>1. /\ g \in Seq(AnyRound) /\ Len(g) = Len(tour)
      /\ \A n \in 2 .. Len(g) : StartsNear(g[n], g[n - 1][1], tour[n].place > 2)
  BY OrderedIs
<1> HIDE DEF g
<1>2. DOMAIN g = 1 .. Len(g) /\ Len(g) \in Nat
  BY <1>1, LenProperties
<1>3. Unbroken(g, loops)
  BY <1>1, <1>2, HeadlandPathIs DEF Unbroken
<1>4. \A n \in DOMAIN g : Closed(g[n])
  <2> TAKE n \in DOMAIN g
  <2>1. g[n] \in AnyRound
    BY <1>1, <1>2, ElementOfSeq
  <2> QED BY <2>1 DEF AnyRound
<1>5. ASSUME NEW first \in DOMAIN g, NEW last \in first .. Len(g),
             StartsGroup(tour, first), (first - 1) % loops = 0,
             \A n \in first + 1 .. last : ~StartsGroup(tour, n)
      PROVE  Gapless(HeadlandPath(g, first, last, loops))
  <2>1. \A n \in first + 1 .. last : IsLinked(n, loops)
    <3>1. ASSUME NEW n \in first + 1 .. last
          PROVE  tour[n].place = n - first + 1
      <4>1. first \in 1 .. Len(tour) /\ last \in first .. Len(tour)
        BY <1>1, <1>2
      <4> QED BY <1>5, <4>1, PlacesGrow
    <3> TAKE n \in first + 1 .. last
    <3> DEFINE d == n - first
    <3>2. /\ n \in 1 .. Len(tour) /\ d \in Nat /\ d > 0 /\ n > 1 /\ first - 1 \in Nat
          /\ n - 1 = (first - 1) + d /\ n - first + 1 = d + 1
      <4>1. first \in Nat /\ first > 0 /\ n \in Nat /\ n > first /\ n <= Len(tour) /\ Len(tour) \in Nat
        BY <1>1, <1>2
      <4> QED BY <4>1
    <3>3. tour[n].place = d + 1
      BY <3>1, <3>2
    <3>4. d \in 1 .. loops - 1
      <4>1. tour[n].place \in 1 .. loops /\ loops \in Nat
        BY <3>2
      <4>2. d + 1 \in 1 .. loops /\ d \in Nat /\ d > 0
        BY <3>2, <3>3, <4>1, Zenon
      <4> HIDE DEF d
      <4> QED BY ONLY <4>1, <4>2
    <3> HIDE DEF d
    <3>5. ((first - 1) + d) % loops = d
      BY <1>5, <3>2, <3>4, MultipleAhead
    <3> QED BY <3>2, <3>4, <3>5 DEF IsLinked
  <2> QED BY <1>1, <1>2, <2>1, HeadlandPathIs
<1>6. GroupsUnbroken(g, tour, loops)
  BY <1>5 DEF GroupsUnbroken
<1> QED BY <1>1, <1>3, <1>4, <1>6 DEF FollowOn, g

-----------------------------------------------------------------------------
(* Edges that divide into whole units.                                      *)

\* A short edge is one piece.
LEMMA OnePiece ==
  ASSUME NEW p \in Point, NEW q \in Point, Gap(p, q) <= Width * Width
  PROVE  Pieces(p, q, Width) = 1
<1> DEFINE n == Pieces(p, q, Width)
           G == Gap(p, q)
<1>1. Width \in Nat \ {0} /\ G \in Nat
  BY HeadlandRingsAssumption, GapType
<1>2. n \in Nat \ {0} /\ (n > 1 => ((n - 1) * Width) * ((n - 1) * Width) < G)
  BY <1>1, PiecesAre
<1> HIDE DEF n, G
<1> SUFFICES ASSUME n > 1 PROVE FALSE
  BY <1>2 DEF n
<1> DEFINE m == n - 1
<1>3. m \in Nat /\ 1 <= m /\ (m * Width) * (m * Width) < G
  BY <1>2
<1> HIDE DEF m
<1> DEFINE w == Width
           k == m * w
<1>4. w \in Nat /\ w <= k /\ k \in Nat
  <2>1. w \in Nat /\ 1 * w <= m * w /\ 1 * w = w
    BY <1>1, <1>3, Grows
  <2>2. m * w \in Nat
    BY <1>3, <2>1, Grows
  <2> QED BY <2>1, <2>2
<1>5. k * k < G
  BY <1>3
<1>6. G <= w * w
  BY DEF G
<1> HIDE DEF w, k
<1>7. w * w <= k * k /\ w * w \in Nat /\ k * k \in Nat
  BY <1>4, Grows
<1> QED BY <1>1, <1>5, <1>6, <1>7

\* A multiple divides without a rest.
LEMMA MultipleIs ==
  ASSUME NEW a \in Int, NEW n \in Nat \ {0}
  PROVE  (a * n) \div n = a
<1> DEFINE x == (a * n) \div n
           e == x - a
<1>1. a * n \in Int
  OBVIOUS
<1>2. x \in Int /\ x * n <= a * n /\ a * n < x * n + n
  <2> DEFINE y == a * n
  <2>1. y \in Int
    BY <1>1
  <2> HIDE DEF y
  <2>2. y \div n \in Int /\ (y \div n) * n <= y /\ y < (y \div n) * n + n
    BY <2>1, FloorIs
  <2> QED BY <2>2 DEF y
<1> HIDE DEF x
<1>3. e \in Int /\ e * n = x * n - a * n /\ (e + 1) * n = e * n + n /\ x * n \in Int
  BY <1>2
<1>4. e * n <= 0 /\ (e + 1) * n > 0
  BY <1>1, <1>2, <1>3
<1> HIDE DEF e
<1>5. ~(e > 0)
  <2> SUFFICES ASSUME e > 0 PROVE FALSE
    OBVIOUS
  <2>1. e \in Nat /\ 1 <= e
    BY <1>3
  <2>2. 1 * n <= e * n /\ 1 * n = n
    BY <2>1, Grows
  <2> QED BY <1>3, <1>4, <2>2
<1>6. ~(e < 0)
  <2> SUFFICES ASSUME e < 0 PROVE FALSE
    OBVIOUS
  <2> DEFINE g == 0 - (e + 1)
  <2>1. g \in Nat /\ e + 1 = 0 - g
    BY <1>3
  <2> HIDE DEF g
  <2>2. (e + 1) * n = 0 - g * n /\ g * n \in Nat
    BY <2>1, Grows
  <2> QED BY <1>4, <2>2
<1>7. e = 0
  BY <1>3, <1>5, <1>6
<1>8. x = a
  BY <1>2, <1>7 DEF e
<1> QED BY <1>8 DEF x

\* A number without a remainder is a multiple.
LEMMA WholeIs ==
  ASSUME NEW x \in Int, NEW n \in Nat \ {0}, x % n = 0
  PROVE  \E a \in Int : x = n * a
<1>1. x \div n \in Int /\ x = n * (x \div n) + (x % n)
  OBVIOUS
<1> DEFINE a == x \div n
<1>2. a \in Int /\ x = n * a + 0
  BY <1>1
<1> HIDE DEF a
<1>3. n * a + 0 = n * a
  BY <1>2
<1> QED BY <1>2, <1>3

\* x1 * y2 - x2 * y1.
Cross(p, q) == p[1] * q[2] - q[1] * p[2]

\* The points of an edge from p to q, d apart from each other.
Along_(p, d, k) == <<p[1] + k * d[1], p[2] + k * d[2]>>

\* An edge that divides into whole units has its points in equal steps.
LEMMA EdgeSteps ==
  ASSUME NEW p \in Point, NEW q \in Point, NEW n \in Nat \ {0},
         (q[1] - p[1]) % n = 0, (q[2] - p[2]) % n = 0
  PROVE  \E d \in Point : /\ q = Along_(p, d, n)
                          /\ \A k \in Nat : Between(p, q, k, n) = Along_(p, d, k)
<1>1. p[1] \in Int /\ p[2] \in Int /\ q[1] \in Int /\ q[2] \in Int /\ q = <<q[1], q[2]>>
  BY DEF Point
<1> DEFINE x == q[1] - p[1]
           y == q[2] - p[2]
<1>2. x \in Int /\ y \in Int /\ q[1] = p[1] + x /\ q[2] = p[2] + y
  BY <1>1
<1>3. x % n = 0 /\ y % n = 0
  OBVIOUS
<1>4. \A k : Between(p, q, k, n) = <<p[1] + (x * k) \div n, p[2] + (y * k) \div n>>
  BY DEF Between
<1> HIDE DEF x, y
<1>5. PICK a \in Int : x = n * a
  BY <1>2, <1>3, WholeIs
<1>6. PICK b \in Int : y = n * b
  BY <1>2, <1>3, WholeIs
<1> DEFINE d == <<a, b>>
<1>7. d \in Point /\ d[1] = a /\ d[2] = b
  BY DEF Point
<1> HIDE DEF d
<1>8. q = Along_(p, d, n)
  BY <1>1, <1>2, <1>5, <1>6, <1>7 DEF Along_
<1>9. ASSUME NEW k \in Nat PROVE Between(p, q, k, n) = Along_(p, d, k)
  <2>1. x * k = (k * a) * n /\ k * a \in Int
    BY <1>5
  <2>2. y * k = (k * b) * n /\ k * b \in Int
    BY <1>6
  <2> DEFINE u == k * a
             v == k * b
  <2>3. x * k = u * n /\ y * k = v * n /\ u \in Int /\ v \in Int
    BY <2>1, <2>2
  <2> HIDE DEF u, v
  <2>4. (x * k) \div n = u /\ (y * k) \div n = v
    BY <2>3, MultipleIs
  <2> QED BY <1>4, <1>7, <2>4 DEF Along_, u, v
<1> QED BY <1>7, <1>8, <1>9

\* Numbers without a factor, and products of them.
LEMMA FactorIs ==
  ASSUME NEW a \in Int, NEW n \in Nat \ {0}, n * a = 0
  PROVE  a = 0
<1>1. (a * n) \div n = a
  BY MultipleIs
<1>2. a * n = 0
  OBVIOUS
<1>3. (0 * n) \div n = 0
  BY MultipleIs
<1>4. 0 * n = 0
  OBVIOUS
<1> QED BY <1>1, <1>2, <1>3, <1>4

\* What the points of an edge are: on it, none but the ends at its ends, and each the same cross
\* product with the next one.
LEMMA StepsAre ==
  ASSUME NEW p \in Point, NEW d \in Point, NEW n \in Nat \ {0}, NEW k \in 0 .. n,
         NEW q, q = Along_(p, d, n), NEW r, r = Along_(p, d, k), NEW t, t = Along_(p, d, k + 1)
  PROVE  /\ r \in Point /\ OnEdge(r, p, q)
         /\ k # 0 /\ k # n /\ r \in {p, q} => p = q
         /\ Gap(r, t) = d[1] * d[1] + d[2] * d[2]
         /\ Gap(p, q) = (n * n) * (d[1] * d[1] + d[2] * d[2])
         /\ Cross(r, t) = Cross(p, d) /\ Cross(p, q) = n * Cross(p, d)
<1> DEFINE x == p[1]
           y == p[2]
           a == d[1]
           b == d[2]
<1>1. x \in Int /\ y \in Int /\ a \in Int /\ b \in Int /\ p = <<x, y>> /\ d = <<a, b>>
  BY DEF Point
<1>2. q = <<x + n * a, y + n * b>> /\ r = <<x + k * a, y + k * b>> /\ t = <<x + (k + 1) * a, y + (k + 1) * b>>
  BY DEF Along_
<1> HIDE DEF x, y, a, b
<1>3. k \in Nat /\ k <= n /\ n - k \in Nat
  OBVIOUS
<1> DEFINE ka == k * a
           kb == k * b
           na == n * a
           nb == n * b
<1>4. ka \in Int /\ kb \in Int /\ na \in Int /\ nb \in Int
  BY <1>1, <1>3
<1>5. ka * nb = kb * na
  <2>1. ka * nb = (k * n) * (a * b) /\ kb * na = (k * n) * (a * b)
    BY <1>1, <1>3
  <2> QED BY <2>1
<1>6. \A c \in Int : (k * c) * (k * c - n * c) <= 0
  <2> TAKE c \in Int
  <2> DEFINE m == n - k
             s == c * c
  <2>1. s \in Nat /\ m \in Nat
    BY <1>3, SquareIs
  <2>2. k * c - n * c = 0 - m * c
    BY <1>3
  <2>3. (k * c) * (0 - m * c) = 0 - (k * m) * s
    <3>1. m \in Int
      BY <2>1
    <3> HIDE DEF m
    <3> QED BY <1>3, <3>1
  <2> HIDE DEF m, s
  <2>4. (k * m) * s \in Nat
    <3>1. k * m \in Nat
      BY <1>3, <2>1, Grows
    <3> QED BY <2>1, <3>1, Grows
  <2> QED BY <2>2, <2>3, <2>4
<1>7. ka * (ka - na) <= 0 /\ kb * (kb - nb) <= 0
  BY <1>1, <1>6
<1>8. r \in Point
  BY <1>1, <1>2, <1>4 DEF Point
<1>9. OnEdge(r, p, q)
  <2>1. /\ r[1] - p[1] = ka /\ r[2] - p[2] = kb /\ q[1] - p[1] = na /\ q[2] - p[2] = nb
        /\ r[1] - q[1] = ka - na /\ r[2] - q[2] = kb - nb
    <3>1. /\ r[1] = x + ka /\ r[2] = y + kb /\ q[1] = x + na /\ q[2] = y + nb /\ p[1] = x /\ p[2] = y
      BY <1>1, <1>2
    <3> HIDE DEF ka, kb, na, nb
    <3> QED BY <1>1, <1>4, <3>1
  <2> HIDE DEF ka, kb, na, nb
  <2> QED BY <1>5, <1>7, <2>1 DEF OnEdge
<1>10. ASSUME k # 0, k # n, r \in {p, q} PROVE p = q
  <2> DEFINE m == n - k
  <2>1. m \in Nat \ {0} /\ k \in Nat \ {0} /\ n = k + m
    BY <1>3, <1>10
  <2> HIDE DEF m
  <2>2. CASE r = p
    <3>1. k * a = 0 /\ k * b = 0
      BY <1>1, <1>2, <2>2
    <3> QED BY <1>1, <1>2, <2>1, <3>1, FactorIs
  <2>3. CASE r = q
    <3>1. m * a = 0 /\ m * b = 0
      <4>1. k * a = n * a /\ k * b = n * b
        BY <1>1, <1>2, <1>4, <2>3
      <4>2. n * a = k * a + m * a /\ n * b = k * b + m * b /\ m * a \in Int /\ m * b \in Int
        BY <1>1, <2>1
      <4> QED BY <1>4, <4>1, <4>2
    <3>2. a = 0 /\ b = 0
      BY <1>1, <2>1, <3>1, FactorIs
    <3> QED BY <1>1, <1>2, <3>2
  <2> QED BY <1>10, <2>2, <2>3
<1>11. Gap(r, t) = a * a + b * b
  <2>1. r[1] - t[1] = 0 - a /\ r[2] - t[2] = 0 - b
    <3>1. (k + 1) * a = ka + a /\ (k + 1) * b = kb + b
      BY <1>1, <1>3
    <3>2. r[1] = x + ka /\ r[2] = y + kb /\ t[1] = x + (ka + a) /\ t[2] = y + (kb + b)
      BY <1>2, <3>1
    <3> HIDE DEF ka, kb
    <3> QED BY <1>1, <1>4, <3>2
  <2>2. (0 - a) * (0 - a) = a * a /\ (0 - b) * (0 - b) = b * b
    BY <1>1
  <2> QED BY <2>1, <2>2 DEF Gap
<1>12. Gap(p, q) = (n * n) * (a * a + b * b)
  <2>1. p[1] - q[1] = 0 - na /\ p[2] - q[2] = 0 - nb
    <3>1. p[1] = x /\ p[2] = y /\ q[1] = x + na /\ q[2] = y + nb
      BY <1>1, <1>2
    <3> HIDE DEF na, nb
    <3> QED BY <1>1, <1>4, <3>1
  <2>2. (0 - na) * (0 - na) = (n * n) * (a * a) /\ (0 - nb) * (0 - nb) = (n * n) * (b * b)
    BY <1>1
  <2>3. (n * n) * (a * a) + (n * n) * (b * b) = (n * n) * (a * a + b * b)
    BY <1>1
  <2> QED BY <2>1, <2>2, <2>3 DEF Gap
<1>13. Cross(p, d) = x * b - a * y
  BY DEF Cross, x, y, a, b
<1>14. Cross(r, t) = x * b - a * y
  <2>1. r[1] = x + k * a /\ r[2] = y + k * b /\ t[1] = x + k * a + a /\ t[2] = y + k * b + b
    BY <1>1, <1>2, <1>3
  <2>2. \A u, v \in Int : (x + u) * (y + v + b) - (x + u + a) * (y + v) = (x * b - a * y) + (u * b - a * v)
    BY <1>1
  <2>3. (k * a) * b - a * (k * b) = 0
    BY <1>1, <1>3
  <2>4. x * b - a * y \in Int
    BY <1>1
  <2> QED BY <1>4, <2>1, <2>2, <2>3, <2>4 DEF Cross
<1>15. Cross(p, q) = n * (x * b - a * y)
  <2>1. Cross(p, q) = x * (y + n * b) - (x + n * a) * y
    BY <1>1, <1>2 DEF Cross
  <2>2. x * (y + n * b) - (x + n * a) * y = n * (x * b - a * y)
    BY <1>1
  <2> QED BY <2>1, <2>2
<1> QED BY <1>8, <1>9, <1>10, <1>11, <1>12, <1>13, <1>14, <1>15 DEF a, b

\* The points of an edge that is cut as often as it is long are no further apart than a swath is wide.
LEMMA StepsShort ==
  ASSUME NEW n \in Nat \ {0}, NEW w \in Nat, NEW s \in Nat, (n * n) * s <= (n * w) * (n * w)
  PROVE  s <= w * w
<1>1. w * w \in Nat /\ (n * w) * (n * w) = (n * n) * (w * w) /\ n * n \in Nat /\ n * n >= 1
  BY SquareIs
<1> DEFINE m == n * n
           v == w * w
           e == s - v
<1> SUFFICES ASSUME s > v PROVE FALSE
  BY <1>1
<1>2. m \in Nat /\ v \in Nat /\ 1 <= m /\ m * s <= m * v
  BY <1>1
<1> HIDE DEF m, v
<1>3. e \in Nat /\ 1 <= e /\ s = v + e
  BY <1>2
<1> HIDE DEF e
<1>4. m * s = m * v + m * e /\ m * v \in Nat /\ m * e \in Nat
  BY <1>2, <1>3
<1>5. 1 * 1 <= m * e
  BY <1>2, <1>3, Grows
<1> QED BY <1>2, <1>4, <1>5

-----------------------------------------------------------------------------
(* Where the edges lie in a ring that is cut.                               *)

\* Places that ascend step by step.
Stairs(at, n) == at \in [1 .. n + 1 -> Nat] /\ \A i \in 1 .. n : at[i] < at[i + 1]

\* A later step is not lower.
LEMMA StairsGrow ==
  ASSUME NEW n \in Nat, NEW at, Stairs(at, n), NEW i \in 1 .. n
  PROVE  \A j \in i + 1 .. n + 1 : at[i + 1] <= at[j]
<1> DEFINE T == {k \in Nat : i + 1 + k <= n + 1 => at[i + 1] <= at[i + 1 + k]}
<1>0. at \in [1 .. n + 1 -> Nat] /\ \A k \in 1 .. n : at[k] < at[k + 1]
  BY DEF Stairs
<1>1. 0 \in T
  <2>1. i + 1 \in 1 .. n + 1 /\ i + 1 + 0 = i + 1
    OBVIOUS
  <2>2. at[i + 1] \in Nat
    BY <1>0, <2>1
  <2> QED BY <2>1, <2>2
<1>2. ASSUME NEW k \in Nat, k \in T PROVE k + 1 \in T
  <2> SUFFICES ASSUME i + 1 + (k + 1) <= n + 1 PROVE at[i + 1] <= at[i + 1 + (k + 1)]
    OBVIOUS
  <2> DEFINE j == i + 1 + k
  <2>1. j \in 1 .. n /\ j \in 1 .. n + 1 /\ j + 1 \in 1 .. n + 1 /\ i + 1 + (k + 1) = j + 1 /\ i + 1 \in 1 .. n + 1 /\ j <= n + 1
    OBVIOUS
  <2>2. at[i + 1] <= at[j]
    BY <1>2, <2>1
  <2> HIDE DEF j
  <2>3. at[j] < at[j + 1] /\ at[j] \in Nat /\ at[j + 1] \in Nat /\ at[i + 1] \in Nat
    BY <1>0, <2>1
  <2>4. at[i + 1] <= at[j + 1]
    BY <2>2, <2>3
  <2> QED BY <2>1, <2>4
<1>3. Nat \subseteq T
  <2> HIDE DEF T
  <2> QED BY <1>1, <1>2, SetOfNatInduction
<1> TAKE j \in i + 1 .. n + 1
<1>4. j - (i + 1) \in Nat /\ i + 1 + (j - (i + 1)) = j /\ j <= n + 1
  OBVIOUS
<1>5. j - (i + 1) \in T
  <2> HIDE DEF T
  <2> QED BY <1>3, <1>4
<1> QED BY <1>4, <1>5

\* Every place is on one of the steps.
LEMMA StairsCover ==
  ASSUME NEW n \in Nat, NEW at, Stairs(at, n), NEW w \in Nat, at[1] <= w, w < at[n + 1]
  PROVE  \E i \in 1 .. n : at[i] <= w /\ w < at[i + 1]
<1> DEFINE T == {k \in Nat : k <= n => at[k + 1] <= w}
<1>0. at \in [1 .. n + 1 -> Nat] /\ \A k \in 1 .. n : at[k] < at[k + 1]
  BY DEF Stairs
<1> SUFFICES ASSUME \A i \in 1 .. n : at[i] <= w => ~(w < at[i + 1]) PROVE FALSE
  OBVIOUS
<1>1. 0 \in T
  OBVIOUS
<1>2. ASSUME NEW k \in 0 .. (n - 1), k \in T PROVE k + 1 \in T
  <2>1. k \in Nat /\ k <= n /\ k + 1 \in 1 .. n /\ (k + 1) + 1 \in 1 .. n + 1
    OBVIOUS
  <2>2. at[k + 1] <= w /\ at[(k + 1) + 1] \in Nat
    BY <1>0, <1>2, <2>1
  <2>3. ~(w < at[(k + 1) + 1])
    BY <2>1, <2>2
  <2>4. at[(k + 1) + 1] <= w
    BY <2>2, <2>3
  <2> QED BY <2>1, <2>4
<1>3. 0 .. n \subseteq T
  <2> HIDE DEF T
  <2> QED BY <1>1, <1>2, SetOfIntervalInduction
<1>4. n \in T /\ n <= n /\ n + 1 \in 1 .. n + 1
  <2>1. n \in 0 .. n /\ n <= n /\ n + 1 \in 1 .. n + 1
    OBVIOUS
  <2> HIDE DEF T
  <2> QED BY <1>3, <2>1
<1>5. at[n + 1] <= w /\ at[n + 1] \in Nat
  BY <1>0, <1>4
<1> QED BY <1>5

\* None of n sequences is empty.
Filled(seqs, n) == \A i \in 1 .. n : Len(seqs[i]) > 0

\* A sequence is made of n others, each after the place that at gives.
Joins(flat, seqs, n, at) ==
  /\ Stairs(at, n) /\ at[1] = 0 /\ Len(flat) = at[n + 1]
  /\ \A i \in 1 .. n : /\ at[i + 1] = at[i] + Len(seqs[i])
                       /\ \A k \in 1 .. Len(seqs[i]) : flat[at[i] + k] = seqs[i][k]

\* Where every one of several sequences comes to lie in the one made of them.
LEMMA FlattenAt ==
  ASSUME NEW A, NEW n \in Nat, NEW seqs \in Seq(Seq(A)), Len(seqs) = n, Filled(seqs, n)
  PROVE  FlattenSeq(seqs) \in Seq(A) /\ \E at : Joins(FlattenSeq(seqs), seqs, n, at)
<1>0. \A i \in 1 .. n : Len(seqs[i]) > 0
  BY DEF Filled
<1>1. PICK f \in [0 .. n -> Seq(A)] : /\ f[0] = << >> /\ FlattenSeq(seqs) = f[n]
                                      /\ \A i \in 1 .. n : f[i] = f[i - 1] \o seqs[i]
  BY FlattenUnfold
<1>2. \A i \in 1 .. n : seqs[i] \in Seq(A) /\ Len(seqs[i]) \in Nat
  BY ElementOfSeq, LenProperties
<1> DEFINE at == [i \in 1 .. n + 1 |-> Len(f[i - 1])]
<1>3. /\ at \in [1 .. n + 1 -> Nat] /\ \A i \in 1 .. n + 1 : at[i] = Len(f[i - 1])
  <2>1. \A i \in 1 .. n + 1 : i - 1 \in 0 .. n
    OBVIOUS
  <2>2. \A i \in 1 .. n + 1 : Len(f[i - 1]) \in Nat
    BY <1>1, <2>1, LenProperties
  <2> QED BY <2>2
<1> HIDE DEF at
<1>4. ASSUME NEW i \in 1 .. n
      PROVE  /\ at[i + 1] = at[i] + Len(seqs[i]) /\ at[i] \in Nat /\ at[i + 1] \in Nat
             /\ \A k \in 1 .. at[i] : f[i][k] = f[i - 1][k]
             /\ \A k \in 1 .. Len(seqs[i]) : f[i][at[i] + k] = seqs[i][k]
  <2> DEFINE s == f[i - 1]
             t == seqs[i]
             m == Len(s)
             l == Len(t)
  <2>1. i - 1 \in 0 .. n /\ i \in 0 .. n /\ i \in 1 .. n + 1 /\ i + 1 \in 1 .. n + 1 /\ (i + 1) - 1 = i
    OBVIOUS
  <2>2. s \in Seq(A) /\ t \in Seq(A) /\ f[i] = s \o t /\ at[i] = m /\ at[i + 1] = Len(f[i])
    BY <1>1, <1>2, <1>3, <2>1
  <2> HIDE DEF s, t
  <2>3. m \in Nat /\ l \in Nat
    BY <2>2, LenProperties
  <2>4. /\ Len(s \o t) = m + l
        /\ \A k \in 1 .. m + l : (s \o t)[k] = IF k <= m THEN s[k] ELSE t[k - m]
    BY <2>2, ConcatProperties
  <2> HIDE DEF m, l
  <2>5. \A k \in 1 .. m : k \in 1 .. m + l /\ k <= m
    BY <2>3
  <2>6. \A k \in 1 .. l : m + k \in 1 .. m + l /\ ~(m + k <= m) /\ (m + k) - m = k
    BY <2>3
  <2>7. at[i + 1] = at[i] + l /\ at[i] \in Nat /\ at[i + 1] \in Nat
    BY <1>3, <2>1, <2>2, <2>4
  <2>8. \A k \in 1 .. m : f[i][k] = s[k]
    BY <2>2, <2>4, <2>5
  <2>9. \A k \in 1 .. l : f[i][m + k] = t[k]
    BY <2>2, <2>4, <2>6
  <2>10. \A k \in 1 .. l : f[i][at[i] + k] = t[k]
    BY <2>2, <2>9
  <2>11. \A k \in 1 .. at[i] : f[i][k] = s[k]
    BY <2>2, <2>8
  <2> QED BY <2>7, <2>10, <2>11 DEF s, t, l
<1>5. at[1] = 0
  <2>1. 1 \in 1 .. n + 1 /\ 1 - 1 = 0 /\ Len(<< >>) = 0
    OBVIOUS
  <2> QED BY <1>1, <1>3, <2>1
<1>6. Stairs(at, n)
  <2>1. ASSUME NEW i \in 1 .. n PROVE at[i] < at[i + 1]
    <3>1. at[i + 1] = at[i] + Len(seqs[i]) /\ at[i] \in Nat
      BY <1>4
    <3>2. Len(seqs[i]) \in Nat /\ Len(seqs[i]) > 0
      BY <1>0, <1>2
    <3> DEFINE l == Len(seqs[i])
    <3> HIDE DEF l
    <3> QED BY <3>1, <3>2 DEF l
  <2> QED BY <1>3, <2>1 DEF Stairs
<1> DEFINE Good(i) == \A j \in 1 .. i : \A k \in 1 .. Len(seqs[j]) : f[i][at[j] + k] = seqs[j][k]
           T == {i \in Nat : i <= n => Good(i)}
<1>7. 0 .. n \subseteq T
  <2>1. 0 \in T
    OBVIOUS
  <2>2. ASSUME NEW i \in 0 .. (n - 1), i \in T PROVE i + 1 \in T
    <3> DEFINE m == i + 1
    <3>1. m \in 1 .. n /\ m - 1 = i /\ i \in Nat /\ i <= n /\ m \in Nat
      OBVIOUS
    <3>2. Good(i)
      BY <2>2, <3>1
    <3>3. \A j \in 1 .. m : j \in 1 .. i \/ j = m
      BY <3>1
    <3>3a. i = m - 1
      BY <3>1
    <3> HIDE DEF m
    <3>4. ASSUME NEW j \in 1 .. m, NEW k \in 1 .. Len(seqs[j]) PROVE f[m][at[j] + k] = seqs[j][k]
      <4>1. CASE j = m
        BY <1>4, <3>1, <4>1
      <4>2. CASE j # m
        <5>1. j \in 1 .. i /\ j \in 1 .. n /\ m \in j + 1 .. n + 1
          BY <3>1, <3>3, <4>2
        <5>2. at[j + 1] <= at[m]
          BY <1>6, <5>1, StairsGrow
        <5>3. at[j + 1] = at[j] + Len(seqs[j]) /\ at[j] \in Nat /\ at[j + 1] \in Nat /\ at[m] \in Nat /\ Len(seqs[j]) \in Nat
          BY <1>2, <1>4, <3>1, <5>1
        <5> DEFINE l == Len(seqs[j])
        <5>3a. k \in 1 .. l /\ l \in Nat /\ at[j + 1] = at[j] + l
          BY <5>3
        <5> HIDE DEF l
        <5>4. at[j] + k \in 1 .. at[m]
          <6> DEFINE u == at[j]
                     v == at[m]
          <6>1. u \in Nat /\ v \in Nat /\ u + l <= v
            BY <5>2, <5>3, <5>3a
          <6> HIDE DEF u, v
          <6>2. u + k \in 1 .. v
            BY <5>3a, <6>1
          <6> QED BY <6>2 DEF u, v
        <5>5. f[m][at[j] + k] = f[m - 1][at[j] + k]
          BY <1>4, <3>1, <5>4
        <5>6. f[i][at[j] + k] = seqs[j][k]
          BY <3>2, <5>1 
        <5> QED BY <3>3a, <5>5, <5>6
      <4> QED BY <4>1, <4>2
    <3>5. Good(m)
      BY <3>4
    <3> HIDE DEF Good
    <3> QED BY <3>1, <3>5 DEF m
  <2> HIDE DEF T
  <2> QED BY <2>1, <2>2, SetOfIntervalInduction
<1>8. Good(n)
  <2>1. n \in 0 .. n /\ n <= n
    OBVIOUS
  <2>2. n \in T
    <3> HIDE DEF T
    <3> QED BY <1>7, <2>1
  <2> HIDE DEF Good
  <2> QED BY <2>1, <2>2
<1>9. Len(FlattenSeq(seqs)) = at[n + 1] /\ FlattenSeq(seqs) \in Seq(A)
  <2>1. n + 1 \in 1 .. n + 1 /\ (n + 1) - 1 = n /\ n \in 0 .. n
    OBVIOUS
  <2> QED BY <1>1, <1>3, <2>1
<1>10. \A i \in 1 .. n : \A k \in 1 .. Len(seqs[i]) : FlattenSeq(seqs)[at[i] + k] = seqs[i][k]
  BY <1>1, <1>8
<1>11. \A i \in 1 .. n : at[i + 1] = at[i] + Len(seqs[i])
  BY <1>4
<1>12. Joins(FlattenSeq(seqs), seqs, n, at)
  BY <1>5, <1>6, <1>9, <1>10, <1>11 DEF Joins
<1> QED BY <1>9, <1>12

\* The points that cut an edge lead from one of its ends to the other.
LEMMA EdgeEnds ==
  ASSUME NEW p \in Point, NEW q \in Point, NEW n, n = Pieces(p, q, Width)
  PROVE  /\ n \in Nat \ {0} /\ \A k \in 0 .. n : Between(p, q, k, n) \in Point
         /\ Between(p, q, 0, n) = p /\ Between(p, q, n, n) = q
<1>1. Width \in Nat \ {0}
  BY HeadlandRingsAssumption
<1>2. n \in Nat \ {0} /\ (n * Width) * (n * Width) >= Gap(p, q)
  BY <1>1, PiecesAre
<1> DEFINE w == Width
<1>3. w \in Nat /\ (n * w) * (n * w) >= Gap(p, q)
  BY <1>1, <1>2
<1> HIDE DEF w
<1>4. /\ \A k \in 0 .. n : Between(p, q, k, n) \in Point
      /\ Between(p, q, 0, n) = p /\ Between(p, q, n, n) = q
      /\ \A k \in 0 .. n - 1 :
           Gap(Between(p, q, k, n), Between(p, q, k + 1, n)) <= (w + 2) * (w + 2)
  BY <1>2, <1>3, BetweenAre
<1> QED BY <1>2, <1>4

\* Where the edges of a ring lie in the ring that is cut into pieces.
Laid(cut, ring, n, at) ==
  /\ cut \in AnyWalk /\ Stairs(at, n) /\ at[1] = 1 /\ at[n + 1] = Len(cut)
  /\ \A i \in 1 .. n :
       LET m == Pieces(ring[i], ring[i + 1], Width)
       IN  /\ m \in Nat \ {0} /\ at[i + 1] = at[i] + m
           /\ \A k \in 0 .. m : cut[at[i] + k] = Between(ring[i], ring[i + 1], k, m)

\* Every edge has its place.
LEMMA DensifyAt ==
  ASSUME NEW ring \in AnyWalk, NEW n \in Nat, Len(ring) = n + 1
  PROVE  \E at : Laid(Densify(ring), ring, n, at)
<1> DEFINE n_(i) == Pieces(ring[i], ring[i + 1], Width)
           Edge_(i) == [k \in 1 .. n_(i) |-> Between(ring[i], ring[i + 1], k - 1, n_(i))]
           edges == [i \in 1 .. n |-> Edge_(i)]
           flat == FlattenSeq(edges)
           last == ring[n + 1]
           d == Densify(ring)
<1>1. ring \in Seq(Point) /\ n > 0 /\ \A i \in 1 .. n + 1 : ring[i] \in Point
  <2>1. ring \in Seq(Point) /\ Len(ring) > 1
    BY DEF AnyWalk
  <2> QED BY <2>1, ElementOfSeq
<1>2. d = Append(flat, last) /\ d \in AnyWalk
  <2>1. d = Append(FlattenSeq([i \in 1 .. Len(ring) - 1 |-> Edge_(i)]), ring[Len(ring)])
    BY DEF Densify
  <2>2. Len(ring) - 1 = n
    OBVIOUS
  <2> HIDE DEF d, Edge_
  <2> QED BY <2>1, <2>2, DensifyIs DEF d
<1>3. ASSUME NEW i \in 1 .. n
      PROVE  /\ Edge_(i) \in Seq(Point) /\ Len(Edge_(i)) = n_(i) /\ n_(i) \in Nat \ {0}
             /\ \A k \in 1 .. n_(i) : Edge_(i)[k] = Between(ring[i], ring[i + 1], k - 1, n_(i))
             /\ Between(ring[i], ring[i + 1], 0, n_(i)) = ring[i]
             /\ Between(ring[i], ring[i + 1], n_(i), n_(i)) = ring[i + 1]
  <2> DEFINE p == ring[i]
             q == ring[i + 1]
             m == Pieces(p, q, Width)
             e == [k \in 1 .. m |-> Between(p, q, k - 1, m)]
             w == Width
  <2>0. e = Edge_(i) /\ m = n_(i)
    OBVIOUS
  <2>1. p \in Point /\ q \in Point
    <3>1. i \in 1 .. n + 1 /\ i + 1 \in 1 .. n + 1
      OBVIOUS
    <3> QED BY <1>1, <3>1
  <2> HIDE DEF p, q, Edge_, n_
  <2>5. /\ m \in Nat \ {0} /\ \A k \in 0 .. m : Between(p, q, k, m) \in Point
        /\ Between(p, q, 0, m) = p /\ Between(p, q, m, m) = q
    <3>1. m = Pieces(p, q, Width)
      OBVIOUS
    <3> HIDE DEF m
    <3> QED BY <2>1, <3>1, EdgeEnds
  <2> HIDE DEF m
  <2>4. m \in Nat \ {0}
    BY <2>5
  <2>6. \A k \in 1 .. m : k - 1 \in 0 .. m
    BY <2>4
  <2>7. e \in [1 .. m -> Point] /\ \A k \in 1 .. m : e[k] = Between(p, q, k - 1, m)
    BY <2>5, <2>6
  <2> HIDE DEF e
  <2>8. e \in Seq(Point) /\ Len(e) = m
    <3>1. \A S : \A j \in Nat : \A h \in [1 .. j -> S] : h \in Seq(S) /\ Len(h) = j
      OBVIOUS
    <3> QED BY <2>4, <2>7, <3>1
  <2> QED BY <2>0, <2>4, <2>5, <2>7, <2>8 DEF p, q
<1> HIDE DEF Edge_, n_
<1>4. edges \in Seq(Seq(Point)) /\ Len(edges) = n /\ \A i \in 1 .. n : edges[i] = Edge_(i)
  <2>1. edges \in [1 .. n -> Seq(Point)] /\ \A i \in 1 .. n : edges[i] = Edge_(i)
    BY <1>3
  <2> HIDE DEF edges
  <2>2. \A S : \A j \in Nat : \A h \in [1 .. j -> S] : h \in Seq(S) /\ Len(h) = j
    OBVIOUS
  <2> QED BY <2>1, <2>2
<1> HIDE DEF edges
<1>5. \A i \in 1 .. n : Len(edges[i]) = n_(i) /\ Len(edges[i]) > 0
  BY <1>3, <1>4
<1>6. PICK o : /\ Stairs(o, n) /\ o[1] = 0 /\ Len(flat) = o[n + 1] /\ flat \in Seq(Point)
               /\ \A i \in 1 .. n : /\ o[i + 1] = o[i] + Len(edges[i])
                                    /\ \A k \in 1 .. Len(edges[i]) : flat[o[i] + k] = edges[i][k]
  <2>1. Filled(edges, n)
    BY <1>5 DEF Filled
  <2>2. edges \in Seq(Seq(Point)) /\ Len(edges) = n
    BY <1>4
  <2>3. flat \in Seq(Point) /\ \E o : Joins(flat, edges, n, o)
    BY <2>1, <2>2, FlattenAt
  <2> HIDE DEF flat
  <2> QED BY <2>3 DEF Joins
<1> HIDE DEF flat, last, d
<1>7. o \in [1 .. n + 1 -> Nat] /\ \A i \in 1 .. n : o[i] < o[i + 1]
  BY <1>6 DEF Stairs
<1>8. ASSUME NEW i \in 1 .. n
      PROVE  /\ o[i + 1] = o[i] + n_(i) /\ o[i] \in Nat
             /\ \A k \in 1 .. n_(i) : flat[o[i] + k] = Between(ring[i], ring[i + 1], k - 1, n_(i))
  <2>1. o[i] \in Nat
    <3>1. i \in 1 .. n + 1
      OBVIOUS
    <3> QED BY <1>7, <3>1
  <2>2. Len(edges[i]) = n_(i) /\ edges[i] = Edge_(i)
    BY <1>4, <1>5
  <2>3. o[i + 1] = o[i] + n_(i)
    BY <1>6, <2>2
  <2>4. \A k \in 1 .. n_(i) : flat[o[i] + k] = Edge_(i)[k]
    <3>1. \A k \in 1 .. Len(edges[i]) : flat[o[i] + k] = edges[i][k]
      BY <1>6
    <3> QED BY <2>2, <3>1
  <2>5. \A k \in 1 .. n_(i) : Edge_(i)[k] = Between(ring[i], ring[i + 1], k - 1, n_(i))
    BY <1>3
  <2> QED BY <2>1, <2>3, <2>4, <2>5
<1>9. last \in Point
  <2>1. n + 1 \in 1 .. n + 1
    OBVIOUS
  <2> QED BY <1>1, <2>1 DEF last
<1> DEFINE N == o[n + 1]
<1>10. N \in Nat /\ Len(d) = N + 1 /\ d[N + 1] = last /\ \A k \in 1 .. N : d[k] = flat[k]
  <2>1. N \in Nat /\ Len(flat) = N
    <3>1. n + 1 \in 1 .. n + 1
      OBVIOUS
    <3> QED BY <1>6, <1>7, <3>1
  <2> HIDE DEF N
  <2> QED BY <1>2, <1>6, <1>9, <2>1, AppendProperties
<1> HIDE DEF N
<1> DEFINE at == [i \in 1 .. n + 1 |-> o[i] + 1]
<1>11. at \in [1 .. n + 1 -> Nat] /\ \A i \in 1 .. n + 1 : at[i] = o[i] + 1
  BY <1>7
<1> HIDE DEF at
<1>12. \A i \in 1 .. n : i \in 1 .. n + 1 /\ i + 1 \in 1 .. n + 1
  OBVIOUS
<1>13. Stairs(at, n)
  <2>1. ASSUME NEW i \in 1 .. n PROVE at[i] < at[i + 1]
    <3>1. at[i] = o[i] + 1 /\ at[i + 1] = o[i + 1] + 1 /\ o[i] \in Nat /\ o[i + 1] \in Nat /\ o[i] < o[i + 1]
      BY <1>7, <1>11, <1>12
    <3> QED BY <3>1
  <2> QED BY <1>11, <2>1 DEF Stairs
<1>14. at[1] = 1 /\ at[n + 1] = Len(d)
  <2>1. 1 \in 1 .. n + 1 /\ n + 1 \in 1 .. n + 1
    BY <1>1
  <2> QED BY <1>6, <1>10, <1>11, <2>1 DEF N
\* The first point of an edge is that of the edge, or of the last one the end.
<1>15. ASSUME NEW i \in 1 .. n + 1 PROVE d[at[i]] = ring[i]
  <2>1. CASE i = n + 1
    <3>1. at[i] = N + 1
      BY <1>11, <2>1 DEF N
    <3> QED BY <1>10, <2>1, <3>1 DEF last
  <2>2. CASE i # n + 1
    <3>1. i \in 1 .. n /\ 1 - 1 = 0
      BY <2>2
    <3>2. n_(i) \in Nat \ {0}
      BY <1>3, <3>1
    <3>3. 1 \in 1 .. n_(i)
      BY <3>2
    <3>4. flat[o[i] + 1] = ring[i]
      BY <1>3, <1>8, <3>1, <3>3
    <3>5. o[i + 1] <= N /\ o[i] < o[i + 1] /\ o[i] \in Nat /\ o[i + 1] \in Nat
      <4>1. n + 1 \in i + 1 .. n + 1
        BY <3>1
      <4> QED BY <1>6, <1>7, <1>12, <3>1, <4>1, StairsGrow DEF N
    <3>6. o[i] + 1 \in 1 .. N
      BY <1>10, <3>5
    <3> QED BY <1>10, <1>11, <3>4, <3>6
  <2> QED BY <2>1, <2>2
<1>16. ASSUME NEW i \in 1 .. n
       PROVE  /\ at[i + 1] = at[i] + n_(i)
              /\ \A k \in 0 .. n_(i) : d[at[i] + k] = Between(ring[i], ring[i + 1], k, n_(i))
  <2> DEFINE m == n_(i)
  <2>1. /\ m \in Nat \ {0} /\ o[i + 1] = o[i] + m /\ o[i] \in Nat
        /\ \A k \in 1 .. m : flat[o[i] + k] = Between(ring[i], ring[i + 1], k - 1, m)
        /\ Between(ring[i], ring[i + 1], m, m) = ring[i + 1]
    BY <1>3, <1>8
  <2> HIDE DEF m
  <2>2. at[i] = o[i] + 1 /\ at[i + 1] = o[i + 1] + 1
    BY <1>11, <1>12
  <2> DEFINE u == o[i]
  <2>3. at[i + 1] = at[i] + m /\ o[i + 1] \in Nat
    <3>1. u \in Nat /\ o[i + 1] = u + m /\ at[i] = u + 1 /\ at[i + 1] = (u + m) + 1
      BY <2>1, <2>2
    <3> HIDE DEF u
    <3>2. u + m \in Nat /\ (u + m) + 1 = (u + 1) + m
      BY <2>1, <3>1
    <3> QED BY <3>1, <3>2
  <2>4. o[i + 1] <= N
    <3>1. n + 1 \in i + 1 .. n + 1
      OBVIOUS
    <3> QED BY <1>6, <3>1, StairsGrow DEF N
  <2>5. ASSUME NEW k \in 0 .. m PROVE d[at[i] + k] = Between(ring[i], ring[i + 1], k, m)
    <3>1. CASE k = m
      <4>1. d[at[i + 1]] = ring[i + 1]
        BY <1>12, <1>15
      <4> QED BY <2>1, <2>3, <3>1, <4>1
    <3>2. CASE k # m
      <4>1. k + 1 \in 1 .. m /\ (k + 1) - 1 = k
        BY <2>1, <3>2
      <4>2. at[i] + k = o[i] + (k + 1) /\ o[i] + (k + 1) \in 1 .. N
        <5>1. u \in Nat /\ u + m <= N /\ at[i] = u + 1 /\ N \in Nat
          BY <1>10, <2>1, <2>2, <2>4
        <5> HIDE DEF u, N
        <5>2. at[i] + k = u + (k + 1) /\ u + (k + 1) \in 1 .. N
          <6>1. k \in Nat /\ k + 1 <= m /\ m \in Nat
            BY <2>1, <4>1
          <6> QED BY <5>1, <6>1
        <5> QED BY <5>2 DEF u
      <4>3. flat[o[i] + (k + 1)] = Between(ring[i], ring[i + 1], k, m)
        BY <2>1, <4>1
      <4> QED BY <1>10, <4>2, <4>3
    <3> QED BY <3>1, <3>2
  <2> QED BY <2>3, <2>5 DEF m
<1>17. ASSUME NEW i \in 1 .. n
       PROVE  LET m == Pieces(ring[i], ring[i + 1], Width)
              IN  /\ m \in Nat \ {0} /\ at[i + 1] = at[i] + m
                  /\ \A k \in 0 .. m : d[at[i] + k] = Between(ring[i], ring[i + 1], k, m)
  BY <1>3, <1>16 DEF n_
<1>18. Laid(d, ring, n, at)
  BY <1>2, <1>13, <1>14, <1>17 DEF Laid
<1> QED BY <1>18 DEF d

-----------------------------------------------------------------------------
(* What a ring encloses.                                                    *)

\* The sums that make up an area.
Summed(ring, n, f) ==
  /\ f \in [0 .. n -> Int] /\ f[0] = 0 /\ Area2(ring) = f[n]
  /\ \A i \in 1 .. n : f[i] = f[i - 1] + Cross(ring[i], ring[i + 1])

\* A cross product is a whole number, none of a point with itself, and changes sign when turned.
LEMMA CrossIs ==
  ASSUME NEW p \in Point, NEW q \in Point
  PROVE  Cross(p, q) \in Int /\ Cross(q, p) = 0 - Cross(p, q)
<1>1. p[1] \in Int /\ p[2] \in Int /\ q[1] \in Int /\ q[2] \in Int
  BY DEF Point
<1> DEFINE a == p[1]
           b == p[2]
           x == q[1]
           y == q[2]
<1>2. Cross(p, q) = a * y - x * b /\ Cross(q, p) = x * b - a * y
  BY DEF Cross
<1>3. a \in Int /\ b \in Int /\ x \in Int /\ y \in Int
  BY <1>1
<1> HIDE DEF a, b, x, y
<1>4. a * y \in Int /\ x * b \in Int
  BY <1>3
<1> QED BY <1>2, <1>4

\* The area of a ring, edge by edge.
LEMMA AreaUnfold ==
  ASSUME NEW ring \in AnyWalk, NEW N \in Nat, Len(ring) = N + 1
  PROVE  \E f : Summed(ring, N, f)
<1> DEFINE M == Len(ring) - 1
           V == Int
           start == 0
           Next_(c, i) == c + ring[i][1] * ring[i + 1][2] - ring[i + 1][1] * ring[i][2]
           move == [p \in (1 .. M) \X V |-> Next_(p[2], p[1])]
           Is(g) == g = [i \in 0 .. M |-> IF i = 0 THEN start ELSE Next_(g[i - 1], i)]
           Upto == CHOOSE g : Is(g)
<1>1. M \in Nat /\ M = N /\ start \in V /\ \A i \in 1 .. M + 1 : ring[i] \in Point
  <2>1. ring \in Seq(Point)
    BY DEF AnyWalk
  <2> QED BY <2>1, ElementOfSeq
<1>2. ASSUME NEW i \in 1 .. M, NEW c \in V
      PROVE  Next_(c, i) \in V /\ Next_(c, i) = c + Cross(ring[i], ring[i + 1])
  <2> DEFINE p == ring[i]
             q == ring[i + 1]
             a == p[1] * q[2]
             b == q[1] * p[2]
  <2>1. p \in Point /\ q \in Point
    <3>1. i \in 1 .. M + 1 /\ i + 1 \in 1 .. M + 1
      BY <1>1
    <3> HIDE DEF M
    <3> QED BY <1>1, <3>1
  <2>2. Next_(c, i) = c + a - b /\ Cross(p, q) = a - b
    BY DEF Cross
  <2>3. a \in Int /\ b \in Int
    <3>1. p[1] \in Int /\ p[2] \in Int /\ q[1] \in Int /\ q[2] \in Int
      BY <2>1 DEF Point
    <3> HIDE DEF p, q
    <3> QED BY <3>1
  <2> HIDE DEF a, b, Next_
  <2>4. Next_(c, i) \in V /\ Next_(c, i) = c + Cross(p, q)
    BY <2>2, <2>3
  <2> QED BY <2>4
<1> HIDE DEF start, Next_
<1>3. move \in [(1 .. M) \X V -> V]
  <2> HIDE DEF M, V
  <2> QED BY <1>2
<1>4. IsStepwise(V, M, start, move)
  <2> HIDE DEF M, V, move
  <2> QED BY <1>1, <1>3 DEF IsStepwise
<1>5. PICK f \in [0 .. M -> V] : f[0] = start /\ \A n \in 1 .. M : f[n] = move[<<n, f[n - 1]>>]
  <2> HIDE DEF M, V, move
  <2> QED BY <1>4, StepwiseRecursion
<1>6. \A n \in 1 .. M : f[n] = Next_(f[n - 1], n)
  <2> TAKE n \in 1 .. M
  <2>1. f[n - 1] \in V
    <3>1. n - 1 \in 0 .. M
      BY <1>1
    <3> HIDE DEF M, V
    <3> QED BY <3>1
  <2> HIDE DEF M, V
  <2> QED BY <1>5, <2>1
<1>7. Is(f)
  <2> HIDE DEF M, V
  <2>1. \A n \in 0 .. M : n = 0 \/ n \in 1 .. M
    BY <1>1
  <2> QED BY <1>5, <1>6, <2>1
<1>8. Is(Upto)
  <2> HIDE DEF Is
  <2> QED BY <1>7
<1>9. /\ Upto[0] = start /\ DOMAIN Upto = 0 .. M
      /\ \A n \in 1 .. M : Upto[n] = Next_(Upto[n - 1], n)
  <2> HIDE DEF Upto, M
  <2>1. \A n \in 0 .. M : Upto[n] = IF n = 0 THEN start ELSE Next_(Upto[n - 1], n)
    BY <1>8, Zenon
  <2>2. DOMAIN Upto = 0 .. M
    BY <1>8, Zenon
  <2>3. 0 \in 0 .. M /\ \A n \in 1 .. M : n \in 0 .. M /\ n # 0
    BY <1>1
  <2> QED BY <2>1, <2>2, <2>3, Zenon
<1>10. \A n \in 0 .. M : Upto[n] \in V
  <2>1. \A n \in 1 .. M : Upto[n - 1] \in V => Upto[n] = move[<<n, Upto[n - 1]>>]
    <3> HIDE DEF M, V, Upto
    <3> QED BY <1>9
  <2>2. IsStepwise(V, M, start, move) /\ Upto[0] = start
    BY <1>4, <1>9
  <2> HIDE DEF M, V, move, Upto
  <2> QED BY <2>1, <2>2, StepwiseType
<1>11. Upto \in [0 .. M -> V]
  <2>1. Upto = [n \in 0 .. M |-> Upto[n]]
    <3> HIDE DEF Upto
    <3> QED BY <1>8
  <2> HIDE DEF M, V, Upto
  <2> QED BY <1>10, <2>1
<1>12. Area2(ring) = Upto[M]
  BY Zenon DEF start, Next_, Area2
<1>13. \A n \in 1 .. M : Upto[n] = Upto[n - 1] + Cross(ring[n], ring[n + 1])
  <2> HIDE DEF Upto, V
  <2> TAKE n \in 1 .. M
  <2>1. n - 1 \in 0 .. M
    BY <1>1
  <2> HIDE DEF M
  <2>2. Upto[n - 1] \in V
    BY <1>10, <2>1
  <2> QED BY <1>2, <1>9, <2>2
<1> HIDE DEF Upto, M
<1>14. Summed(ring, M, Upto)
  BY <1>9, <1>11, <1>12, <1>13 DEF start, Summed
<1> QED BY <1>1, <1>14

\* A ring the other way round encloses as much, with the other sign.
LEMMA AreaTurned ==
  ASSUME NEW ring \in AnyWalk, NEW N \in Nat, Len(ring) = N + 1
  PROVE  /\ Turned(ring) \in AnyWalk /\ Len(Turned(ring)) = N + 1
         /\ \A i \in 1 .. N + 1 : Turned(ring)[i] = ring[N + 2 - i]
         /\ Area2(ring) \in Int /\ Area2(Turned(ring)) = 0 - Area2(ring)
<1> DEFINE t == Turned(ring)
<1>1. t \in AnyWalk
  BY TurnedIs
<1>2. DOMAIN ring = 1 .. N + 1 /\ \A i \in 1 .. N + 1 : ring[i] \in Point
  <2>1. ring \in Seq(Point)
    BY DEF AnyWalk
  <2> QED BY <2>1, ElementOfSeq, LenProperties
<1>3. t = [i \in 1 .. N + 1 |-> ring[N + 1 + 1 - i]]
  BY <1>2 DEF Turned
<1>4. \A i \in 1 .. N + 1 : t[i] = ring[N + 2 - i]
  <2>1. \A i \in 1 .. N + 1 : N + 1 + 1 - i = N + 2 - i
    OBVIOUS
  <2> QED BY <1>3, <2>1
<1>5. Len(t) = N + 1
  <2>1. DOMAIN t = 1 .. N + 1
    BY <1>3
  <2> HIDE DEF t
  <2>2. t \in Seq(Point) /\ Len(t) \in Nat /\ DOMAIN t = 1 .. Len(t)
    BY <1>1, LenProperties DEF AnyWalk
  <2> QED BY <2>1, <2>2
<1> HIDE DEF t
<1>6. PICK f : Summed(ring, N, f)
  BY AreaUnfold
<1>7. PICK h : Summed(t, N, h)
  BY <1>1, <1>5, AreaUnfold
<1>8. /\ f \in [0 .. N -> Int] /\ f[0] = 0 /\ Area2(ring) = f[N]
      /\ \A i \in 1 .. N : f[i] = f[i - 1] + Cross(ring[i], ring[i + 1])
      /\ h \in [0 .. N -> Int] /\ h[0] = 0 /\ Area2(t) = h[N]
      /\ \A i \in 1 .. N : h[i] = h[i - 1] + Cross(t[i], t[i + 1])
  BY <1>6, <1>7 DEF Summed
<1> DEFINE T == {k \in Nat : k <= N => h[k] = f[N - k] - f[N]}
<1>9. 0 \in T
  <2>1. N - 0 = N /\ N \in 0 .. N
    OBVIOUS
  <2>2. f[N] \in Int
    BY <1>8, <2>1
  <2>3. f[N] - f[N] = 0
    BY <2>2
  <2> QED BY <1>8, <2>1, <2>3
<1>10. ASSUME NEW k \in 0 .. (N - 1), k \in T PROVE k + 1 \in T
  <2> DEFINE i == k + 1
             j == N - k
             p == ring[j]
             q == ring[j + 1]
  <2>1. /\ i \in 1 .. N /\ i - 1 = k /\ j \in 1 .. N /\ N - i = j - 1 /\ j \in 0 .. N /\ j - 1 \in 0 .. N
        /\ N + 2 - i = j + 1 /\ N + 2 - (i + 1) = j /\ i \in 1 .. N + 1 /\ i + 1 \in 1 .. N + 1
        /\ j \in 1 .. N + 1 /\ j + 1 \in 1 .. N + 1 /\ N \in 0 .. N /\ k <= N /\ k \in Nat /\ i \in Nat
    OBVIOUS
  <2>2. h[k] = f[j] - f[N]
    BY <1>10, <2>1
  <2> HIDE DEF i, j
  <2>3. p \in Point /\ q \in Point /\ t[i] = q /\ t[i + 1] = p
    BY <1>2, <1>4, <2>1
  <2>4. h[i] = h[k] + Cross(q, p) /\ f[j] = f[j - 1] + Cross(p, q)
    BY <1>8, <2>1, <2>3
  <2> HIDE DEF p, q
  <2>5. Cross(p, q) \in Int /\ Cross(q, p) = 0 - Cross(p, q)
    BY <2>3, CrossIs
  <2>6. f[N] \in Int /\ f[j - 1] \in Int /\ f[j] \in Int
    BY <1>8, <2>1
  <2>7. h[i] = f[j - 1] - f[N]
    BY <2>2, <2>4, <2>5, <2>6
  <2>8. h[i] = f[N - i] - f[N]
    BY <2>1, <2>7
  <2> QED BY <2>1, <2>8 DEF i
<1>11. N \in T /\ N <= N /\ N - N = 0 /\ N \in 0 .. N
  <2>1. N <= N /\ N - N = 0 /\ N \in 0 .. N
    OBVIOUS
  <2> HIDE DEF T
  <2>2. 0 .. N \subseteq T
    BY <1>9, <1>10, SetOfIntervalInduction
  <2> QED BY <2>1, <2>2
<1>12. h[N] = f[0] - f[N] /\ f[N] \in Int
  BY <1>8, <1>11
<1>13. Area2(ring) \in Int /\ Area2(t) = 0 - Area2(ring)
  BY <1>8, <1>12
<1> QED BY <1>1, <1>4, <1>5, <1>13 DEF t

\* A walk around a closed ring of N points, from one s points after its first.
Circled(walk, ring, N, s) ==
  /\ walk \in AnyWalk /\ Len(walk) = N + 1
  /\ \A k \in 1 .. N + 1 : walk[k] = ring[((s + k - 1) % N) + 1]

\* It encloses as much as the ring does.
LEMMA AreaCircled ==
  ASSUME NEW ring \in AnyWalk, NEW N \in Nat \ {0}, Len(ring) = N + 1, Closed(ring),
         NEW s \in 0 .. N - 1, NEW walk, Circled(walk, ring, N, s)
  PROVE  Area2(walk) = Area2(ring)
<1>1. /\ walk \in AnyWalk /\ Len(walk) = N + 1
      /\ \A k \in 1 .. N + 1 : walk[k] = ring[((s + k - 1) % N) + 1]
  BY DEF Circled
<1>2. ring[1] = ring[N + 1] /\ N \in Nat
  BY DEF Closed
<1>3. PICK f : Summed(ring, N, f)
  BY <1>2, AreaUnfold
<1>4. PICK g : Summed(walk, N, g)
  BY <1>1, <1>2, AreaUnfold
<1>5. /\ f \in [0 .. N -> Int] /\ f[0] = 0 /\ Area2(ring) = f[N]
      /\ \A i \in 1 .. N : f[i] = f[i - 1] + Cross(ring[i], ring[i + 1])
      /\ g \in [0 .. N -> Int] /\ g[0] = 0 /\ Area2(walk) = g[N]
      /\ \A i \in 1 .. N : g[i] = g[i - 1] + Cross(walk[i], walk[i + 1])
  BY <1>3, <1>4 DEF Summed
<1> DEFINE F(z) == IF z <= N THEN f[z] ELSE f[z - N] + f[N]
           T == {k \in Nat : k <= N => g[k] = F(s + k) - f[s]}
<1>6. s \in Nat /\ s < N /\ s \in 0 .. N /\ f[s] \in Int /\ f[N] \in Int
  <2>1. s \in Nat /\ s < N /\ s \in 0 .. N /\ N \in 0 .. N
    OBVIOUS
  <2> QED BY <1>5, <2>1
<1>7. 0 \in T
  <2>1. F(s + 0) = f[s]
    BY <1>6
  <2>2. f[s] - f[s] = 0
    BY <1>6
  <2> QED BY <1>5, <2>1, <2>2
<1>8. ASSUME NEW k \in 0 .. (N - 1), k \in T PROVE k + 1 \in T
  <2> DEFINE i == k + 1
             z == s + k
  <2>1. i \in 1 .. N /\ i - 1 = k /\ z \in Nat /\ s + i = z + 1 /\ s + i - 1 = z /\ s + (i + 1) - 1 = z + 1
        /\ i \in 1 .. N + 1 /\ i + 1 \in 1 .. N + 1 /\ i \in Nat /\ k \in Nat /\ k <= N /\ z + 1 < N + N
    BY <1>6
  <2>2. g[k] = F(z) - f[s]
    BY <1>8, <2>1
  <2> HIDE DEF i, z, F
  <2>3. g[i] = g[k] + Cross(walk[i], walk[i + 1])
    BY <1>5, <2>1
  <2>4. walk[i] = ring[(z % N) + 1] /\ walk[i + 1] = ring[((z + 1) % N) + 1]
    BY <1>1, <2>1
  <2>5. CASE z < N
    <3>1. z % N = z
      BY <2>1, <2>5, RoundIs
    <3>2. walk[i + 1] = ring[z + 2]
      <4>1. CASE z + 1 < N
        <5>1. (z + 1) % N = z + 1 /\ (z + 1) + 1 = z + 2
          BY <2>1, <4>1, RoundIs
        <5> QED BY <2>4, <5>1
      <4>2. CASE ~(z + 1 < N)
        <5>1. z + 1 = 0 + N /\ 0 % N = 0 /\ z + 2 = N + 1 /\ 0 + 1 = 1
          BY <2>1, <2>5, <4>2
        <5>2. (z + 1) % N = 0
          <6>1. (0 + N) % N = 0 % N
            BY RoundIs
          <6> QED BY <5>1, <6>1
        <5> QED BY <1>2, <2>4, <5>1, <5>2
      <4> QED BY <4>1, <4>2
    <3>3. z + 1 \in 1 .. N /\ (z + 1) - 1 = z /\ (z + 1) + 1 = z + 2 /\ z + 1 <= N /\ z <= N /\ z \in 0 .. N /\ z + 1 \in 0 .. N
      BY <2>1, <2>5
    <3>4. f[z + 1] = f[z] + Cross(walk[i], walk[i + 1])
      BY <1>5, <2>4, <3>1, <3>2, <3>3
    <3>5. F(z) = f[z] /\ F(z + 1) = f[z + 1]
      BY <3>3 DEF F
    <3> DEFINE c == Cross(walk[i], walk[i + 1])
    <3>6. c \in Int
      <4>1. walk[i] \in Point /\ walk[i + 1] \in Point
        BY <1>1, <2>1, ElementOfSeq DEF AnyWalk
      <4> QED BY <4>1, CrossIs
    <3> HIDE DEF c
    <3>7. f[z] \in Int
      BY <1>5, <3>3
    <3>8. g[i] = F(z + 1) - f[s]
      BY <1>6, <2>2, <2>3, <3>4, <3>5, <3>6, <3>7 DEF c
    <3> QED BY <2>1, <3>8 DEF i
  <2>6. CASE ~(z < N)
    <3> DEFINE y == z - N
    <3>1. y \in Nat /\ y + 1 < N /\ z = y + N /\ z + 1 = (y + 1) + N /\ y + 1 \in Nat /\ y < N
      BY <2>1, <2>6
    <3> HIDE DEF y
    <3>2. z % N = y
      <4>1. (y + N) % N = y % N /\ y % N = y
        BY <3>1, RoundIs
      <4> QED BY <3>1, <4>1
    <3>3. (z + 1) % N = y + 1
      <4>1. ((y + 1) + N) % N = (y + 1) % N /\ (y + 1) % N = y + 1
        BY <3>1, RoundIs
      <4> QED BY <3>1, <4>1
    <3>4. y + 1 \in 1 .. N /\ (y + 1) - 1 = y /\ y \in 0 .. N /\ y + 1 \in 0 .. N
      BY <3>1
    <3>5. f[y + 1] = f[y] + Cross(walk[i], walk[i + 1])
      BY <1>5, <2>4, <3>2, <3>3, <3>4
    <3>6. F(z + 1) = f[y + 1] + f[N]
      <4>1. ~(z + 1 <= N) /\ (z + 1) - N = y + 1
        BY <3>1
      <4> QED BY <4>1 DEF F
    <3>7. F(z) = f[y] + f[N]
      <4>1. CASE y = 0
        BY <1>5, <1>6, <3>1, <4>1 DEF F
      <4>2. CASE y # 0
        <5>1. ~(z <= N) /\ z - N = y
          BY <3>1, <4>2
        <5> QED BY <5>1 DEF F
      <4> QED BY <4>1, <4>2
    <3> DEFINE c == Cross(walk[i], walk[i + 1])
    <3>8. c \in Int
      <4>1. walk[i] \in Point /\ walk[i + 1] \in Point
        BY <1>1, <2>1, ElementOfSeq DEF AnyWalk
      <4> QED BY <4>1, CrossIs
    <3> HIDE DEF c
    <3>9. f[y] \in Int /\ f[y + 1] \in Int
      BY <1>5, <3>4
    <3>10. g[i] = F(z + 1) - f[s]
      BY <1>6, <2>2, <2>3, <3>5, <3>6, <3>7, <3>8, <3>9 DEF c
    <3> QED BY <2>1, <3>10 DEF i
  <2> QED BY <2>5, <2>6
<1>9. N \in T /\ N <= N
  <2>1. N <= N /\ N \in 0 .. N
    OBVIOUS
  <2> HIDE DEF T
  <2>2. 0 .. N \subseteq T
    BY <1>7, <1>8, SetOfIntervalInduction
  <2> QED BY <2>1, <2>2
<1>10. g[N] = F(s + N) - f[s]
  BY <1>9
<1>11. F(s + N) = f[s] + f[N]
  <2>1. CASE s = 0
    BY <1>5, <1>6, <2>1
  <2>2. CASE s # 0
    <3>1. ~(s + N <= N) /\ (s + N) - N = s
      BY <1>6, <2>2
    <3> QED BY <3>1
  <2> QED BY <2>1, <2>2
<1> HIDE DEF F
<1> QED BY <1>5, <1>6, <1>10, <1>11

-----------------------------------------------------------------------------
(* Rings that are outlines.                                                 *)

\* The corners of a ring, and the ring closed.
LEMMA CornersAre ==
  ASSUME NEW ring \in AnyWalk, NEW n, n = Unique(ring), NEW c, c = Close(ring)
  PROVE  /\ n \in Nat \ {0} /\ c \in AnyWalk /\ Closed(c) /\ Len(c) = n + 1
         /\ \A i \in 1 .. n : c[i] = ring[i] /\ ring[i] \in Point
         /\ \A i \in 1 .. n : (i % n) + 1 \in 1 .. n /\ c[i + 1] = ring[(i % n) + 1]
                              /\ (i % n) + 1 = IF i = n THEN 1 ELSE i + 1
<1> DEFINE l == Len(ring)
<1>1. ring \in Seq(Point) /\ l \in Nat /\ l > 1 /\ \A i \in 1 .. l : ring[i] \in Point
  <2>1. ring \in Seq(Point) /\ Len(ring) > 1
    BY DEF AnyWalk
  <2> QED BY <2>1, ElementOfSeq, LenProperties
<1> HIDE DEF l
<1>2. c \in AnyWalk /\ Closed(c)
  BY CloseIs
<1>3. n \in Nat \ {0} /\ Len(c) = n + 1 /\ n <= l /\ \A i \in 1 .. n : c[i] = ring[i]
  <2>1. CASE Closed(ring)
    <3>1. n = l - 1 /\ c = ring
      BY <2>1 DEF Unique, Close, l
    <3>2. n \in Nat \ {0} /\ l = n + 1 /\ n <= l
      BY <1>1, <3>1
    <3> QED BY <3>1, <3>2 DEF l
  <2>2. CASE ~Closed(ring)
    <3>1. n = l /\ c = Append(ring, ring[1])
      BY <2>2 DEF Unique, Close, l
    <3>2. 1 \in 1 .. l /\ n \in Nat \ {0} /\ n <= l
      BY <1>1, <3>1
    <3> DEFINE p == ring[1]
    <3>3. p \in Point /\ c = Append(ring, p)
      BY <1>1, <3>1, <3>2
    <3> HIDE DEF p
    <3>4. Len(Append(ring, p)) = Len(ring) + 1 /\ \A i \in 1 .. Len(ring) : Append(ring, p)[i] = ring[i]
      BY <1>1, <3>3, AppendProperties
    <3> QED BY <3>1, <3>2, <3>3, <3>4 DEF l
  <2> QED BY <2>1, <2>2
<1>4. ASSUME NEW i \in 1 .. n
      PROVE  /\ (i % n) + 1 \in 1 .. n /\ (i % n) + 1 = IF i = n THEN 1 ELSE i + 1
             /\ c[i + 1] = ring[(i % n) + 1]
  <2>1. CASE i = n
    <3>0. 0 \in Nat /\ 0 < n /\ n \in Nat \ {0}
      BY <1>3
    <3>1. (0 + n) % n = 0 % n /\ 0 % n = 0 /\ 0 + n = n
      <4>1. (0 + n) % n = 0 % n
        BY <3>0, RoundIs
      <4>2. 0 % n = 0
        BY <3>0, RoundIs
      <4> QED BY <3>0, <4>1, <4>2
    <3>2. (i % n) + 1 = 1 /\ 1 \in 1 .. n
      BY <1>3, <2>1, <3>1
    <3>3. c[n + 1] = c[1]
      BY <1>2, <1>3 DEF Closed
    <3> QED BY <1>3, <2>1, <3>2, <3>3
  <2>2. CASE i # n
    <3>1. i \in Nat /\ i < n /\ i + 1 \in 1 .. n
      BY <1>3, <2>2
    <3>2. i % n = i
      BY <1>3, <3>1, RoundIs
    <3> QED BY <1>3, <2>2, <3>1, <3>2
  <2> QED BY <2>1, <2>2
<1>5. \A i \in 1 .. n : ring[i] \in Point
  <2>1. \A i \in 1 .. n : i \in 1 .. l
    BY <1>1, <1>3
  <2> QED BY <1>1, <2>1
<1> QED BY <1>2, <1>3, <1>4, <1>5

\* Every piece of the edges of a ring ends on whole units.
Divides(c, n) ==
  \A i \in 1 .. n : \A axis \in 1 .. 2 : (c[i + 1][axis] - c[i][axis]) % Pieces(c[i], c[i + 1], Width) = 0

\* The i-th edge of a ring lies in the cut ring in m equal steps.
InSteps(cut, c, at, i, m) ==
  /\ m \in Nat \ {0} /\ at[i] \in Nat \ {0} /\ at[i + 1] = at[i] + m /\ c[i] \in Point /\ c[i + 1] \in Point
  /\ \E d \in Point : c[i + 1] = Along_(c[i], d, m) /\ \A k \in 0 .. m : cut[at[i] + k] = Along_(c[i], d, k)

\* Every edge does.
LEMMA EdgeLaid ==
  ASSUME NEW c \in AnyWalk, NEW n \in Nat, Len(c) = n + 1, Divides(c, n),
         NEW cut, NEW at, Laid(cut, c, n, at), NEW i \in 1 .. n, NEW m, m = Pieces(c[i], c[i + 1], Width)
  PROVE  InSteps(cut, c, at, i, m)
<1> DEFINE p == c[i]
           q == c[i + 1]
           o == at[i]
<1>1. p \in Point /\ q \in Point
  <2>1. c \in Seq(Point) /\ i \in 1 .. n + 1 /\ i + 1 \in 1 .. n + 1
    BY DEF AnyWalk
  <2> QED BY <2>1, ElementOfSeq
<1>2. /\ m \in Nat \ {0} /\ at[i + 1] = o + m
      /\ \A k \in 0 .. m : cut[o + k] = Between(p, q, k, m)
  BY DEF Laid
<1>3. o \in Nat \ {0}
  <2>1. Stairs(at, n) /\ at[1] = 1 /\ at \in [1 .. n + 1 -> Nat]
    BY DEF Laid, Stairs
  <2>2. CASE i = 1
    BY <2>1, <2>2
  <2>3. CASE i # 1
    <3>1. 1 \in 1 .. n /\ i \in 1 + 1 .. n + 1 /\ i \in 1 .. n + 1
      BY <2>3
    <3>2. at[1 + 1] <= at[i] /\ at[1] < at[1 + 1]
      BY <2>1, <3>1, StairsGrow DEF Stairs
    <3>3. at[i] \in Nat /\ at[1 + 1] \in Nat
      <4>1. 1 + 1 \in 1 .. n + 1
        BY <3>1
      <4> QED BY <2>1, <3>1, <4>1
    <3> QED BY <2>1, <3>2, <3>3
  <2> QED BY <2>2, <2>3
<1>4. (q[1] - p[1]) % m = 0 /\ (q[2] - p[2]) % m = 0
  <2>1. 1 \in 1 .. 2 /\ 2 \in 1 .. 2
    OBVIOUS
  <2> QED BY <2>1 DEF Divides
<1> HIDE DEF p, q, o
<1>5. PICK d \in Point : q = Along_(p, d, m) /\ \A k \in Nat : Between(p, q, k, m) = Along_(p, d, k)
  BY <1>1, <1>2, <1>4, EdgeSteps
<1>6. \A k \in 0 .. m : cut[o + k] = Along_(p, d, k)
  <2>1. \A k \in 0 .. m : k \in Nat
    BY <1>2
  <2> QED BY <1>2, <1>5, <2>1
<1> QED BY <1>1, <1>2, <1>3, <1>5, <1>6 DEF InSteps, p, q, o

\* A ring that is cut encloses as much as before.
LEMMA AreaCut ==
  ASSUME NEW c \in AnyWalk, NEW n \in Nat, Len(c) = n + 1, Divides(c, n), NEW cut, NEW at, Laid(cut, c, n, at)
  PROVE  Area2(cut) = Area2(c)
<1>1. cut \in AnyWalk /\ Stairs(at, n) /\ at \in [1 .. n + 1 -> Nat] /\ at[1] = 1 /\ at[n + 1] = Len(cut)
  BY DEF Laid, Stairs
<1> DEFINE N == Len(cut) - 1
<1>2. N \in Nat /\ Len(cut) = N + 1
  <2>1. cut \in Seq(Point) /\ Len(cut) > 1
    BY <1>1 DEF AnyWalk
  <2>2. Len(cut) \in Nat
    BY <2>1, LenProperties
  <2> DEFINE l == Len(cut)
  <2> HIDE DEF l
  <2>3. l - 1 \in Nat /\ l = (l - 1) + 1
    BY <2>1, <2>2 DEF l
  <2> QED BY <2>3 DEF l
<1> HIDE DEF N
<1>3. PICK f : Summed(cut, N, f)
  BY <1>1, <1>2, AreaUnfold
<1>4. PICK g : Summed(c, n, g)
  BY AreaUnfold
<1>5. /\ f \in [0 .. N -> Int] /\ f[0] = 0 /\ Area2(cut) = f[N]
      /\ \A i \in 1 .. N : f[i] = f[i - 1] + Cross(cut[i], cut[i + 1])
      /\ g \in [0 .. n -> Int] /\ g[0] = 0 /\ Area2(c) = g[n]
      /\ \A i \in 1 .. n : g[i] = g[i - 1] + Cross(c[i], c[i + 1])
  BY <1>3, <1>4 DEF Summed
<1>6. ASSUME NEW i \in 1 .. n
      PROVE  f[at[i + 1] - 1] - f[at[i] - 1] = g[i] - g[i - 1] /\ f[at[i] - 1] \in Int /\ f[at[i + 1] - 1] \in Int
  <2> DEFINE p == c[i]
             q == c[i + 1]
             m == Pieces(p, q, Width)
             o == at[i]
  <2>1. /\ m \in Nat \ {0} /\ o \in Nat \ {0} /\ at[i + 1] = o + m /\ p \in Point /\ q \in Point
        /\ \E d \in Point : q = Along_(p, d, m) /\ \A k \in 0 .. m : cut[o + k] = Along_(p, d, k)
    <3>1. m = Pieces(c[i], c[i + 1], Width)
      OBVIOUS
    <3> HIDE DEF m
    <3>2. InSteps(cut, c, at, i, m)
      BY <3>1, EdgeLaid
    <3> QED BY <3>2, Zenon DEF InSteps
  <2> HIDE DEF m
  <2>2. PICK d \in Point : q = Along_(p, d, m) /\ \A k \in 0 .. m : cut[o + k] = Along_(p, d, k)
    BY <2>1
  <2>3. o + m <= N + 1
    <3>1. n + 1 \in i + 1 .. n + 1
      OBVIOUS
    <3> QED BY <1>1, <1>2, <2>1, <3>1, StairsGrow
  <2> HIDE DEF p, q, o
  <2> DEFINE x == Cross(p, d)
  <2>4. x \in Int
    BY <2>1, <2>2, CrossIs
  <2>5. ASSUME NEW k \in 0 .. m - 1 PROVE Cross(cut[o + k], cut[o + k + 1]) = x
    <3>1. k \in 0 .. m /\ k + 1 \in 0 .. m /\ o + (k + 1) = o + k + 1
      BY <2>1
    <3> DEFINE r == Along_(p, d, k)
               t == Along_(p, d, k + 1)
    <3>2. cut[o + k] = r /\ cut[o + k + 1] = t
      BY <2>2, <3>1
    <3> HIDE DEF x
    <3>3. Cross(r, t) = Cross(p, d)
      <4>1. r = Along_(p, d, k) /\ t = Along_(p, d, k + 1)
        OBVIOUS
      <4> HIDE DEF r, t
      <4> QED BY <2>1, <2>2, <3>1, <4>1, StepsAre
    <3> QED BY <3>2, <3>3 DEF x
  <2>6. Cross(p, q) = m * x
    <3> DEFINE r == Along_(p, d, 0)
               t == Along_(p, d, 0 + 1)
    <3>1. 0 \in 0 .. m
      BY <2>1
    <3>2. r = Along_(p, d, 0) /\ t = Along_(p, d, 0 + 1)
      OBVIOUS
    <3> HIDE DEF r, t
    <3>3. Cross(p, q) = m * Cross(p, d)
      BY <2>1, <2>2, <3>1, <3>2, StepsAre
    <3> QED BY <3>3
  <2> HIDE DEF x
  <2> DEFINE b == o - 1
             T == {k \in Nat : k <= m => f[b + k] = f[b] + k * x}
  <2>7. b \in Nat /\ o = b + 1 /\ b + m <= N /\ m \in Nat
    BY <1>2, <2>1, <2>3
  <2> HIDE DEF b
  <2>8. \A k \in 0 .. m : b + k \in 0 .. N /\ f[b + k] \in Int
    <3>1. \A k \in 0 .. m : b + k \in 0 .. N
      BY <1>2, <2>7
    <3> QED BY <1>5, <3>1
  <2>9. 0 \in T
    <3>1. 0 \in 0 .. m /\ b + 0 = b
      BY <2>7
    <3>2. f[b] \in Int /\ 0 * x = 0
      BY <2>4, <2>8, <3>1
    <3> QED BY <3>1, <3>2
  <2>10. ASSUME NEW k \in 0 .. (m - 1), k \in T PROVE k + 1 \in T
    <3>1. k \in 0 .. m /\ k + 1 \in 0 .. m /\ k \in Nat /\ k <= m /\ b + (k + 1) \in 1 .. N
          /\ (b + (k + 1)) - 1 = b + k /\ b + (k + 1) = o + k /\ (b + (k + 1)) + 1 = o + k + 1 /\ 0 \in 0 .. m /\ b + 0 = b
      BY <1>2, <2>7
    <3>2. f[b + k] = f[b] + k * x
      BY <2>10, <3>1
    <3>3. f[b + (k + 1)] = f[b + k] + x
      BY <1>5, <2>5, <3>1
    <3>4. (k + 1) * x = k * x + x /\ k * x \in Int
      BY <2>4, <3>1
    <3>5. f[b] \in Int /\ f[b + k] \in Int
      BY <2>8, <3>1
    <3>6. f[b + (k + 1)] = f[b] + (k + 1) * x
      BY <2>4, <3>2, <3>3, <3>4, <3>5
    <3> QED BY <3>1, <3>6
  <2>11. f[b + m] = f[b] + m * x
    <3>1. m \in 0 .. m /\ m <= m
      BY <2>7
    <3>2. 0 .. m \subseteq T
      <4> HIDE DEF T
      <4> QED BY <2>7, <2>9, <2>10, SetOfIntervalInduction
    <3>3. m \in T
      <4> HIDE DEF T
      <4> QED BY <3>1, <3>2
    <3> QED BY <3>1, <3>3
  <2>12. at[i] - 1 = b /\ at[i + 1] - 1 = b + m
    BY <2>1, <2>7 DEF o
  <2>13. f[b] \in Int /\ f[b + m] \in Int /\ m * x \in Int
    <3>1. 0 \in 0 .. m /\ m \in 0 .. m /\ b + 0 = b
      BY <2>7
    <3>2. m * x \in Int
      BY <2>4, <2>7
    <3> QED BY <2>8, <3>1, <3>2
  <2>14. g[i] = g[i - 1] + m * x /\ g[i] \in Int /\ g[i - 1] \in Int
    <3>1. i \in 0 .. n /\ i - 1 \in 0 .. n
      OBVIOUS
    <3> QED BY <1>5, <2>6, <3>1 DEF p, q
  <2>15. f[b + m] - f[b] = g[i] - g[i - 1]
    <3> DEFINE y == m * x
    <3> HIDE DEF y
    <3> QED BY <2>11, <2>13, <2>14 DEF y
  <2> QED BY <2>12, <2>13, <2>15
<1> DEFINE T == {i \in Nat : i <= n => f[at[i + 1] - 1] = g[i]}
<1>7. 0 \in T
  <2>1. at[0 + 1] - 1 = 0
    BY <1>1
  <2> QED BY <1>5, <2>1
<1>8. ASSUME NEW i \in 0 .. (n - 1), i \in T PROVE i + 1 \in T
  <2> DEFINE j == i + 1
  <2>1. j \in 1 .. n /\ j - 1 = i /\ i <= n /\ i \in Nat /\ j \in Nat /\ i \in 0 .. n /\ j \in 0 .. n
    OBVIOUS
  <2>2. f[at[j] - 1] = g[i]
    BY <1>8, <2>1
  <2> HIDE DEF j
  <2>3. f[at[j + 1] - 1] - f[at[j] - 1] = g[j] - g[j - 1] /\ f[at[j] - 1] \in Int /\ f[at[j + 1] - 1] \in Int
    BY <1>6, <2>1
  <2>4. g[i] \in Int /\ g[j] \in Int
    BY <1>5, <2>1
  <2> DEFINE u == f[at[j + 1] - 1]
             v == f[at[j] - 1]
  <2>5. u - v = g[j] - g[i] /\ v = g[i] /\ u \in Int
    BY <2>1, <2>2, <2>3
  <2> HIDE DEF u, v
  <2>6. u = g[j]
    BY <2>4, <2>5
  <2> QED BY <2>1, <2>6 DEF u, j
<1>9. f[at[n + 1] - 1] = g[n]
  <2>1. n \in 0 .. n /\ n <= n
    OBVIOUS
  <2>2. n \in T
    <3> HIDE DEF T
    <3>1. 0 .. n \subseteq T
      BY <1>7, <1>8, SetOfIntervalInduction
    <3> QED BY <2>1, <3>1
  <2> QED BY <2>1, <2>2
<1>10. at[n + 1] - 1 = N
  BY <1>1, <1>2
<1> QED BY <1>5, <1>9, <1>10

\* A pose and the next one are on an edge, k and k + 1 of its m steps of d from the edge's first end.
OnStep(cut, c, at, w, i, m, d, k) ==
  /\ m = Pieces(c[i], c[i + 1], Width) /\ m \in Nat \ {0} /\ k \in 0 .. m - 1 /\ w = at[i] + k
  /\ d \in Point /\ c[i] \in Point /\ c[i + 1] \in Point /\ c[i + 1] = Along_(c[i], d, m)
  /\ cut[w] = Along_(c[i], d, k) /\ cut[w + 1] = Along_(c[i], d, k + 1)

\* Every pose but the last is.
LEMMA StepOf ==
  ASSUME NEW c \in AnyWalk, NEW n \in Nat, Len(c) = n + 1, Divides(c, n),
         NEW cut, NEW at, Laid(cut, c, n, at), NEW w \in 1 .. Len(cut) - 1
  PROVE  \E i \in 1 .. n : \E m, d, k : OnStep(cut, c, at, w, i, m, d, k)
<1>1. cut \in AnyWalk /\ Stairs(at, n) /\ at \in [1 .. n + 1 -> Nat] /\ at[1] = 1 /\ at[n + 1] = Len(cut)
  BY DEF Laid, Stairs
<1>2. Len(cut) \in Nat
  BY <1>1, LenProperties DEF AnyWalk
<1>3. w \in Nat /\ at[1] <= w /\ w < at[n + 1]
  <2> DEFINE l == Len(cut)
  <2> HIDE DEF l
  <2>1. l \in Nat /\ w \in 1 .. l - 1
    BY <1>2 DEF l
  <2>2. w \in Nat /\ 1 <= w /\ w < l
    BY <2>1
  <2> QED BY <1>1, <2>2 DEF l
<1>4. PICK i \in 1 .. n : at[i] <= w /\ w < at[i + 1]
  BY <1>1, <1>3, StairsCover
<1> DEFINE p == c[i]
           q == c[i + 1]
           m == Pieces(p, q, Width)
           o == at[i]
           k == w - o
<1>5. /\ m \in Nat \ {0} /\ o \in Nat \ {0} /\ at[i + 1] = o + m /\ p \in Point /\ q \in Point
      /\ \E d \in Point : q = Along_(p, d, m) /\ \A j \in 0 .. m : cut[o + j] = Along_(p, d, j)
  <2>1. m = Pieces(c[i], c[i + 1], Width)
    OBVIOUS
  <2> HIDE DEF m
  <2>2. InSteps(cut, c, at, i, m)
    BY <2>1, EdgeLaid
  <2> QED BY <2>2, Zenon DEF InSteps
<1> HIDE DEF m
<1>6. PICK d \in Point : q = Along_(p, d, m) /\ \A j \in 0 .. m : cut[o + j] = Along_(p, d, j)
  BY <1>5
<1> HIDE DEF o
<1>7. k \in 0 .. m - 1 /\ w = o + k /\ w + 1 = o + (k + 1) /\ k \in 0 .. m /\ k + 1 \in 0 .. m
  <2>1. o <= w /\ w < o + m
    BY <1>4, <1>5 DEF o
  <2> QED BY <1>3, <1>5, <2>1
<1> HIDE DEF k
<1>8. cut[w] = Along_(p, d, k) /\ cut[w + 1] = Along_(p, d, k + 1)
  BY <1>6, <1>7
<1>9. OnStep(cut, c, at, w, i, m, d, k)
  BY <1>5, <1>6, <1>7, <1>8 DEF OnStep, m, o
<1> QED BY <1>9

\* What a ring that is cut keeps: each corner has one place, its poses are on its edges and close to
\* each other, and it encloses something.
Traced(cut, ring, n, at) ==
  /\ cut \in AnyWalk /\ Closed(cut) /\ Stairs(at, n) /\ at[1] = 1 /\ at[n + 1] = Len(cut)
  /\ \A i \in 1 .. n : \A w \in 1 .. Len(cut) - 1 : cut[w] = ring[i] <=> w = at[i]
  /\ \A w \in 1 .. Len(cut) : \E i \in 1 .. n : OnEdge(cut[w], ring[i], ring[(i % n) + 1])
  /\ \A w \in 1 .. Len(cut) - 1 : Gap(cut[w], cut[w + 1]) <= Width * Width
  /\ Area2(cut) \in Int /\ Area2(cut) # 0

\* The edge between a point and itself is one piece.
LEMMA NoPieces ==
  ASSUME NEW p \in Point PROVE Pieces(p, p, Width) = 1
<1>1. Gap(p, p) = 0
  BY GapType
<1>2. Width * Width \in Nat
  BY HeadlandRingsAssumption
<1>3. Gap(p, p) <= Width * Width
  BY <1>1, <1>2
<1> QED BY <1>3, OnePiece

\* Every corner has its place in the ring that is cut, before its last.
LEMMA CornerPlace ==
  ASSUME NEW c \in AnyWalk, NEW n \in Nat, Len(c) = n + 1, Divides(c, n),
         NEW cut, NEW at, Laid(cut, c, n, at), NEW i \in 1 .. n
  PROVE  cut[at[i]] = c[i] /\ at[i] \in 1 .. Len(cut) - 1
<1> DEFINE l == Len(cut)
<1>0. l \in Nat /\ at[n + 1] = l /\ Stairs(at, n)
  <2>1. cut \in Seq(Point) /\ at[n + 1] = l /\ Stairs(at, n)
    BY DEF Laid, AnyWalk
  <2> QED BY <2>1, LenProperties
<1> HIDE DEF l
<1> DEFINE p == c[i]
           q == c[i + 1]
           m == Pieces(p, q, Width)
           o == at[i]
<1>1. /\ m \in Nat \ {0} /\ o \in Nat \ {0} /\ at[i + 1] = o + m /\ p \in Point /\ q \in Point
      /\ \E d \in Point : q = Along_(p, d, m) /\ \A j \in 0 .. m : cut[o + j] = Along_(p, d, j)
  <2>1. m = Pieces(c[i], c[i + 1], Width)
    OBVIOUS
  <2> HIDE DEF m
  <2>2. InSteps(cut, c, at, i, m)
    BY <2>1, EdgeLaid
  <2> QED BY <2>2, Zenon DEF InSteps
<1> HIDE DEF m
<1>2. PICK d \in Point : \A j \in 0 .. m : cut[o + j] = Along_(p, d, j)
  BY <1>1
<1>3. o + m <= l
  <2>1. n + 1 \in i + 1 .. n + 1
    OBVIOUS
  <2>2. at[i + 1] <= at[n + 1]
    BY <1>0, <2>1, StairsGrow
  <2> QED BY <1>0, <1>1, <2>2
<1> HIDE DEF p, q, o
<1>4. cut[o + 0] = Along_(p, d, 0) /\ o + 0 = o /\ o \in 1 .. l - 1
  <2>1. 0 \in 0 .. m
    BY <1>1
  <2> QED BY <1>0, <1>1, <1>2, <1>3, <2>1
<1>5. Along_(p, d, 0) = p
  <2>1. p = <<p[1], p[2]>> /\ p[1] \in Int /\ p[2] \in Int /\ d[1] \in Int /\ d[2] \in Int
    BY <1>1, <1>2 DEF Point
  <2> DEFINE a == p[1]
             b == p[2]
             x == d[1]
             y == d[2]
  <2>2. a \in Int /\ b \in Int /\ x \in Int /\ y \in Int /\ p = <<a, b>> /\ Along_(p, d, 0) = <<a + 0 * x, b + 0 * y>>
    BY <2>1 DEF Along_
  <2> HIDE DEF a, b, x, y
  <2>3. a + 0 * x = a /\ b + 0 * y = b
    BY <2>2
  <2> QED BY <2>2, <2>3
<1> QED BY <1>4, <1>5 DEF p, o, l

\* A ring that can be told from others is cut into one that keeps its corners and its edges.
LEMMA OutlineCut ==
  ASSUME NEW ring \in AnyWalk, IsOutline(ring), NEW n, n = Unique(ring)
  PROVE  \E at : Traced(Densify(Close(ring)), ring, n, at)
<1> DEFINE c == Close(ring)
           cut == Densify(c)
<1>1. /\ n \in Nat \ {0} /\ c \in AnyWalk /\ Closed(c) /\ Len(c) = n + 1
      /\ \A i \in 1 .. n : c[i] = ring[i] /\ ring[i] \in Point
      /\ \A i \in 1 .. n : c[i + 1] = ring[(i % n) + 1]
  BY CornersAre
<1>2. /\ \A i, j \in 1 .. n : /\ c[i] = c[j] => i = j
                              /\ OnEdge(c[i], c[j], c[j + 1]) => c[i] \in {c[j], c[j + 1]}
      /\ Area2(c) # 0
      /\ Divides(c, n)
  <2>0. \A i, j \in 1 .. n : i # j => c[i] # c[j]
    BY Zenon DEF IsOutline
  <2>1. \A i, j \in 1 .. n : c[i] = c[j] => i = j
    BY <2>0
  <2>1a. \A i, j \in 1 .. n : OnEdge(c[i], c[j], c[j + 1]) => c[i] \in {c[j], c[j + 1]}
    BY Zenon DEF IsOutline
  <2>2. Area2(c) # 0
    BY Zenon DEF IsOutline
  <2>3. \A i \in 1 .. n : \A axis \in 1 .. 2 : (c[i + 1][axis] - c[i][axis]) % Pieces(c[i], c[i + 1], Width) = 0
    BY Zenon DEF IsOutline
  <2> HIDE DEF c
  <2>4. Divides(c, n)
    BY <2>3 DEF Divides
  <2> QED BY <2>1, <2>1a, <2>2, <2>4
<1> HIDE DEF c
<1>3. PICK at : Laid(cut, c, n, at)
  BY <1>1, DensifyAt
<1>4. cut \in AnyWalk /\ cut[1] = c[1] /\ cut[Len(cut)] = c[Len(c)]
  BY <1>1, DensifyIs
<1>5. Closed(cut)
  BY <1>1, <1>4 DEF Closed
<1> HIDE DEF cut
<1> DEFINE l == Len(cut)
           N == l - 1
<1>6. /\ Stairs(at, n) /\ at \in [1 .. n + 1 -> Nat] /\ at[1] = 1 /\ at[n + 1] = l
      /\ l \in Nat /\ l > 1
  <2>1. Stairs(at, n) /\ at \in [1 .. n + 1 -> Nat] /\ at[1] = 1 /\ at[n + 1] = l
    BY <1>3 DEF Laid, Stairs
  <2>2. cut \in Seq(Point) /\ l > 1
    BY <1>4 DEF AnyWalk
  <2>3. l \in Nat
    BY <2>2, LenProperties
  <2> QED BY <2>1, <2>2, <2>3
<1>7. \A w \in 1 .. N : \E i \in 1 .. n : \E m, d, k : OnStep(cut, c, at, w, i, m, d, k)
  <2> TAKE w \in 1 .. N
  <2>1. w \in 1 .. Len(cut) - 1
    OBVIOUS
  <2> QED BY <1>1, <1>2, <1>3, <2>1, StepOf
<1> HIDE DEF l, N
<1>8. N \in Nat \ {0} /\ l = N + 1
  BY <1>6 DEF N
<1>9. ASSUME NEW w \in 1 .. N PROVE Gap(cut[w], cut[w + 1]) <= Width * Width
  <2>0. PICK i \in 1 .. n : \E m, d, k : OnStep(cut, c, at, w, i, m, d, k)
    BY <1>7
  <2>1. PICK m, d, k : OnStep(cut, c, at, w, i, m, d, k)
    BY <2>0
  <2> DEFINE p == c[i]
             q == c[i + 1]
             r == cut[w]
             t == cut[w + 1]
             s == d[1] * d[1] + d[2] * d[2]
             v == Width
  <2>2. /\ m = Pieces(p, q, Width) /\ m \in Nat \ {0} /\ k \in 0 .. m - 1
        /\ d \in Point /\ p \in Point /\ q \in Point /\ q = Along_(p, d, m)
        /\ r = Along_(p, d, k) /\ t = Along_(p, d, k + 1)
    BY <2>1 DEF OnStep
  <2>3. Width \in Nat \ {0} /\ v \in Nat
    BY HeadlandRingsAssumption
  <2> HIDE DEF p, q, r, t, v
  <2>4. (m * v) * (m * v) >= Gap(p, q)
    <3>1. (m * Width) * (m * Width) >= Gap(p, q)
      BY <2>2, <2>3, PiecesAre
    <3> QED BY <3>1 DEF v
  <2>5. k \in 0 .. m
    BY <2>2
  <2>6. Gap(r, t) = d[1] * d[1] + d[2] * d[2] /\ Gap(p, q) = (m * m) * (d[1] * d[1] + d[2] * d[2])
    BY <2>2, <2>5, StepsAre
  <2>7. s \in Nat
    <3>1. d[1] \in Int /\ d[2] \in Int
      BY <2>2 DEF Point
    <3>2. d[1] * d[1] \in Nat /\ d[2] * d[2] \in Nat
      BY <3>1, SquareIs
    <3> QED BY <3>2
  <2>8. Gap(r, t) = s /\ Gap(p, q) = (m * m) * s
    BY <2>6
  <2> HIDE DEF s
  <2>9. (m * m) * s <= (m * v) * (m * v)
    <3>1. (m * m) * s \in Int /\ (m * v) * (m * v) \in Int
      BY <2>2, <2>3, <2>7
    <3> QED BY <2>4, <2>8, <3>1
  <2>10. s <= v * v
    BY <2>2, <2>3, <2>7, <2>9, StepsShort
  <2> QED BY <2>8, <2>10 DEF r, t, v
<1>10. ASSUME NEW w \in 1 .. l PROVE \E i \in 1 .. n : OnEdge(cut[w], c[i], c[i + 1])
  <2> DEFINE y == IF w = l THEN N ELSE w
  <2>0. y \in 1 .. N
    BY <1>8
  <2>1. PICK i \in 1 .. n : \E m, d, k : OnStep(cut, c, at, y, i, m, d, k)
    BY <1>7, <2>0
  <2>2. PICK m, d, k : OnStep(cut, c, at, y, i, m, d, k)
    BY <2>1
  <2> DEFINE p == c[i]
             q == c[i + 1]
             j == IF w = l THEN k + 1 ELSE k
             r == cut[w]
             t == Along_(p, d, j + 1)
  <2>3. /\ m \in Nat \ {0} /\ k \in 0 .. m - 1
        /\ d \in Point /\ p \in Point /\ q \in Point /\ q = Along_(p, d, m)
        /\ cut[y] = Along_(p, d, k) /\ cut[y + 1] = Along_(p, d, k + 1)
    BY <2>2 DEF OnStep
  <2>4. j \in 0 .. m
    BY <2>3
  <2>5. r = Along_(p, d, j)
    <3>1. w = l => y + 1 = w
      BY <1>8
    <3>2. w # l => y = w
      OBVIOUS
    <3> HIDE DEF y
    <3> QED BY <2>3, <3>1, <3>2
  <2>6. t = Along_(p, d, j + 1)
    OBVIOUS
  <2> HIDE DEF p, q, r, t, j, y
  <2>7. OnEdge(r, p, q)
    BY <2>3, <2>4, <2>5, <2>6, StepsAre
  <2> QED BY <2>7 DEF p, q, r
<1>11. ASSUME NEW i \in 1 .. n PROVE cut[at[i]] = c[i] /\ at[i] \in 1 .. N
  <2>1. c \in AnyWalk /\ n \in Nat /\ Len(c) = n + 1 /\ Divides(c, n)
    BY <1>1, <1>2
  <2> QED BY <1>3, <2>1, CornerPlace DEF l, N
<1>12. ASSUME NEW i \in 1 .. n, NEW w \in 1 .. N, cut[w] = c[i] PROVE w = at[i]
  <2>0. PICK j \in 1 .. n : \E m, d, k : OnStep(cut, c, at, w, j, m, d, k)
    BY <1>7
  <2>1. PICK m, d, k : OnStep(cut, c, at, w, j, m, d, k)
    BY <2>0
  <2> DEFINE p == c[j]
             q == c[j + 1]
             r == cut[w]
             t == cut[w + 1]
  <2>2. /\ m = Pieces(p, q, Width) /\ m \in Nat \ {0} /\ k \in 0 .. m - 1 /\ w = at[j] + k
        /\ d \in Point /\ p \in Point /\ q \in Point /\ q = Along_(p, d, m)
        /\ r = Along_(p, d, k) /\ t = Along_(p, d, k + 1)
    BY <2>1 DEF OnStep
  <2>3. at[j] \in 1 .. N /\ cut[at[j]] = p
    BY <1>11
  <2>4. CASE k = 0
    <3>1. w = at[j]
      <4> DEFINE o == at[j]
      <4>1. o \in 1 .. N /\ w = o + 0
        BY <2>2, <2>3, <2>4
      <4> HIDE DEF o
      <4>2. w = o
        BY <4>1
      <4> QED BY <4>2 DEF o
    <3>2. i = j
      BY <1>2, <1>12, <2>3, <3>1
    <3> QED BY <3>1, <3>2
  <2>5. CASE k # 0
    <3> HIDE DEF p, q, r, t
    <3>1. k # m /\ k \in 0 .. m
      BY <2>2
    <3>2. OnEdge(r, p, q) /\ (r \in {p, q} => p = q)
      <4>1. OnEdge(r, p, q)
        BY <2>2, <3>1, StepsAre
      <4>2. ASSUME r \in {p, q} PROVE p = q
        BY <2>2, <2>5, <3>1, <4>2, StepsAre
      <4> QED BY <4>1, <4>2
    <3>3. r \in {p, q}
      BY <1>2, <1>12, <3>2 DEF p, q, r
    <3>4. m = 1
      BY <2>2, <3>2, <3>3, NoPieces
    <3> QED BY <2>2, <2>5, <3>4
  <2> QED BY <2>4, <2>5
<1>13. Area2(cut) \in Int /\ Area2(cut) # 0
  <2>1. Area2(cut) = Area2(c)
    BY <1>1, <1>2, <1>3, AreaCut
  <2>2. Area2(cut) \in Int
    BY <1>4, <1>8, AreaTurned DEF l
  <2> QED BY <1>2, <2>1, <2>2
<1>14. \A i \in 1 .. n : \A w \in 1 .. N : cut[w] = ring[i] <=> w = at[i]
  BY <1>1, <1>11, <1>12
<1>15. \A w \in 1 .. l : \E i \in 1 .. n : OnEdge(cut[w], ring[i], ring[(i % n) + 1])
  <2> TAKE w \in 1 .. l
  <2>1. PICK i \in 1 .. n : OnEdge(cut[w], c[i], c[i + 1])
    BY <1>10
  <2>2. c[i] = ring[i] /\ c[i + 1] = ring[(i % n) + 1]
    BY <1>1
  <2> QED BY <2>1, <2>2
<1>16. Traced(cut, ring, n, at)
  BY <1>4, <1>5, <1>6, <1>9, <1>13, <1>14, <1>15 DEF Traced, l, N
<1> QED BY <1>16 DEF c, cut

\* A walk whose poses are close to each other is not cut.
LEMMA ShortStays ==
  ASSUME NEW r \in AnyWalk, \A w \in 1 .. Len(r) - 1 : Gap(r[w], r[w + 1]) <= Width * Width
  PROVE  Densify(r) = r
<1> DEFINE n == Len(r) - 1
           cut == Densify(r)
<1>1. n \in Nat /\ Len(r) = n + 1 /\ r \in Seq(Point) /\ \A i \in 1 .. n + 1 : r[i] \in Point
  <2>1. r \in Seq(Point) /\ Len(r) > 1
    BY DEF AnyWalk
  <2>2. Len(r) \in Nat /\ \A i \in 1 .. Len(r) : r[i] \in Point
    BY <2>1, LenProperties, ElementOfSeq
  <2> DEFINE l == Len(r)
  <2>3. l \in Nat /\ l > 1
    BY <2>1, <2>2
  <2> HIDE DEF l
  <2>4. l - 1 \in Nat /\ l = (l - 1) + 1
    BY <2>3
  <2>5. n = l - 1 /\ Len(r) = l
    BY DEF l
  <2> HIDE DEF n
  <2> QED BY <2>1, <2>2, <2>4, <2>5
<1>2. \A w \in 1 .. n : Gap(r[w], r[w + 1]) <= Width * Width
  OBVIOUS
<1> HIDE DEF n, cut
<1>3. PICK at : Laid(cut, r, n, at)
  BY <1>1, DensifyAt DEF cut
<1>4. ASSUME NEW i \in 1 .. n
      PROVE  /\ Pieces(r[i], r[i + 1], Width) = 1
             /\ Between(r[i], r[i + 1], 0, 1) = r[i] /\ Between(r[i], r[i + 1], 1, 1) = r[i + 1]
  <2> DEFINE p == r[i]
             q == r[i + 1]
             m == Pieces(p, q, Width)
  <2>1. p \in Point /\ q \in Point /\ Gap(p, q) <= Width * Width
    <3>1. i \in 1 .. n + 1 /\ i + 1 \in 1 .. n + 1
      BY <1>1
    <3> QED BY <1>1, <1>2, <3>1
  <2>2. m = Pieces(p, q, Width)
    OBVIOUS
  <2> HIDE DEF p, q, m
  <2>3. m = 1
    BY <2>1, <2>2, OnePiece
  <2>4. Between(p, q, 0, m) = p /\ Between(p, q, m, m) = q
    BY <2>1, <2>2, EdgeEnds
  <2> QED BY <2>2, <2>3, <2>4 DEF p, q
<1>5. ASSUME NEW i \in 1 .. n
      PROVE  at[i + 1] = at[i] + 1 /\ cut[at[i]] = r[i] /\ cut[at[i] + 1] = r[i + 1] /\ at[i] \in Nat
  <2> DEFINE m == Pieces(r[i], r[i + 1], Width)
  <2>1. at[i + 1] = at[i] + m /\ \A k \in 0 .. m : cut[at[i] + k] = Between(r[i], r[i + 1], k, m)
    BY <1>3 DEF Laid
  <2>2. m = 1
    BY <1>4
  <2> HIDE DEF m
  <2>3. at[i] \in Nat
    <3>1. at \in [1 .. n + 1 -> Nat] /\ i \in 1 .. n + 1
      BY <1>1, <1>3 DEF Laid, Stairs
    <3> QED BY <3>1
  <2>4. 0 \in 0 .. 1 /\ 1 \in 0 .. 1 /\ at[i] + 0 = at[i]
    BY <2>3
  <2>5. cut[at[i] + 0] = Between(r[i], r[i + 1], 0, 1) /\ cut[at[i] + 1] = Between(r[i], r[i + 1], 1, 1)
    BY <2>1, <2>2, <2>4
  <2> QED BY <1>4, <2>1, <2>2, <2>3, <2>4, <2>5
<1>6. cut \in Seq(Point) /\ at[1] = 1 /\ Len(cut) = at[n + 1]
  BY <1>3 DEF Laid, AnyWalk
<1> DEFINE T == {i \in Nat : i <= n => at[i + 1] = i + 1}
<1>7. 0 .. n \subseteq T
  <2>1. 0 \in T
    BY <1>6
  <2>2. ASSUME NEW i \in 0 .. (n - 1), i \in T PROVE i + 1 \in T
    <3>1. i + 1 \in 1 .. n /\ i <= n /\ i \in Nat
      BY <1>1
    <3>2. at[i + 1] = i + 1
      BY <2>2, <3>1
    <3>3. at[(i + 1) + 1] = at[i + 1] + 1
      BY <1>5, <3>1
    <3>4. at[(i + 1) + 1] = (i + 1) + 1
      BY <3>2, <3>3
    <3> QED BY <3>1, <3>4
  <2> HIDE DEF T
  <2> QED BY <1>1, <2>1, <2>2, SetOfIntervalInduction
<1>8. \A i \in 1 .. n + 1 : at[i] = i
  <2> TAKE i \in 1 .. n + 1
  <2>1. i - 1 \in 0 .. n /\ i - 1 <= n /\ (i - 1) + 1 = i
    BY <1>1
  <2>2. i - 1 \in T
    <3> HIDE DEF T
    <3> QED BY <1>7, <2>1
  <2> QED BY <2>1, <2>2
<1>9. Len(cut) = n + 1
  <2>1. n + 1 \in 1 .. n + 1
    BY <1>1
  <2> QED BY <1>6, <1>8, <2>1
<1>10. \A i \in 1 .. n + 1 : cut[i] = r[i]
  <2> TAKE i \in 1 .. n + 1
  <2>1. CASE i \in 1 .. n
    BY <1>5, <1>8, <2>1
  <2>2. CASE i \notin 1 .. n
    <3>1. i = n + 1
      BY <1>1, <2>2
    <3>2. n \in 1 .. n /\ n \in 1 .. n + 1
      <4>1. Len(r) > 1
        BY DEF AnyWalk
      <4> QED BY <1>1, <4>1
    <3> QED BY <1>5, <1>8, <3>1, <3>2
  <2> QED BY <2>1, <2>2
<1>11. cut = r
  BY <1>1, <1>6, <1>9, <1>10, SeqEqual
<1> QED BY <1>11 DEF cut

\* A ring as it is walked: closed, in pieces, and turned the way that was asked for.
Normal(w, clockwise) ==
  /\ w \in AnyWalk /\ Closed(w) /\ \A k \in 1 .. Len(w) - 1 : Gap(w[k], w[k + 1]) <= Width * Width
  /\ (Area2(w) < 0) = clockwise

\* It is normalized already.
LEMMA NormalStays ==
  ASSUME NEW clockwise, NEW w, Normal(w, clockwise)
  PROVE  Normalize(w, clockwise) = w
<1>1. /\ w \in AnyWalk /\ Closed(w) /\ \A k \in 1 .. Len(w) - 1 : Gap(w[k], w[k + 1]) <= Width * Width
      /\ (Area2(w) < 0) = clockwise
  BY DEF Normal
<1>2. Close(w) = w
  BY <1>1 DEF Close
<1>3. Densify(w) = w
  BY <1>1, ShortStays
<1> DEFINE output == Densify(Close(w))
           other == Densify(Close(Turned(output)))
           same == (Area2(output) < 0) = clockwise
<1>4. Normalize(w, clockwise) = IF same THEN output ELSE other
  BY Zenon DEF Normalize
<1>5. output = w
  BY <1>2, <1>3
<1> HIDE DEF output, other
<1>6. same
  BY <1>1, <1>5
<1> HIDE DEF same
<1> QED BY <1>4, <1>5, <1>6

\* A ring that can be told from others is walked as it was cut, or the other way round.
LEMMA NormalizeOutline ==
  ASSUME NEW ring \in AnyWalk, IsOutline(ring), NEW clockwise \in BOOLEAN,
         NEW n, n = Unique(ring), NEW cut, cut = Densify(Close(ring)), NEW at, Traced(cut, ring, n, at)
  PROVE  LET w == Normalize(ring, clockwise) IN Normal(w, clockwise) /\ (w = cut \/ w = Turned(cut))
<1>1. /\ cut \in AnyWalk /\ Closed(cut)
      /\ \A w \in 1 .. Len(cut) - 1 : Gap(cut[w], cut[w + 1]) <= Width * Width
      /\ Area2(cut) \in Int /\ Area2(cut) # 0
  BY DEF Traced
<1> DEFINE t == Turned(cut)
           other == Densify(Close(t))
           same == (Area2(cut) < 0) = clockwise
           N == Len(cut) - 1
<1>2. Normalize(ring, clockwise) = IF same THEN cut ELSE other
  BY Zenon DEF Normalize
<1>3. N \in Nat \ {0} /\ Len(cut) = N + 1 /\ \A i \in 1 .. N + 1 : cut[i] \in Point
  <2>1. cut \in Seq(Point) /\ Len(cut) > 1
    BY <1>1 DEF AnyWalk
  <2>2. Len(cut) \in Nat /\ \A i \in 1 .. Len(cut) : cut[i] \in Point
    BY <2>1, LenProperties, ElementOfSeq
  <2> DEFINE l == Len(cut)
  <2>3. l \in Nat /\ l > 1 /\ N = l - 1
    BY <2>1, <2>2
  <2> HIDE DEF l, N
  <2>4. N \in Nat \ {0} /\ l = N + 1
    BY <2>3
  <2> QED BY <2>2, <2>4 DEF l
<1>4. \A k \in 1 .. N : Gap(cut[k], cut[k + 1]) <= Width * Width
  BY <1>1
<1> HIDE DEF N
<1>5. CASE same
  <2>1. Normal(cut, clockwise)
    BY <1>1, <1>5 DEF Normal
  <2> HIDE DEF same, other
  <2> QED BY <1>2, <1>5, <2>1
<1>6. CASE ~same
  <2>1. /\ t \in AnyWalk /\ Len(t) = N + 1 /\ \A i \in 1 .. N + 1 : t[i] = cut[N + 2 - i]
        /\ Area2(t) = 0 - Area2(cut)
    BY <1>1, <1>3, AreaTurned
  <2> HIDE DEF t
  <2>2. Closed(t)
    <3>1. 1 \in 1 .. N + 1 /\ N + 1 \in 1 .. N + 1 /\ N + 2 - 1 = N + 1 /\ N + 2 - (N + 1) = 1
      BY <1>3
    <3>2. t[1] = cut[N + 1] /\ t[N + 1] = cut[1]
      BY <2>1, <3>1
    <3> QED BY <1>1, <1>3, <2>1, <3>2 DEF Closed
  <2>3. ASSUME NEW k \in 1 .. N PROVE Gap(t[k], t[k + 1]) <= Width * Width
    <3> DEFINE j == N + 1 - k
    <3>1. j \in 1 .. N /\ N + 2 - k = j + 1 /\ N + 2 - (k + 1) = j /\ k \in 1 .. N + 1 /\ k + 1 \in 1 .. N + 1
          /\ j \in 1 .. N + 1 /\ j + 1 \in 1 .. N + 1
      BY <1>3
    <3> HIDE DEF j
    <3>2. t[k] = cut[j + 1] /\ t[k + 1] = cut[j]
      BY <2>1, <3>1
    <3>3. Gap(cut[j + 1], cut[j]) = Gap(cut[j], cut[j + 1])
      BY <1>3, <3>1, GapType
    <3> QED BY <1>4, <3>1, <3>2, <3>3
  <2>4. Len(t) - 1 = N
    BY <1>3, <2>1
  <2>5. (Area2(t) < 0) = clockwise
    <3> DEFINE a == Area2(cut)
    <3>1. a \in Int /\ a # 0 /\ Area2(t) = 0 - a /\ ~((a < 0) = clockwise)
      BY <1>1, <1>6, <2>1
    <3> HIDE DEF a
    <3>2. (0 - a < 0) <=> ~(a < 0)
      BY <3>1
    <3>3. (a < 0) \in BOOLEAN /\ (0 - a < 0) \in BOOLEAN
      BY <3>1
    <3>4. CASE clockwise
      BY <3>1, <3>2, <3>4
    <3>5. CASE ~clockwise
      BY <3>1, <3>2, <3>5
    <3> QED BY <3>4, <3>5
  <2>6. Normal(t, clockwise)
    BY <2>1, <2>2, <2>3, <2>4, <2>5 DEF Normal
  <2>7. other = t
    <3>1. Close(t) = t
      BY <2>2 DEF Close
    <3>2. Densify(t) = t
      BY <2>1, <2>3, <2>4, ShortStays
    <3> QED BY <3>1, <3>2
  <2> HIDE DEF same, other
  <2> QED BY <1>2, <1>6, <2>6, <2>7 DEF t
<1> HIDE DEF same
<1> QED BY <1>5, <1>6

\* A number that is less than a round, either way, counted forward.
Turn(x, N) == IF x >= 0 THEN x ELSE x + N

\* That is its remainder.
LEMMA SmallRemainder ==
  ASSUME NEW N \in Nat \ {0}, NEW x \in Int, 0 - N < x, x < N
  PROVE  x % N = Turn(x, N)
<1> DEFINE q == x \div N
           r == x % N
           v == Turn(x, N)
           p == IF x >= 0 THEN 0 ELSE -1
           e == q - p
<1>1. q \in Int /\ r \in 0 .. N - 1 /\ x = N * q + r
  <2>1. x \div N \in Int
    OBVIOUS
  <2>2. x % N \in 0 .. N - 1
    OBVIOUS
  <2>3. x = N * (x \div N) + (x % N)
    OBVIOUS
  <2> QED BY <2>1, <2>2, <2>3
<1>2. v \in 0 .. N - 1 /\ x = N * p + v /\ p \in Int
  BY DEF Turn
<1> HIDE DEF q, r, v, p
<1>3. e \in Int /\ q = p + e
  BY <1>1, <1>2
<1> HIDE DEF e
<1>4. N * q = N * p + N * e /\ N * p \in Int /\ N * e \in Int
  BY <1>2, <1>3
<1>5. N * e = v - r
  BY <1>1, <1>2, <1>4
<1>6. ~(e > 0)
  <2> SUFFICES ASSUME e > 0 PROVE FALSE
    OBVIOUS
  <2>1. e \in Nat /\ 1 <= e
    BY <1>3
  <2>2. N * 1 <= N * e /\ N * 1 = N
    BY <2>1, Grows
  <2> QED BY <1>1, <1>2, <1>5, <2>2
<1>7. ~(e < 0)
  <2> SUFFICES ASSUME e < 0 PROVE FALSE
    OBVIOUS
  <2> DEFINE g == 0 - e
  <2>1. g \in Nat /\ 1 <= g /\ e = 0 - g
    BY <1>3
  <2> HIDE DEF g
  <2>2. N * 1 <= N * g /\ N * 1 = N
    BY <2>1, Grows
  <2>3. N * e = 0 - N * g /\ N * g \in Int
    BY <2>1
  <2> QED BY <1>1, <1>2, <1>5, <2>2, <2>3
<1>8. e = 0 /\ N * 0 = 0
  BY <1>3, <1>6, <1>7
<1>9. r = v
  BY <1>1, <1>2, <1>5, <1>8
<1> QED BY <1>9 DEF r, v

\* Where the places of a ring come to lie on a walk around it.
LEMMA PlaceOn ==
  ASSUME NEW N \in Nat \ {0}, NEW s \in 0 .. N - 1, NEW b \in 0 .. N - 1, NEW k \in 1 .. N
  PROVE  (s + k - 1) % N = b <=> k = Turn(b - s, N) + 1
<1> DEFINE z == s + k - 1
<1>1. z \in Nat /\ z < N + N
  OBVIOUS
<1>2. CASE z < N
  <2>1. z % N = z
    BY <1>1, <1>2, RoundIs
  <2>2. z = b <=> k = Turn(b - s, N) + 1
    BY <1>2 DEF Turn
  <2> QED BY <2>1, <2>2
<1>3. CASE ~(z < N)
  <2>1. z - N \in Nat /\ z - N < N /\ (z - N) + N = z
    BY <1>1, <1>3
  <2>2. z % N = z - N
    <3> DEFINE y == z - N
    <3>1. y \in Nat /\ y < N /\ y + N = z
      BY <2>1
    <3> HIDE DEF y, z
    <3>2. (y + N) % N = y % N /\ y % N = y
      BY <3>1, RoundIs
    <3> QED BY <3>1, <3>2 DEF y
  <2>3. z - N = b <=> k = Turn(b - s, N) + 1
    BY <1>3 DEF Turn
  <2> QED BY <2>2, <2>3
<1> QED BY <1>2, <1>3

\* What lies between them does not depend on where the walk starts.
LEMMA TurnBetween ==
  ASSUME NEW N \in Nat \ {0}, NEW s \in 0 .. N - 1, NEW a \in 0 .. N - 1, NEW b \in 0 .. N - 1
  PROVE  ((Turn(b - s, N) + 1) - (Turn(a - s, N) + 1)) % N = Turn(b - a, N)
<1> DEFINE x == (Turn(b - s, N) + 1) - (Turn(a - s, N) + 1)
<1>1. x \in Int /\ 0 - N < x /\ x < N /\ Turn(x, N) = Turn(b - a, N)
  BY DEF Turn
<1> HIDE DEF x
<1>2. x % N = Turn(x, N)
  BY <1>1, SmallRemainder
<1> QED BY <1>1, <1>2 DEF x

\* From a corner, the next one of the ring is the first to come.
LEMMA NextCorner ==
  ASSUME NEW n \in Nat \ {0}, NEW N \in Nat \ {0}, NEW at, Stairs(at, n), at[1] = 1, at[n + 1] = N + 1,
         NEW i \in 1 .. n, NEW j \in 1 .. n, i # j, NEW h, h = IF i = n THEN 1 ELSE i + 1
  PROVE  /\ at[i] \in 1 .. N /\ at[j] \in 1 .. N /\ at[h] \in 1 .. N
         /\ Turn(at[h] - at[i], N) <= Turn(at[j] - at[i], N)
<1>0. at \in [1 .. n + 1 -> Nat] /\ \A k \in 1 .. n : at[k] < at[k + 1]
  BY DEF Stairs
<1>1. ASSUME NEW k \in 1 .. n PROVE at[k] \in 1 .. N /\ (k > 1 => at[1 + 1] <= at[k])
  <2>1. k \in 1 .. n + 1 /\ k + 1 \in 1 .. n + 1 /\ n + 1 \in k + 1 .. n + 1 /\ 1 \in 1 .. n
    OBVIOUS
  <2>2. at[k + 1] <= at[n + 1] /\ at[k] < at[k + 1] /\ at[k] \in Nat /\ at[k + 1] \in Nat
    BY <1>0, <2>1, StairsGrow
  <2>3. k > 1 => at[1 + 1] <= at[k]
    <3>1. k > 1 => k \in 1 + 1 .. n + 1
      BY <2>1
    <3> QED BY <2>1, <3>1, StairsGrow
  <2>4. at[k] >= 1
    <3>1. CASE k = 1
      BY <3>1
    <3>2. CASE k # 1
      <4>1. k > 1 /\ 1 + 1 \in 1 .. n + 1
        BY <2>1, <3>2
      <4>2. at[1] < at[1 + 1] /\ at[1 + 1] \in Nat
        BY <1>0, <2>1, <4>1
      <4> QED BY <2>2, <2>3, <4>1, <4>2
    <3> QED BY <3>1, <3>2
  <2> DEFINE u == at[k]
             v == at[k + 1]
  <2>5. u \in Nat /\ v \in Nat /\ v <= N + 1 /\ u < v /\ u >= 1
    BY <2>2, <2>4
  <2> HIDE DEF u, v
  <2>6. u \in 1 .. N
    BY <2>5
  <2> QED BY <2>3, <2>6 DEF u
<1>2. ASSUME NEW k \in 1 .. n, NEW m \in 1 .. n, k < m PROVE at[k] < at[m] /\ at[k + 1] <= at[m]
  <2>1. m \in k + 1 .. n + 1 /\ k \in 1 .. n + 1 /\ k + 1 \in 1 .. n + 1 /\ m \in 1 .. n + 1
    BY <1>2
  <2>2. at[k + 1] <= at[m] /\ at[k] < at[k + 1] /\ at[k] \in Nat /\ at[k + 1] \in Nat /\ at[m] \in Nat
    BY <1>0, <2>1, StairsGrow
  <2> QED BY <2>2
<1>3. h \in 1 .. n
  OBVIOUS
<1> DEFINE a == at[i]
           b == at[j]
           c == at[h]
<1>4. a \in 1 .. N /\ b \in 1 .. N /\ c \in 1 .. N
  BY <1>1, <1>3
<1>5. i = n => c = 1 /\ b < a
  <2> SUFFICES ASSUME i = n PROVE c = 1 /\ b < a
    OBVIOUS
  <2>1. h = 1 /\ j < i
    OBVIOUS
  <2> QED BY <1>2, <2>1
<1>6. i # n => a < c /\ (j < i => b < a) /\ (j > i => c <= b)
  <2> SUFFICES ASSUME i # n PROVE a < c /\ (j < i => b < a) /\ (j > i => c <= b)
    OBVIOUS
  <2>1. h = i + 1 /\ i < h
    OBVIOUS
  <2> QED BY <1>2, <1>3, <2>1
<1>7. j < i \/ j > i
  OBVIOUS
<1> HIDE DEF a, b, c
<1>8. Turn(c - a, N) <= Turn(b - a, N)
  <2>1. CASE i = n
    BY <1>4, <1>5, <2>1 DEF Turn
  <2>2. CASE i # n
    BY <1>4, <1>6, <1>7, <2>2 DEF Turn
  <2> QED BY <2>1, <2>2
<1> QED BY <1>4, <1>8 DEF a, b, c

-----------------------------------------------------------------------------
(* Going round an outline.                                                  *)

\* Where the corners of a ring are among its N poses, counted from the first one.
Placed(w, ring, n, N, b) ==
  /\ b \in [1 .. n -> 0 .. N - 1]
  /\ \A i \in 1 .. n : \A x \in 0 .. N - 1 : w[x + 1] = ring[i] <=> x = b[i]

\* The next corner of a ring is the first to come after each, one way or the other.
InOrder(n, N, b) ==
  \/ \A i, j \in 1 .. n : i # j => Turn(b[(i % n) + 1] - b[i], N) <= Turn(b[j] - b[i], N)
  \/ \A i, j \in 1 .. n : i # j => Turn(b[i] - b[(i % n) + 1], N) <= Turn(b[i] - b[j], N)

\* In the ring that is cut, and in it the other way round, the corners are in order.
LEMMA CornersInOrder ==
  ASSUME NEW ring \in AnyWalk, NEW n, n = Unique(ring), NEW cut, NEW at, Traced(cut, ring, n, at),
         NEW w, w = cut \/ w = Turned(cut), NEW N \in Nat \ {0}, Len(cut) = N + 1
  PROVE  \E b : Placed(w, ring, n, N, b) /\ InOrder(n, N, b)
<1>1. /\ cut \in AnyWalk /\ cut[1] = cut[N + 1] /\ Stairs(at, n) /\ at[1] = 1 /\ at[n + 1] = N + 1
      /\ \A i \in 1 .. n : \A k \in 1 .. N : cut[k] = ring[i] <=> k = at[i]
  <2>1. Len(cut) - 1 = N
    OBVIOUS
  <2> QED BY <2>1 DEF Traced, Closed
<1>2. /\ n \in Nat \ {0}
      /\ \A i \in 1 .. n : (i % n) + 1 \in 1 .. n /\ (i % n) + 1 = IF i = n THEN 1 ELSE i + 1
  <2> DEFINE c == Close(ring)
  <2>1. c = Close(ring)
    OBVIOUS
  <2> HIDE DEF c
  <2> QED BY <2>1, CornersAre
<1>3. \A i \in 1 .. n : at[i] \in 1 .. N
  <2> TAKE i \in 1 .. n
  <2>1. i \in 1 .. n + 1 /\ n + 1 \in i + 1 .. n + 1
    BY <1>2
  <2>2. at \in [1 .. n + 1 -> Nat] /\ \A k \in 1 .. n : at[k] < at[k + 1]
    BY <1>1 DEF Stairs
  <2>3. at[i + 1] <= N + 1 /\ at[i] < at[i + 1] /\ at[i] \in Nat /\ at[i + 1] \in Nat
    <3>1. i + 1 \in 1 .. n + 1
      BY <1>2
    <3>2. at[i + 1] <= at[n + 1]
      <4> DEFINE k == n + 1
      <4>1. k \in i + 1 .. n + 1 /\ n \in Nat
        BY <1>2, <2>1
      <4> HIDE DEF k
      <4>2. at[i + 1] <= at[k]
        BY <1>1, <4>1, StairsGrow
      <4> QED BY <4>2 DEF k
    <3>3. at[i] \in Nat /\ at[i + 1] \in Nat /\ at[i] < at[i + 1]
      BY <2>1, <2>2, <3>1
    <3>4. at[n + 1] = N + 1
      BY <1>1
    <3> QED BY <3>2, <3>3, <3>4
  <2>4. at[i] >= 1
    <3>1. CASE i = 1
      BY <1>1, <3>1
    <3>2. CASE i # 1
      <4>1. 1 \in 1 .. n /\ i \in 1 + 1 .. n + 1 /\ 1 + 1 \in 1 .. n + 1
        BY <1>2, <3>2
      <4>2. at[1 + 1] <= at[i] /\ at[1] < at[1 + 1] /\ at[1 + 1] \in Nat
        BY <1>1, <1>2, <2>2, <4>1, StairsGrow
      <4> QED BY <1>1, <2>3, <4>2
    <3> QED BY <3>1, <3>2
  <2> DEFINE u == at[i]
             v == at[i + 1]
  <2>5. u \in Nat /\ v \in Nat /\ v <= N + 1 /\ u < v /\ u >= 1
    BY <2>3, <2>4
  <2> HIDE DEF u, v
  <2>6. u \in 1 .. N
    BY <2>5
  <2> QED BY <2>6 DEF u
<1>4. ASSUME NEW i \in 1 .. n, NEW j \in 1 .. n, i # j
      PROVE  Turn(at[(i % n) + 1] - at[i], N) <= Turn(at[j] - at[i], N)
  <2> DEFINE h == (i % n) + 1
  <2>1. h = IF i = n THEN 1 ELSE i + 1
    BY <1>2
  <2> HIDE DEF h
  <2>2. Turn(at[h] - at[i], N) <= Turn(at[j] - at[i], N)
    BY <1>1, <1>2, <1>4, <2>1, NextCorner
  <2> QED BY <2>2 DEF h
<1>5. CASE w = cut
  <2> DEFINE b == [i \in 1 .. n |-> at[i] - 1]
  <2>1. b \in [1 .. n -> 0 .. N - 1] /\ \A i \in 1 .. n : b[i] = at[i] - 1
    <3>1. \A i \in 1 .. n : at[i] - 1 \in 0 .. N - 1
      BY <1>3
    <3> QED BY <3>1
  <2> HIDE DEF b
  <2>2. ASSUME NEW i \in 1 .. n, NEW x \in 0 .. N - 1 PROVE w[x + 1] = ring[i] <=> x = b[i]
    <3> DEFINE u == at[i]
    <3>1. x + 1 \in 1 .. N /\ b[i] = u - 1 /\ u \in 1 .. N
      BY <1>3, <2>1
    <3>2. cut[x + 1] = ring[i] <=> x + 1 = u
      BY <1>1, <3>1
    <3> HIDE DEF u
    <3>3. x + 1 = u <=> x = b[i]
      BY <3>1
    <3> QED BY <1>5, <3>2, <3>3
  <2>3. \A i, j \in 1 .. n : Turn(b[j] - b[i], N) = Turn(at[j] - at[i], N)
    <3> TAKE i, j \in 1 .. n
    <3> DEFINE u == at[i]
               v == at[j]
    <3>1. u \in Int /\ v \in Int /\ b[i] = u - 1 /\ b[j] = v - 1
      BY <1>3, <2>1
    <3> HIDE DEF u, v
    <3>2. b[j] - b[i] = v - u
      BY <3>1
    <3> QED BY <3>2 DEF u, v
  <2>4. \A i, j \in 1 .. n : i # j => Turn(b[(i % n) + 1] - b[i], N) <= Turn(b[j] - b[i], N)
    <3> TAKE i, j \in 1 .. n
    <3>1. (i % n) + 1 \in 1 .. n
      BY <1>2
    <3> DEFINE h == (i % n) + 1
    <3>2. i # j => Turn(at[h] - at[i], N) <= Turn(at[j] - at[i], N)
      BY <1>4
    <3> HIDE DEF h
    <3>3. Turn(b[h] - b[i], N) = Turn(at[h] - at[i], N) /\ Turn(b[j] - b[i], N) = Turn(at[j] - at[i], N)
      BY <2>3, <3>1 DEF h
    <3>4. i # j => Turn(b[h] - b[i], N) <= Turn(b[j] - b[i], N)
      BY <3>2, <3>3
    <3> QED BY <3>4 DEF h
  <2>5. Placed(w, ring, n, N, b) /\ InOrder(n, N, b)
    BY <2>1, <2>2, <2>4 DEF Placed, InOrder
  <2> QED BY <2>5
<1>6. CASE w = Turned(cut)
  <2> DEFINE b == [i \in 1 .. n |-> IF at[i] = 1 THEN 0 ELSE N + 1 - at[i]]
  <2>1. b \in [1 .. n -> 0 .. N - 1] /\ \A i \in 1 .. n : b[i] = IF at[i] = 1 THEN 0 ELSE N + 1 - at[i]
    <3>1. \A i \in 1 .. n : (IF at[i] = 1 THEN 0 ELSE N + 1 - at[i]) \in 0 .. N - 1
      <4> TAKE i \in 1 .. n
      <4> DEFINE u == at[i]
      <4>1. u \in 1 .. N
        BY <1>3
      <4> HIDE DEF u
      <4>2. (IF u = 1 THEN 0 ELSE N + 1 - u) \in 0 .. N - 1
        BY <4>1
      <4> QED BY <4>2 DEF u
    <3> QED BY <3>1
  <2> HIDE DEF b
  <2>2. \A i \in 1 .. N + 1 : w[i] = cut[N + 2 - i]
    BY <1>1, <1>6, AreaTurned
  <2>3. ASSUME NEW i \in 1 .. n, NEW x \in 0 .. N - 1 PROVE w[x + 1] = ring[i] <=> x = b[i]
    <3> DEFINE u == at[i]
    <3>1. u \in 1 .. N /\ b[i] = IF u = 1 THEN 0 ELSE N + 1 - u
      BY <1>3, <2>1
    <3>2. w[x + 1] = cut[N + 1 - x]
      <4>1. x + 1 \in 1 .. N + 1 /\ N + 2 - (x + 1) = N + 1 - x
        OBVIOUS
      <4> QED BY <2>2, <4>1
    <3>3. CASE x = 0
      <4>1. w[x + 1] = cut[1] /\ 1 \in 1 .. N
        <5>1. N + 1 - 0 = N + 1 /\ 1 \in 1 .. N
          OBVIOUS
        <5> QED BY <1>1, <3>2, <3>3, <5>1
      <4>2. cut[1] = ring[i] <=> 1 = u
        BY <1>1, <4>1
      <4> HIDE DEF u
      <4>3. 1 = u <=> x = b[i]
        BY <3>1, <3>3
      <4> QED BY <4>1, <4>2, <4>3
    <3>4. CASE x # 0
      <4>1. N + 1 - x \in 1 .. N
        BY <3>4
      <4>2. cut[N + 1 - x] = ring[i] <=> N + 1 - x = u
        BY <1>1, <4>1
      <4> HIDE DEF u
      <4>3. N + 1 - x = u <=> x = b[i]
        BY <3>1, <3>4
      <4> QED BY <3>2, <4>2, <4>3
    <3> QED BY <3>3, <3>4
  <2>4. \A i, j \in 1 .. n : Turn(b[i] - b[j], N) = Turn(at[j] - at[i], N)
    <3> TAKE i, j \in 1 .. n
    <3> DEFINE u == at[i]
               v == at[j]
               y == b[i]
               z == b[j]
    <3>1. /\ u \in 1 .. N /\ v \in 1 .. N
          /\ y = (IF u = 1 THEN 0 ELSE N + 1 - u) /\ z = (IF v = 1 THEN 0 ELSE N + 1 - v)
      BY <1>3, <2>1
    <3> HIDE DEF u, v, y, z
    <3>2. Turn(y - z, N) = Turn(v - u, N)
      BY <3>1 DEF Turn
    <3> QED BY <3>2 DEF u, v, y, z
  <2>5. \A i, j \in 1 .. n : i # j => Turn(b[i] - b[(i % n) + 1], N) <= Turn(b[i] - b[j], N)
    <3> TAKE i, j \in 1 .. n
    <3>1. (i % n) + 1 \in 1 .. n
      BY <1>2
    <3> DEFINE h == (i % n) + 1
    <3>2. i # j => Turn(at[h] - at[i], N) <= Turn(at[j] - at[i], N)
      BY <1>4
    <3> HIDE DEF h
    <3>3. Turn(b[i] - b[h], N) = Turn(at[h] - at[i], N) /\ Turn(b[i] - b[j], N) = Turn(at[j] - at[i], N)
      BY <2>4, <3>1 DEF h
    <3>4. i # j => Turn(b[i] - b[h], N) <= Turn(b[i] - b[j], N)
      BY <3>2, <3>3
    <3> QED BY <3>4 DEF h
  <2>6. Placed(w, ring, n, N, b) /\ InOrder(n, N, b)
    BY <2>1, <2>3, <2>5 DEF Placed, InOrder
  <2> QED BY <2>6
<1> QED BY <1>5, <1>6

\* A walk around a ring, from wherever on it, goes round it.
LEMMA CircledGoesRound ==
  ASSUME NEW ring \in AnyWalk, IsOutline(ring), NEW clockwise \in BOOLEAN,
         NEW w, w = Normalize(ring, clockwise), NEW N \in Nat \ {0}, Len(w) = N + 1,
         NEW s \in 0 .. N - 1, NEW walk, Circled(walk, w, N, s)
  PROVE  GoesRound(walk, ring, clockwise)
<1> DEFINE n == Unique(ring)
           cut == Densify(Close(ring))
           length == Len(walk) - 1
           After_(i) == (i % n) + 1
           Place(i) == CHOOSE k \in 1 .. length : walk[k] = ring[i]
           Steps(i, j) == (Place(j) - Place(i)) % length
<1>1. PICK at : Traced(cut, ring, n, at)
  <2>1. n = Unique(ring)
    OBVIOUS
  <2> HIDE DEF n
  <2> QED BY <2>1, OutlineCut
<1>2. Normal(w, clockwise) /\ (w = cut \/ w = Turned(cut))
  <2>1. n = Unique(ring) /\ cut = Densify(Close(ring))
    OBVIOUS
  <2> HIDE DEF n, cut
  <2>2. LET x == Normalize(ring, clockwise) IN Normal(x, clockwise) /\ (x = cut \/ x = Turned(cut))
    BY <1>1, <2>1, NormalizeOutline
  <2> QED BY <2>2
<1>3. w \in AnyWalk /\ Closed(w) /\ (Area2(w) < 0) = clockwise
  BY <1>2 DEF Normal
<1>4. /\ n \in Nat \ {0}
      /\ \A i \in 1 .. n : After_(i) \in 1 .. n
  <2> DEFINE c == Close(ring)
  <2>1. c = Close(ring) /\ n = Unique(ring)
    OBVIOUS
  <2> HIDE DEF c, n
  <2> QED BY <2>1, CornersAre
<1>5. cut \in AnyWalk /\ Len(cut) = N + 1
  <2>1. cut \in AnyWalk
    BY <1>1 DEF Traced
  <2> HIDE DEF cut
  <2>2. CASE w = cut
    BY <2>1, <2>2
  <2>3. CASE w = Turned(cut)
    <3>1. Len(cut) \in Nat /\ Len(cut) > 1
      <4>1. cut \in Seq(Point) /\ Len(cut) > 1
        BY <2>1 DEF AnyWalk
      <4> QED BY <4>1, LenProperties
    <3> DEFINE M == Len(cut) - 1
    <3>2. M \in Nat /\ Len(cut) = M + 1
      <4> DEFINE l == Len(cut)
      <4>1. l \in Nat /\ l > 1 /\ M = l - 1
        BY <3>1
      <4> HIDE DEF l, M
      <4>2. M \in Nat /\ l = M + 1
        BY <4>1
      <4> QED BY <4>2 DEF l
    <3> HIDE DEF M
    <3>3. Len(w) = M + 1
      BY <2>1, <2>3, <3>2, AreaTurned
    <3> QED BY <2>1, <3>2, <3>3
  <2> QED BY <1>2, <2>1, <2>2, <2>3
<1>6. PICK b : Placed(w, ring, n, N, b) /\ InOrder(n, N, b)
  <2>1. n = Unique(ring)
    OBVIOUS
  <2> HIDE DEF n, cut
  <2> QED BY <1>1, <1>2, <1>5, <2>1, CornersInOrder
<1>7. /\ walk \in AnyWalk /\ Len(walk) = N + 1
      /\ \A k \in 1 .. N + 1 : walk[k] = w[((s + k - 1) % N) + 1]
  BY DEF Circled
<1>8. length = N
  BY <1>7
<1>9. Area2(walk) = Area2(w)
  BY <1>3, AreaCircled
<1> HIDE DEF n, cut, length
<1>10. ASSUME NEW i \in 1 .. n, NEW k \in 1 .. N PROVE walk[k] = ring[i] <=> k = Turn(b[i] - s, N) + 1
  <2> DEFINE x == (s + k - 1) % N
             y == b[i]
  <2>1. x \in 0 .. N - 1
    <3>1. s + k - 1 \in Nat
      OBVIOUS
    <3> QED BY <3>1, RoundIs
  <2>2. k \in 1 .. N + 1
    OBVIOUS
  <2>3. walk[k] = w[x + 1]
    BY <1>7, <2>2
  <2>4. y \in 0 .. N - 1
    BY <1>6 DEF Placed
  <2>5. x = y <=> k = Turn(y - s, N) + 1
    BY <2>4, PlaceOn
  <2> HIDE DEF x
  <2>6. w[x + 1] = ring[i] <=> x = y
    BY <1>6, <2>1 DEF Placed
  <2> QED BY <2>3, <2>5, <2>6
<1>11. \A i \in 1 .. n : b[i] \in 0 .. N - 1 /\ Turn(b[i] - s, N) + 1 \in 1 .. N
  <2> TAKE i \in 1 .. n
  <2> DEFINE y == b[i]
  <2>1. y \in 0 .. N - 1
    BY <1>6 DEF Placed
  <2> HIDE DEF y
  <2>2. Turn(y - s, N) + 1 \in 1 .. N
    BY <2>1 DEF Turn
  <2> QED BY <2>1, <2>2 DEF y
<1>12. \A i \in 1 .. n : Place(i) = Turn(b[i] - s, N) + 1
  <2> TAKE i \in 1 .. n
  <2> DEFINE y == Turn(b[i] - s, N) + 1
  <2>1. y \in 1 .. N /\ \A k \in 1 .. N : walk[k] = ring[i] <=> k = y
    BY <1>10, <1>11
  <2> HIDE DEF y
  <2>2. (CHOOSE k \in 1 .. N : walk[k] = ring[i]) = y
    BY <2>1
  <2> QED BY <1>8, <2>2 DEF y
<1> HIDE DEF Place
<1>13. \A i, j \in 1 .. n : Steps(i, j) = Turn(b[j] - b[i], N)
  <2> TAKE i, j \in 1 .. n
  <2> DEFINE x == b[i]
             y == b[j]
  <2>1. x \in 0 .. N - 1 /\ y \in 0 .. N - 1
    BY <1>11
  <2>2. Place(i) = Turn(x - s, N) + 1 /\ Place(j) = Turn(y - s, N) + 1
    BY <1>12
  <2> HIDE DEF x, y
  <2>3. ((Turn(y - s, N) + 1) - (Turn(x - s, N) + 1)) % N = Turn(y - x, N)
    BY <2>1, TurnBetween
  <2>4. Steps(i, j) = Turn(y - x, N)
    BY <1>8, <2>2, <2>3
  <2> HIDE DEF Steps
  <2> QED BY <2>4 DEF x, y
<1> HIDE DEF Steps
<1>14. \A i \in 1 .. n : \E k \in 1 .. length : \A l \in 1 .. length : walk[l] = ring[i] <=> l = k
  <2> TAKE i \in 1 .. n
  <2> DEFINE y == Turn(b[i] - s, N) + 1
  <2>1. y \in 1 .. N /\ \A k \in 1 .. N : walk[k] = ring[i] <=> k = y
    BY <1>10, <1>11
  <2> HIDE DEF y
  <2> QED BY <1>8, <2>1
<1>15. \/ \A i, j \in 1 .. n : i # j => Steps(i, After_(i)) <= Steps(i, j)
       \/ \A i, j \in 1 .. n : i # j => Steps(After_(i), i) <= Steps(j, i)
  <2>1. CASE \A i, j \in 1 .. n : i # j => Turn(b[(i % n) + 1] - b[i], N) <= Turn(b[j] - b[i], N)
    <3>1. ASSUME NEW i \in 1 .. n, NEW j \in 1 .. n, i # j PROVE Steps(i, After_(i)) <= Steps(i, j)
      <4> DEFINE h == After_(i)
      <4>1. h \in 1 .. n /\ Turn(b[h] - b[i], N) <= Turn(b[j] - b[i], N)
        BY <1>4, <2>1, <3>1
      <4> HIDE DEF h
      <4>2. Steps(i, h) <= Steps(i, j)
        BY <1>13, <4>1
      <4> QED BY <4>2 DEF h
    <3> QED BY <3>1
  <2>2. CASE \A i, j \in 1 .. n : i # j => Turn(b[i] - b[(i % n) + 1], N) <= Turn(b[i] - b[j], N)
    <3>1. ASSUME NEW i \in 1 .. n, NEW j \in 1 .. n, i # j PROVE Steps(After_(i), i) <= Steps(j, i)
      <4> DEFINE h == After_(i)
      <4>1. h \in 1 .. n /\ Turn(b[i] - b[h], N) <= Turn(b[i] - b[j], N)
        BY <1>4, <2>2, <3>1
      <4> HIDE DEF h
      <4>2. Steps(h, i) <= Steps(j, i)
        BY <1>13, <4>1
      <4> QED BY <4>2 DEF h
    <3> QED BY <3>1
  <2>3. InOrder(n, N, b)
    BY <1>6
  <2> QED BY <2>1, <2>2, <2>3 DEF InOrder
<1>16. \A k \in 1 .. N + 1 : \E i \in 1 .. n : OnEdge(walk[k], ring[i], ring[After_(i)])
  <2> TAKE k \in 1 .. N + 1
  <2> DEFINE x == (s + k - 1) % N
  <2>1. x \in 0 .. N - 1
    <3>1. s + k - 1 \in Nat
      OBVIOUS
    <3> QED BY <3>1, RoundIs
  <2>2. walk[k] = w[x + 1]
    BY <1>7
  <2> HIDE DEF x
  <2>3. x + 1 \in 1 .. N + 1 /\ N + 2 - (x + 1) \in 1 .. N + 1
    BY <2>1
  <2>4. \A y \in 1 .. N + 1 : \E i \in 1 .. n : OnEdge(cut[y], ring[i], ring[After_(i)])
    BY <1>1, <1>5 DEF Traced
  <2>5. w[x + 1] = cut[x + 1] \/ w[x + 1] = cut[N + 2 - (x + 1)]
    <3>1. CASE w = cut
      BY <3>1
    <3>2. CASE w = Turned(cut)
      <4>1. \A i \in 1 .. N + 1 : Turned(cut)[i] = cut[N + 2 - i]
        BY <1>5, AreaTurned
      <4> QED BY <2>3, <3>2, <4>1
    <3> QED BY <1>2, <3>1, <3>2
  <2>6. \E y \in 1 .. N + 1 : walk[k] = cut[y]
    BY <2>2, <2>3, <2>5
  <2> QED BY <2>4, <2>6
<1>17. DOMAIN walk = 1 .. N + 1
  <2>1. walk \in Seq(Point)
    BY <1>7 DEF AnyWalk
  <2> QED BY <1>7, <2>1, LenProperties
<1>18. (Area2(walk) < 0) = clockwise
  BY <1>3, <1>9
<1>19. \A k \in DOMAIN walk : \E i \in 1 .. n : OnEdge(walk[k], ring[i], ring[After_(i)])
  BY <1>16, <1>17
<1> QED BY <1>14, <1>15, <1>18, <1>19, Zenon DEF GoesRound, n, length, Place, Steps

\* A ring that starts at another of its points is the same walk, from another place of it.
LEMMA StartAtCircles ==
  ASSUME NEW ring \in AnyRound, NEW N \in Nat \ {0}, N = Unique(ring), Len(ring) = N + 1, NEW i \in 1 .. N + 1
  PROVE  \E s \in 0 .. N - 1 : Circled(StartAt(ring, i), ring, N, s)
<1> DEFINE s == IF i = N + 1 THEN 0 ELSE i - 1
           walk == StartAt(ring, i)
<1>1. s \in 0 .. N - 1
  OBVIOUS
<1>2. walk \in AnyWalk /\ Len(walk) = N + 1
  <2>1. RoundFrom(walk, ring, N, i)
    BY StartAtIs
  <2> HIDE DEF walk
  <2> QED BY <2>1 DEF RoundFrom, AnyRound
<1>3. ASSUME NEW k \in 1 .. N + 1 PROVE walk[k] = ring[((s + k - 1) % N) + 1]
  <2>1. walk[k] = ring[((i + k - 2) % N) + 1]
    BY DEF StartAt
  <2>2. (i + k - 2) % N = (s + k - 1) % N
    <3>1. CASE i = N + 1
      <4> DEFINE x == k - 1
      <4>1. x \in Nat /\ i + k - 2 = x + N /\ s + k - 1 = x
        BY <3>1
      <4> HIDE DEF x, s
      <4>2. (x + N) % N = x % N
        BY <4>1, RoundIs
      <4> QED BY <4>1, <4>2
    <3>2. CASE i # N + 1
      <4>1. i + k - 2 = s + k - 1
        BY <3>2
      <4> QED BY <4>1
    <3> QED BY <3>1, <3>2
  <2> QED BY <2>1, <2>2
<1> HIDE DEF walk, s
<1>4. Circled(walk, ring, N, s)
  BY <1>2, <1>3 DEF Circled
<1> QED BY <1>1, <1>4 DEF walk

\* A closed ring is a walk around itself.
LEMMA CirclesItself ==
  ASSUME NEW ring \in AnyWalk, Closed(ring), NEW N \in Nat \ {0}, Len(ring) = N + 1
  PROVE  Circled(ring, ring, N, 0)
<1>1. ring[1] = ring[N + 1]
  BY DEF Closed
<1>2. ASSUME NEW k \in 1 .. N + 1 PROVE ring[k] = ring[((0 + k - 1) % N) + 1]
  <2> DEFINE x == k - 1
  <2>1. x \in Nat /\ 0 + k - 1 = x /\ k = x + 1
    OBVIOUS
  <2>2. CASE x < N
    <3>1. x % N = x
      BY <2>1, <2>2, RoundIs
    <3> QED BY <2>1, <3>1
  <2>3. CASE ~(x < N)
    <3>1. x = N /\ k = N + 1 /\ 0 \in Nat /\ 0 < N /\ 0 + N = N
      BY <2>1, <2>3
    <3>2. (0 + N) % N = 0 % N /\ 0 % N = 0
      BY <3>1, RoundIs
    <3>3. ((0 + k - 1) % N) + 1 = 1
      BY <3>1, <3>2
    <3> QED BY <1>1, <3>1, <3>3
  <2> QED BY <2>2, <2>3
<1> QED BY <1>2 DEF Circled

\* A normalized outline goes round it.
LEMMA NormalizedGoesRound ==
  ASSUME NEW ring \in AnyWalk, IsOutline(ring), NEW clockwise \in BOOLEAN
  PROVE  GoesRound(Normalize(ring, clockwise), ring, clockwise)
<1> DEFINE w == Normalize(ring, clockwise)
           N == Unique(w)
<1>1. w = Normalize(ring, clockwise)
  OBVIOUS
<1>2. w \in AnyRound
  BY NormalizeIs
<1> HIDE DEF w
<1>3. w \in AnyWalk /\ Closed(w) /\ N \in Nat \ {0} /\ Len(w) = N + 1
  BY <1>2, RoundLength
<1> HIDE DEF N
<1>4. Circled(w, w, N, 0) /\ 0 \in 0 .. N - 1
  BY <1>3, CirclesItself
<1>5. GoesRound(w, ring, clockwise)
  BY <1>1, <1>3, <1>4, CircledGoesRound
<1> QED BY <1>5 DEF w

\* So does one that starts elsewhere, and is normalized again for that.
LEMMA RotatedGoesRound ==
  ASSUME NEW ring \in AnyWalk, IsOutline(ring), NEW clockwise \in BOOLEAN,
         NEW place \in Point, NEW advance \in BOOLEAN
  PROVE  GoesRound(Rotate(Normalize(ring, clockwise), place, advance, clockwise), ring, clockwise)
<1> DEFINE w == Normalize(ring, clockwise)
           N == Unique(w)
           i == Nearest(w, place)
           first == IF advance THEN i + 1 ELSE i
<1>1. w = Normalize(ring, clockwise)
  OBVIOUS
<1>2. w \in AnyRound
  BY NormalizeIs
<1>3. Normal(w, clockwise)
  <2> DEFINE n == Unique(ring)
             cut == Densify(Close(ring))
  <2>1. n = Unique(ring) /\ cut = Densify(Close(ring))
    OBVIOUS
  <2> HIDE DEF n, cut
  <2>2. PICK at : Traced(cut, ring, n, at)
    BY <2>1, OutlineCut
  <2>3. LET x == Normalize(ring, clockwise) IN Normal(x, clockwise) /\ (x = cut \/ x = Turned(cut))
    BY <2>1, <2>2, NormalizeOutline
  <2> QED BY <2>3
<1> HIDE DEF w
<1>4. Normalize(w, clockwise) = w
  BY <1>3, NormalStays
<1>5. Rotate(w, place, advance, clockwise) = StartAt(w, first)
  BY <1>4 DEF Rotate
<1>6. N \in Nat \ {0} /\ Len(w) = N + 1 /\ i \in 1 .. N /\ N = Unique(w)
  BY <1>2, NearestIs
<1> HIDE DEF N, i
<1>7. first \in 1 .. N + 1
  BY <1>6
<1> HIDE DEF first
<1>8. PICK s \in 0 .. N - 1 : Circled(StartAt(w, first), w, N, s)
  BY <1>2, <1>6, <1>7, StartAtCircles
<1>9. GoesRound(StartAt(w, first), ring, clockwise)
  BY <1>1, <1>6, <1>8, CircledGoesRound
<1> QED BY <1>5, <1>9 DEF w

\* Whatever the rings of a tour are, as long as each is an outline (corners that are different
\* points and on no edge of another, edges that divide into whole units, something enclosed): its
\* walk passes every corner of the ring once and in their order, stays on its edges and has the
\* direction asked for (normalizeHeadlandSwath(), rotateClosedSwathToNearestPoint() and append_group()).
THEOREM RingsGoneRound ==
  ASSUME NEW tour \in AnyTours, Len(tour) > 0, \A n \in 1 .. Len(tour) : IsOutline(tour[n].ring)
  PROVE  \A n \in 1 .. Len(tour) : GoesRound(Ordered(tour)[n], tour[n].ring, tour[n].clockwise)
<1> DEFINE N == Len(tour)
           Ring(n) == Normalize(tour[n].ring, tour[n].clockwise)
<1>1. N \in Nat /\ \A n \in 1 .. N : tour[n].ring \in AnyWalk /\ tour[n].clockwise \in BOOLEAN
  BY TourType
<1>2. PICK g : IsOrdered(tour, g)
  BY OrderedUnfold
<1>3. /\ g \in [1 .. N -> AnyRound] /\ Ordered(tour) = g
      /\ \A n \in 1 .. N :
           g[n] = IF n > 1 THEN Rotate(Ring(n), g[n - 1][1], tour[n].place > 2, tour[n].clockwise) ELSE Ring(1)
  BY <1>2 DEF IsOrdered
<1> HIDE DEF N
<1>4. ASSUME NEW n \in 1 .. N PROVE GoesRound(g[n], tour[n].ring, tour[n].clockwise)
  <2> DEFINE ring == tour[n].ring
             clockwise == tour[n].clockwise
  <2>1. ring \in AnyWalk /\ IsOutline(ring) /\ clockwise \in BOOLEAN
    BY <1>1 DEF N
  <2>2. CASE n > 1
    <3> DEFINE place == g[n - 1][1]
               advance == tour[n].place > 2
    <3>1. n - 1 \in 1 .. N
      BY <1>1, <2>2
    <3>2. place \in Point /\ advance \in BOOLEAN
      BY <1>3, <3>1, FirstIs
    <3>3. g[n] = Rotate(Normalize(ring, clockwise), place, advance, clockwise)
      BY <1>3, <2>2
    <3> HIDE DEF ring, clockwise, place, advance
    <3>4. GoesRound(g[n], ring, clockwise)
      BY <2>1, <3>2, <3>3, RotatedGoesRound
    <3> QED BY <3>4 DEF ring, clockwise
  <2>3. CASE n = 1
    <3>1. g[n] = Normalize(ring, clockwise)
      BY <1>3, <2>3
    <3> HIDE DEF ring, clockwise
    <3>2. GoesRound(g[n], ring, clockwise)
      BY <2>1, <3>1, NormalizedGoesRound
    <3> QED BY <3>2 DEF ring, clockwise
  <2>4. n > 1 \/ n = 1
    BY <1>1
  <2> QED BY <2>2, <2>3, <2>4
<1> QED BY <1>3, <1>4 DEF N

\* Whatever the tour and whatever the number of loops, as long as every ring is an outline and the
\* rings of a group are counted: each ring is gone round as asked for, the walks follow on each
\* other, and the path has a gap only where the count of rings says that a group starts
\* (orderHeadlandSwaths(), createConnectedHeadlandPath()).
THEOREM GroupsAlwaysWalked == Spec => []GroupsAreWalked
<1>1. AllToursWalked
  <2> SUFFICES ASSUME NEW sample \in SampleTours PROVE Walked(sample.tour, sample.loops)
    BY DEF AllToursWalked
  <2> DEFINE tour == sample.tour
             loops == sample.loops
             N == Len(tour)
  <2>1. /\ loops \in Nat \ {0} /\ tour \in Seq([ring : Seq(Point), place : Nat, clockwise : BOOLEAN])
        /\ IsHeadlandTour(tour, loops)
        /\ \A n \in DOMAIN tour : Len(tour[n].ring) > 2 /\ IsOutline(tour[n].ring)
    BY SampleToursAssumption DEF AnyTour, Point
  <2> HIDE DEF tour, loops
  <2>2. DOMAIN tour = 1 .. N /\ N \in Nat
    BY <2>1, LenProperties
  <2>3. ASSUME NEW n \in 1 .. N PROVE tour[n] \in [ring : AnyWalk, place : Nat, clockwise : BOOLEAN]
    <3>1. tour[n] \in [ring : Seq(Point), place : Nat, clockwise : BOOLEAN] /\ Len(tour[n].ring) > 2
      BY <2>1, <2>2, ElementOfSeq
    <3>2. tour[n].ring \in Seq(Point) /\ Len(tour[n].ring) \in Nat
      BY <3>1, LenProperties
    <3>3. tour[n].ring \in AnyWalk
      BY <3>1, <3>2 DEF AnyWalk
    <3> QED BY <3>1, <3>3
  <2>4. tour \in AnyTours
    <3> DEFINE V == [ring : AnyWalk, place : Nat, clockwise : BOOLEAN]
               W == [ring : Seq(Point), place : Nat, clockwise : BOOLEAN]
    <3>1. tour \in Seq(W) /\ \A n \in 1 .. N : tour[n] \in V
      BY <2>1, <2>3
    <3> HIDE DEF V, W
    <3>2. tour \in [1 .. N -> V]
      <4>1. tour = [n \in 1 .. N |-> tour[n]]
        BY <3>1, LenProperties
      <4> HIDE DEF N
      <4> QED BY <3>1, <4>1
    <3>3. \A T : \A l \in Nat : \A h \in [1 .. l -> T] : h \in Seq(T)
      OBVIOUS
    <3>4. tour \in Seq(V)
      <4> HIDE DEF N
      <4> QED BY <2>2, <3>2, <3>3
    <3> QED BY <3>4 DEF V, AnyTours
  <2>5. /\ N > 0 /\ \A n \in 2 .. N : StartsGroup(tour, n) \/ tour[n].place = tour[n - 1].place + 1
        /\ \A n \in 1 .. N : tour[n].place \in 1 .. loops
    BY <2>1, Zenon DEF IsHeadlandTour
  <2> DEFINE walks == Ordered(tour)
  <2>6. /\ Len(walks) = N /\ FollowOn(walks, tour)
        /\ Unbroken(walks, loops) /\ GroupsUnbroken(walks, tour, loops)
    BY <2>1, <2>4, <2>5, RingsFollowOn
  <2>7. \A n \in DOMAIN tour : GoesRound(walks[n], tour[n].ring, tour[n].clockwise)
    BY <2>1, <2>2, <2>4, <2>5, RingsGoneRound
  <2> HIDE DEF walks
  <2>8. Walked(tour, loops)
    BY <2>6, <2>7, Zenon DEF Walked, walks
  <2> QED BY <2>8 DEF tour, loops
<1>2. GroupsAreWalked
  BY <1>1 DEF GroupsAreWalked
<1> QED BY <1>2, PTL

-----------------------------------------------------------------------------
(* Types.  What the script knows of its loop indices at each of its steps.  *)
IndexInv ==
  /\ answer \in Plans
  /\ chunk \in Nat
  /\ step = "segment" => segment # 0
  /\ step \in {"goto", "chunk", "follow"} => segment \in 1 .. Len(segments)
  /\ step = "follow" => chunk <= segments[segment]

TypeInv == TypeOK /\ IndexInv

LEMMA TypeInit == Init => TypeInv
<1> SUFFICES ASSUME Init PROVE TypeInv
  OBVIOUS
<1>1. shape \in Shapes /\ progress \in DOMAIN shape
  BY CoverageRunAssumption DEF Init
<1>2. segments \in Seq(Nat \ {0}) /\ Len(segments) = 0
  BY DEF Init
<1>3. goal \in [Servers -> Going \union {"none", "rejected", "canceling", "canceled", "succeeded", "failed"}]
  BY DEF Init
<1>4. exit \in 0 .. 6 /\ segment \in 0 .. Len(segments) + 1 /\ driven \subseteq Nat \X Nat /\ chunk \in Nat
  BY <1>2 DEF Init
<1>5. IndexInv
  BY <1>4 DEF Init, IndexInv
<1>. QED BY <1>1, <1>2, <1>3, <1>4, <1>5 DEF Init, TypeInv, TypeOK

LEMMA TypeSequence ==
  TypeInv /\ (WaitForInterfaces \/ UndockOver \/ NextSegment \/ NavigateOver \/ DockOver) => TypeInv'
<1> SUFFICES ASSUME TypeInv, WaitForInterfaces \/ UndockOver \/ NextSegment \/ NavigateOver \/ DockOver
             PROVE  TypeInv'
  OBVIOUS
<1> USE DEF TypeInv, TypeOK, IndexInv, chunkVars, Goto, Exit, Send, Going, Servers
<1>1. CASE WaitForInterfaces
  BY <1>1 DEF WaitForInterfaces
<1>2. CASE UndockOver
  BY <1>2 DEF UndockOver
<1>3. CASE NextSegment
  BY <1>3 DEF NextSegment
<1>4. CASE NavigateOver
  BY <1>4 DEF NavigateOver
<1>5. CASE DockOver
  BY <1>5 DEF DockOver
<1>. QED BY <1>1, <1>2, <1>3, <1>4, <1>5

LEMMA TypePlan == TypeInv /\ PlanCoverage => TypeInv'
<1> SUFFICES ASSUME TypeInv, PlanCoverage PROVE TypeInv'
  OBVIOUS
<1>1. answer.counts \in Seq(Nat \ {0})
  BY PlansAreCounts DEF TypeInv, IndexInv
<1>. QED BY <1>1 DEF PlanCoverage, TypeInv, TypeOK, IndexInv, chunkVars, Goto, Exit

LEMMA TypeChunk == TypeInv /\ (NextChunk \/ Arm \/ Complete \/ FollowOver) => TypeInv'
<1> SUFFICES ASSUME TypeInv, NextChunk \/ Arm \/ Complete \/ FollowOver PROVE TypeInv'
  OBVIOUS
<1> USE DEF TypeInv, TypeOK, IndexInv, chunkVars, Goto, Exit, Send, ChunkDone, Going, Servers
<1>1. CASE NextChunk
  <2>1. shape' \in Shapes /\ progress' \in DOMAIN shape'
    BY <1>1, CoverageRunAssumption DEF NextChunk
  <2>2. segments[segment] \in Nat \ {0}
    BY <1>1 DEF NextChunk
  <2>3. CASE step' = "follow"
    BY <1>1, <2>1, <2>2, <2>3 DEF NextChunk
  <2>4. CASE step' = "end"
    BY <1>1, <2>1, <2>4 DEF NextChunk
  <2>5. CASE step' = "segment"
    BY <1>1, <2>1, <2>5 DEF NextChunk
  <2>. QED BY <1>1, <2>3, <2>4, <2>5 DEF NextChunk
<1>2. CASE Arm
  BY <1>2 DEF Arm
<1>3. CASE Complete
  BY <1>3 DEF Complete, CancelGoal
<1>4. CASE FollowOver
  <2>1. UNCHANGED <<segments, segment, armed, chunkVars, answer, goal, disturbed>>
    BY <1>4 DEF FollowOver
  <2>2. CASE ChunkDone /\ UNCHANGED exit
    BY <2>1, <2>2
  <2>3. CASE Exit("follow", 5) /\ UNCHANGED <<chunk, driven>>
    BY <2>1, <2>3
  <2>. QED BY <1>4, <2>2, <2>3 DEF FollowOver
<1>. QED BY <1>1, <1>2, <1>3, <1>4

LEMMA TypeExternal == TypeInv /\ (Interrupt \/ External) => TypeInv'
<1> SUFFICES ASSUME TypeInv, Interrupt \/ External PROVE TypeInv'
  OBVIOUS
<1> USE DEF TypeInv, TypeOK, IndexInv, script, chunkVars, Going, Servers
<1>1. CASE Interrupt
  BY <1>1 DEF Interrupt
<1>2. CASE Drive
  <2>1. progress' \in DOMAIN shape
    BY <1>2, CoverageRunAssumption DEF Drive
  <2>. QED BY <1>2, <2>1 DEF Drive
<1>3. ASSUME NEW s \in Servers, Answers(s) PROVE TypeInv'
  BY <1>3 DEF Answers
<1>4. ASSUME NEW s \in Servers, Ends(s) PROVE TypeInv'
  BY <1>4 DEF Ends
<1>5. ASSUME NEW s \in Servers, OthersCancel(s) PROVE TypeInv'
  BY <1>5 DEF OthersCancel
<1>. QED BY <1>1, <1>2, <1>3, <1>4, <1>5 DEF External

LEMMA TypeNext == TypeInv /\ [Next]_vars => TypeInv'
<1> SUFFICES ASSUME TypeInv, [Next]_vars PROVE TypeInv'
  OBVIOUS
<1>1. CASE UNCHANGED vars
  BY <1>1 DEF vars, script, chunkVars, TypeInv, TypeOK, IndexInv
<1>. QED BY <1>1, TypeSequence, TypePlan, TypeChunk, TypeExternal DEF Next, Script

\* Every variable keeps its type; the script looks for no segment and no chunk that is not there.
THEOREM TypeCorrect == Spec => []TypeOK
<1>1. TypeInv => TypeOK
  BY DEF TypeInv
<1>. QED BY <1>1, TypeInit, TypeNext, PTL DEF Spec

-----------------------------------------------------------------------------
(* One mover.  The only goal that can be out is the one the script waits    *)
(* for; what ends a wait is the end of that goal, or its cancelling.        *)

Awaited == CASE step = "undock" -> {"undock"}
             [] step = "goto" -> {"navigate"}
             [] step = "follow" -> {"follow"}
             [] step = "dock" -> {"dock"}
             [] OTHER -> {}

\* Until it is over, and when it was interrupted, the run has no exit code but the initial one.
MoverInv == /\ step # "end" => exit = 1 /\ \A s \in Servers : goal[s] \in Going => s \in Awaited
            /\ step = "end" /\ exit # 1 => \A s \in Servers : goal[s] \notin Going
            /\ \A s, t \in Servers : goal[s] \in Going /\ goal[t] \in Going => s = t

LEMMA MoverInit == Init => MoverInv
  BY DEF Init, MoverInv, Awaited, Going, Servers

LEMMA MoverScript == TypeInv /\ MoverInv /\ Script => MoverInv'
<1> SUFFICES ASSUME TypeInv, MoverInv, Script PROVE MoverInv'
  OBVIOUS
<1> USE DEF TypeInv, TypeOK, MoverInv, Awaited, Going, Servers, Goto, Exit, Send
<1>1. CASE WaitForInterfaces
  BY <1>1 DEF WaitForInterfaces
<1>2. CASE UndockOver
  BY <1>2 DEF UndockOver
<1>3. CASE PlanCoverage
  BY <1>3 DEF PlanCoverage
<1>4. CASE NextSegment
  BY <1>4 DEF NextSegment
<1>5. CASE NavigateOver
  BY <1>5 DEF NavigateOver, NoError
<1>6. CASE NextChunk
  BY <1>6 DEF NextChunk
<1>7. CASE Arm
  BY <1>7 DEF Arm
<1>8. CASE Complete
  BY <1>8 DEF Complete, Accepted, ChunkDone, CancelGoal
<1>9. CASE FollowOver
  BY <1>9 DEF FollowOver, NoError, ChunkDone
<1>10. CASE DockOver
  BY <1>10 DEF DockOver
<1>. QED BY <1>1, <1>2, <1>3, <1>4, <1>5, <1>6, <1>7, <1>8, <1>9, <1>10 DEF Script

LEMMA MoverExternal == TypeInv /\ MoverInv /\ (Interrupt \/ External) => MoverInv'
<1> SUFFICES ASSUME TypeInv, MoverInv, Interrupt \/ External PROVE MoverInv'
  OBVIOUS
<1> USE DEF TypeInv, TypeOK, MoverInv, Awaited, Going, script
<1>1. CASE Interrupt
  BY <1>1 DEF Interrupt
<1>2. CASE Drive
  BY <1>2 DEF Drive
<1>3. ASSUME NEW s \in Servers, Answers(s) PROVE MoverInv'
  BY <1>3 DEF Answers
<1>4. ASSUME NEW s \in Servers, Ends(s) PROVE MoverInv'
  BY <1>4 DEF Ends
<1>5. ASSUME NEW s \in Servers, OthersCancel(s) PROVE MoverInv'
  BY <1>5 DEF OthersCancel
<1>. QED BY <1>1, <1>2, <1>3, <1>4, <1>5 DEF External

LEMMA MoverNext == TypeInv /\ MoverInv /\ [Next]_vars => MoverInv'
<1> SUFFICES ASSUME TypeInv, MoverInv, [Next]_vars PROVE MoverInv'
  OBVIOUS
<1>1. CASE UNCHANGED vars
  BY <1>1 DEF vars, script, MoverInv, Awaited
<1>. QED BY <1>1, MoverScript, MoverExternal DEF Next

LEMMA MoverMeaning == MoverInv => OneMover
<1> SUFFICES ASSUME MoverInv PROVE OneMover
  OBVIOUS
<1> DEFINE out == {s \in Servers : goal[s] \in Going}
<1>1. CASE out = {}
  BY <1>1, FS_EmptySet DEF MoverInv, OneMover
<1>2. CASE out # {}
  <2>1. PICK s \in Servers : goal[s] \in Going
    BY <1>2
  <2>2. out = {s}
    BY <2>1 DEF MoverInv
  <2>. QED BY <2>2, FS_Singleton DEF MoverInv, OneMover
<1>. QED BY <1>1, <1>2

\* At most one goal of the run is out, and none after a run that ended by itself, whatever the
\* servers, other clients and the transform do.
THEOREM MoverAlone == Spec => []OneMover
<1>. QED BY MoverNext, TypeInit, TypeNext, MoverInit, MoverMeaning, PTL DEF Spec

-----------------------------------------------------------------------------
(* A successful run has driven everything.  The chunks are driven in order, *)
(* so what has been driven is always what lies before the indices; and the  *)
(* two ways a chunk is taken for driven, a goal that succeeded and an armed *)
(* mower near the end, both mean that it may be left where the mower is.    *)

ChunksOf(counts) == UNION {{s} \X (1 .. counts[s]) : s \in DOMAIN counts}

\* The chunks before chunk c of segment s.
Before(counts, s, c) == {p \in ChunksOf(counts) : p[1] < s \/ (p[1] = s /\ p[2] < c)}

LEMMA ChunksOfElements ==
  ASSUME NEW counts \in Seq(Nat \ {0}), NEW p
  PROVE  p \in ChunksOf(counts)
           <=> /\ p = <<p[1], p[2]>> /\ p[1] \in 1 .. Len(counts)
               /\ p[2] \in 1 .. counts[p[1]]
  BY LenProperties DEF ChunksOf

\* Nothing lies before the first chunk.
LEMMA BeforeFirst ==
  ASSUME NEW counts \in Seq(Nat \ {0})
  PROVE  Before(counts, 1, 1) = {}
<1> SUFFICES ASSUME NEW p \in Before(counts, 1, 1) PROVE FALSE
  OBVIOUS
<1>1. p[1] \in 1 .. Len(counts) /\ p[2] \in 1 .. counts[p[1]] /\ (p[1] < 1 \/ p[2] < 1)
  BY ChunksOfElements DEF Before
<1>2. counts[p[1]] \in Nat
  BY <1>1, ElementOfSeq
<1>. QED BY <1>1, <1>2, LenProperties

\* Driving a chunk to its end moves the front by that chunk.
LEMMA BeforeNext ==
  ASSUME NEW counts \in Seq(Nat \ {0}), NEW s \in 1 .. Len(counts), NEW c \in 1 .. counts[s]
  PROVE  Before(counts, s, c) \union {<<s, c>>} = Before(counts, s, c + 1)
<1>1. counts[s] \in Nat /\ Len(counts) \in Nat /\ s \in Nat /\ c \in Nat
  BY ElementOfSeq, LenProperties
<1>2. <<s, c>> \in ChunksOf(counts)
  BY LenProperties DEF ChunksOf
<1>3. ASSUME NEW p \in ChunksOf(counts)
      PROVE  (p[1] = s /\ p[2] < c + 1) <=> ((p[1] = s /\ p[2] < c) \/ p = <<s, c>>)
  <2>1. p = <<p[1], p[2]>> /\ p[1] \in 1 .. Len(counts) /\ p[2] \in 1 .. counts[p[1]]
    BY ChunksOfElements
  <2>2. CASE p[1] = s
    <3>1. p[2] \in Nat /\ (p = <<s, c>> <=> p[2] = c)
      BY <1>1, <2>1, <2>2
    <3>2. p[2] < c + 1 <=> (p[2] < c \/ p[2] = c)
      BY <1>1, <3>1
    <3>. QED BY <2>2, <3>1, <3>2
  <2>3. CASE p[1] # s
    BY <2>1, <2>3
  <2>. QED BY <2>2, <2>3
<1>. QED BY <1>1, <1>2, <1>3 DEF Before

\* Behind the last chunk of a segment is the first chunk of the next.
LEMMA BeforeTurns ==
  ASSUME NEW counts \in Seq(Nat \ {0}), NEW s \in 1 .. Len(counts)
  PROVE  Before(counts, s, counts[s] + 1) = Before(counts, s + 1, 1)
<1>1. counts[s] \in Nat /\ Len(counts) \in Nat /\ s \in Nat
  BY ElementOfSeq, LenProperties
<1>2. ASSUME NEW p \in ChunksOf(counts)
      PROVE  (p[1] < s \/ (p[1] = s /\ p[2] < counts[s] + 1)) <=> (p[1] < s + 1 \/ (p[1] = s + 1 /\ p[2] < 1))
  <2>1. p[1] \in 1 .. Len(counts) /\ p[2] \in 1 .. counts[p[1]]
    BY ChunksOfElements
  <2>2. p[1] \in Nat /\ p[2] \in Nat /\ p[2] >= 1 /\ counts[p[1]] \in Nat /\ p[2] <= counts[p[1]]
    BY <1>1, <2>1, ElementOfSeq
  <2>. QED BY <1>1, <2>2
<1>. QED BY <1>2 DEF Before

\* Behind the last segment is the end of the path.
LEMMA BeforeEnd ==
  ASSUME NEW counts \in Seq(Nat \ {0})
  PROVE  Before(counts, Len(counts) + 1, 1) = ChunksOf(counts)
<1>1. ASSUME NEW p \in ChunksOf(counts) PROVE p[1] < Len(counts) + 1
  BY ChunksOfElements, LenProperties
<1>. QED BY <1>1 DEF Before

\* What has been driven; that a goal to follow a chunk ends as it should, as long as nobody
\* else cancels it; and that an armed mower has been far from the end of its chunk.
DrivenInv ==
  ~disturbed =>
    /\ step \in {"start", "undock", "plan"} => driven = {}
    /\ step \in {"segment", "goto"} => driven = Before(segments, segment, 1)
    /\ step \in {"chunk", "follow"} => driven = Before(segments, segment, chunk)
    /\ step = "dock" \/ (step = "end" /\ exit = 0) => driven = ChunksOf(segments)
    /\ step = "follow" => goal["follow"] \notin {"canceling", "canceled"}
    /\ step = "follow" /\ goal["follow"] = "succeeded" => progress = Len(shape)
    /\ step = "follow" /\ armed => \E k \in 1 .. progress : shape[k] = "far"

\* A chunk that is counted as driven, while nobody else cancels, has been.
LEMMA DoneIsDriven ==
  ASSUME TypeInv, DrivenInv, step = "follow", ChunkDone, UNCHANGED <<segments, segment>>, ~disturbed, AtEnd
  PROVE  driven' = Before(segments, segment, chunk')
<1>1. /\ segments \in Seq(Nat \ {0}) /\ segment \in 1 .. Len(segments) /\ chunk \in 1 .. segments[segment]
  <2>1. /\ segments \in Seq(Nat \ {0}) /\ segment \in 1 .. Len(segments)
        /\ chunk \in 1 .. (segments[segment] + 1) /\ chunk <= segments[segment]
    BY DEF TypeInv, TypeOK, IndexInv
  <2>2. segments[segment] \in Nat
    BY <2>1, ElementOfSeq
  <2>. QED BY <2>1, <2>2
<1>2. driven' = Before(segments, segment, chunk) \union {<<segment, chunk>>} /\ chunk' = chunk + 1
  BY DEF ChunkDone, DrivenInv
<1>. QED BY <1>1, <1>2, BeforeNext

LEMMA DrivenInit == Init => DrivenInv
  BY DEF Init, DrivenInv

LEMMA DrivenSequence ==
  TypeInv /\ MoverInv /\ DrivenInv
    /\ (WaitForInterfaces \/ UndockOver \/ PlanCoverage \/ NextSegment \/ NavigateOver \/ DockOver)
    => DrivenInv'
<1> SUFFICES ASSUME TypeInv, MoverInv, DrivenInv,
                    WaitForInterfaces \/ UndockOver \/ PlanCoverage \/ NextSegment \/ NavigateOver \/ DockOver
             PROVE  DrivenInv'
  OBVIOUS
<1> USE DEF DrivenInv, Goto, Exit, chunkVars
<1>1. CASE WaitForInterfaces
  BY <1>1 DEF WaitForInterfaces
<1>2. CASE UndockOver
  BY <1>2 DEF UndockOver
<1>3. CASE PlanCoverage
  <2>1. CASE step' = "segment"
    <3>1. segments' \in Seq(Nat \ {0}) /\ segment' = 1
      BY <1>3, <2>1, PlansAreCounts DEF PlanCoverage, TypeInv, IndexInv
    <3>2. Before(segments', segment', 1) = {}
      BY <3>1, BeforeFirst
    <3>. QED BY <1>3, <2>1, <3>2 DEF PlanCoverage
  <2>2. CASE step' = "end" /\ exit' = 3
    BY <2>2
  <2>. QED BY <1>3, <2>1, <2>2 DEF PlanCoverage
<1>4. CASE NextSegment
  <2>1. CASE step' = "goto"
    BY <1>4, <2>1 DEF NextSegment
  <2>2. CASE step' = "dock"
    <3>1. segments \in Seq(Nat \ {0}) /\ segment = Len(segments) + 1
      BY <1>4, <2>2, LenProperties DEF NextSegment, TypeInv, TypeOK
    <3>2. Before(segments, segment, 1) = ChunksOf(segments)
      BY <3>1, BeforeEnd
    <3>. QED BY <1>4, <2>2, <3>2 DEF NextSegment
  <2>3. CASE step' = "end" /\ exit' = 4
    BY <2>3
  <2>. QED BY <1>4, <2>1, <2>2, <2>3 DEF NextSegment
<1>5. CASE NavigateOver
  BY <1>5 DEF NavigateOver
<1>6. CASE DockOver
  BY <1>6 DEF DockOver
<1>. QED BY <1>1, <1>2, <1>3, <1>4, <1>5, <1>6

LEMMA DrivenNextChunk == TypeInv /\ DrivenInv /\ NextChunk => DrivenInv'
<1> SUFFICES ASSUME TypeInv, DrivenInv, NextChunk PROVE DrivenInv'
  OBVIOUS
<1> USE DEF NextChunk, Goto, Exit, Send
<1>1. /\ segments \in Seq(Nat \ {0}) /\ segment \in 1 .. Len(segments)
      /\ chunk \in 1 .. (segments[segment] + 1) /\ segments[segment] \in Nat
  <2>1. segments \in Seq(Nat \ {0}) /\ segment \in 1 .. Len(segments) /\ chunk \in 1 .. (segments[segment] + 1)
    BY DEF TypeInv, TypeOK, IndexInv
  <2>. QED BY <2>1, ElementOfSeq
<1>2. CASE step' = "follow"
  <2>1. goal'["follow"] = "sent"
    BY <1>2 DEF TypeInv, TypeOK, Servers
  <2>2. /\ driven' = driven /\ segments' = segments /\ segment' = segment /\ chunk' = chunk
        /\ disturbed' = disturbed /\ armed' = FALSE /\ step = "chunk"
    BY <1>2
  <2>. QED BY <1>2, <2>1, <2>2 DEF DrivenInv
<1>3. CASE step' = "end"
  BY <1>3 DEF DrivenInv
<1>4. CASE step' = "segment"
  <2>1. /\ driven' = driven /\ segments' = segments /\ segment' = segment + 1
        /\ disturbed' = disturbed /\ step = "chunk"
    BY <1>4
  <2>2. chunk = segments[segment] + 1
    BY <1>1, <1>4
  <2>3. Before(segments, segment, chunk) = Before(segments, segment + 1, 1)
    BY <1>1, <2>2, BeforeTurns
  <2>. QED BY <1>4, <2>1, <2>3 DEF DrivenInv
<1>. QED BY <1>2, <1>3, <1>4

LEMMA DrivenFollow == TypeInv /\ MoverInv /\ DrivenInv /\ (Arm \/ Complete \/ FollowOver) => DrivenInv'
<1> SUFFICES ASSUME TypeInv, MoverInv, DrivenInv, Arm \/ Complete \/ FollowOver PROVE DrivenInv'
  OBVIOUS
<1>0. UNCHANGED disturbed
  BY DEF Arm, Complete, FollowOver
<1> SUFFICES ASSUME ~disturbed PROVE DrivenInv'
  BY <1>0 DEF DrivenInv
<1>1. CASE Arm
  <2>1. progress \in 1 .. progress
    <3>1. progress \in 1 .. Len(shape) /\ Len(shape) \in Nat
      BY CoverageRunAssumption, LenProperties DEF TypeInv, TypeOK
    <3>. QED BY <3>1
  <2>2. shape[progress] = "far"
    BY <1>1 DEF Arm, Zone
  <2>. QED BY <1>1, <2>1, <2>2 DEF Arm, DrivenInv, chunkVars
<1>2. ASSUME step = "follow", ChunkDone, UNCHANGED <<segments, segment, disturbed>>, AtEnd
      PROVE  DrivenInv'
  <2>1. driven' = Before(segments, segment, chunk')
    BY <1>2, DoneIsDriven
  <2>2. step' = "chunk"
    BY <1>2 DEF ChunkDone, Goto
  <2>. QED BY <1>2, <2>1, <2>2 DEF DrivenInv
<1>3. ASSUME step = "follow", armed, Zone = "near" PROVE AtEnd
  BY <1>3 DEF DrivenInv, AtEnd
<1>4. CASE Complete
  BY <1>2, <1>3, <1>4 DEF Complete, ChunkDone, Goto
<1>5. CASE FollowOver
  <2>1. CASE NoError("follow") /\ ChunkDone
    <3>1. step = "follow" /\ AtEnd
      BY <2>1 DEF NoError, ChunkDone, Goto, DrivenInv, AtEnd
    <3>. QED BY <1>2, <1>5, <2>1, <3>1 DEF FollowOver
  <2>2. CASE armed /\ Zone = "near" /\ ChunkDone
    BY <1>2, <1>3, <1>5, <2>2 DEF FollowOver, ChunkDone, Goto
  <2>3. CASE Exit("follow", 5)
    BY <2>3 DEF Exit, Goto, DrivenInv
  <2>. QED BY <1>5, <2>1, <2>2, <2>3 DEF FollowOver
<1>. QED BY <1>1, <1>4, <1>5

LEMMA DrivenExternal == TypeInv /\ MoverInv /\ DrivenInv /\ (Interrupt \/ External) => DrivenInv'
<1> SUFFICES ASSUME TypeInv, MoverInv, DrivenInv, Interrupt \/ External PROVE DrivenInv'
  OBVIOUS
<1> USE DEF script, chunkVars
<1>1. CASE Interrupt
  BY <1>1 DEF Interrupt, DrivenInv, MoverInv
<1>2. CASE Drive
  <2>1. /\ goal["follow"] = "running" /\ progress' = progress + 1 /\ progress \in Nat
        /\ UNCHANGED <<script, shape, goal, driven, disturbed>>
    BY <1>2, CoverageRunAssumption, LenProperties DEF Drive, TypeInv, TypeOK
  <2>2. \A k \in 1 .. progress : k \in 1 .. progress'
    BY <2>1
  <2>. QED BY <2>1, <2>2 DEF DrivenInv
<1>3. ASSUME NEW s \in Servers, Answers(s) PROVE DrivenInv'
  <2>1. goal'["follow"] \in {goal["follow"], "running", "rejected"}
    BY <1>3 DEF Answers, TypeInv, TypeOK, Servers
  <2>. QED BY <1>3, <2>1 DEF Answers, DrivenInv
<1>4. ASSUME NEW s \in Servers, Ends(s) PROVE DrivenInv'
  <2>1. \/ goal'["follow"] \in {goal["follow"], "failed"}
        \/ goal'["follow"] = "succeeded" /\ progress = Len(shape)
        \/ goal["follow"] = "canceling"
    BY <1>4 DEF Ends, TypeInv, TypeOK, Servers
  <2>2. UNCHANGED <<script, chunkVars, driven, disturbed>>
    BY <1>4 DEF Ends
  <2>. QED BY <2>1, <2>2 DEF DrivenInv
<1>5. ASSUME NEW s \in Servers, OthersCancel(s) PROVE DrivenInv'
  BY <1>5 DEF OthersCancel, DrivenInv
<1>. QED BY <1>1, <1>2, <1>3, <1>4, <1>5 DEF External

\* A run that returns success, with no goal cancelled by anybody else, has followed every chunk of
\* every segment to its end, or until the mower was near its end after having been far from it, for
\* all plans and all shapes of chunks (run_sequence, follow_path).
THEOREM SuccessComplete == Spec => []SuccessIsComplete
<1>1. TypeInv /\ MoverInv /\ DrivenInv /\ [Next]_vars => DrivenInv'
  <2> SUFFICES ASSUME TypeInv, MoverInv, DrivenInv, [Next]_vars PROVE DrivenInv'
    OBVIOUS
  <2>1. CASE UNCHANGED vars
    BY <2>1 DEF vars, script, chunkVars, DrivenInv
  <2>. QED BY <2>1, DrivenSequence, DrivenNextChunk, DrivenFollow, DrivenExternal DEF Next, Script
<1>2. DrivenInv => SuccessIsComplete
  BY DEF DrivenInv, SuccessIsComplete, AllChunks, ChunksOf
<1>. QED BY <1>1, <1>2, TypeInit, TypeNext, MoverInit, MoverNext, DrivenInit, PTL DEF Spec
=============================================================================
