---------------------------- MODULE SetInduction ----------------------------
(***************************************************************************)
(* Induction and recursion with sets in the place of predicates.  The      *)
(* induction theorems of the library take an operator as a parameter,      *)
(* which the provers cannot be given; a set, or a function, they can.      *)
(***************************************************************************)
EXTENDS Integers, FiniteSets, WellFoundedInduction, FiniteSetTheorems, TLAPS

\* A set of natural numbers that is not empty has a least element.
THEOREM LeastExists ==
  ASSUME NEW T, T \subseteq Nat, T # {}
  PROVE  \E x \in T : \A y \in T : x <= y
<1> DEFINE Less == {ss \in Nat \X Nat : ss[1] < ss[2]}
<1>1. IsWellFoundedOn(Less, Nat)
  BY NatLessThanWellFounded DEF OpToRel
<1>2. PICK x \in T : \A y \in T : <<y, x>> \notin Less
  <2> HIDE DEF Less
  <2> QED BY <1>1, WFMin
<1>3. ASSUME NEW y \in T PROVE x <= y
  <2>1. x \in Nat /\ y \in Nat
    OBVIOUS
  <2>2. <<y, x>> \in Less <=> y < x
    BY <2>1
  <2> QED BY <1>2, <2>1, <2>2
<1> QED BY <1>3

\* A set that has zero, and the successor of each of its numbers, has every number.
THEOREM SetOfNatInduction ==
  ASSUME NEW T, 0 \in T, \A n \in Nat : n \in T => n + 1 \in T
  PROVE  Nat \subseteq T
<1> DEFINE U == Nat \ T
<1> SUFFICES ASSUME U # {} PROVE FALSE
  OBVIOUS
<1>1. PICK x \in U : \A y \in U : x <= y
  <2>1. U \subseteq Nat
    OBVIOUS
  <2> HIDE DEF U
  <2> QED BY <2>1, LeastExists
<1>2. x \in Nat /\ x # 0 /\ x - 1 \in Nat /\ (x - 1) + 1 = x
  OBVIOUS
<1>3. x - 1 \in T
  BY <1>1, <1>2
<1> QED BY <1>2, <1>3

\* The same from any number down to zero, or up to a bound.
THEOREM SetOfIntervalInduction ==
  ASSUME NEW N \in Nat, NEW T, 0 \in T, \A n \in 0..(N - 1) : n \in T => n + 1 \in T
  PROVE  0..N \subseteq T
<1> DEFINE U == {n \in Nat : n <= N => n \in T}
<1>1. 0 \in U
  OBVIOUS
<1>2. ASSUME NEW n \in Nat, n \in U PROVE n + 1 \in U
  BY <1>2
<1>3. Nat \subseteq U
  <2> HIDE DEF U
  <2> QED BY <1>1, <1>2, SetOfNatInduction
<1> QED BY <1>3

\* A bounded set of natural numbers that is not empty has a greatest element.
THEOREM GreatestExists ==
  ASSUME NEW N \in Nat, NEW T, T \subseteq 0..N, T # {}
  PROVE  \E x \in T : \A y \in T : x >= y
<1> DEFINE U == {n \in Nat : n <= N /\ N - n \in T}
<1>1. U \subseteq Nat /\ U # {}
  <2>1. PICK t \in T : TRUE
    OBVIOUS
  <2>2. t \in 0..N /\ N - t \in Nat /\ N - (N - t) = t /\ N - t <= N
    OBVIOUS
  <2>3. N - t \in U
    BY <2>2
  <2> QED BY <2>3
<1>2. PICK u \in U : \A v \in U : u <= v
  <2> HIDE DEF U
  <2> QED BY <1>1, LeastExists
<1>3. ASSUME NEW y \in T PROVE N - u >= y
  <2>1. y \in 0..N /\ N - y \in Nat /\ N - (N - y) = y
    OBVIOUS
  <2>2. N - y \in U
    BY <2>1
  <2> QED BY <1>2, <2>1, <2>2
<1> QED BY <1>3

\* What is below a successor is below the number, or is the number.
LEMMA NatSplit == \A a, b \in Nat : a < b + 1 => a = b \/ a < b
  OBVIOUS

\* A step gives the value at a place from the values at places of a lower rank.
IsRecursion(S, V, rank, step) ==
  /\ V # {} /\ rank \in [S -> Nat]
  /\ step \in [S \X [S -> V] -> V]
  /\ \A x \in S : \A f, g \in [S -> V] :
       (\A y \in S : rank[y] < rank[x] => f[y] = g[y]) => step[<<x, f>>] = step[<<x, g>>]

\* There is a function each value of which is the given step of its other values.
THEOREM RankedRecursion ==
  ASSUME NEW S, NEW V, NEW rank, NEW step, IsRecursion(S, V, rank, step)
  PROVE  \E f \in [S -> V] : \A x \in S : f[x] = step[<<x, f>>]
<1>0. /\ V # {} /\ rank \in [S -> Nat] /\ step \in [S \X [S -> V] -> V]
      /\ \A x \in S : \A f, g \in [S -> V] :
           (\A y \in S : rank[y] < rank[x] => f[y] = g[y]) => step[<<x, f>>] = step[<<x, g>>]
  BY DEF IsRecursion
<1> USE <1>0
<1> DEFINE Good(k, f) == f \in [S -> V] /\ \A x \in S : rank[x] < k => f[x] = step[<<x, f>>]
           T == {k \in Nat : \E f \in [S -> V] : Good(k, f)}
<1>1. 0 \in T
  <2>1. PICK v \in V : TRUE
    OBVIOUS
  <2>2. [x \in S |-> v] \in [S -> V]
    BY <2>1
  <2>3. Good(0, [x \in S |-> v])
    BY <2>2
  <2> QED BY <2>2, <2>3
<1>2. ASSUME NEW k \in Nat, k \in T PROVE k + 1 \in T
  <2>1. PICK f \in [S -> V] : Good(k, f)
    BY <1>2
  <2> DEFINE g == [x \in S |-> IF rank[x] = k THEN step[<<x, f>>] ELSE f[x]]
  <2>2. \A x \in S : step[<<x, f>>] \in V
    OBVIOUS
  <2>3. g \in [S -> V]
    BY <2>2
  <2>4. ASSUME NEW x \in S, rank[x] < k + 1 PROVE g[x] = step[<<x, g>>]
    <3>1. \A y \in S : rank[y] < rank[x] => f[y] = g[y]
      BY <2>4
    <3>2. step[<<x, f>>] = step[<<x, g>>]
      <4> HIDE DEF g
      <4> QED BY <2>3, <3>1
    <3>3. rank[x] = k \/ rank[x] < k
      <4>1. rank[x] \in Nat
        OBVIOUS
      <4> QED BY <2>4, <4>1, NatSplit
    <3>4. g[x] = step[<<x, f>>]
      BY <2>1, <3>3
    <3> QED BY <3>2, <3>4
  <2>5. Good(k + 1, g)
    <3> HIDE DEF g
    <3> QED BY <2>3, <2>4
  <2> QED
    <3> HIDE DEF g, Good
    <3> QED BY <2>3, <2>5
<1>3. \A k \in Nat : \E f \in [S -> V] : Good(k, f)
  <2>1. Nat \subseteq T
    <3> HIDE DEF T
    <3> QED BY <1>1, <1>2, SetOfNatInduction
  <2> QED BY <2>1
\* What two approximations have in common.
<1>4. ASSUME NEW k \in Nat, NEW f, NEW g, Good(k, f), Good(k, g)
      PROVE  \A x \in S : rank[x] < k => f[x] = g[x]
  <2> DEFINE U == {n \in Nat : \A x \in S : rank[x] < n /\ rank[x] < k => f[x] = g[x]}
  <2>1. 0 \in U
    OBVIOUS
  <2>2. ASSUME NEW n \in Nat, n \in U PROVE n + 1 \in U
    <3>1. ASSUME NEW x \in S, rank[x] < n + 1, rank[x] < k PROVE f[x] = g[x]
      <4>1. rank[x] \in Nat
        OBVIOUS
      <4>2. ASSUME NEW y \in S, rank[y] < rank[x] PROVE f[y] = g[y]
        <5>1. rank[y] \in Nat
          OBVIOUS
        <5>2. rank[y] < n /\ rank[y] < k
          BY <3>1, <4>1, <4>2, <5>1
        <5> QED BY <2>2, <5>2
      <4>3. step[<<x, f>>] = step[<<x, g>>]
        BY <1>4, <4>2
      <4> QED BY <1>4, <3>1, <4>3
    <3> QED BY <3>1
  <2>3. Nat \subseteq U
    <3> HIDE DEF U
    <3> QED BY <2>1, <2>2, SetOfNatInduction
  <2>4. ASSUME NEW x \in S, rank[x] < k PROVE f[x] = g[x]
    <3>1. k \in U
      BY <2>3
    <3> QED BY <2>4, <3>1
  <2> QED BY <2>4
<1> DEFINE near == [x \in S |-> CHOOSE f \in [S -> V] : Good(rank[x] + 1, f)]
           h == [x \in S |-> near[x][x]]
<1>5. ASSUME NEW x \in S PROVE near[x] \in [S -> V] /\ Good(rank[x] + 1, near[x])
  <2>1. rank[x] + 1 \in Nat
    OBVIOUS
  <2>2. \E f \in [S -> V] : Good(rank[x] + 1, f)
    <3> HIDE DEF Good
    <3> QED BY <1>3, <2>1
  <2>3. near[x] = CHOOSE f \in [S -> V] : Good(rank[x] + 1, f)
    <3> HIDE DEF Good
    <3> QED OBVIOUS
  <2> HIDE DEF near, Good
  <2> QED BY <2>2, <2>3
<1>6. h \in [S -> V]
  <2> HIDE DEF near
  <2> QED BY <1>5
<1>7. ASSUME NEW x \in S PROVE h[x] = step[<<x, h>>]
  <2>1. rank[x] \in Nat /\ rank[x] < rank[x] + 1
    OBVIOUS
  <2>2. near[x][x] = step[<<x, near[x]>>]
    <3> HIDE DEF near
    <3> QED BY <1>5, <2>1
  <2>3. ASSUME NEW y \in S, rank[y] < rank[x] PROVE near[x][y] = near[y][y]
    <3>1. rank[y] \in Nat
      OBVIOUS
    <3>2. rank[y] + 1 \in Nat /\ rank[y] < rank[y] + 1
          /\ \A z \in S : rank[z] < rank[y] + 1 => rank[z] < rank[x] + 1
      <4>1. \A m \in Nat : m < rank[y] + 1 => m < rank[x] + 1
        BY <2>1, <2>3, <3>1
      <4> QED BY <3>1, <4>1
    <3>3. Good(rank[y] + 1, near[x])
      <4> HIDE DEF near
      <4> QED BY <1>5, <3>2
    <3>4. Good(rank[y] + 1, near[y])
      BY <1>5
    <3> HIDE DEF near, Good
    <3> QED BY <1>4, <3>2, <3>3, <3>4
  <2>4. \A y \in S : rank[y] < rank[x] => near[x][y] = h[y]
    <3> HIDE DEF near
    <3> QED BY <2>3
  <2>5. step[<<x, near[x]>>] = step[<<x, h>>]
    <3>1. near[x] \in [S -> V]
      BY <1>5
    <3> HIDE DEF near, h
    <3> QED BY <1>6, <2>4, <3>1
  <2>6. h[x] = near[x][x]
    <3> HIDE DEF near
    <3> QED OBVIOUS
  <2> HIDE DEF near, h
  <2> QED BY <2>2, <2>5, <2>6
<1> HIDE DEF near, h, Good
<1> QED BY <1>6, <1>7

\* v and step are the start and the step of a recursion from each number to the next.
IsStepwise(V, N, v, step) == N \in Nat /\ v \in V /\ step \in [(1..N) \X V -> V]

\* There is a function that starts with v and takes the given step from each number to the next.
THEOREM StepwiseRecursion ==
  ASSUME NEW V, NEW N, NEW v, NEW step, IsStepwise(V, N, v, step)
  PROVE  \E f \in [0..N -> V] : f[0] = v /\ \A n \in 1..N : f[n] = step[<<n, f[n - 1]>>]
<1>0. N \in Nat /\ v \in V /\ step \in [(1..N) \X V -> V]
  BY DEF IsStepwise
<1> USE <1>0
<1> DEFINE Good(k, f) == f[0] = v /\ \A n \in 1..k : f[n] = step[<<n, f[n - 1]>>]
           T == {k \in Nat : k <= N => \E f \in [0..k -> V] : Good(k, f)}
<1>1. 0 \in T
  <2>1. Good(0, [n \in 0..0 |-> v]) /\ [n \in 0..0 |-> v] \in [0..0 -> V]
    OBVIOUS
  <2> QED BY <2>1
<1>2. ASSUME NEW k \in Nat, k \in T PROVE k + 1 \in T
  <2> SUFFICES ASSUME k + 1 <= N PROVE \E f \in [0..(k + 1) -> V] : Good(k + 1, f)
    OBVIOUS
  <2>1. PICK f \in [0..k -> V] : Good(k, f)
    BY <1>2
  <2> DEFINE g == [n \in 0..(k + 1) |-> IF n = k + 1 THEN step[<<k + 1, f[k]>>] ELSE f[n]]
  <2>2. step[<<k + 1, f[k]>>] \in V
    OBVIOUS
  <2>3. g \in [0..(k + 1) -> V]
    BY <2>2
  <2>4. ASSUME NEW n \in 1..(k + 1) PROVE g[n] = step[<<n, g[n - 1]>>]
    <3>1. n - 1 \in 0..(k + 1) /\ n - 1 # k + 1 /\ n \in 0..(k + 1)
      OBVIOUS
    <3>2. g[n - 1] = f[n - 1]
      BY <3>1
    <3>3. CASE n = k + 1
      <4>1. g[k + 1] = step[<<k + 1, f[k]>>] /\ (k + 1) - 1 = k
        OBVIOUS
      <4> HIDE DEF g
      <4> QED BY <3>2, <3>3, <4>1
    <3>4. CASE n # k + 1
      <4>1. n \in 1..k /\ g[n] = f[n]
        BY <3>4
      <4> HIDE DEF g
      <4> QED BY <2>1, <3>2, <4>1
    <3> QED BY <3>3, <3>4
  <2>5. g[0] = v
    <3>1. f[0] = v /\ 0 # k + 1 /\ 0 \in 0..(k + 1)
      BY <2>1
    <3> QED BY <3>1
  <2>6. Good(k + 1, g)
    <3> HIDE DEF g
    <3> QED BY <2>4, <2>5
  <2> HIDE DEF g, Good
  <2> QED BY <2>3, <2>6
<1>3. N \in T
  <2> HIDE DEF T
  <2> QED BY <1>1, <1>2, SetOfNatInduction
<1> QED BY <1>3

\* A descent goes on from each place outside base to the next one, of a lower rank.
IsDescent(S, V, rank, base, start, next, combine) ==
  /\ V # {} /\ rank \in [S -> Nat] /\ base \subseteq S /\ start \in [base -> V]
  /\ next \in [S \ base -> S] /\ combine \in [(S \ base) \X V -> V]
  /\ \A x \in S \ base : rank[next[x]] < rank[x]

\* There is a function that has its start values on base, and elsewhere combines a place
\* with its value at the next one.
THEOREM DescentRecursion ==
  ASSUME NEW S, NEW V, NEW rank, NEW base, NEW start, NEW next, NEW combine,
         IsDescent(S, V, rank, base, start, next, combine)
  PROVE  \E f \in [S -> V] :
           /\ \A x \in base : f[x] = start[x]
           /\ \A x \in S \ base : f[x] = combine[<<x, f[next[x]]>>]
<1>0. /\ V # {} /\ rank \in [S -> Nat] /\ base \subseteq S /\ start \in [base -> V]
      /\ next \in [S \ base -> S] /\ combine \in [(S \ base) \X V -> V]
      /\ \A x \in S \ base : rank[next[x]] < rank[x]
  BY DEF IsDescent
<1> USE <1>0
<1> DEFINE step == [p \in S \X [S -> V] |->
                     IF p[1] \in base THEN start[p[1]] ELSE combine[<<p[1], p[2][next[p[1]]]>>]]
<1>1. ASSUME NEW x \in S, NEW f \in [S -> V]
      PROVE  /\ x \in base => step[<<x, f>>] = start[x]
             /\ x \notin base => step[<<x, f>>] = combine[<<x, f[next[x]]>>]
             /\ step[<<x, f>>] \in V
  <2>1. <<x, f>> \in S \X [S -> V]
    OBVIOUS
  <2>2. step[<<x, f>>] = IF x \in base THEN start[x] ELSE combine[<<x, f[next[x]]>>]
    BY <2>1
  <2>3. x \notin base => next[x] \in S /\ f[next[x]] \in V
    OBVIOUS
  <2> HIDE DEF step
  <2> QED BY <2>2, <2>3
<1>2. step \in [S \X [S -> V] -> V]
  <2>1. \A p \in S \X [S -> V] :
          (IF p[1] \in base THEN start[p[1]] ELSE combine[<<p[1], p[2][next[p[1]]]>>]) \in V
    OBVIOUS
  <2> QED BY <2>1
<1>3. ASSUME NEW x \in S, NEW f \in [S -> V], NEW g \in [S -> V],
             \A y \in S : rank[y] < rank[x] => f[y] = g[y]
      PROVE  step[<<x, f>>] = step[<<x, g>>]
  <2>1. x \notin base => f[next[x]] = g[next[x]]
    BY <1>3
  <2>2. \A h \in [S -> V] : /\ x \in base => step[<<x, h>>] = start[x]
                            /\ x \notin base => step[<<x, h>>] = combine[<<x, h[next[x]]>>]
    <3> HIDE DEF step
    <3> QED BY <1>1
  <2> HIDE DEF step
  <2> QED BY <2>1, <2>2
<1>4. IsRecursion(S, V, rank, step)
  <2> HIDE DEF step
  <2>1. \A x \in S : \A f, g \in [S -> V] :
          (\A y \in S : rank[y] < rank[x] => f[y] = g[y]) => step[<<x, f>>] = step[<<x, g>>]
    BY <1>3
  <2> QED BY <1>2, <2>1 DEF IsRecursion
<1>5. PICK f \in [S -> V] : \A x \in S : f[x] = step[<<x, f>>]
  <2> HIDE DEF step
  <2> QED BY <1>4, RankedRecursion
<1>6. \A x \in base : f[x] = start[x]
  <2> HIDE DEF step
  <2> QED BY <1>1, <1>5
<1>7. \A x \in S \ base : f[x] = combine[<<x, f[next[x]]>>]
  <2> HIDE DEF step
  <2> QED BY <1>1, <1>5
<1> QED BY <1>6, <1>7

\* A set that has each place when it has all places of lower rank has every place.
THEOREM RankedInduction ==
  ASSUME NEW S, NEW rank \in [S -> Nat], NEW T,
         \A x \in S : (\A y \in S : rank[y] < rank[x] => y \in T) => x \in T
  PROVE  S \subseteq T
<1> DEFINE U == {n \in Nat : \A x \in S : rank[x] < n => x \in T}
<1>1. 0 \in U
  OBVIOUS
<1>2. ASSUME NEW n \in Nat, n \in U PROVE n + 1 \in U
  <2>1. ASSUME NEW x \in S, rank[x] < n + 1 PROVE x \in T
    <3>1. ASSUME NEW y \in S, rank[y] < rank[x] PROVE y \in T
      <4>1. rank[x] \in Nat /\ rank[y] \in Nat
        OBVIOUS
      <4>2. rank[y] < n
        BY <2>1, <3>1, <4>1
      <4> QED BY <1>2, <4>2
    <3> QED BY <3>1
  <2> QED BY <2>1
<1>3. Nat \subseteq U
  <2> HIDE DEF U
  <2> QED BY <1>1, <1>2, SetOfNatInduction
<1>4. ASSUME NEW x \in S PROVE x \in T
  <2>1. rank[x] \in Nat /\ rank[x] + 1 \in U /\ rank[x] < rank[x] + 1
    <3>1. rank[x] \in Nat /\ rank[x] + 1 \in Nat
      OBVIOUS
    <3> HIDE DEF U
    <3> QED BY <1>3, <3>1
  <2> QED BY <2>1
<1> QED BY <1>4

\* What goes down as a descent does has the values of one.
THEOREM DescentType ==
  ASSUME NEW S, NEW V, NEW rank, NEW base, NEW start, NEW next, NEW combine,
         IsDescent(S, V, rank, base, start, next, combine), NEW g,
         \A x \in base : g[x] = start[x],
         \A x \in S \ base : g[next[x]] \in V => g[x] = combine[<<x, g[next[x]]>>]
  PROVE  \A x \in S : g[x] \in V
<1>0. /\ rank \in [S -> Nat] /\ start \in [base -> V]
      /\ next \in [S \ base -> S] /\ combine \in [(S \ base) \X V -> V]
      /\ \A x \in S \ base : rank[next[x]] < rank[x]
  BY DEF IsDescent
<1> DEFINE T == {x \in S : g[x] \in V}
<1>1. ASSUME NEW x \in S, \A y \in S : rank[y] < rank[x] => y \in T PROVE x \in T
  <2>1. CASE x \in base
    <3>1. g[x] \in V
      BY <1>0, <2>1
    <3> QED BY <3>1
  <2>2. CASE x \notin base
    <3>1. next[x] \in S /\ rank[next[x]] < rank[x]
      BY <1>0, <2>2
    <3>2. next[x] \in T
      BY <1>1, <3>1
    <3>3. g[next[x]] \in V
      BY <3>2
    <3>4. combine[<<x, g[next[x]]>>] \in V
      BY <1>0, <2>2, <3>3
    <3>5. g[x] \in V
      BY <2>2, <3>3, <3>4
    <3> QED BY <3>5
  <2> QED BY <2>1, <2>2
<1>2. S \subseteq T
  <2> HIDE DEF T
  <2> QED BY <1>0, <1>1, RankedInduction
<1> QED BY <1>2

\* The same of a definition that goes from each number to the next.
THEOREM StepwiseType ==
  ASSUME NEW V, NEW N, NEW v, NEW step, IsStepwise(V, N, v, step), NEW g,
         g[0] = v, \A n \in 1..N : g[n - 1] \in V => g[n] = step[<<n, g[n - 1]>>]
  PROVE  \A n \in 0..N : g[n] \in V
<1>0. N \in Nat /\ v \in V /\ step \in [(1..N) \X V -> V]
  BY DEF IsStepwise
<1> DEFINE T == {n \in Nat : g[n] \in V}
<1>1. 0 \in T
  BY <1>0
<1>2. ASSUME NEW n \in 0..(N - 1), n \in T PROVE n + 1 \in T
  <2>1. n + 1 \in 1..N /\ (n + 1) - 1 = n /\ n + 1 \in Nat /\ g[n] \in V
    BY <1>0, <1>2
  <2>2. g[n + 1] = step[<<n + 1, g[n]>>]
    BY <2>1
  <2> QED BY <1>0, <2>1, <2>2
<1>3. 0..N \subseteq T
  <2> HIDE DEF T
  <2> QED BY <1>0, <1>1, <1>2, SetOfIntervalInduction
<1> QED BY <1>3
=============================================================================
