------------------------ MODULE MainboardBridgeProofs -----------------------
(***************************************************************************)
(* Proofs about MainboardBridge, for any number of packets on the line.    *)
(***************************************************************************)
EXTENDS BridgeLine, SequenceTheorems, SetInduction, TLAPS

LEMMA TypeInit == Init => TypeOK
<1> SUFFICES ASSUME Init PROVE TypeOK
  OBVIOUS
<1>1. heartbeat \in Heartbeats
  BY DEF Init, NoHeartbeat, Heartbeats
<1>2. down \in Seq(Heartbeats) /\ Len(down) <= MaxInFlight
  BY EmptySeq, MainboardBridgeAssumption DEF Init
<1>3. up \in Seq(BOOLEAN) /\ Len(up) <= MaxInFlight
  BY EmptySeq, MainboardBridgeAssumption DEF Init
<1>. QED BY <1>1, <1>2, <1>3 DEF Init, TypeOK

\* A queue that loses its head is a queue of the same packets, and no longer.
LEMMA TailFits == ASSUME NEW S, NEW q \in Seq(S), q # << >>
                  PROVE  Head(q) \in S /\ Tail(q) \in Seq(S) /\ Len(Tail(q)) < Len(q)
  BY HeadTailProperties

LEMMA TypeServices == TypeOK /\ (Services \/ Heartbeat) => TypeOK'
<1> SUFFICES ASSUME TypeOK, Services \/ Heartbeat PROVE TypeOK'
  OBVIOUS
<1> USE DEF TypeOK, flags, board, line
<1>1. ASSUME NEW data \in BOOLEAN, SetEmergency(data) PROVE TypeOK'
  BY <1>1 DEF SetEmergency
<1>2. CASE LoadRequest
  BY <1>2 DEF LoadRequest, NoHeartbeat, Heartbeats
<1>3. CASE LoadRelease
  BY <1>3 DEF LoadRelease, Heartbeats
<1>4. CASE WritePacket
  <2>1. NoHeartbeat \in Heartbeats
    BY DEF NoHeartbeat, Heartbeats
  <2>2. down' \in Seq(Heartbeats) /\ Len(down') <= MaxInFlight
    BY <1>4, MainboardBridgeAssumption DEF WritePacket
  <2>. QED BY <1>4, <2>1, <2>2 DEF WritePacket
<1>. QED BY <1>1, <1>2, <1>3, <1>4 DEF Services, ClearEmergency, Heartbeat

LEMMA TypeReader == TypeOK /\ Reader => TypeOK'
<1> SUFFICES ASSUME TypeOK, Reader PROVE TypeOK'
  OBVIOUS
<1> USE DEF TypeOK, flags, board, line
<1>1. CASE OpenSerial \/ CloseSerial
  BY <1>1 DEF OpenSerial, CloseSerial
<1>2. ASSUME Receive
      PROVE  Head(up) \in BOOLEAN /\ up' \in Seq(BOOLEAN) /\ Len(up') <= MaxInFlight
  BY <1>2, TailFits, MainboardBridgeAssumption DEF Receive
<1>3. CASE HandleStatus
  BY <1>2, <1>3 DEF HandleStatus
<1>4. CASE DropStatus
  BY <1>2, <1>4 DEF DropStatus
<1>5. CASE ClearRelease
  BY <1>5 DEF ClearRelease
<1>. QED BY <1>1, <1>3, <1>4, <1>5 DEF Reader

LEMMA TypeExternal == TypeOK /\ External => TypeOK'
<1> SUFFICES ASSUME TypeOK, External PROVE TypeOK'
  OBVIOUS
<1> USE DEF TypeOK, flags, board, line
<1>1. ASSUME down # << >>
      PROVE  Head(down) \in Heartbeats /\ Tail(down) \in Seq(Heartbeats) /\ Len(Tail(down)) <= MaxInFlight
  BY <1>1, TailFits, MainboardBridgeAssumption
<1>2. CASE BoardReceives
  BY <1>1, <1>2 DEF BoardReceives, Heartbeats
<1>3. CASE BoardDrops
  BY <1>1, <1>3 DEF BoardDrops
<1>4. CASE BoardReports
  <2>1. Emergency \in BOOLEAN
    BY DEF Emergency
  <2>2. up' \in Seq(BOOLEAN) /\ Len(up') <= MaxInFlight
    BY <1>4, <2>1, MainboardBridgeAssumption DEF BoardReports
  <2>. QED BY <1>4, <2>2 DEF BoardReports
<1>5. CASE Button
  BY <1>5 DEF Button
<1>6. CASE Plug
  BY <1>6, MainboardBridgeAssumption DEF Plug
<1>. QED BY <1>2, <1>3, <1>4, <1>5, <1>6 DEF External

\* Every flag of the bridge keeps its type, and no direction of the line holds more packets
\* than it may: write_packet() and the mainboard wait for room.
THEOREM TypeCorrect == Spec => []TypeOK
<1>1. TypeOK /\ [Next]_vars => TypeOK'
  <2> SUFFICES ASSUME TypeOK, [Next]_vars PROVE TypeOK'
    OBVIOUS
  <2>1. CASE UNCHANGED vars
    BY <2>1 DEF vars, flags, board, line, TypeOK
  <2>. QED BY <2>1, TypeServices, TypeReader, TypeExternal DEF Next
<1>. QED BY <1>1, TypeInit, PTL DEF Spec


-----------------------------------------------------------------------------
(* Pieces of a sequence.                                                    *)

\* The first n elements and those after them.
LEMMA FirstAfter ==
  ASSUME NEW S, NEW s \in Seq(S), NEW n \in 0..Len(s)
  PROVE  /\ First(s, n) \in Seq(S) /\ Len(First(s, n)) = n
         /\ \A i \in 1..n : First(s, n)[i] = s[i]
         /\ After(s, n) \in Seq(S) /\ Len(After(s, n)) = Len(s) - n
         /\ \A i \in 1..(Len(s) - n) : After(s, n)[i] = s[n + i]
         /\ First(s, n) \o After(s, n) = s
<1>1. Len(s) \in Nat
  OBVIOUS
<1>2. First(s, n) \in Seq(S) /\ Len(First(s, n)) = n /\ \A i \in 1..n : First(s, n)[i] = s[i]
  BY <1>1, SubSeqProperties DEF First
<1>3. After(s, n) \in Seq(S) /\ Len(After(s, n)) = Len(s) - n
  BY <1>1, SubSeqProperties DEF After
<1>4. \A i \in 1..(Len(s) - n) : After(s, n)[i] = s[n + i]
  BY <1>1, SubSeqProperties DEF After
<1> DEFINE f == First(s, n)
           a == After(s, n)
<1>5. f \o a = s
  <2> HIDE DEF f, a
  <2>1. f \in Seq(S) /\ a \in Seq(S) /\ Len(f) = n /\ Len(a) = Len(s) - n
    BY <1>2, <1>3 DEF f, a
  <2>2. Len(f \o a) = Len(s) /\ f \o a \in Seq(S)
    <3>1. Len(f \o a) = Len(f) + Len(a) /\ f \o a \in Seq(S)
      BY <2>1, ConcatProperties
    <3>2. n + (Len(s) - n) = Len(s)
      BY <1>1
    <3> QED BY <2>1, <3>1, <3>2
  <2>3. ASSUME NEW i \in 1..Len(s) PROVE (f \o a)[i] = s[i]
    <3>1. CASE i <= n
      <4>1. i \in 1..n
        BY <1>1, <3>1
      <4>2. (f \o a)[i] = f[i]
        BY <2>1, <4>1, ConcatProperties
      <4>3. f[i] = s[i]
        BY <1>2, <4>1 DEF f
      <4> QED BY <4>2, <4>3
    <3>2. CASE i > n
      <4>1. i - n \in 1..(Len(s) - n) /\ n + (i - n) = i
        BY <1>1, <3>2
      <4>2. (f \o a)[i] = a[i - n]
        BY <1>1, <2>1, <3>2, <4>1, ConcatProperties
      <4>3. a[i - n] = s[i]
        BY <1>4, <4>1 DEF a
      <4> QED BY <4>2, <4>3
    <3>3. i <= n \/ i > n
      BY <1>1
    <3> QED BY <3>1, <3>2, <3>3
  <2> QED BY <2>2, <2>3, SeqEqual
<1> QED BY <1>2, <1>3, <1>4, <1>5

\* The pieces of two sequences put together.
LEMMA FirstOfConcat ==
  ASSUME NEW S, NEW s \in Seq(S), NEW t \in Seq(S)
  PROVE  First(s \o t, Len(s)) = s /\ After(s \o t, Len(s)) = t
<1>1. s \o t \in Seq(S) /\ Len(s \o t) = Len(s) + Len(t) /\ Len(s) \in Nat /\ Len(t) \in Nat
  BY ConcatProperties
<1> DEFINE st == s \o t
<1>2. /\ First(st, Len(s)) \in Seq(S) /\ Len(First(st, Len(s))) = Len(s)
      /\ \A i \in 1..Len(s) : First(st, Len(s))[i] = st[i]
      /\ After(st, Len(s)) \in Seq(S) /\ Len(After(st, Len(s))) = Len(t)
      /\ \A i \in 1..Len(t) : After(st, Len(s))[i] = st[Len(s) + i]
  <2>1. Len(s) \in 0..Len(st) /\ Len(st) - Len(s) = Len(t) /\ st \in Seq(S)
    BY <1>1
  <2> HIDE DEF st
  <2>2. /\ First(st, Len(s)) \in Seq(S) /\ Len(First(st, Len(s))) = Len(s)
        /\ \A i \in 1..Len(s) : First(st, Len(s))[i] = st[i]
    BY <2>1, FirstAfter
  <2>3. /\ After(st, Len(s)) \in Seq(S) /\ Len(After(st, Len(s))) = Len(st) - Len(s)
        /\ \A i \in 1..(Len(st) - Len(s)) : After(st, Len(s))[i] = st[Len(s) + i]
    BY <2>1, FirstAfter
  <2> QED BY <2>1, <2>2, <2>3
<1>3. \A i \in 1..Len(s) : (s \o t)[i] = s[i]
  BY <1>1, ConcatProperties
<1>4. \A i \in 1..Len(t) : (s \o t)[Len(s) + i] = t[i]
  BY <1>1, ConcatProperties
<1> QED BY <1>2, <1>3, <1>4, SeqEqual

\* The number of bytes before the first zero.
LEMMA BeforeZeroIs ==
  ASSUME NEW bytes \in Seq(Byte)
  PROVE  /\ BeforeZero(bytes) \in 0..Len(bytes)
         /\ BeforeZero(bytes) = Len(bytes) \/ bytes[BeforeZero(bytes) + 1] = 0
         /\ \A k \in 1..BeforeZero(bytes) : bytes[k] # 0
<1> DEFINE Ends == {n \in 0..Len(bytes) : n = Len(bytes) \/ bytes[n + 1] = 0}
<1>1. Ends \subseteq Nat /\ Len(bytes) \in Ends /\ Len(bytes) \in Nat
  OBVIOUS
<1>2. PICK n \in Ends : \A m \in Ends : n <= m
  <2> HIDE DEF Ends
  <2>1. Ends # {}
    BY <1>1
  <2> QED BY <1>1, <2>1, LeastExists
<1>3. ASSUME NEW k \in 1..n PROVE bytes[k] # 0
  <2>1. n \in 0..Len(bytes) /\ k - 1 \in 0..Len(bytes) /\ (k - 1) + 1 = k /\ ~(n <= k - 1)
    BY <1>1
  <2>2. k - 1 \notin Ends
    <3> HIDE DEF Ends
    <3> QED BY <1>2, <2>1
  <2> QED BY <2>1, <2>2
<1>4. \E m \in 0..Len(bytes) : /\ m = Len(bytes) \/ bytes[m + 1] = 0
                               /\ \A k \in 1..m : bytes[k] # 0
  BY <1>2, <1>3
<1> QED BY <1>4, Zenon DEF BeforeZero

\* Where the zeros of a sequence begin when it has one after bytes that are not.
LEMMA BeforeFirstZero ==
  ASSUME NEW bytes \in Seq(Byte), NEW n \in 0..(Len(bytes) - 1),
         bytes[n + 1] = 0, \A k \in 1..n : bytes[k] # 0
  PROVE  BeforeZero(bytes) = n
<1> DEFINE z == BeforeZero(bytes)
<1>1. z \in 0..Len(bytes) /\ (z = Len(bytes) \/ bytes[z + 1] = 0) /\ \A k \in 1..z : bytes[k] # 0
  BY BeforeZeroIs
<1> HIDE DEF z
<1>2. ~(z < n)
  <2> SUFFICES ASSUME z < n PROVE FALSE
    OBVIOUS
  <2>1. z + 1 \in 1..n /\ z # Len(bytes)
    BY <1>1
  <2> QED BY <1>1, <2>1
<1>3. ~(n < z)
  <2> SUFFICES ASSUME n < z PROVE FALSE
    OBVIOUS
  <2>1. n + 1 \in 1..z
    BY <1>1
  <2> QED BY <1>1, <2>1
<1>4. z = n
  BY <1>1, <1>2, <1>3
<1> QED BY <1>4 DEF z

-----------------------------------------------------------------------------
(* The checksum has sixteen bits.                                           *)

Pow(n) == 2^n

LEMMA PowersOfTwo ==
  /\ \A n \in 0..15 : Pow(n) \in Nat /\ Pow(n + 1) = 2 * Pow(n)
  /\ Pow(0) = 1 /\ Pow(16) = 256 * 256
<1> DEFINE p == [n \in 0..16 |-> 2^n]
<1>1. /\ p[0] = 1 /\ p[1] = 2 /\ p[2] = 4 /\ p[3] = 8 /\ p[4] = 16 /\ p[5] = 32
      /\ p[6] = 64 /\ p[7] = 128 /\ p[8] = 256 /\ p[9] = 512 /\ p[10] = 1024
      /\ p[11] = 2048 /\ p[12] = 4096 /\ p[13] = 8192 /\ p[14] = 16384
      /\ p[15] = 32768 /\ p[16] = 256 * 256
  BY SMT
<1>2. \A n \in 0..15 : p[n] \in Nat /\ p[n + 1] = 2 * p[n]
  <2> HIDE DEF p
  <2> QED BY <1>1, SMT
<1>3. ASSUME NEW n \in 0..15 PROVE p[n] = Pow(n) /\ p[n + 1] = Pow(n + 1)
  <2>1. n \in 0..16 /\ n + 1 \in 0..16
    BY SMT
  <2> QED BY <2>1 DEF Pow
<1>4. p[0] = Pow(0) /\ p[16] = Pow(16)
  BY SMT DEF Pow
<1> HIDE DEF p
<1>5. p[0] = 1 /\ p[16] = 256 * 256
  BY <1>1, SMT
<1> QED BY <1>2, <1>3, <1>4, <1>5, SMT

LEMMA WordIs ==
  /\ Word = 0..(Pow(16) - 1)
  /\ \A x : x \in Word <=> x \in Nat /\ x < 256 * 256
<1>1. Word = 0..(Pow(16) - 1)
  BY Zenon DEF Word, Pow
<1>2. \A x : x \in 0..(Pow(16) - 1) <=> x \in Nat /\ x < 256 * 256
  BY PowersOfTwo, SMT
<1> QED BY <1>1, <1>2, Zenon

LEMMA XorType == ASSUME NEW a, NEW b PROVE Xor(a, b) \in Word
<1> DEFINE Weight(n) == IF Bit(a, n - 1) = Bit(b, n - 1) THEN 0 ELSE 2^(n - 1)
           Is(f) == f = [n \in 0..16 |-> IF n = 0 THEN 0 ELSE Weight(n) + f[n - 1]]
           step == [p \in (1..16) \X Int |-> Weight(p[1]) + p[2]]
<1>1. ASSUME NEW n \in 1..16
      PROVE  Weight(n) \in 0..Pow(n - 1) /\ Pow(n) = 2 * Pow(n - 1) /\ Pow(n - 1) \in Nat
  <2>1. n - 1 \in 0..15 /\ (n - 1) + 1 = n
    OBVIOUS
  <2>2. Pow(n - 1) \in Nat /\ Pow(n) = 2 * Pow(n - 1)
    BY <2>1, PowersOfTwo
  <2>3. Weight(n) = 0 \/ Weight(n) = Pow(n - 1)
    BY DEF Pow
  <2> HIDE DEF Weight
  <2> QED BY <2>2, <2>3
<1>2. \E f : Is(f) /\ f \in [0..16 -> Int]
  <2>1. step \in [(1..16) \X Int -> Int]
    <3>1. \A n \in 1..16, v \in Int : Weight(n) + v \in Int
      <4> HIDE DEF Weight
      <4> QED BY <1>1
    <3> HIDE DEF Weight
    <3> QED BY <3>1
  <2>2. IsStepwise(Int, 16, 0, step)
    <3> HIDE DEF step
    <3> QED BY <2>1 DEF IsStepwise
  <2>3. PICK f \in [0..16 -> Int] : f[0] = 0 /\ \A n \in 1..16 : f[n] = step[<<n, f[n - 1]>>]
    <3> HIDE DEF step
    <3> DEFINE V == Int
               N == 16
               z == 0
    <3>1. IsStepwise(V, N, z, step)
      BY <2>2
    <3>2. \E f \in [0..N -> V] : f[0] = z /\ \A n \in 1..N : f[n] = step[<<n, f[n - 1]>>]
      <4> HIDE DEF V, N, z
      <4> QED BY <3>1, StepwiseRecursion
    <3> QED BY <3>2
  <2>4. \A n \in 1..16 : f[n] = Weight(n) + f[n - 1]
    <3>1. \A n \in 1..16 : n - 1 \in 0..16
      OBVIOUS
    <3>2. \A n \in 1..16, v \in Int : step[<<n, v>>] = Weight(n) + v
      <4> HIDE DEF Weight
      <4> QED OBVIOUS
    <3> HIDE DEF Weight, step
    <3> QED BY <2>3, <3>1, <3>2
  <2>5. Is(f)
    <3> HIDE DEF Weight, step
    <3> QED BY <2>3, <2>4
  <2> QED BY <2>5
<1> DEFINE Low == CHOOSE f : Is(f)
<1>3. Is(Low)
  <2> HIDE DEF Is
  <2> QED BY <1>2
<1>4. Xor(a, b) = Low[16]
  BY Zenon DEF Xor
<1>5. Low[0] = 0 /\ \A n \in 1..16 : Low[n] = Weight(n) + Low[n - 1]
  <2> HIDE DEF Weight, Low
  <2> QED BY <1>3
<1> HIDE DEF Low, Weight
<1> DEFINE T == {n \in 0..16 : Low[n] \in 0..(Pow(n) - 1)}
<1>6. 0 \in T
  BY <1>5, PowersOfTwo
<1>7. ASSUME NEW n \in 0..15, n \in T PROVE n + 1 \in T
  <2>1. n + 1 \in 1..16 /\ (n + 1) - 1 = n
    OBVIOUS
  <2>2. Low[n + 1] = Weight(n + 1) + Low[n]
    BY <1>5, <2>1
  <2>3. Weight(n + 1) \in 0..Pow(n) /\ Pow(n + 1) = 2 * Pow(n) /\ Pow(n) \in Nat
    BY <1>1, <2>1
  <2>4. Low[n] \in 0..(Pow(n) - 1)
    BY <1>7
  <2>5. Low[n + 1] \in 0..(Pow(n + 1) - 1)
    BY <2>2, <2>3, <2>4
  <2> QED BY <2>1, <2>5
<1>8. 16 \in T
  <2> HIDE DEF T
  <2>1. 0..(16 - 1) = 0..15 /\ 16 \in 0..16 /\ 16 \in Nat
    OBVIOUS
  <2> QED BY <1>6, <1>7, <2>1, SetOfIntervalInduction
<1>9. Low[16] \in Word
  <2>1. Low[16] \in 0..(Pow(16) - 1)
    BY <1>8
  <2> QED BY <2>1, WordIs, Zenon
<1> QED BY <1>4, <1>9, Zenon

LEMMA ShiftBitType == \A crc \in Word : ShiftBit(crc) \in Word
<1> SUFFICES ASSUME NEW crc \in Word PROVE ShiftBit(crc) \in Word
  OBVIOUS
<1> DEFINE shifted == (2 * crc) % Pow(16)
<1>1. shifted \in Word
  <2>1. crc \in Nat /\ Pow(16) \in Nat \ {0}
    <3>1. Pow(16) = 256 * 256
      BY PowersOfTwo, Zenon
    <3>2. crc \in Nat
      BY WordIs, Zenon
    <3> QED BY <3>1, <3>2, SMT
  <2>2. shifted \in 0..(Pow(16) - 1)
    <3> DEFINE M == Pow(16)
               c == 2 * crc
    <3>1. M \in Nat \ {0} /\ c \in Nat
      BY <2>1, SMT
    <3> HIDE DEF M, c
    <3>2. (c % M) \in 0..(M - 1)
      BY <3>1, SMT
    <3> QED BY <3>2, Zenon DEF M, c
  <2> QED BY <2>2, WordIs, Zenon
<1> DEFINE poly == 2^12 + 2^5 + 1
<1>2. ShiftBit(crc) = IF crc >= 2^15 THEN Xor(shifted, poly) ELSE shifted
  BY Zenon DEF ShiftBit, Pow
<1> HIDE DEF shifted, poly
<1>3. Xor(shifted, poly) \in Word
  BY XorType, Zenon
<1> QED BY <1>1, <1>2, <1>3, Zenon

LEMMA ShiftByteType == ASSUME NEW high \in Byte PROVE ShiftByte[high] \in Word
<1> DEFINE V == Word
           N == 8
           z == 256 * high
           step == [p \in (1..N) \X V |-> ShiftBit(p[2])]
           Is(f) == f = [n \in 0..8 |-> IF n = 0 THEN 256 * high ELSE ShiftBit(f[n - 1])]
<1>0. 256 * high \in Word
  BY WordIs, SMT DEF Byte
<1>1. IsStepwise(V, N, z, step)
  <2>1. z \in V /\ N \in Nat
    BY <1>0, SMT
  <2>2. \A n \in 1..N, v \in V : ShiftBit(v) \in V
    BY ShiftBitType
  <2> HIDE DEF V, N, z
  <2> QED BY <2>1, <2>2 DEF IsStepwise
<1>2. PICK f \in [0..N -> V] : f[0] = z /\ \A n \in 1..N : f[n] = step[<<n, f[n - 1]>>]
  <2> HIDE DEF V, N, z, step
  <2> QED BY <1>1, StepwiseRecursion
<1>3. Is(f)
  <2>1. \A n \in 1..N : f[n - 1] \in V
    OBVIOUS
  <2>2. \A n \in 1..N : f[n] = ShiftBit(f[n - 1])
    <3> HIDE DEF V, N, z
    <3> QED BY <1>2, <2>1
  <2> QED BY <1>2, <2>2
<1> DEFINE Shifted == CHOOSE g : Is(g)
<1>4. Is(Shifted)
  <2> HIDE DEF Is
  <2> QED BY <1>3
<1>5. ShiftByte[high] = Shifted[8]
  BY Zenon DEF ShiftByte
<1>6. Shifted[0] = 256 * high /\ \A n \in 1..8 : Shifted[n] = ShiftBit(Shifted[n - 1])
  <2> HIDE DEF Shifted
  <2> QED BY <1>4
<1> HIDE DEF Shifted
<1> DEFINE T == {n \in 0..8 : Shifted[n] \in V}
<1>7. 0 \in T
  BY <1>0, <1>6, SMT
<1>8. ASSUME NEW n \in 0..7, n \in T PROVE n + 1 \in T
  <2>1. n + 1 \in 1..8 /\ (n + 1) - 1 = n
    OBVIOUS
  <2>2. Shifted[n + 1] = ShiftBit(Shifted[n])
    BY <1>6, <2>1
  <2>3. ShiftBit(Shifted[n]) \in V
    BY <1>8, ShiftBitType
  <2> QED BY <2>1, <2>2, <2>3
<1>9. 8 \in T
  <2> HIDE DEF T
  <2>1. 0..(8 - 1) = 0..7 /\ 8 \in 0..8 /\ 8 \in Nat
    OBVIOUS
  <2> QED BY <1>7, <1>8, <2>1, SetOfIntervalInduction
<1> QED BY <1>5, <1>9, Zenon

LEMMA AddByteType ==
  ASSUME NEW byte, NEW crc \in Word
  PROVE  AddByte(byte)[crc] \in Word
<1>1. AddByte(byte)[crc] = Xor(ShiftByte[Xor(crc \div 256, byte)], 256 * (crc % 256))
  BY DEF AddByte
<1>2. \A a, b : Xor(a, b) \in Word
  BY XorType, Zenon
<1> QED BY <1>1, <1>2, SMT

\* The checksum of any bytes is a number of sixteen bits.
LEMMA CrcType == ASSUME NEW bytes \in Seq(Byte) PROVE Crc(bytes) \in Word
<1> DEFINE N == Len(bytes)
           V == Word
           z == 2^16 - 1
           step == [p \in (1..N) \X V |-> AddByte(bytes[p[1]])[p[2]]]
           Is(f) == f = [i \in 0..N |-> IF i = 0 THEN 2^16 - 1 ELSE AddByte(bytes[i])[f[i - 1]]]
<1>0. z \in V
  BY WordIs, PowersOfTwo, SMT DEF Pow
<1>1. IsStepwise(V, N, z, step)
  <2>1. z \in V /\ N \in Nat
    BY <1>0, LenProperties, Zenon
  <2>2. \A n \in 1..N, v \in V : AddByte(bytes[n])[v] \in V
    BY AddByteType
  <2> HIDE DEF V, N, z
  <2> QED BY <2>1, <2>2 DEF IsStepwise
<1>2. PICK f \in [0..N -> V] : f[0] = z /\ \A n \in 1..N : f[n] = step[<<n, f[n - 1]>>]
  <2> HIDE DEF V, N, z, step
  <2> QED BY <1>1, StepwiseRecursion
<1>3. Is(f)
  <2>1. \A n \in 1..N : f[n - 1] \in V
    <3>1. N \in Nat
      BY LenProperties
    <3> HIDE DEF V, N
    <3> QED BY <3>1
  <2>2. \A n \in 1..N : f[n] = AddByte(bytes[n])[f[n - 1]]
    <3> HIDE DEF V, N, z
    <3> QED BY <1>2, <2>1
  <2>3. f = [i \in 0..N |-> f[i]]
    <3> HIDE DEF V, N
    <3> QED OBVIOUS
  <2>4. N \in Nat
    BY LenProperties
  <2> HIDE DEF V, N
  <2> QED BY <1>2, <2>2, <2>3, <2>4
<1> DEFINE UpTo == CHOOSE g : Is(g)
<1>4. Is(UpTo)
  <2> HIDE DEF Is
  <2> QED BY <1>3
<1>5. Crc(bytes) = UpTo[N]
  BY Zenon DEF Crc
<1>6. N \in Nat
  BY LenProperties
<1>7. UpTo[0] = 2^16 - 1 /\ \A n \in 1..N : UpTo[n] = AddByte(bytes[n])[UpTo[n - 1]]
  <2> HIDE DEF UpTo, N
  <2> QED BY <1>4, <1>6
<1> HIDE DEF UpTo, N
<1> DEFINE T == {n \in 0..N : UpTo[n] \in V}
<1>8. 0 \in T
  <2>1. 0 \in 0..N
    BY <1>6, SMT
  <2> QED BY <1>0, <1>7, <2>1, Zenon
<1>9. ASSUME NEW n \in 0..(N - 1), n \in T PROVE n + 1 \in T
  <2>1. n + 1 \in 1..N /\ (n + 1) - 1 = n
    BY <1>6
  <2>2. UpTo[n + 1] = AddByte(bytes[n + 1])[UpTo[n]]
    BY <1>7, <2>1
  <2>3. UpTo[n + 1] \in V
    BY <1>9, <2>2, AddByteType
  <2> QED BY <1>6, <2>1, <2>3
<1>10. N \in T
  <2> HIDE DEF T
  <2>1. \A n \in 0..(N - 1) : n \in T => n + 1 \in T
    BY <1>9, Zenon
  <2>2. 0..N \subseteq T
    BY <1>6, <1>8, <2>1, SetOfIntervalInduction
  <2>3. N \in 0..N
    BY <1>6, SMT
  <2> QED BY <2>2, <2>3, Zenon
<1> QED BY <1>5, <1>10, Zenon

-----------------------------------------------------------------------------
(* Blocks, and what is left to encode after one.                            *)

BlockFull == BlockLimit - 1

LEMMA BlockFullType == BlockFull \in 1..254
  BY BlockLimitAssumption, SMT DEF BlockFull

LEMMA Singleton ==
  ASSUME NEW S, NEW x \in S PROVE <<x>> \in Seq(S) /\ Len(<<x>>) = 1 /\ <<x>>[1] = x
  OBVIOUS

LEMMA BlockIs ==
  ASSUME NEW bytes \in Seq(Byte), Len(bytes) <= 254
  PROVE  /\ Block(bytes) \in Seq(Byte) /\ Len(Block(bytes)) = Len(bytes) + 1
         /\ Block(bytes)[1] = Len(bytes) + 1
         /\ \A i \in 1..Len(bytes) : Block(bytes)[i + 1] = bytes[i]
<1> DEFINE x == Len(bytes) + 1
           code == <<x>>
<1>1. x \in Byte /\ Len(bytes) \in Nat /\ x = Len(bytes) + 1
  <2>1. Len(bytes) \in Nat
    BY LenProperties
  <2>2. \A n \in Nat : n <= 254 => n + 1 \in Byte
    BY SMT DEF Byte
  <2> QED BY <2>1, <2>2
<1>2. Block(bytes) = code \o bytes
  BY Zenon DEF Block
<1>3. code \in Seq(Byte) /\ Len(code) = 1 /\ code[1] = x
  <2> HIDE DEF x
  <2> QED BY <1>1, Singleton
<1> HIDE DEF code
<1>4. code \o bytes \in Seq(Byte) /\ Len(code \o bytes) = 1 + Len(bytes)
  BY <1>3, ConcatProperties
<1>5. (code \o bytes)[1] = code[1]
  BY <1>3, ConcatProperties
<1>6. ASSUME NEW i \in 1..Len(bytes) PROVE (code \o bytes)[i + 1] = bytes[i]
  <2>1. i + 1 \in (Len(code) + 1)..(Len(code) + Len(bytes)) /\ (i + 1) - Len(code) = i
    BY <1>1, <1>3
  <2> DEFINE j == i + 1
  <2>2. j \in (Len(code) + 1)..(Len(code) + Len(bytes)) /\ j - Len(code) = i
    BY <2>1
  <2> HIDE DEF j
  <2>3. (code \o bytes)[j] = bytes[j - Len(code)]
    <3>1. Len(code) \in Nat /\ bytes \in Seq(Byte) /\ code \in Seq(Byte) /\ Len(bytes) \in Nat
      BY <1>1, <1>3
    <3>2. j \in 1..(Len(code) + Len(bytes)) /\ ~(j <= Len(code))
      BY <2>2, <3>1
    <3> QED BY <3>1, <3>2, ConcatProperties
  <2> QED BY <2>2, <2>3 DEF j
<1> QED BY <1>1, <1>2, <1>3, <1>4, <1>5, <1>6

\* The bytes of the first block, and those that are encoded after it.
Piece(bytes) == IF BeforeZero(bytes) >= BlockFull THEN First(bytes, BlockFull)
                ELSE First(bytes, BeforeZero(bytes))
Beyond(bytes) == IF BeforeZero(bytes) >= BlockFull THEN After(bytes, BlockFull)
                 ELSE After(bytes, BeforeZero(bytes) + 1)
IsLast(bytes) == BeforeZero(bytes) < BlockFull /\ BeforeZero(bytes) = Len(bytes)

LEMMA PieceType ==
  ASSUME NEW bytes \in Seq(Byte)
  PROVE  /\ IsLast(bytes) => Len(bytes) <= 254
         /\ ~IsLast(bytes) =>
              /\ Piece(bytes) \in Seq(Byte) /\ Len(Piece(bytes)) <= 254
              /\ Beyond(bytes) \in Seq(Byte) /\ Len(Beyond(bytes)) < Len(bytes)
<1> DEFINE n == BeforeZero(bytes)
<1>1. n \in 0..Len(bytes) /\ Len(bytes) \in Nat /\ BlockFull \in 1..254
  BY BeforeZeroIs, BlockFullType, LenProperties
<1>2. IsLast(bytes) => Len(bytes) <= 254
  BY <1>1 DEF IsLast
<1>3. CASE n >= BlockFull
  <2>1. BlockFull \in 0..Len(bytes) /\ BlockFull <= 254 /\ Len(bytes) - BlockFull < Len(bytes)
    BY <1>1, <1>3
  <2>2. Piece(bytes) = First(bytes, BlockFull) /\ Beyond(bytes) = After(bytes, BlockFull)
    BY <1>3 DEF Piece, Beyond
  <2> QED BY <1>2, <2>1, <2>2, FirstAfter
<1>4. CASE n < BlockFull /\ ~IsLast(bytes)
  <2>1. n \in 0..Len(bytes) /\ n <= 254 /\ n + 1 \in 0..Len(bytes) /\ Len(bytes) - (n + 1) < Len(bytes)
    BY <1>1, <1>4 DEF IsLast
  <2>2. Piece(bytes) = First(bytes, n) /\ Beyond(bytes) = After(bytes, n + 1)
    BY <1>1, <1>4 DEF Piece, Beyond
  <2> HIDE DEF n
  <2> QED BY <1>2, <2>1, <2>2, FirstAfter
<1>5. n >= BlockFull \/ n < BlockFull
  BY <1>1
<1> QED BY <1>2, <1>3, <1>4, <1>5

\* The recursion of the encoder has a solution, and the encoder is it.
LEMMA EncodeUnfold ==
  /\ CobsEncode \in [Seq(Byte) -> Seq(Byte)]
  /\ \A bytes \in Seq(Byte) :
       /\ IsLast(bytes) => CobsEncode[bytes] = Block(bytes) \o <<0>>
       /\ ~IsLast(bytes) =>
            CobsEncode[bytes] = Block(Piece(bytes)) \o CobsEncode[Beyond(bytes)]
<1> DEFINE S == Seq(Byte)
           rank == [b \in S |-> Len(b)]
           base == {b \in S : IsLast(b)}
           start == [b \in base |-> Block(b) \o <<0>>]
           next == [b \in S \ base |-> Beyond(b)]
           combine == [p \in (S \ base) \X S |-> Block(Piece(p[1])) \o p[2]]
           Body(b, g) == LET n == BeforeZero(b)
                             full == BlockLimit - 1
                         IN  IF n >= full THEN Block(First(b, full)) \o g[After(b, full)]
                             ELSE IF n < Len(b) THEN Block(First(b, n)) \o g[After(b, n + 1)]
                             ELSE Block(b) \o <<0>>
           Is(g) == g = [b \in S |-> Body(b, g)]
<1>1. rank \in [S -> Nat] /\ S # {} /\ base \subseteq S
  BY EmptySeq, LenProperties
<1>2. start \in [base -> S]
  <2>1. ASSUME NEW b \in S, IsLast(b) PROVE Block(b) \o <<0>> \in S
    <3>1. Block(b) \in S
      BY <2>1, PieceType, BlockIs
    <3>2. <<0>> \in Seq(Byte)
      BY SMT DEF Byte
    <3> QED BY <3>1, <3>2, ConcatProperties
  <2> HIDE DEF S
  <2> QED BY <2>1
<1>3. combine \in [(S \ base) \X S -> S]
  <2>1. ASSUME NEW b \in S, ~IsLast(b), NEW r \in S PROVE Block(Piece(b)) \o r \in S
    <3>1. Block(Piece(b)) \in S
      BY <2>1, PieceType, BlockIs
    <3> QED BY <3>1, ConcatProperties
  <2> HIDE DEF S
  <2> QED BY <2>1
<1>4. next \in [S \ base -> S] /\ \A b \in S \ base : rank[next[b]] < rank[b]
  <2>1. \A b \in S : ~IsLast(b) => Beyond(b) \in S /\ Len(Beyond(b)) < Len(b)
    BY PieceType
  <2> HIDE DEF S
  <2>2. next \in [S \ base -> S]
    BY <2>1
  <2>3. ASSUME NEW b \in S \ base PROVE rank[next[b]] < rank[b]
    <3>1. next[b] = Beyond(b) /\ Beyond(b) \in S
      BY <2>1
    <3>2. rank[b] = Len(b) /\ rank[Beyond(b)] = Len(Beyond(b))
      BY <3>1
    <3> QED BY <2>1, <3>1, <3>2
  <2> QED BY <2>2, <2>3
<1>5. IsDescent(S, S, rank, base, start, next, combine)
  <2> HIDE DEF S, rank, base, start, next, combine
  <2> QED BY <1>1, <1>2, <1>3, <1>4 DEF IsDescent
<1>6. PICK f \in [S -> S] : /\ \A b \in base : f[b] = start[b]
                            /\ \A b \in S \ base : f[b] = combine[<<b, f[next[b]]>>]
  <2> HIDE DEF S, rank, base, start, next, combine
  <2> QED BY <1>5, DescentRecursion
<1>7. ASSUME NEW g, NEW b \in S
      PROVE  Body(b, g) = IF IsLast(b) THEN Block(b) \o <<0>>
                          ELSE Block(Piece(b)) \o g[Beyond(b)]
  <2> DEFINE n == BeforeZero(b)
  <2>1. n \in 0..Len(b) /\ Len(b) \in Nat /\ BlockFull \in 1..254 /\ BlockFull = BlockLimit - 1
    BY BeforeZeroIs, BlockFullType, LenProperties DEF BlockFull
  <2>2. Body(b, g) = IF n >= BlockFull THEN Block(First(b, BlockFull)) \o g[After(b, BlockFull)]
                     ELSE IF n < Len(b) THEN Block(First(b, n)) \o g[After(b, n + 1)]
                     ELSE Block(b) \o <<0>>
    BY Zenon DEF BlockFull
  <2>3. CASE n >= BlockFull
    <3>1. ~IsLast(b)
      BY <2>1, <2>3 DEF IsLast
    <3> QED BY <2>2, <2>3, <3>1, Zenon DEF Piece, Beyond
  <2>4. CASE ~(n >= BlockFull) /\ n < Len(b)
    <3>1. ~IsLast(b)
      BY <2>1, <2>4 DEF IsLast
    <3> QED BY <2>2, <2>4, <3>1, Zenon DEF Piece, Beyond
  <2>5. CASE ~(n >= BlockFull) /\ ~(n < Len(b))
    <3>1. IsLast(b)
      BY <2>1, <2>5 DEF IsLast
    <3> QED BY <2>2, <2>5, <3>1, Zenon
  <2> QED BY <2>3, <2>4, <2>5, Zenon
<1> DEFINE Steps(g) == \A b \in S : /\ IsLast(b) => g[b] = Block(b) \o <<0>>
                                    /\ ~IsLast(b) => g[b] = Block(Piece(b)) \o g[Beyond(b)]
<1>8. Steps(f)
  <2>1. ASSUME NEW b \in S, IsLast(b) PROVE f[b] = Block(b) \o <<0>>
    <3>1. b \in base
      BY <2>1
    <3> QED BY <1>6, <3>1
  <2>2. ASSUME NEW b \in S, ~IsLast(b) PROVE f[b] = Block(Piece(b)) \o f[Beyond(b)]
    <3>1. b \in S \ base /\ next[b] = Beyond(b) /\ Beyond(b) \in S
      BY <2>2, PieceType
    <3>2. f[Beyond(b)] \in S
      BY <3>1
    <3>3. combine[<<b, f[Beyond(b)]>>] = Block(Piece(b)) \o f[Beyond(b)]
      <4> HIDE DEF S, base
      <4> QED BY <3>1, <3>2
    <3> HIDE DEF S, base, next, combine
    <3> QED BY <1>6, <3>1, <3>3
  <2> QED BY <2>1, <2>2
<1>9. Is(f)
  <2>1. \A b \in S : f[b] = Body(b, f)
    <3> HIDE DEF Body, S
    <3> QED BY <1>7, <1>8
  <2>2. f = [b \in S |-> f[b]]
    <3> HIDE DEF S
    <3> QED OBVIOUS
  <2> HIDE DEF Body, S
  <2> QED BY <2>1, <2>2
<1>10. Is(CobsEncode)
  <2>1. CobsEncode = CHOOSE g : Is(g)
    BY Zenon DEF CobsEncode
  <2> HIDE DEF Is
  <2> QED BY <1>9, <2>1
<1>11. Steps(CobsEncode)
  <2>1. \A b \in S : CobsEncode[b] = Body(b, CobsEncode)
    <3> HIDE DEF Body, S
    <3> QED BY <1>10
  <2> HIDE DEF Body, S
  <2> QED BY <1>7, <2>1
<1>12. \A b \in S : CobsEncode[b] \in S
  <2>1. \A b \in base : CobsEncode[b] = start[b]
    <3> HIDE DEF S
    <3> QED BY <1>11
  <2>2. ASSUME NEW b \in S \ base, CobsEncode[next[b]] \in S
        PROVE  CobsEncode[b] = combine[<<b, CobsEncode[next[b]]>>]
    <3>1. next[b] = Beyond(b)
      OBVIOUS
    <3>2. combine[<<b, CobsEncode[next[b]]>>] = Block(Piece(b)) \o CobsEncode[next[b]]
      <4> HIDE DEF S, base, next
      <4> QED BY <2>2
    <3> QED BY <1>11, <3>1, <3>2
  <2> HIDE DEF S, rank, base, start, next, combine
  <2> QED BY <1>5, <2>1, <2>2, DescentType
<1>13. CobsEncode \in [S -> S]
  <2> HIDE DEF Body, S
  <2> QED BY <1>10, <1>12
<1> QED BY <1>11, <1>13

-----------------------------------------------------------------------------
(* What the decoder makes of a frame's first block.                         *)

EndsFrame(frame) == frame = <<>> \/ frame[1] = 0 \/ frame[1] >= Len(frame)
AtEnd(frame) == IF frame = <<>> THEN << <<>> >>
                ELSE IF frame[1] = 0 \/ frame[1] > Len(frame) THEN <<>>
                ELSE <<SubSeq(frame, 2, frame[1])>>
WithBlock(frame, rest) ==
  [k \in DOMAIN rest |-> SubSeq(frame, 2, frame[1]) \o ZeroAfter(frame[1]) \o rest[k]]

LEMMA ByteInt == \A b \in Byte : b \in Nat /\ b <= 255
  BY SMT DEF Byte

LEMMA HeadByte ==
  ASSUME NEW frame \in Seq(Byte), frame # <<>>
  PROVE  frame[1] \in Byte /\ Len(frame) \in Nat \ {0}
  BY LenProperties, ElementOfSeq, EmptySeq

LEMMA FirstBlockType ==
  ASSUME NEW frame \in Seq(Byte)
  PROVE  /\ AtEnd(frame) \in Seq(Seq(Byte))
         /\ ~EndsFrame(frame) =>
              /\ After(frame, frame[1]) \in Seq(Byte)
              /\ Len(After(frame, frame[1])) < Len(frame)
              /\ \A rest \in Seq(Seq(Byte)) : WithBlock(frame, rest) \in Seq(Seq(Byte))
<1> DEFINE block == SubSeq(frame, 2, frame[1])
<1>1. ASSUME frame # <<>>, frame[1] <= Len(frame) PROVE block \in Seq(Byte)
  <2>1. frame[1] \in Nat /\ Len(frame) \in Nat
    BY <1>1, HeadByte, ByteInt
  <2>2. \A i \in 2..frame[1] : i \in 1..Len(frame)
    BY <1>1, <2>1
  <2> QED BY <2>1, <2>2, SubSeqProperties
<1>2. AtEnd(frame) \in Seq(Seq(Byte))
  <2>1. CASE frame = <<>>
    <3>1. <<>> \in Seq(Byte)
      BY EmptySeq
    <3>2. << <<>> >> \in Seq(Seq(Byte))
      BY <3>1, Singleton
    <3> QED BY <2>1, <3>2, Zenon DEF AtEnd
  <2>2. CASE frame # <<>> /\ (frame[1] = 0 \/ frame[1] > Len(frame))
    <3>1. <<>> \in Seq(Seq(Byte))
      BY EmptySeq
    <3> QED BY <2>2, <3>1, Zenon DEF AtEnd
  <2>3. CASE frame # <<>> /\ ~(frame[1] = 0 \/ frame[1] > Len(frame))
    <3>1. frame[1] <= Len(frame)
      BY <2>3, HeadByte, ByteInt
    <3>2. <<block>> \in Seq(Seq(Byte))
      <4> HIDE DEF block
      <4> QED BY <1>1, <2>3, <3>1, Singleton
    <3> QED BY <2>3, <3>2, Zenon DEF AtEnd
  <2> QED BY <2>1, <2>2, <2>3, Zenon
<1>3. ASSUME ~EndsFrame(frame)
      PROVE  /\ After(frame, frame[1]) \in Seq(Byte)
             /\ Len(After(frame, frame[1])) < Len(frame)
             /\ \A rest \in Seq(Seq(Byte)) : WithBlock(frame, rest) \in Seq(Seq(Byte))
  <2>1. frame # <<>> /\ frame[1] # 0 /\ ~(frame[1] >= Len(frame))
    BY <1>3, Zenon DEF EndsFrame
  <2>2. frame[1] \in Nat /\ Len(frame) \in Nat
    BY <2>1, HeadByte, ByteInt
  <2>3. frame[1] \in 0..Len(frame) /\ frame[1] <= Len(frame)
        /\ Len(frame) - frame[1] < Len(frame)
    BY <2>1, <2>2
  <2>4. block \in Seq(Byte)
    BY <1>1, <2>1, <2>3
  <2>5. ZeroAfter(frame[1]) \in Seq(Byte)
    <3>1. <<0>> \in Seq(Byte) /\ <<>> \in Seq(Byte)
      BY SMT DEF Byte
    <3> QED BY <3>1, Zenon DEF ZeroAfter
  <2>6. ASSUME NEW rest \in Seq(Seq(Byte)) PROVE WithBlock(frame, rest) \in Seq(Seq(Byte))
    <3> DEFINE zero == ZeroAfter(frame[1])
    <3>1. \A k \in DOMAIN rest : block \o zero \o rest[k] \in Seq(Byte)
      <4> HIDE DEF block, zero
      <4>1. block \o zero \in Seq(Byte)
        BY <2>4, <2>5, ConcatProperties DEF zero
      <4>2. \A k \in DOMAIN rest : rest[k] \in Seq(Byte)
        BY ElementOfSeq, LenProperties
      <4> QED BY <4>1, <4>2, ConcatProperties
    <3>2. DOMAIN rest = 1..Len(rest) /\ Len(rest) \in Nat
      BY LenProperties
    <3>3. WithBlock(frame, rest) \in [1..Len(rest) -> Seq(Byte)]
      <4> HIDE DEF block, zero
      <4>1. WithBlock(frame, rest) = [k \in DOMAIN rest |-> block \o zero \o rest[k]]
        BY Zenon DEF WithBlock, block, zero
      <4> QED BY <3>1, <3>2, <4>1
    <3>4. \A T : \A n \in Nat : \A h \in [1..n -> T] : h \in Seq(T)
      OBVIOUS
    <3> QED BY <3>2, <3>3, <3>4
  <2> QED BY <2>2, <2>3, <2>6, FirstAfter
<1> QED BY <1>2, <1>3

LEMMA DecodeUnfold ==
  /\ CobsDecode \in [Seq(Byte) -> Seq(Seq(Byte))]
  /\ \A frame \in Seq(Byte) :
       /\ EndsFrame(frame) => CobsDecode[frame] = AtEnd(frame)
       /\ ~EndsFrame(frame) =>
            CobsDecode[frame] = WithBlock(frame, CobsDecode[After(frame, frame[1])])
<1> DEFINE S == Seq(Byte)
           V == Seq(Seq(Byte))
           rank == [x \in S |-> Len(x)]
           base == {x \in S : EndsFrame(x)}
           start == [x \in base |-> AtEnd(x)]
           next == [x \in S \ base |-> After(x, x[1])]
           combine == [p \in (S \ base) \X V |-> WithBlock(p[1], p[2])]
           Body(x, g) ==
             IF x = <<>> THEN << <<>> >>
             ELSE LET code == x[1]
                      block == SubSeq(x, 2, code)
                      rest == g[After(x, code)]
                  IN  IF code = 0 \/ code > Len(x) THEN <<>>
                      ELSE IF code = Len(x) THEN <<block>>
                      ELSE [k \in DOMAIN rest |-> block \o ZeroAfter(code) \o rest[k]]
           Is(g) == g = [x \in S |-> Body(x, g)]
<1>1. rank \in [S -> Nat] /\ V # {} /\ base \subseteq S
  BY EmptySeq, LenProperties
<1>2. start \in [base -> V]
  <2>1. \A x \in S : AtEnd(x) \in V
    BY FirstBlockType
  <2> HIDE DEF S, V
  <2> QED BY <2>1
<1>3. combine \in [(S \ base) \X V -> V]
  <2>1. \A x \in S \ base, r \in V : WithBlock(x, r) \in V
    BY FirstBlockType
  <2> HIDE DEF S, V, base
  <2> QED BY <2>1
<1>4. next \in [S \ base -> S] /\ \A x \in S \ base : rank[next[x]] < rank[x]
  <2>1. \A x \in S : ~EndsFrame(x) => After(x, x[1]) \in S /\ Len(After(x, x[1])) < Len(x)
    BY FirstBlockType
  <2> HIDE DEF S
  <2>2. next \in [S \ base -> S]
    BY <2>1
  <2>3. ASSUME NEW x \in S \ base PROVE rank[next[x]] < rank[x]
    <3>1. next[x] = After(x, x[1]) /\ After(x, x[1]) \in S
      BY <2>1
    <3>2. rank[x] = Len(x) /\ rank[After(x, x[1])] = Len(After(x, x[1]))
      BY <3>1
    <3> QED BY <2>1, <3>1, <3>2
  <2> QED BY <2>2, <2>3
<1>5. IsDescent(S, V, rank, base, start, next, combine)
  <2> HIDE DEF S, V, rank, base, start, next, combine
  <2> QED BY <1>1, <1>2, <1>3, <1>4 DEF IsDescent
<1>6. PICK f \in [S -> V] : /\ \A x \in base : f[x] = start[x]
                            /\ \A x \in S \ base : f[x] = combine[<<x, f[next[x]]>>]
  <2> HIDE DEF S, V, rank, base, start, next, combine
  <2> QED BY <1>5, DescentRecursion
<1>7. ASSUME NEW g, NEW x \in S
      PROVE  Body(x, g) = IF EndsFrame(x) THEN AtEnd(x) ELSE WithBlock(x, g[After(x, x[1])])
  <2>1. CASE x = <<>>
    BY <2>1, Zenon DEF EndsFrame, AtEnd
  <2>2. CASE x # <<>>
    <3>1. x[1] \in Nat /\ Len(x) \in Nat
      BY <2>2, HeadByte, ByteInt
    <3>2. CASE x[1] = 0 \/ x[1] > Len(x)
      <4>1. x[1] = 0 \/ x[1] >= Len(x)
        BY <3>1, <3>2
      <4>2. EndsFrame(x)
        BY <2>2, <4>1, Zenon DEF EndsFrame
      <4> QED BY <2>2, <3>2, <4>2, Zenon DEF AtEnd
    <3>3. CASE ~(x[1] = 0 \/ x[1] > Len(x)) /\ x[1] = Len(x)
      <4>1. x[1] >= Len(x)
        BY <3>1, <3>3
      <4>2. EndsFrame(x)
        BY <2>2, <4>1, Zenon DEF EndsFrame
      <4> QED BY <2>2, <3>3, <4>2, Zenon DEF AtEnd
    <3>4. CASE ~(x[1] = 0 \/ x[1] > Len(x)) /\ ~(x[1] = Len(x))
      <4>1. ~(x[1] >= Len(x)) /\ x[1] # 0
        BY <3>1, <3>4
      <4>2. ~EndsFrame(x)
        BY <2>2, <4>1, Zenon DEF EndsFrame
      <4> QED BY <2>2, <3>4, <4>2, Zenon DEF WithBlock
    <3> QED BY <3>2, <3>3, <3>4, Zenon
  <2> QED BY <2>1, <2>2, Zenon
<1> DEFINE Steps(g) ==
             \A x \in S : /\ EndsFrame(x) => g[x] = AtEnd(x)
                          /\ ~EndsFrame(x) => g[x] = WithBlock(x, g[After(x, x[1])])
<1>8. Steps(f)
  <2>1. ASSUME NEW x \in S, EndsFrame(x) PROVE f[x] = AtEnd(x)
    <3>1. x \in base
      BY <2>1
    <3> QED BY <1>6, <3>1
  <2>2. ASSUME NEW x \in S, ~EndsFrame(x) PROVE f[x] = WithBlock(x, f[After(x, x[1])])
    <3>1. x \in S \ base /\ next[x] = After(x, x[1]) /\ After(x, x[1]) \in S
      BY <2>2, FirstBlockType
    <3>2. f[After(x, x[1])] \in V
      BY <3>1
    <3>3. combine[<<x, f[After(x, x[1])]>>] = WithBlock(x, f[After(x, x[1])])
      <4> HIDE DEF S, V, base
      <4> QED BY <3>1, <3>2
    <3> HIDE DEF S, V, base, next, combine
    <3> QED BY <1>6, <3>1, <3>3
  <2> QED BY <2>1, <2>2
<1>9. Is(f)
  <2>1. \A x \in S : f[x] = Body(x, f)
    <3> HIDE DEF Body, S
    <3> QED BY <1>7, <1>8
  <2>2. f = [x \in S |-> f[x]]
    <3> HIDE DEF S, V
    <3> QED OBVIOUS
  <2> HIDE DEF Body, S, V
  <2> QED BY <2>1, <2>2
<1>10. Is(CobsDecode)
  <2>1. CobsDecode = CHOOSE g : Is(g)
    BY Zenon DEF CobsDecode
  <2> HIDE DEF Is
  <2> QED BY <1>9, <2>1
<1>11. Steps(CobsDecode)
  <2>1. \A x \in S : CobsDecode[x] = Body(x, CobsDecode)
    <3> HIDE DEF Body, S
    <3> QED BY <1>10
  <2> HIDE DEF Body, S
  <2> QED BY <1>7, <2>1
<1>12. \A x \in S : CobsDecode[x] \in V
  <2>1. \A x \in base : CobsDecode[x] = start[x]
    <3> HIDE DEF S
    <3> QED BY <1>11
  <2>2. ASSUME NEW x \in S \ base, CobsDecode[next[x]] \in V
        PROVE  CobsDecode[x] = combine[<<x, CobsDecode[next[x]]>>]
    <3>1. next[x] = After(x, x[1])
      OBVIOUS
    <3>2. combine[<<x, CobsDecode[next[x]]>>] = WithBlock(x, CobsDecode[next[x]])
      <4> HIDE DEF S, V, base, next
      <4> QED BY <2>2
    <3> QED BY <1>11, <3>1, <3>2
  <2> HIDE DEF S, V, rank, base, start, next, combine
  <2> QED BY <1>5, <2>1, <2>2, DescentType
<1>13. CobsDecode \in [S -> V]
  <2> HIDE DEF Body, S, V
  <2> QED BY <1>10, <1>12
<1> QED BY <1>11, <1>13

LEMMA DecodeLast ==
  ASSUME NEW block \in Seq(Byte), Len(block) <= 254
  PROVE  CobsDecode[Block(block)] = <<block>>
<1> DEFINE frame == Block(block)
           n == Len(block)
<1>1. frame \in Seq(Byte) /\ Len(frame) = n + 1 /\ frame[1] = n + 1 /\ n \in Nat
      /\ \A i \in 1..n : frame[i + 1] = block[i]
  BY BlockIs, LenProperties
<1> HIDE DEF frame, n
<1>2. frame # <<>> /\ EndsFrame(frame) /\ ~(frame[1] = 0 \/ frame[1] > Len(frame))
  <2>1. frame # <<>>
    BY <1>1
  <2>2. frame[1] >= Len(frame) /\ ~(frame[1] = 0 \/ frame[1] > Len(frame))
    BY <1>1
  <2> QED BY <2>1, <2>2, Zenon DEF EndsFrame
<1>3. SubSeq(frame, 2, frame[1]) = block
  <2>1. \A i \in 2..(n + 1) : frame[i] \in Byte
    BY <1>1, ElementOfSeq
  <2> DEFINE s == SubSeq(frame, 2, n + 1)
  <2>2. s \in Seq(Byte) /\ Len(s) = (IF 2 <= n + 1 THEN (n + 1) - 2 + 1 ELSE 0)
        /\ \A i \in 1..((n + 1) - 2 + 1) : s[i] = frame[2 + i - 1]
    BY <1>1, <2>1, SubSeqProperties
  <2> HIDE DEF s
  <2>3. Len(s) = n
    BY <1>1, <2>2
  <2>4. ASSUME NEW i \in 1..n PROVE s[i] = block[i]
    <3>1. i \in 1..((n + 1) - 2 + 1) /\ 2 + i - 1 = i + 1
      BY <1>1
    <3>2. s[i] = frame[i + 1]
      BY <2>2, <3>1
    <3> QED BY <1>1, <3>2
  <2>5. s = block
    <3>1. Len(block) = n
      BY DEF n
    <3> QED BY <2>2, <2>3, <2>4, <3>1, SeqEqual
  <2> QED BY <1>1, <2>5 DEF s
<1>4. CobsDecode[frame] = AtEnd(frame)
  BY <1>1, <1>2, DecodeUnfold
<1> QED BY <1>2, <1>3, <1>4, Zenon DEF AtEnd, frame

LEMMA DecodeMore ==
  ASSUME NEW block \in Seq(Byte), Len(block) <= 254, NEW rest \in Seq(Byte), rest # <<>>,
         NEW packet, CobsDecode[rest] = <<packet>>
  PROVE  CobsDecode[Block(block) \o rest] = <<block \o ZeroAfter(Len(block) + 1) \o packet>>
<1> DEFINE front == Block(block)
           frame == front \o rest
           n == Len(block)
<1>1. front \in Seq(Byte) /\ Len(front) = n + 1 /\ front[1] = n + 1 /\ n \in Nat
      /\ \A i \in 1..n : front[i + 1] = block[i]
  BY BlockIs, LenProperties
<1>2. Len(rest) \in Nat \ {0}
  BY LenProperties, EmptySeq
<1> HIDE DEF front, n
<1>3. /\ frame \in Seq(Byte) /\ Len(frame) = n + 1 + Len(rest)
      /\ \A i \in 1..(n + 1) : frame[i] = front[i]
  <2>1. frame \in Seq(Byte) /\ Len(frame) = Len(front) + Len(rest)
        /\ \A i \in 1..(Len(front) + Len(rest)) : i <= Len(front) => frame[i] = front[i]
    BY <1>1, ConcatProperties
  <2> HIDE DEF frame
  <2> QED BY <1>1, <1>2, <2>1
<1>4. After(frame, n + 1) = rest
  BY <1>1, FirstOfConcat
<1> HIDE DEF frame
<1>5. frame[1] = n + 1
  BY <1>1, <1>3
<1>6. ~EndsFrame(frame)
  <2>1. frame # <<>> /\ frame[1] # 0 /\ ~(frame[1] >= Len(frame))
    BY <1>1, <1>2, <1>3, <1>5
  <2> QED BY <2>1, Zenon DEF EndsFrame
<1>7. SubSeq(frame, 2, frame[1]) = block
  <2>1. \A i \in 2..(n + 1) : frame[i] \in Byte
    <3>1. \A i \in 2..(n + 1) : i \in 1..Len(frame)
      BY <1>1, <1>2, <1>3
    <3> QED BY <1>3, <3>1, ElementOfSeq
  <2> DEFINE s == SubSeq(frame, 2, n + 1)
  <2>2. s \in Seq(Byte) /\ Len(s) = (IF 2 <= n + 1 THEN (n + 1) - 2 + 1 ELSE 0)
        /\ \A i \in 1..((n + 1) - 2 + 1) : s[i] = frame[2 + i - 1]
    BY <1>1, <2>1, SubSeqProperties
  <2> HIDE DEF s
  <2>3. Len(s) = n
    BY <1>1, <2>2
  <2>4. ASSUME NEW i \in 1..n PROVE s[i] = block[i]
    <3>1. i \in 1..((n + 1) - 2 + 1) /\ 2 + i - 1 = i + 1 /\ i + 1 \in 1..(n + 1)
      BY <1>1
    <3>2. s[i] = frame[i + 1]
      BY <2>2, <3>1
    <3> QED BY <1>1, <1>3, <3>1, <3>2
  <2>5. s = block
    <3>1. Len(block) = n
      BY DEF n
    <3> QED BY <2>2, <2>3, <2>4, <3>1, SeqEqual
  <2> QED BY <1>5, <2>5 DEF s
<1>8. CobsDecode[frame] = WithBlock(frame, <<packet>>)
  BY <1>3, <1>4, <1>5, <1>6, DecodeUnfold
<1>9. WithBlock(frame, <<packet>>) = <<block \o ZeroAfter(n + 1) \o packet>>
  <2> DEFINE front2 == block \o ZeroAfter(n + 1)
  <2>1. WithBlock(frame, <<packet>>) = [k \in DOMAIN <<packet>> |-> front2 \o <<packet>>[k]]
    BY <1>5, <1>7, Zenon DEF WithBlock
  <2> HIDE DEF front2
  <2>2. [k \in DOMAIN <<packet>> |-> front2 \o <<packet>>[k]] = <<front2 \o packet>>
    OBVIOUS
  <2> QED BY <2>1, <2>2 DEF front2
<1> QED BY <1>8, <1>9, Zenon DEF frame, front, n

\* What is encoded is the first piece, the zero after it, if it has one, and the rest.
LEMMA PieceAndBeyond ==
  ASSUME NEW bytes \in Seq(Byte)
  PROVE  /\ IsLast(bytes) => \A i \in 1..Len(bytes) : bytes[i] # 0
         /\ ~IsLast(bytes) =>
              /\ \A i \in 1..Len(Piece(bytes)) : Piece(bytes)[i] # 0
              /\ Piece(bytes) \o ZeroAfter(Len(Piece(bytes)) + 1) \o Beyond(bytes) = bytes
              /\ \/ Len(Piece(bytes)) = BlockFull /\ Len(Beyond(bytes)) = Len(bytes) - BlockFull
                 \/ Len(Beyond(bytes)) = Len(bytes) - Len(Piece(bytes)) - 1
<1> DEFINE n == BeforeZero(bytes)
<1>1. n \in 0..Len(bytes) /\ (n = Len(bytes) \/ bytes[n + 1] = 0)
      /\ (\A k \in 1..n : bytes[k] # 0) /\ Len(bytes) \in Nat /\ BlockFull \in 1..254
      /\ BlockLimit = BlockFull + 1
  <2>1. BlockLimit = BlockFull + 1
    BY BlockLimitAssumption, SMT DEF BlockFull
  <2> QED BY <2>1, BeforeZeroIs, BlockFullType, LenProperties
<1> HIDE DEF n
<1>2. ASSUME IsLast(bytes) PROVE \A i \in 1..Len(bytes) : bytes[i] # 0
  BY <1>1, <1>2 DEF IsLast, n
<1>3. CASE n >= BlockFull
  <2>1. BlockFull \in 0..Len(bytes) /\ \A i \in 1..BlockFull : i \in 1..n
    BY <1>1, <1>3
  <2>2. Piece(bytes) = First(bytes, BlockFull) /\ Beyond(bytes) = After(bytes, BlockFull)
    BY <1>3 DEF Piece, Beyond, n
  <2>3. /\ First(bytes, BlockFull) \in Seq(Byte) /\ Len(First(bytes, BlockFull)) = BlockFull
        /\ \A i \in 1..BlockFull : First(bytes, BlockFull)[i] = bytes[i]
        /\ Len(After(bytes, BlockFull)) = Len(bytes) - BlockFull
        /\ First(bytes, BlockFull) \o After(bytes, BlockFull) = bytes
    BY <2>1, FirstAfter
  <2>4. ZeroAfter(BlockFull + 1) = <<>>
    BY <1>1 DEF ZeroAfter
  <2>5. First(bytes, BlockFull) \o <<>> = First(bytes, BlockFull)
    BY <2>3, ConcatEmptySeq
  <2>6. \A i \in 1..BlockFull : First(bytes, BlockFull)[i] # 0
    BY <1>1, <2>1, <2>3
  <2>7. Piece(bytes) \o ZeroAfter(Len(Piece(bytes)) + 1) \o Beyond(bytes) = bytes
    BY <2>2, <2>3, <2>4, <2>5, Zenon
  <2> QED BY <1>2, <2>2, <2>3, <2>6, <2>7, Zenon
<1>4. CASE n < BlockFull /\ ~IsLast(bytes)
  <2>1. n < Len(bytes) /\ n # Len(bytes) /\ n + 1 \in 0..Len(bytes) /\ n + 1 # BlockLimit
        /\ ~(n >= BlockFull)
    BY <1>1, <1>4 DEF IsLast, n
  <2>2. Piece(bytes) = First(bytes, n) /\ Beyond(bytes) = After(bytes, n + 1)
    BY <2>1 DEF Piece, Beyond, n
  <2> DEFINE f == First(bytes, n)
             m == n + 1
             g == First(bytes, m)
             a == After(bytes, m)
  <2>3. /\ f \in Seq(Byte) /\ Len(f) = n /\ \A i \in 1..n : f[i] = bytes[i]
    BY <1>1, FirstAfter
  <2>4. /\ g \in Seq(Byte) /\ Len(g) = m /\ \A i \in 1..m : g[i] = bytes[i]
        /\ Len(a) = Len(bytes) - m /\ g \o a = bytes
    <3>1. m \in 0..Len(bytes)
      BY <2>1
    <3> HIDE DEF m
    <3> QED BY <3>1, FirstAfter
  <2> HIDE DEF f, g, a
  <2>5. f \o <<0>> = g
    <3>1. <<0>> \in Seq(Byte) /\ Len(<<0>>) = 1 /\ <<0>>[1] = 0
      BY SMT DEF Byte
    <3> DEFINE z == <<0>>
    <3>2. z \in Seq(Byte) /\ Len(z) = 1 /\ z[1] = 0
      BY <3>1
    <3> HIDE DEF z
    <3>3. f \o z \in Seq(Byte) /\ Len(f \o z) = n + 1
      <4>1. f \o z \in Seq(Byte) /\ Len(f \o z) = Len(f) + Len(z)
        BY <2>3, <3>2, ConcatProperties
      <4> QED BY <2>3, <3>2, <4>1
    <3>4. ASSUME NEW i \in 1..(n + 1) PROVE (f \o z)[i] = g[i]
      <4>1. CASE i <= n
        <5>1. i \in 1..n
          BY <1>1, <4>1
        <5>2. (f \o z)[i] = f[i]
          BY <2>3, <3>2, <5>1, ConcatProperties
        <5> QED BY <2>3, <2>4, <5>1, <5>2
      <4>2. CASE i = n + 1
        <5>1. i \in 1..(Len(f) + Len(z)) /\ ~(i <= Len(f)) /\ i - Len(f) = 1
          BY <1>1, <2>3, <3>2, <4>2
        <5>2. (f \o z)[i] = z[i - Len(f)]
          BY <2>3, <3>2, <5>1, ConcatProperties
        <5>3. bytes[i] = 0 /\ g[i] = bytes[i]
          BY <1>1, <2>1, <2>4, <4>2
        <5> QED BY <3>2, <5>1, <5>2, <5>3
      <4>3. i <= n \/ i = n + 1
        BY <1>1
      <4> QED BY <4>1, <4>2, <4>3
    <3>5. f \o z = g
      BY <2>4, <3>3, <3>4, SeqEqual
    <3> QED BY <3>5 DEF z
  <2>6. ZeroAfter(n + 1) = <<0>>
    BY <2>1 DEF ZeroAfter
  <2>7. Piece(bytes) = f /\ Beyond(bytes) = a
    BY <2>2 DEF f, a
  <2>8. Piece(bytes) \o ZeroAfter(Len(Piece(bytes)) + 1) \o Beyond(bytes) = bytes
    BY <2>3, <2>4, <2>5, <2>6, <2>7, Zenon
  <2>9. \A i \in 1..Len(Piece(bytes)) : Piece(bytes)[i] # 0
    BY <1>1, <2>3, <2>7
  <2>10. Len(Beyond(bytes)) = Len(bytes) - Len(Piece(bytes)) - 1
    <3>1. Len(a) = Len(bytes) - (n + 1) /\ Len(bytes) - (n + 1) = Len(bytes) - n - 1
      BY <1>1, <2>4
    <3> QED BY <2>3, <2>7, <3>1
  <2> QED BY <1>4, <2>8, <2>9, <2>10, Zenon
<1>5. n >= BlockFull \/ n < BlockFull
  BY <1>1
<1> QED BY <1>2, <1>3, <1>4, <1>5, Zenon

LEMMA QuotientIs ==
  ASSUME NEW a \in Nat, NEW d \in Nat \ {0}
  PROVE  a \div d \in Nat /\ (a \div d) * d <= a /\ a < (a \div d + 1) * d
  OBVIOUS

LEMMA QuotientBound ==
  ASSUME NEW a \in Nat, NEW d \in Nat \ {0}, NEW q \in Nat, q * d <= a
  PROVE  q <= a \div d
<1> DEFINE r == a \div d
<1>1. r \in Nat /\ a < (r + 1) * d
  BY QuotientIs
<1> HIDE DEF r
<1>2. ASSUME r + 1 <= q PROVE FALSE
  <2>1. (r + 1) * d <= q * d
    BY <1>1, <1>2
  <2>2. q * d \in Nat /\ (r + 1) * d \in Nat
    BY <1>1
  <2> QED BY <1>1, <2>1, <2>2
<1>3. q <= r
  BY <1>1, <1>2
<1> QED BY <1>3 DEF r

\* The frame of some bytes, without the zero at its end.
IsFrameOf(body, bytes) ==
  /\ body \in Seq(Byte) /\ body # <<>>
  /\ \A i \in 1..Len(body) : body[i] # 0
  /\ CobsEncode[bytes] = body \o <<0>>
  /\ CobsDecode[body] = <<bytes>>
  /\ Len(body) <= Len(bytes) + 1 + Len(bytes) \div BlockFull

LEMMA LastFrame ==
  ASSUME NEW bytes \in Seq(Byte), IsLast(bytes)
  PROVE  IsFrameOf(Block(bytes), bytes)
<1> DEFINE body == Block(bytes)
<1>1. Len(bytes) <= 254 /\ Len(bytes) \in Nat /\ \A i \in 1..Len(bytes) : bytes[i] # 0
  BY PieceType, PieceAndBeyond, LenProperties
<1>2. /\ body \in Seq(Byte) /\ Len(body) = Len(bytes) + 1 /\ body[1] = Len(bytes) + 1
      /\ \A i \in 1..Len(bytes) : body[i + 1] = bytes[i]
  BY <1>1, BlockIs
<1>3. CobsEncode[bytes] = body \o <<0>>
  BY EncodeUnfold
<1>4. CobsDecode[body] = <<bytes>>
  BY <1>1, DecodeLast
<1> HIDE DEF body
<1>5. body # <<>>
  BY <1>1, <1>2
<1>6. ASSUME NEW i \in 1..Len(body) PROVE body[i] # 0
  <2>1. CASE i = 1
    BY <1>1, <1>2, <2>1
  <2>2. CASE i # 1
    <3>1. i - 1 \in 1..Len(bytes) /\ (i - 1) + 1 = i
      BY <1>1, <1>2, <2>2
    <3> QED BY <1>1, <1>2, <3>1
  <2> QED BY <2>1, <2>2
<1>7. Len(body) <= Len(bytes) + 1 + Len(bytes) \div BlockFull
  <2>1. Len(bytes) \div BlockFull \in Nat
    BY <1>1, BlockFullType, QuotientIs
  <2> QED BY <1>1, <1>2, <2>1
<1> QED BY <1>2, <1>3, <1>4, <1>5, <1>6, <1>7 DEF IsFrameOf, body

LEMMA LongerFrame ==
  ASSUME NEW bytes \in Seq(Byte), ~IsLast(bytes), NEW rest, IsFrameOf(rest, Beyond(bytes))
  PROVE  IsFrameOf(Block(Piece(bytes)) \o rest, bytes)
<1> DEFINE piece == Piece(bytes)
           more == Beyond(bytes)
           front == Block(piece)
           body == front \o rest
           L == Len(bytes)
           p == Len(piece)
<1>1. /\ piece \in Seq(Byte) /\ p <= 254 /\ more \in Seq(Byte)
      /\ \A i \in 1..p : piece[i] # 0
      /\ piece \o ZeroAfter(p + 1) \o more = bytes
      /\ \/ p = BlockFull /\ Len(more) = L - BlockFull
         \/ Len(more) = L - p - 1
  BY PieceType, PieceAndBeyond
<1>2. /\ rest \in Seq(Byte) /\ rest # <<>>
      /\ \A i \in 1..Len(rest) : rest[i] # 0
      /\ CobsEncode[more] = rest \o <<0>>
      /\ CobsDecode[rest] = <<more>>
      /\ Len(rest) <= Len(more) + 1 + Len(more) \div BlockFull
  BY Zenon DEF IsFrameOf
<1>3. /\ front \in Seq(Byte) /\ Len(front) = p + 1 /\ front[1] = p + 1
      /\ \A i \in 1..p : front[i + 1] = piece[i]
  BY <1>1, BlockIs
<1>4. CobsDecode[body] = <<bytes>>
  <2>1. CobsDecode[body] = <<piece \o ZeroAfter(p + 1) \o more>>
    BY <1>1, <1>2, DecodeMore
  <2> QED BY <1>1, <2>1, Zenon
<1>5. CobsEncode[bytes] = body \o <<0>>
  <2>1. CobsEncode[bytes] = front \o (rest \o <<0>>)
    BY <1>2, EncodeUnfold
  <2>2. <<0>> \in Seq(Byte)
    BY SMT DEF Byte
  <2>3. front \o (rest \o <<0>>) = (front \o rest) \o <<0>>
    <3> DEFINE z == <<0>>
    <3>1. z \in Seq(Byte)
      BY <2>2
    <3> HIDE DEF z, front
    <3>2. front \o (rest \o z) = (front \o rest) \o z
      <4>1. front \in Seq(Byte) /\ rest \in Seq(Byte)
        BY <1>2, <1>3
      <4>2. \A s, t, u \in Seq(Byte) : (s \o t) \o u = s \o (t \o u)
        BY ConcatAssociative
      <4> QED BY <3>1, <4>1, <4>2, Zenon
    <3> QED BY <3>2 DEF z
  <2> QED BY <2>1, <2>3, Zenon
<1>6. p \in Nat /\ L \in Nat /\ Len(more) \in Nat /\ Len(rest) \in Nat \ {0}
      /\ BlockFull \in Nat \ {0}
  BY <1>1, <1>2, LenProperties, EmptySeq, BlockFullType
<1> HIDE DEF front, piece, more, L, p
<1>7. /\ body \in Seq(Byte) /\ Len(body) = p + 1 + Len(rest)
      /\ \A i \in 1..(p + 1 + Len(rest)) : body[i] = IF i <= p + 1 THEN front[i] ELSE rest[i - (p + 1)]
  <2>1. /\ body \in Seq(Byte) /\ Len(body) = Len(front) + Len(rest)
        /\ \A i \in 1..(Len(front) + Len(rest)) :
             body[i] = IF i <= Len(front) THEN front[i] ELSE rest[i - Len(front)]
    BY <1>2, <1>3, ConcatProperties
  <2> HIDE DEF body
  <2> QED BY <1>3, <2>1
<1> HIDE DEF body
<1>8. ASSUME NEW i \in 1..Len(body) PROVE body[i] # 0
  <2>1. CASE i = 1
    <3>1. body[1] = front[1]
      BY <1>6, <1>7, <2>1
    <3> QED BY <1>3, <1>6, <2>1, <3>1
  <2>2. CASE i # 1 /\ i <= p + 1
    <3>1. i - 1 \in 1..p /\ (i - 1) + 1 = i /\ i \in 1..(p + 1 + Len(rest))
      BY <1>6, <1>7, <2>2
    <3>2. body[i] = front[i]
      BY <1>7, <2>2, <3>1
    <3>3. front[i] = piece[i - 1]
      BY <1>3, <3>1
    <3> QED BY <1>1, <3>1, <3>2, <3>3
  <2>3. CASE ~(i <= p + 1)
    <3>1. i - (p + 1) \in 1..Len(rest) /\ i \in 1..(p + 1 + Len(rest))
      BY <1>6, <1>7, <2>3
    <3>2. body[i] = rest[i - (p + 1)]
      BY <1>7, <2>3, <3>1
    <3> QED BY <1>2, <3>1, <3>2
  <2> QED BY <2>1, <2>2, <2>3
<1>9. body # <<>>
  BY <1>6, <1>7
<1>10. Len(body) <= L + 1 + L \div BlockFull
  <2> DEFINE d == BlockFull
             q == Len(more) \div d
             r == L \div d
             k == Len(rest)
             m == Len(more)
  <2>1. q \in Nat /\ r \in Nat /\ q * d <= m /\ d \in Nat \ {0} /\ k \in Nat /\ m \in Nat
    BY <1>6, QuotientIs
  <2>2. k <= m + 1 + q
    BY <1>2
  <2>3. ASSUME p = d, m = L - d PROVE q + 1 <= r
    <3> HIDE DEF q, d, m
    <3>1. q + 1 \in Nat /\ (q + 1) * d <= L
      <4>1. (q + 1) * d = q * d + d
        BY <2>1
      <4>2. q * d \in Nat
        BY <2>1
      <4> QED BY <1>6, <2>1, <2>3, <4>1, <4>2
    <3> QED BY <1>6, <2>1, <3>1, QuotientBound
  <2>4. ASSUME m = L - p - 1 PROVE q <= r
    <3> HIDE DEF q, d, m
    <3>1. q * d <= L
      <4>1. q * d \in Nat
        BY <2>1
      <4> QED BY <1>6, <2>1, <2>4, <4>1
    <3> QED BY <1>6, <2>1, <3>1, QuotientBound
  <2>5. \/ p = d /\ m = L - d
        \/ m = L - p - 1
    BY <1>1 DEF L, p, more
  <2> HIDE DEF q, r, k, m, d
  <2>6. p + 1 + k <= L + 1 + r
    BY <1>6, <2>1, <2>2, <2>3, <2>4, <2>5
  <2> QED BY <1>7, <2>6 DEF k, r, d
<1> QED BY <1>4, <1>5, <1>7, <1>8, <1>9, <1>10 DEF IsFrameOf, body, front, piece, L

\* Whatever is encoded is the frame of these bytes and the zero that ends it.
LEMMA EncodeShape == \A bytes \in Seq(Byte) : \E body : IsFrameOf(body, bytes)
<1> DEFINE S == Seq(Byte)
           rank == [b \in S |-> Len(b)]
           T == {b \in S : \E body : IsFrameOf(body, b)}
<1>1. rank \in [S -> Nat]
  BY LenProperties
<1>2. ASSUME NEW b \in S, \A c \in S : rank[c] < rank[b] => c \in T PROVE b \in T
  <2>1. CASE IsLast(b)
    BY <2>1, LastFrame
  <2>2. CASE ~IsLast(b)
    <3>1. Beyond(b) \in S /\ rank[Beyond(b)] < rank[b]
      BY <2>2, PieceType
    <3>2. Beyond(b) \in T
      BY <1>2, <3>1
    <3>3. PICK rest : IsFrameOf(rest, Beyond(b))
      BY <3>2
    <3>4. IsFrameOf(Block(Piece(b)) \o rest, b)
      BY <2>2, <3>3, LongerFrame
    <3> QED BY <3>4
  <2> QED BY <2>1, <2>2
<1>3. S \subseteq T
  <2> HIDE DEF S, T, rank
  <2> QED BY <1>1, <1>2, RankedInduction
<1> QED BY <1>3

\* Any bytes come back from the frame they are put into, whatever zeros they have and for any
\* block limit; the frame has no zero but its last byte, and a byte more per full block.
THEOREM AnyBytesReturn == ASSUME NEW bytes \in Seq(Byte) PROVE RoundTrip(bytes)
<1> DEFINE coded == CobsEncode[bytes]
           short == SubSeq(coded, 1, Len(coded) - 1)
<1>1. PICK body : IsFrameOf(body, bytes)
  BY EncodeShape
<1>2. /\ body \in Seq(Byte) /\ \A i \in 1..Len(body) : body[i] # 0
      /\ coded = body \o <<0>> /\ CobsDecode[body] = <<bytes>>
      /\ Len(body) <= Len(bytes) + 1 + Len(bytes) \div BlockFull
  BY <1>1, Zenon DEF IsFrameOf
<1>3. Len(body) \in Nat /\ Len(bytes) \in Nat /\ Len(bytes) \div BlockFull \in Nat
  <2>1. Len(body) \in Nat /\ Len(bytes) \in Nat
    BY <1>2, LenProperties
  <2> QED BY <2>1, BlockFullType, QuotientIs
<1> HIDE DEF coded
<1>4. <<0>> \in Seq(Byte) /\ Len(<<0>>) = 1 /\ <<0>>[1] = 0
  <2>1. 0 \in Byte
    BY SMT DEF Byte
  <2> QED BY <2>1, Singleton
<1>5. Len(coded) = Len(body) + 1 /\ coded[Len(coded)] = 0 /\ short = body
  <2> DEFINE z == <<0>>
  <2>1. z \in Seq(Byte) /\ Len(z) = 1 /\ z[1] = 0 /\ coded = body \o z
    BY <1>2, <1>4
  <2> HIDE DEF z
  <2>2. Len(coded) = Len(body) + Len(z)
    BY <1>2, <2>1, ConcatProperties
  <2>3. \A i \in 1..(Len(body) + Len(z)) :
          coded[i] = IF i <= Len(body) THEN body[i] ELSE z[i - Len(body)]
    BY <1>2, <2>1, ConcatProperties
  <2>4. Len(coded) = Len(body) + 1 /\ Len(coded) - 1 = Len(body)
    BY <1>3, <2>1, <2>2
  <2>5. coded[Len(body) + 1] = 0
    <3>1. Len(body) + 1 \in 1..(Len(body) + Len(z)) /\ ~(Len(body) + 1 <= Len(body))
          /\ (Len(body) + 1) - Len(body) = 1
      BY <1>3, <2>1
    <3> QED BY <2>1, <2>3, <3>1
  <2>6. First(coded, Len(body)) = body
    BY <1>2, <2>1, FirstOfConcat
  <2>7. short = body
    BY <2>4, <2>6 DEF First
  <2> QED BY <2>4, <2>5, <2>7
<1> HIDE DEF short
<1>6. \A i \in 1..Len(body) : body[i] \in 1..255
  <2> SUFFICES ASSUME NEW i \in 1..Len(body) PROVE body[i] \in 1..255
    OBVIOUS
  <2>1. body[i] \in Byte /\ body[i] # 0
    BY <1>2, ElementOfSeq
  <2> QED BY <2>1, SMT DEF Byte
<1>7. Len(coded) <= Len(bytes) + 2 + Len(bytes) \div BlockFull
  BY <1>2, <1>3, <1>5
<1>8. /\ coded[Len(coded)] = 0
      /\ \A i \in 1..Len(short) : short[i] \in 1..255
      /\ Len(coded) <= Len(bytes) + 2 + Len(bytes) \div (BlockLimit - 1)
      /\ CobsDecode[short] = <<bytes>>
  BY <1>2, <1>5, <1>6, <1>7, Zenon DEF BlockFull
<1> QED BY <1>8, Zenon DEF RoundTrip, coded, short

-----------------------------------------------------------------------------
(* The read loop.                                                           *)

LEMMA ProcessFrameType ==
  ASSUME NEW frame \in Seq(Byte) PROVE ProcessFrame(frame) \in Seq(Seq(Byte))
<1>1. CobsDecode[frame] \in Seq(Seq(Byte)) /\ <<>> \in Seq(Seq(Byte))
  BY DecodeUnfold, EmptySeq
<1> QED BY <1>1, Zenon DEF ProcessFrame

\* The buffer holds the end of what was read, and all of it when it is not too long.
LEMMA KeptIs ==
  ASSUME NEW bytes \in Seq(Byte)
  PROVE  /\ Kept(bytes) \in Seq(Byte)
         /\ Len(bytes) <= FrameLimit => Kept(bytes) = bytes
<1> DEFINE n == Len(bytes)
           k == n % (FrameLimit + 1)
<1>1. n \in Nat /\ k \in 0..n /\ (n <= FrameLimit => k = n)
  <2>1. n \in Nat
    BY LenProperties
  <2> HIDE DEF n
  <2> QED BY <2>1 DEF FrameLimit
<1> HIDE DEF k, n
<1>2. n - k \in 0..n /\ (n <= FrameLimit => n - k = 0)
  BY <1>1
<1>3. After(bytes, n - k) \in Seq(Byte)
  BY <1>2, FirstAfter DEF n
<1>4. After(bytes, 0) = bytes
  BY LenProperties DEF After
<1> QED BY <1>2, <1>3, <1>4 DEF Kept, k, n

LEMMA ReceivedUnfold ==
  /\ Received \in [Seq(Byte) -> Seq(Seq(Byte))]
  /\ \A read \in Seq(Byte) :
       /\ BeforeZero(read) = Len(read) => Received[read] = <<>>
       /\ BeforeZero(read) # Len(read) =>
            Received[read] = ProcessFrame(Kept(First(read, BeforeZero(read))))
                               \o Received[After(read, BeforeZero(read) + 1)]
<1> DEFINE S == Seq(Byte)
           V == Seq(Seq(Byte))
           frame(x) == Kept(First(x, BeforeZero(x)))
           more(x) == After(x, BeforeZero(x) + 1)
           rank == [x \in S |-> Len(x)]
           base == {x \in S : BeforeZero(x) = Len(x)}
           start == [x \in base |-> <<>>]
           next == [x \in S \ base |-> more(x)]
           combine == [p \in (S \ base) \X V |-> ProcessFrame(frame(p[1])) \o p[2]]
           Body(x, g) == LET n == BeforeZero(x)
                         IN  IF n = Len(x) THEN <<>>
                             ELSE ProcessFrame(Kept(First(x, n))) \o g[After(x, n + 1)]
           Is(g) == g = [x \in S |-> Body(x, g)]
<1>0. ASSUME NEW x \in S
      PROVE  /\ frame(x) \in S
             /\ BeforeZero(x) # Len(x) => more(x) \in S /\ Len(more(x)) < Len(x)
  <2> DEFINE n == BeforeZero(x)
             m == n + 1
  <2>1. n \in 0..Len(x) /\ Len(x) \in Nat
    BY BeforeZeroIs, LenProperties
  <2>2. n # Len(x) => m \in 0..Len(x) /\ Len(x) - m < Len(x)
    BY <2>1
  <2> HIDE DEF n, m
  <2>3. Kept(First(x, n)) \in S
    BY <2>1, FirstAfter, KeptIs
  <2>4. n # Len(x) => After(x, m) \in S /\ Len(After(x, m)) < Len(x)
    BY <2>2, FirstAfter
  <2> QED BY <2>3, <2>4 DEF n, m
<1> HIDE DEF frame, more
<1>1. rank \in [S -> Nat] /\ V # {} /\ base \subseteq S /\ start \in [base -> V]
  <2>1. <<>> \in V
    BY EmptySeq
  <2> HIDE DEF V
  <2> QED BY <2>1, LenProperties
<1>2. combine \in [(S \ base) \X V -> V]
  <2>1. ASSUME NEW x \in S \ base, NEW r \in V PROVE ProcessFrame(frame(x)) \o r \in V
    <3>1. ProcessFrame(frame(x)) \in V
      BY <1>0, ProcessFrameType
    <3> QED BY <3>1, ConcatProperties
  <2> HIDE DEF S, V, base
  <2> QED BY <2>1
<1>3. next \in [S \ base -> S] /\ \A x \in S \ base : rank[next[x]] < rank[x]
  <2> HIDE DEF S
  <2>2. next \in [S \ base -> S]
    BY <1>0
  <2>3. ASSUME NEW x \in S \ base PROVE rank[next[x]] < rank[x]
    <3>1. next[x] = more(x) /\ more(x) \in S
      BY <1>0
    <3>2. rank[x] = Len(x) /\ rank[more(x)] = Len(more(x))
      BY <3>1
    <3> QED BY <1>0, <3>1, <3>2
  <2> QED BY <2>2, <2>3
<1>4. IsDescent(S, V, rank, base, start, next, combine)
  <2> HIDE DEF S, V, rank, base, start, next, combine
  <2> QED BY <1>1, <1>2, <1>3 DEF IsDescent
<1>5. PICK f \in [S -> V] : /\ \A x \in base : f[x] = start[x]
                            /\ \A x \in S \ base : f[x] = combine[<<x, f[next[x]]>>]
  <2> HIDE DEF S, V, rank, base, start, next, combine
  <2> QED BY <1>4, DescentRecursion
<1>6. ASSUME NEW g, NEW x \in S
      PROVE  Body(x, g) = IF BeforeZero(x) = Len(x) THEN <<>>
                          ELSE ProcessFrame(frame(x)) \o g[more(x)]
  BY Zenon DEF frame, more
<1> DEFINE Steps(g) ==
             \A x \in S : /\ BeforeZero(x) = Len(x) => g[x] = <<>>
                          /\ BeforeZero(x) # Len(x) => g[x] = ProcessFrame(frame(x)) \o g[more(x)]
<1>7. Steps(f)
  <2>1. ASSUME NEW x \in S, BeforeZero(x) = Len(x) PROVE f[x] = <<>>
    <3>1. x \in base
      BY <2>1
    <3> QED BY <1>5, <3>1
  <2>2. ASSUME NEW x \in S, BeforeZero(x) # Len(x)
        PROVE  f[x] = ProcessFrame(frame(x)) \o f[more(x)]
    <3>1. x \in S \ base /\ next[x] = more(x) /\ more(x) \in S
      BY <1>0, <2>2
    <3>2. f[more(x)] \in V
      BY <3>1
    <3>3. combine[<<x, f[more(x)]>>] = ProcessFrame(frame(x)) \o f[more(x)]
      <4> HIDE DEF S, V, base
      <4> QED BY <3>1, <3>2
    <3> HIDE DEF S, V, base, next, combine
    <3> QED BY <1>5, <3>1, <3>3
  <2> QED BY <2>1, <2>2
<1>8. Is(f)
  <2>1. \A x \in S : f[x] = Body(x, f)
    <3> HIDE DEF Body, S
    <3> QED BY <1>6, <1>7
  <2>2. f = [x \in S |-> f[x]]
    <3> HIDE DEF S, V
    <3> QED OBVIOUS
  <2> HIDE DEF Body, S, V
  <2> QED BY <2>1, <2>2
<1>9. Is(Received)
  <2>1. Received = CHOOSE g : Is(g)
    BY Zenon DEF Received
  <2> HIDE DEF Is
  <2> QED BY <1>8, <2>1
<1>10. Steps(Received)
  <2>1. \A x \in S : Received[x] = Body(x, Received)
    <3> HIDE DEF Body, S
    <3> QED BY <1>9
  <2> HIDE DEF Body, S
  <2> QED BY <1>6, <2>1
<1>11. \A x \in S : Received[x] \in V
  <2>1. \A x \in base : Received[x] = start[x]
    <3> HIDE DEF S
    <3> QED BY <1>10
  <2>2. ASSUME NEW x \in S \ base, Received[next[x]] \in V
        PROVE  Received[x] = combine[<<x, Received[next[x]]>>]
    <3>1. next[x] = more(x)
      OBVIOUS
    <3>2. combine[<<x, Received[next[x]]>>] = ProcessFrame(frame(x)) \o Received[next[x]]
      <4> HIDE DEF S, V, base, next
      <4> QED BY <2>2
    <3> QED BY <1>10, <3>1, <3>2
  <2> HIDE DEF S, V, rank, base, start, next, combine
  <2> QED BY <1>4, <2>1, <2>2, DescentType
<1>12. Received \in [S -> V]
  <2> HIDE DEF Body, S, V
  <2> QED BY <1>9, <1>11
<1> QED BY <1>10, <1>12 DEF frame, more

\* A frame with a packet that is handled, whatever is read after it.
LEMMA ReceivedFrame ==
  ASSUME NEW packet, IsHandled(packet), NEW rest \in Seq(Byte),
         NEW body \in Seq(Byte), \A i \in 1..Len(body) : body[i] # 0,
         Len(body) <= FrameLimit, CobsDecode[body] = <<packet>>
  PROVE  Received[(body \o <<0>>) \o rest] = <<packet>> \o Received[rest]
<1> DEFINE z == <<0>>
           n == Len(body)
           m == n + 1
           front == body \o z
           read == front \o rest
           zrest == z \o rest
<1>1. z \in Seq(Byte) /\ Len(z) = 1 /\ z[1] = 0
  <2>1. 0 \in Byte
    BY SMT DEF Byte
  <2> QED BY <2>1, Singleton
<1> HIDE DEF z
<1>2. n \in Nat /\ Len(rest) \in Nat
  BY LenProperties
<1>3. /\ front \in Seq(Byte) /\ Len(front) = m /\ front[m] = 0
      /\ \A i \in 1..n : front[i] = body[i]
  <2>1. /\ front \in Seq(Byte) /\ Len(front) = n + Len(z)
        /\ \A i \in 1..(n + Len(z)) : front[i] = IF i <= n THEN body[i] ELSE z[i - n]
    BY <1>1, ConcatProperties
  <2> HIDE DEF front, n
  <2>2. \A i \in 1..n : front[i] = body[i]
    BY <1>1, <1>2, <2>1
  <2>3. front[n + 1] = z[(n + 1) - n] /\ (n + 1) - n = 1
    <3>1. n + 1 \in 1..(n + Len(z)) /\ ~(n + 1 <= n) /\ (n + 1) - n = 1
      BY <1>1, <1>2
    <3> QED BY <2>1, <3>1
  <2> QED BY <1>1, <2>1, <2>2, <2>3
<1>4. read = body \o zrest
  <2>1. \A s, t, u \in Seq(Byte) : (s \o t) \o u = s \o (t \o u)
    BY ConcatAssociative
  <2> QED BY <1>1, <2>1, Zenon
<1>5. zrest \in Seq(Byte)
  BY <1>1, ConcatProperties
<1>6. Kept(First(read, n)) = body
  <2> HIDE DEF zrest, read
  <2>1. First(read, n) = body
    BY <1>4, <1>5, FirstOfConcat
  <2> QED BY <2>1, KeptIs
<1>7. After(read, m) = rest
  <2> HIDE DEF front
  <2>1. After(front \o rest, Len(front)) = rest
    BY <1>3, FirstOfConcat
  <2> QED BY <1>3, <2>1
<1>8. /\ read \in Seq(Byte) /\ Len(read) = m + Len(rest)
      /\ \A i \in 1..m : read[i] = front[i]
  <2> HIDE DEF front
  <2>1. /\ front \o rest \in Seq(Byte) /\ Len(front \o rest) = Len(front) + Len(rest)
        /\ \A i \in 1..(Len(front) + Len(rest)) : i <= Len(front) => (front \o rest)[i] = front[i]
    BY <1>3, ConcatProperties
  <2> HIDE DEF read
  <2> QED BY <1>2, <1>3, <2>1 DEF read
<1>9. BeforeZero(read) = n
  <2>1. n \in 0..(Len(read) - 1) /\ m \in 1..m /\ m = n + 1
    BY <1>2, <1>8
  <2>2. read[n + 1] = 0
    BY <1>3, <1>8, <2>1
  <2>3. \A k \in 1..n : read[k] # 0
    <3>1. \A k \in 1..n : k \in 1..m
      BY <1>2
    <3> QED BY <1>3, <1>8, <3>1
  <2> HIDE DEF read, n, m
  <2> QED BY <1>8, <2>1, <2>2, <2>3, BeforeFirstZero
<1>10. n # Len(read)
  BY <1>2, <1>8
<1>11. ProcessFrame(body) = <<packet>>
  <2>1. <<packet>> # <<>> /\ <<packet>>[1] = packet
    OBVIOUS
  <2> QED BY <2>1, Zenon DEF ProcessFrame
<1>12. Received[read] = ProcessFrame(Kept(First(read, n))) \o Received[After(read, n + 1)]
  <2> HIDE DEF read, n
  <2> QED BY <1>8, <1>9, <1>10, ReceivedUnfold
<1> QED BY <1>6, <1>7, <1>11, <1>12, Zenon DEF read, front, z

-----------------------------------------------------------------------------
(* Packets.                                                                 *)

LEMMA WordBytes ==
  \A c \in Word : /\ c % 256 \in Byte /\ c \div 256 \in Byte
                  /\ c = (c % 256) + 256 * (c \div 256)
<1> SUFFICES ASSUME NEW c \in Word
             PROVE  /\ c % 256 \in Byte /\ c \div 256 \in Byte
                    /\ c = (c % 256) + 256 * (c \div 256)
  OBVIOUS
<1>1. c \in Nat /\ c < 256 * 256
  BY WordIs
<1> DEFINE hi == c \div 256
           lo == c % 256
<1>2. hi \in Int /\ hi * 256 <= c /\ c < (hi + 1) * 256
  BY <1>1
<1>3. lo \in 0..255 /\ c = 256 * hi + lo
  BY <1>1
<1> HIDE DEF hi, lo
<1>4. hi \in 0..255
  BY <1>1, <1>2
<1>5. lo \in Byte /\ hi \in Byte
  BY <1>3, <1>4, Zenon DEF Byte
<1>6. c = lo + 256 * hi
  BY <1>2, <1>3
<1> QED BY <1>5, <1>6 DEF hi, lo

\* A packet that is sealed has a valid checksum.
LEMMA SealedIs ==
  ASSUME NEW bytes \in Seq(Byte), Len(bytes) >= 1
  PROVE  /\ Sealed(bytes) \in Seq(Byte) /\ Len(Sealed(bytes)) = Len(bytes) + 2
         /\ \A i \in 1..Len(bytes) : Sealed(bytes)[i] = bytes[i]
         /\ HasValidCrc(Sealed(bytes))
<1> DEFINE c == Crc(bytes)
           lo == c % 256
           hi == c \div 256
           crc == <<lo, hi>>
           n == Len(bytes)
           s == bytes \o crc
<1>1. lo \in Byte /\ hi \in Byte /\ c = lo + 256 * hi
  BY CrcType, WordBytes
<1>2. Sealed(bytes) = s
  BY Zenon DEF Sealed
<1> HIDE DEF c, lo, hi
<1>3. crc \in Seq(Byte) /\ Len(crc) = 2 /\ crc[1] = lo /\ crc[2] = hi
  BY <1>1
<1> HIDE DEF crc
<1>4. /\ s \in Seq(Byte) /\ Len(s) = n + Len(crc)
      /\ \A i \in 1..(n + Len(crc)) : s[i] = IF i <= n THEN bytes[i] ELSE crc[i - n]
  BY <1>3, ConcatProperties
<1>5. n \in Nat /\ n >= 1
  BY LenProperties
<1>6. First(s, n) = bytes
  BY <1>3, FirstOfConcat
<1> HIDE DEF s, n
<1>7. Len(s) = n + 2 /\ Len(s) >= 3 /\ Len(s) - 2 = n /\ Len(s) - 1 = n + 1
  BY <1>3, <1>4, <1>5
<1>8. \A i \in 1..n : s[i] = bytes[i]
  BY <1>3, <1>4, <1>5
<1>9. s[n + 1] = lo /\ s[n + 2] = hi
  <2>1. n + 1 \in 1..(n + Len(crc)) /\ ~(n + 1 <= n) /\ (n + 1) - n = 1
    BY <1>3, <1>5
  <2>2. n + 2 \in 1..(n + Len(crc)) /\ ~(n + 2 <= n) /\ (n + 2) - n = 2
    BY <1>3, <1>5
  <2>3. s[n + 1] = crc[1] /\ s[n + 2] = crc[2]
    BY <1>4, <2>1, <2>2
  <2> QED BY <1>3, <2>3
<1>10. HasValidCrc(s)
  <2>1. Crc(First(s, Len(s) - 2)) = s[Len(s) - 1] + 256 * s[Len(s)]
    BY <1>1, <1>6, <1>7, <1>9 DEF c
  <2> QED BY <1>7, <2>1, Zenon DEF HasValidCrc
<1> QED BY <1>2, <1>4, <1>7, <1>8, <1>10, Zenon DEF n

-----------------------------------------------------------------------------
(* Functions that put a sequence together piece by piece.                   *)

\* g puts together the pieces of a sequence, from those of its front to the last.
Collects(g, S, piece) ==
  g = [x \in S |-> IF Len(x) = 0 THEN <<>> ELSE g[First(x, Len(x) - 1)] \o piece[x]]

\* There is such a function when fronts stay in the domain, and its values are of these pieces.
LEMMA Collected ==
  ASSUME NEW A, NEW S, S \subseteq Seq(A), NEW E, NEW piece,
         \A x \in S : Len(x) # 0 => First(x, Len(x) - 1) \in S /\ piece[x] \in Seq(E)
  PROVE  /\ \E g : Collects(g, S, piece)
         /\ \A g : Collects(g, S, piece) => \A x \in S : g[x] \in Seq(E)
<1> DEFINE V == Seq(E)
           front(x) == First(x, Len(x) - 1)
           rank == [x \in S |-> Len(x)]
           base == {x \in S : Len(x) = 0}
           start == [x \in base |-> <<>>]
           next == [x \in S \ base |-> front(x)]
           combine == [p \in (S \ base) \X V |-> p[2] \o piece[p[1]]]
<1>0. ASSUME NEW x \in S
      PROVE  /\ Len(x) \in Nat
             /\ Len(x) # 0 => front(x) \in S /\ Len(front(x)) < Len(x) /\ piece[x] \in V
  <2>1. x \in Seq(A) /\ Len(x) \in Nat
    BY LenProperties
  <2>2. ASSUME Len(x) # 0 PROVE Len(front(x)) < Len(x)
    <3> DEFINE n == Len(x) - 1
    <3>1. n \in 0..Len(x) /\ n < Len(x)
      BY <2>1, <2>2
    <3> HIDE DEF n
    <3>2. Len(First(x, n)) = n
      BY <2>1, <3>1, FirstAfter
    <3> QED BY <3>1, <3>2 DEF n
  <2> QED BY <2>1, <2>2
<1> HIDE DEF front
<1>1. rank \in [S -> Nat] /\ V # {} /\ base \subseteq S /\ start \in [base -> V]
  <2>1. <<>> \in V
    BY EmptySeq
  <2> HIDE DEF V
  <2> QED BY <1>0, <2>1
<1>2. combine \in [(S \ base) \X V -> V]
  <2>1. ASSUME NEW x \in S \ base, NEW r \in V PROVE r \o piece[x] \in V
    <3>1. piece[x] \in V
      BY <1>0
    <3> QED BY <3>1, ConcatProperties
  <2> HIDE DEF V, base
  <2> QED BY <2>1
<1>3. next \in [S \ base -> S] /\ \A x \in S \ base : rank[next[x]] < rank[x]
  <2>2. next \in [S \ base -> S]
    BY <1>0
  <2>3. ASSUME NEW x \in S \ base PROVE rank[next[x]] < rank[x]
    <3>1. next[x] = front(x) /\ front(x) \in S
      BY <1>0
    <3>2. rank[x] = Len(x) /\ rank[front(x)] = Len(front(x))
      BY <3>1
    <3> QED BY <1>0, <3>1, <3>2
  <2> QED BY <2>2, <2>3
<1>4. IsDescent(S, V, rank, base, start, next, combine)
  <2> HIDE DEF V, rank, base, start, next, combine
  <2> QED BY <1>1, <1>2, <1>3 DEF IsDescent
<1>5. PICK f \in [S -> V] : /\ \A x \in base : f[x] = start[x]
                            /\ \A x \in S \ base : f[x] = combine[<<x, f[next[x]]>>]
  <2> HIDE DEF V, rank, base, start, next, combine
  <2> QED BY <1>4, DescentRecursion
<1>6. Collects(f, S, piece)
  <2>1. ASSUME NEW x \in S
        PROVE  f[x] = IF Len(x) = 0 THEN <<>> ELSE f[front(x)] \o piece[x]
    <3>1. CASE Len(x) = 0
      <4>1. x \in base
        BY <3>1
      <4> QED BY <1>5, <3>1, <4>1
    <3>2. CASE Len(x) # 0
      <4>1. x \in S \ base /\ next[x] = front(x) /\ front(x) \in S
        BY <1>0, <3>2
      <4>2. f[front(x)] \in V
        BY <4>1
      <4>3. combine[<<x, f[front(x)]>>] = f[front(x)] \o piece[x]
        <5> HIDE DEF V, base
        <5> QED BY <4>1, <4>2
      <4>4. f[x] = f[front(x)] \o piece[x]
        <5> HIDE DEF V, base, next, combine
        <5> QED BY <1>5, <4>1, <4>3
      <4> QED BY <3>2, <4>4
    <3> QED BY <3>1, <3>2
  <2>2. f = [x \in S |-> f[x]]
    <3> HIDE DEF V
    <3> QED OBVIOUS
  <2>3. [x \in S |-> f[x]] = [x \in S |-> IF Len(x) = 0 THEN <<>> ELSE f[front(x)] \o piece[x]]
    BY <2>1
  <2> QED BY <2>2, <2>3, Zenon DEF Collects, front
<1>7. ASSUME NEW g, Collects(g, S, piece) PROVE \A x \in S : g[x] \in V
  <2>1. \A x \in S : g[x] = IF Len(x) = 0 THEN <<>> ELSE g[front(x)] \o piece[x]
    BY <1>7 DEF Collects, front
  <2>2. \A x \in base : g[x] = start[x]
    BY <2>1
  <2>3. ASSUME NEW x \in S \ base, g[next[x]] \in V PROVE g[x] = combine[<<x, g[next[x]]>>]
    <3>1. next[x] = front(x) /\ Len(x) # 0
      OBVIOUS
    <3>2. combine[<<x, g[next[x]]>>] = g[next[x]] \o piece[x]
      <4> HIDE DEF V, base, next
      <4> QED BY <2>3
    <3> QED BY <2>1, <3>1, <3>2
  <2> HIDE DEF V, rank, base, start, next, combine
  <2> QED BY <1>4, <2>2, <2>3, DescentType
<1> QED BY <1>6, <1>7, Zenon

\* What a recursive definition of this kind says of its values.
LEMMA CollectedUnfold ==
  ASSUME NEW S, NEW piece, NEW g, Collects(g, S, piece), NEW x \in S
  PROVE  /\ Len(x) = 0 => g[x] = <<>>
         /\ Len(x) # 0 => g[x] = g[First(x, Len(x) - 1)] \o piece[x]
<1>1. g[x] = IF Len(x) = 0 THEN <<>> ELSE g[First(x, Len(x) - 1)] \o piece[x]
  BY DEF Collects
<1> QED BY <1>1

\* The front of a sequence that is not empty, and its last element.
LEMMA FrontAndLast ==
  ASSUME NEW A, NEW x \in Seq(A), Len(x) # 0
  PROVE  /\ Len(x) \in Nat \ {0} /\ Len(x) - 1 \in Nat
         /\ First(x, Len(x) - 1) \in Seq(A) /\ Len(First(x, Len(x) - 1)) = Len(x) - 1
         /\ \A i \in 1..(Len(x) - 1) : First(x, Len(x) - 1)[i] = x[i]
         /\ x[Len(x)] \in A
         /\ First(x, Len(x) - 1) \o <<x[Len(x)]>> = x
<1>1. Len(x) \in Nat \ {0} /\ Len(x) - 1 \in Nat
  BY LenProperties
<1>2. x[Len(x)] \in A
  BY <1>1, ElementOfSeq
<1> DEFINE n == Len(x) - 1
           f == First(x, n)
           last == <<x[Len(x)]>>
<1>3. f \in Seq(A) /\ Len(f) = n /\ \A i \in 1..n : f[i] = x[i]
  <2>1. n \in 0..Len(x)
    BY <1>1
  <2> HIDE DEF n
  <2> QED BY <2>1, FirstAfter
<1>4. last \in Seq(A) /\ Len(last) = 1 /\ last[1] = x[Len(x)]
  BY <1>2, Singleton
<1>5. n \in Nat /\ Len(x) = n + 1
  BY <1>1
<1> HIDE DEF n, f, last
<1>6. f \o last \in Seq(A) /\ Len(f \o last) = Len(x)
  <2>1. f \o last \in Seq(A) /\ Len(f \o last) = Len(f) + Len(last)
    BY <1>3, <1>4, ConcatProperties
  <2> QED BY <1>3, <1>4, <1>5, <2>1
<1>7. ASSUME NEW i \in 1..Len(x) PROVE (f \o last)[i] = x[i]
  <2>1. CASE i <= n
    <3>1. i \in 1..n /\ i \in 1..(Len(f) + Len(last)) /\ i <= Len(f)
      BY <1>3, <1>4, <1>5, <2>1
    <3>2. (f \o last)[i] = f[i]
      BY <1>3, <1>4, <3>1, ConcatProperties
    <3> QED BY <1>3, <3>1, <3>2
  <2>2. CASE i = n + 1
    <3>1. i \in 1..(Len(f) + Len(last)) /\ ~(i <= Len(f)) /\ i - Len(f) = 1
      BY <1>3, <1>4, <1>5, <2>2
    <3>2. (f \o last)[i] = last[i - Len(f)]
      BY <1>3, <1>4, <3>1, ConcatProperties
    <3> QED BY <1>4, <1>5, <2>2, <3>1, <3>2
  <2>3. i <= n \/ i = n + 1
    BY <1>5
  <2> QED BY <2>1, <2>2, <2>3
<1>8. f \o last = x
  BY <1>6, <1>7, SeqEqual
<1> QED BY <1>1, <1>2, <1>3, <1>5, <1>8, Zenon DEF n, f, last

LEMMA BytesCollects ==
  Collects(Bytes, Seq(Seq(Byte)), [x \in Seq(Seq(Byte)) |-> CobsEncode[x[Len(x)]]])
<1> DEFINE S == Seq(Seq(Byte))
           piece == [x \in S |-> CobsEncode[x[Len(x)]]]
           Is(g) == g = [x \in S |-> LET n == Len(x)
                                     IN  IF n = 0 THEN <<>>
                                         ELSE g[First(x, n - 1)] \o CobsEncode[x[n]]]
<1>1. \A x \in S : Len(x) # 0 => First(x, Len(x) - 1) \in S /\ piece[x] \in Seq(Byte)
  <2> SUFFICES ASSUME NEW x \in S, Len(x) # 0
               PROVE  First(x, Len(x) - 1) \in S /\ piece[x] \in Seq(Byte)
    OBVIOUS
  <2>1. First(x, Len(x) - 1) \in S /\ x[Len(x)] \in Seq(Byte)
    BY FrontAndLast
  <2>2. piece[x] = CobsEncode[x[Len(x)]]
    OBVIOUS
  <2> QED BY <2>1, <2>2, EncodeUnfold
<1>2. \A g : Is(g) <=> Collects(g, S, piece)
  <2> SUFFICES ASSUME NEW g PROVE Is(g) <=> Collects(g, S, piece)
    OBVIOUS
  <2>1. [x \in S |-> IF Len(x) = 0 THEN <<>> ELSE g[First(x, Len(x) - 1)] \o piece[x]]
        = [x \in S |-> IF Len(x) = 0 THEN <<>>
                       ELSE g[First(x, Len(x) - 1)] \o CobsEncode[x[Len(x)]]]
    <3>1. \A x \in S : piece[x] = CobsEncode[x[Len(x)]]
      OBVIOUS
    <3> HIDE DEF piece
    <3> QED BY <3>1
  <2> QED BY <2>1, Zenon DEF Collects
<1>3. \E g : Collects(g, S, piece)
  <2> DEFINE A == Seq(Byte)
  <2>1. S \subseteq Seq(A)
    OBVIOUS
  <2> HIDE DEF S, A, piece
  <2> QED BY <1>1, <2>1, Collected
<1>4. Bytes = CHOOSE g : Is(g)
  BY Zenon DEF Bytes
<1>5. Is(Bytes)
  <2> HIDE DEF Is
  <2> QED BY <1>2, <1>3, <1>4
<1> QED BY <1>2, <1>5

LEMMA BytesUnfold ==
  ASSUME NEW packets \in Seq(Seq(Byte))
  PROVE  /\ Bytes[packets] \in Seq(Byte)
         /\ Len(packets) = 0 => Bytes[packets] = <<>>
         /\ Len(packets) # 0 =>
              Bytes[packets] = Bytes[First(packets, Len(packets) - 1)]
                                 \o CobsEncode[packets[Len(packets)]]
<1> DEFINE S == Seq(Seq(Byte))
           A == Seq(Byte)
           piece == [x \in S |-> CobsEncode[x[Len(x)]]]
<1>1. Collects(Bytes, S, piece)
  BY BytesCollects
<1>2. \A x \in S : Len(x) # 0 => First(x, Len(x) - 1) \in S /\ piece[x] \in Seq(Byte)
  <2> SUFFICES ASSUME NEW x \in S, Len(x) # 0
               PROVE  First(x, Len(x) - 1) \in S /\ piece[x] \in Seq(Byte)
    OBVIOUS
  <2>1. First(x, Len(x) - 1) \in S /\ x[Len(x)] \in Seq(Byte)
    BY FrontAndLast
  <2>2. piece[x] = CobsEncode[x[Len(x)]]
    OBVIOUS
  <2> QED BY <2>1, <2>2, EncodeUnfold
<1>3. Bytes[packets] \in Seq(Byte)
  <2>1. S \subseteq Seq(A) /\ packets \in S
    OBVIOUS
  <2> HIDE DEF S, A, piece
  <2> QED BY <1>1, <1>2, <2>1, Collected
<1>4. /\ Len(packets) = 0 => Bytes[packets] = <<>>
      /\ Len(packets) # 0 => Bytes[packets] = Bytes[First(packets, Len(packets) - 1)] \o piece[packets]
  <2>1. packets \in S
    OBVIOUS
  <2> HIDE DEF S, piece
  <2>2. \A x \in S : Bytes[x] = IF Len(x) = 0 THEN <<>> ELSE Bytes[First(x, Len(x) - 1)] \o piece[x]
    BY <1>1 DEF Collects
  <2>3. Bytes[packets] = IF Len(packets) = 0 THEN <<>>
                         ELSE Bytes[First(packets, Len(packets) - 1)] \o piece[packets]
    BY <2>1, <2>2, Zenon
  <2> QED BY <2>3, Zenon
<1>5. piece[packets] = CobsEncode[packets[Len(packets)]]
  OBVIOUS
<1> QED BY <1>3, <1>4, <1>5, Zenon

LEMMA NothingReceived == Received[<<>>] = <<>>
<1>1. <<>> \in Seq(Byte) /\ Len(<<>>) = 0
  BY EmptySeq
<1>2. BeforeZero(<<>>) = Len(<<>>)
  <2>1. BeforeZero(<<>>) \in 0..0
    BY <1>1, BeforeZeroIs
  <2> QED BY <1>1, <2>1
<1> QED BY <1>1, <1>2, ReceivedUnfold

\* Any number of packets that are handled come back from their bytes on the line, in order, and
\* nothing else does.
THEOREM PacketsReturn ==
  ASSUME NEW packets \in Seq(Seq(Byte)), \A i \in 1..Len(packets) : IsHandled(packets[i])
  PROVE  Received[Bytes[packets]] = packets
<1> DEFINE S == Seq(Seq(Byte))
           rank == [x \in S |-> Len(x)]
           Back(x) == \A rest \in Seq(Byte) : Received[Bytes[x] \o rest] = x \o Received[rest]
           T == {x \in S : (\A i \in 1..Len(x) : IsHandled(x[i])) => Back(x)}
<1>1. rank \in [S -> Nat]
  BY LenProperties
<1>2. ASSUME NEW x \in S, \A y \in S : rank[y] < rank[x] => y \in T PROVE x \in T
  <2> SUFFICES ASSUME \A i \in 1..Len(x) : IsHandled(x[i]), NEW rest \in Seq(Byte)
               PROVE  Received[Bytes[x] \o rest] = x \o Received[rest]
    OBVIOUS
  <2>0. Received[rest] \in S
    BY ReceivedUnfold
  <2>1. CASE Len(x) = 0
    <3>1. Bytes[x] = <<>> /\ x = <<>>
      BY <2>1, BytesUnfold, EmptySeq
    <3>2. <<>> \o rest = rest /\ <<>> \o Received[rest] = Received[rest]
      <4> DEFINE r == Received[rest]
      <4>1. r \in S
        BY <2>0
      <4> HIDE DEF r
      <4>2. <<>> \o rest = rest /\ <<>> \o r = r
        BY <4>1, ConcatEmptySeq
      <4> QED BY <4>2 DEF r
    <3> QED BY <3>1, <3>2
  <2>2. CASE Len(x) # 0
    <3> DEFINE n == Len(x)
               F == First(x, n - 1)
               l == x[n]
    <3>1. /\ n \in Nat \ {0} /\ F \in S /\ Len(F) = n - 1 /\ \A i \in 1..(n - 1) : F[i] = x[i]
          /\ l \in Seq(Byte) /\ F \o <<l>> = x
      BY <2>2, FrontAndLast
    <3>2. IsHandled(l) /\ \A i \in 1..(n - 1) : i \in 1..n
      BY <3>1
    <3>3. PICK body : IsFrameOf(body, l)
      BY <3>1, EncodeShape
    <3>4. body \in Seq(Byte) /\ (\A i \in 1..Len(body) : body[i] # 0)
          /\ CobsEncode[l] = body \o <<0>> /\ CobsDecode[body] = <<l>>
      BY <3>3, Zenon DEF IsFrameOf
    <3>a. Len(body) <= FrameLimit
      <4> HIDE DEF l
      <4>1. Len(l) \in {38, 41, 5}
        BY ONLY <3>2 DEF IsHandled, PacketSizes
      <4>2. Len(body) <= Len(l) + 1 + Len(l) \div BlockFull /\ Len(body) \in Nat
        BY <3>3, <3>4, LenProperties, Zenon DEF IsFrameOf
      <4> DEFINE a == Len(l)
                 q == a \div BlockFull
      <4>3. a \in Nat /\ a <= 41 /\ BlockFull \in Nat \ {0}
        <5>1. a \in {38, 41, 5}
          BY ONLY <4>1
        <5> HIDE DEF a
        <5>2. a \in Nat /\ a <= 41
          BY ONLY <5>1
        <5>3. BlockFull \in Nat \ {0}
          BY ONLY BlockFullType
        <5> QED BY ONLY <5>2, <5>3
      <4>4. q \in Nat /\ q * BlockFull <= a
        BY ONLY <4>3, QuotientIs
      <4>5. Len(body) <= a + 1 + q
        BY <4>2
      <4> HIDE DEF a, q
      <4>7. q <= 41
        <5> DEFINE p == q * BlockFull
        <5>1. p \in Nat /\ q <= p
          BY ONLY <4>3, <4>4
        <5>2. p <= a
          BY <4>4
        <5> HIDE DEF p
        <5> QED BY ONLY <4>3, <4>4, <5>1, <5>2
      <4> QED BY ONLY <4>2, <4>3, <4>4, <4>5, <4>7 DEF FrameLimit
    <3>5. Bytes[x] = Bytes[F] \o CobsEncode[l] /\ Bytes[F] \in Seq(Byte) /\ CobsEncode[l] \in Seq(Byte)
      BY <2>2, <3>1, BytesUnfold, EncodeUnfold
    <3>6. Received[CobsEncode[l] \o rest] = <<l>> \o Received[rest]
      <4> HIDE DEF l
      <4> QED BY <3>2, <3>4, <3>a, ReceivedFrame
    <3> HIDE DEF F, l
    <3>7. Back(F)
      <4>1. rank[F] < rank[x]
        BY <3>1
      <4>2. F \in T
        BY <1>2, <3>1, <4>1
      <4>3. \A i \in 1..Len(F) : IsHandled(F[i])
        BY <3>1, <3>2
      <4> QED BY <4>2, <4>3
    <3>8. Bytes[x] \o rest = Bytes[F] \o (CobsEncode[l] \o rest)
      <4>1. \A s, t, u \in Seq(Byte) : (s \o t) \o u = s \o (t \o u)
        BY ConcatAssociative
      <4>2. (Bytes[F] \o CobsEncode[l]) \o rest = Bytes[F] \o (CobsEncode[l] \o rest)
        BY <3>5, <4>1, Zenon
      <4> QED BY <3>5, <4>2, Zenon
    <3>9. Received[Bytes[x] \o rest] = F \o Received[CobsEncode[l] \o rest]
      <4>1. CobsEncode[l] \o rest \in Seq(Byte)
        BY <3>5, ConcatProperties
      <4> HIDE DEF S
      <4> QED BY <3>7, <3>8, <4>1, Zenon
    <3>10. F \o (<<l>> \o Received[rest]) = (F \o <<l>>) \o Received[rest]
      <4>1. \A s, t, u \in S : (s \o t) \o u = s \o (t \o u)
        <5> DEFINE A == Seq(Byte)
        <5> HIDE DEF A
        <5>1. \A s, t, u \in Seq(A) : (s \o t) \o u = s \o (t \o u)
          BY ConcatAssociative
        <5> QED BY <5>1, Zenon DEF A
      <4>2. <<l>> \in S
        BY <3>1, Singleton
      <4> HIDE DEF S
      <4> QED BY <2>0, <3>1, <4>1, <4>2, Zenon
    <3> QED BY <3>1, <3>6, <3>9, <3>10, Zenon
  <2> QED BY <2>1, <2>2
<1>3. S \subseteq T
  <2> HIDE DEF S, T, rank
  <2> QED BY <1>1, <1>2, RankedInduction
<1>4. Back(packets)
  BY <1>3
<1>5. <<>> \in Seq(Byte) /\ Bytes[packets] \in Seq(Byte)
  BY EmptySeq, BytesUnfold
<1>6. Received[Bytes[packets] \o <<>>] = packets \o <<>>
  BY <1>4, <1>5, NothingReceived
<1>7. Bytes[packets] \o <<>> = Bytes[packets] /\ packets \o <<>> = packets
  BY <1>5, ConcatEmptySeq
<1> QED BY <1>6, <1>7, Zenon

\* What handle_status() adds for a packet, as a sequence.
Told(packet) == IF packet[1] = LlStatus THEN <<packet[EmergencyOffset] # 0>> ELSE <<>>

LEMMA ToldType == \A packet : Told(packet) \in Seq(BOOLEAN)
<1>1. <<>> \in Seq(BOOLEAN)
  BY EmptySeq
<1>2. \A b \in BOOLEAN : <<b>> \in Seq(BOOLEAN)
  BY Singleton
<1> QED BY <1>1, <1>2 DEF Told

LEMMA EmergenciesCollects ==
  Collects(Emergencies, Seq(Seq(Byte)), [x \in Seq(Seq(Byte)) |-> Told(x[Len(x)])])
<1> DEFINE S == Seq(Seq(Byte))
           piece == [x \in S |-> Told(x[Len(x)])]
           Is(g) == g = [x \in S |-> LET n == Len(x)
                                     IN  IF n = 0 THEN <<>>
                                         ELSE g[First(x, n - 1)]
                                                \o (IF x[n][1] = LlStatus
                                                      THEN <<x[n][EmergencyOffset] # 0>>
                                                      ELSE <<>>)]
<1>1. \A x \in S : Len(x) # 0 => First(x, Len(x) - 1) \in S /\ piece[x] \in Seq(BOOLEAN)
  <2> SUFFICES ASSUME NEW x \in S, Len(x) # 0
               PROVE  First(x, Len(x) - 1) \in S /\ piece[x] \in Seq(BOOLEAN)
    OBVIOUS
  <2>1. First(x, Len(x) - 1) \in S
    BY FrontAndLast
  <2>2. piece[x] = Told(x[Len(x)])
    OBVIOUS
  <2> QED BY <2>1, <2>2, ToldType
<1>2. \A g : Is(g) <=> Collects(g, S, piece)
  <2> SUFFICES ASSUME NEW g PROVE Is(g) <=> Collects(g, S, piece)
    OBVIOUS
  <2>1. [x \in S |-> IF Len(x) = 0 THEN <<>> ELSE g[First(x, Len(x) - 1)] \o piece[x]]
        = [x \in S |-> IF Len(x) = 0 THEN <<>>
                       ELSE g[First(x, Len(x) - 1)] \o Told(x[Len(x)])]
    <3>1. \A x \in S : piece[x] = Told(x[Len(x)])
      OBVIOUS
    <3> HIDE DEF piece
    <3> QED BY <3>1
  <2> QED BY <2>1, Zenon DEF Collects, Told
<1>3. \E g : Collects(g, S, piece)
  <2> DEFINE A == Seq(Byte)
  <2>1. S \subseteq Seq(A)
    OBVIOUS
  <2> HIDE DEF S, A, piece
  <2> QED BY <1>1, <2>1, Collected
<1>4. Emergencies = CHOOSE g : Is(g)
  BY Zenon DEF Emergencies
<1>5. Is(Emergencies)
  <2> HIDE DEF Is
  <2> QED BY <1>2, <1>3, <1>4
<1> QED BY <1>2, <1>5

\* The emergencies of packets, from the first to the last.
LEMMA EmergenciesUnfold ==
  ASSUME NEW packets \in Seq(Seq(Byte)), NEW packet \in Seq(Byte)
  PROVE  /\ Emergencies[packets] \in Seq(BOOLEAN)
         /\ Len(packets) = 0 => Emergencies[packets] = <<>>
         /\ Emergencies[packets \o <<packet>>] = Emergencies[packets] \o Told(packet)
<1> DEFINE S == Seq(Seq(Byte))
           A == Seq(Byte)
           piece == [x \in S |-> Told(x[Len(x)])]
           last == <<packet>>
           both == packets \o last
<1>1. Collects(Emergencies, S, piece)
  BY EmergenciesCollects
<1>2. \A x \in S : Len(x) # 0 => First(x, Len(x) - 1) \in S /\ piece[x] \in Seq(BOOLEAN)
  <2> SUFFICES ASSUME NEW x \in S, Len(x) # 0
               PROVE  First(x, Len(x) - 1) \in S /\ piece[x] \in Seq(BOOLEAN)
    OBVIOUS
  <2>1. First(x, Len(x) - 1) \in S
    BY FrontAndLast
  <2>2. piece[x] = Told(x[Len(x)])
    OBVIOUS
  <2> QED BY <2>1, <2>2, ToldType
<1>3. Emergencies[packets] \in Seq(BOOLEAN)
  <2>1. S \subseteq Seq(A) /\ packets \in S
    OBVIOUS
  <2> HIDE DEF S, A, piece
  <2> QED BY <1>1, <1>2, <2>1, Collected
<1>4. \A x \in S : Emergencies[x] = IF Len(x) = 0 THEN <<>>
                                    ELSE Emergencies[First(x, Len(x) - 1)] \o piece[x]
  <2> HIDE DEF S, piece
  <2> QED BY <1>1 DEF Collects
<1>5. last \in S /\ Len(last) = 1 /\ last[1] = packet
  BY Singleton
<1>6. /\ both \in S /\ Len(both) \in Nat \ {0} /\ First(both, Len(both) - 1) = packets
      /\ both[Len(both)] = packet
  <2> HIDE DEF last
  <2>1. both \in S /\ Len(both) = Len(packets) + Len(last)
    BY <1>5, ConcatProperties
  <2>2. Len(packets) \in Nat
    BY LenProperties
  <2>3. Len(both) = Len(packets) + 1 /\ Len(both) - 1 = Len(packets)
    BY <1>5, <2>1, <2>2
  <2>4. First(both, Len(packets)) = packets
    BY <1>5, FirstOfConcat
  <2>5. both[Len(both)] = packet
    <3> DEFINE i == Len(both)
    <3>1. i \in 1..(Len(packets) + Len(last)) /\ ~(i <= Len(packets)) /\ i - Len(packets) = 1
      BY <1>5, <2>2, <2>3
    <3> HIDE DEF i
    <3>2. both[i] = IF i <= Len(packets) THEN packets[i] ELSE last[i - Len(packets)]
      BY <1>5, <3>1, ConcatProperties
    <3> QED BY <1>5, <3>1, <3>2 DEF i
  <2> QED BY <2>1, <2>2, <2>3, <2>4, <2>5
<1>7. Emergencies[both] = Emergencies[packets] \o piece[both]
  <2> HIDE DEF S, piece, both
  <2> QED BY <1>4, <1>6
<1>8. piece[both] = Told(packet)
  <2> HIDE DEF both
  <2> QED BY <1>6
<1>9. Len(packets) = 0 => Emergencies[packets] = <<>>
  <2>1. packets \in S
    OBVIOUS
  <2> HIDE DEF S, piece
  <2> QED BY <1>4, <2>1, Zenon
<1> QED BY <1>3, <1>7, <1>8, <1>9, Zenon

\* A sequence that is followed by another one keeps its elements.
LEMMA ConcatKeeps ==
  ASSUME NEW A, NEW s \in Seq(A), NEW t \in Seq(A)
  PROVE  /\ s \o t \in Seq(A) /\ Len(s \o t) = Len(s) + Len(t)
         /\ \A i \in 1..Len(s) : (s \o t)[i] = s[i]
         /\ \A i \in 1..Len(t) : (s \o t)[Len(s) + i] = t[i]
<1>1. s \o t \in Seq(A) /\ Len(s \o t) = Len(s) + Len(t) /\ Len(s) \in Nat /\ Len(t) \in Nat
  BY ConcatProperties, LenProperties
<1>2. ASSUME NEW i \in 1..Len(s) PROVE (s \o t)[i] = s[i]
  <2>1. i \in 1..(Len(s) + Len(t)) /\ i <= Len(s)
    BY <1>1
  <2> QED BY <2>1, ConcatProperties
<1>3. ASSUME NEW i \in 1..Len(t) PROVE (s \o t)[Len(s) + i] = t[i]
  <2> DEFINE j == Len(s) + i
  <2>1. j \in 1..(Len(s) + Len(t)) /\ ~(j <= Len(s)) /\ j - Len(s) = i
    BY <1>1
  <2> HIDE DEF j
  <2>2. (s \o t)[j] = t[i]
    BY <2>1, ConcatProperties
  <2> QED BY <2>2 DEF j
<1> QED BY <1>1, <1>2, <1>3

\* A status packet is handled, and tells the emergency it was made for.
LEMMA StatusIs ==
  ASSUME NEW emergency \in BOOLEAN
  PROVE  /\ StatusPacket(emergency) \in Seq(Byte) /\ IsHandled(StatusPacket(emergency))
         /\ Told(StatusPacket(emergency)) = <<emergency>>
<1> DEFINE bits == IF emergency THEN 2 ELSE 0
           a == <<LlStatus, 6>>
           b == [i \in 1..20 |-> IF i % 4 = 0 THEN 63 ELSE 0]
           c == <<bits>>
           d == <<0, 0, 236, 65>>
           e == <<0, 0, 200, 65>>
           f == <<205, 204, 12, 191>>
           g == <<80>>
           ab == a \o b
           abc == ab \o c
           abcd == abc \o d
           abcde == abcd \o e
           abcdef == abcde \o f
           raw == abcdef \o g
<1>1. a \in Seq(Byte) /\ Len(a) = 2 /\ a[1] = LlStatus
  BY DEF LlStatus, Byte
<1>2. b \in Seq(Byte) /\ Len(b) = 20
  <2>1. \A T : \A n \in Nat : \A h \in [1..n -> T] : h \in Seq(T) /\ Len(h) = n
    OBVIOUS
  <2>2. b \in [1..20 -> Byte]
    BY DEF Byte
  <2>3. 20 \in Nat
    OBVIOUS
  <2> HIDE DEF b
  <2> QED BY <2>1, <2>2, <2>3
<1>3. c \in Seq(Byte) /\ Len(c) = 1 /\ c[1] = bits
  BY DEF Byte
<1>4. /\ d \in Seq(Byte) /\ Len(d) = 4
      /\ e \in Seq(Byte) /\ Len(e) = 4
  BY DEF Byte
<1>5. f \in Seq(Byte) /\ Len(f) = 4 /\ g \in Seq(Byte) /\ Len(g) = 1
  BY DEF Byte
<1>0. \A s, t \in Seq(Byte) : /\ s \o t \in Seq(Byte) /\ Len(s \o t) = Len(s) + Len(t)
                              /\ \A i \in 1..Len(s) : (s \o t)[i] = s[i]
  BY ConcatKeeps
<1> HIDE DEF bits, a, b, c, d, e, f, g, ab, abc, abcd, abcde, abcdef, raw
<1>6. ab \in Seq(Byte) /\ Len(ab) = 22 /\ ab[1] = LlStatus
  <2>1. ab \in Seq(Byte) /\ Len(ab) = Len(a) + Len(b) /\ \A i \in 1..Len(a) : ab[i] = a[i]
    BY <1>0, <1>1, <1>2, Zenon DEF ab
  <2> QED BY <1>1, <1>2, <2>1
<1>7. abc \in Seq(Byte) /\ Len(abc) = 23 /\ abc[1] = LlStatus /\ abc[23] = bits
  <2>1. /\ abc \in Seq(Byte) /\ Len(abc) = Len(ab) + Len(c)
        /\ \A i \in 1..Len(ab) : abc[i] = ab[i]
        /\ \A i \in 1..Len(c) : abc[Len(ab) + i] = c[i]
    <3>1. ab \in Seq(Byte) /\ c \in Seq(Byte)
      BY <1>3, <1>6
    <3>2. /\ abc \in Seq(Byte) /\ Len(abc) = Len(ab) + Len(c)
          /\ \A i \in 1..Len(ab) : abc[i] = ab[i]
      BY <1>0, <3>1, Zenon DEF abc
    <3>3. \A i \in 1..Len(c) : (ab \o c)[Len(ab) + i] = c[i]
      BY <3>1, ConcatKeeps
    <3> QED BY <3>2, <3>3 DEF abc
  <2> QED BY <1>3, <1>6, <2>1
<1>8. abcd \in Seq(Byte) /\ Len(abcd) = 27 /\ abcd[1] = LlStatus /\ abcd[23] = bits
  <2>1. abcd \in Seq(Byte) /\ Len(abcd) = Len(abc) + Len(d) /\ \A i \in 1..Len(abc) : abcd[i] = abc[i]
    BY <1>0, <1>4, <1>7, Zenon DEF abcd
  <2> QED BY <1>4, <1>7, <2>1
<1>9. abcde \in Seq(Byte) /\ Len(abcde) = 31 /\ abcde[1] = LlStatus /\ abcde[23] = bits
  <2>1. abcde \in Seq(Byte) /\ Len(abcde) = Len(abcd) + Len(e)
        /\ \A i \in 1..Len(abcd) : abcde[i] = abcd[i]
    BY <1>0, <1>4, <1>8, Zenon DEF abcde
  <2> QED BY <1>4, <1>8, <2>1
<1>10. abcdef \in Seq(Byte) /\ Len(abcdef) = 35 /\ abcdef[1] = LlStatus /\ abcdef[23] = bits
  <2>1. abcdef \in Seq(Byte) /\ Len(abcdef) = Len(abcde) + Len(f)
        /\ \A i \in 1..Len(abcde) : abcdef[i] = abcde[i]
    BY <1>0, <1>5, <1>9, Zenon DEF abcdef
  <2> QED BY <1>5, <1>9, <2>1
<1>11. raw \in Seq(Byte) /\ Len(raw) = 36 /\ raw[1] = LlStatus /\ raw[23] = bits
  <2>1. raw \in Seq(Byte) /\ Len(raw) = Len(abcdef) + Len(g)
        /\ \A i \in 1..Len(abcdef) : raw[i] = abcdef[i]
    BY <1>0, <1>5, <1>10, Zenon DEF raw
  <2> QED BY <1>5, <1>10, <2>1
<1> DEFINE packet == StatusPacket(emergency)
<1>12. packet = Sealed(raw)
  BY Zenon DEF StatusPacket, bits, a, b, c, d, e, f, g, ab, abc, abcd, abcde, abcdef, raw
<1> HIDE DEF packet
<1>13. /\ packet \in Seq(Byte) /\ Len(packet) = Len(raw) + 2
       /\ \A i \in 1..Len(raw) : packet[i] = raw[i]
       /\ HasValidCrc(packet)
  <2>1. Len(raw) >= 1
    BY <1>11
  <2> QED BY <1>11, <1>12, <2>1, SealedIs
<1>14. Len(packet) = 38 /\ packet[1] = LlStatus /\ packet[23] = bits
  BY <1>11, <1>13
<1>15. IsHandled(packet)
  BY <1>13, <1>14 DEF IsHandled, PacketSizes
<1>16. Told(packet) = <<emergency>>
  <2>1. (bits # 0) = emergency
    BY DEF bits
  <2> QED BY <1>14, <2>1 DEF Told, EmergencyOffset
<1> QED BY <1>13, <1>15, <1>16 DEF packet

\* A button event is handled, and tells nothing of emergencies.
LEMMA UiEventIs ==
  ASSUME NEW button_id \in Byte, NEW press_duration \in Byte
  PROVE  /\ UiEventPacket(button_id, press_duration) \in Seq(Byte)
         /\ IsHandled(UiEventPacket(button_id, press_duration))
         /\ Told(UiEventPacket(button_id, press_duration)) = <<>>
<1> DEFINE raw == <<LlUiEvent, button_id, press_duration>>
           packet == UiEventPacket(button_id, press_duration)
<1>1. LlUiEvent \in Byte
  BY DEF LlUiEvent, Byte
<1>2. raw \in Seq(Byte) /\ Len(raw) = 3 /\ raw[1] = LlUiEvent
  BY <1>1
<1>3. packet = Sealed(raw)
  BY DEF UiEventPacket
<1> HIDE DEF raw, packet
<1>4. /\ packet \in Seq(Byte) /\ Len(packet) = Len(raw) + 2
      /\ \A i \in 1..Len(raw) : packet[i] = raw[i]
      /\ HasValidCrc(packet)
  <2>1. Len(raw) >= 1
    BY <1>2
  <2> QED BY <1>2, <1>3, <2>1, SealedIs
<1>5. Len(packet) = 5 /\ packet[1] = LlUiEvent
  BY <1>2, <1>4
<1>6. IsHandled(packet)
  BY <1>4, <1>5 DEF IsHandled, PacketSizes
<1>7. Told(packet) = <<>>
  BY <1>5 DEF Told, LlUiEvent, LlStatus
<1> QED BY <1>4, <1>6, <1>7 DEF packet

LEMMA HeartbeatType == ASSUME NEW beat PROVE HeartbeatPacket(beat) \in Seq(Byte)
<1> DEFINE x == IF beat.request THEN 1 ELSE 0
           y == IF beat.release THEN 1 ELSE 0
           raw == <<LlHeartbeat, x, y>>
<1>1. LlHeartbeat \in Byte /\ x \in Byte /\ y \in Byte
  BY DEF LlHeartbeat, Byte
<1>2. HeartbeatPacket(beat) = Sealed(raw)
  BY DEF HeartbeatPacket
<1> HIDE DEF x, y
<1>3. raw \in Seq(Byte) /\ Len(raw) = 3 /\ Len(raw) >= 1
  BY <1>1
<1> HIDE DEF raw
<1> QED BY <1>2, <1>3, SealedIs

LEMMA ModByte == \A n \in Nat : n % 256 \in Byte
<1>1. \A n \in Nat : n % 256 \in Nat /\ n % 256 <= 255
  OBVIOUS
<1>2. \A b \in Nat : b <= 255 => b \in Byte
  BY DEF Byte
<1> QED BY <1>1, <1>2, Zenon

LEMMA ZeroByte == 0 \in Byte
  BY DEF Byte

LEMMA TwoSingletons == ASSUME NEW A, NEW u \in A, NEW s \in A PROVE <<u>> \o <<s>> = <<u, s>>
<1> DEFINE a == <<u>>
           b == <<s>>
           two == <<u, s>>
           ab == a \o b
<1>1. /\ a \in Seq(A) /\ Len(a) = 1 /\ a[1] = u
      /\ b \in Seq(A) /\ Len(b) = 1 /\ b[1] = s
      /\ two \in Seq(A) /\ Len(two) = 2 /\ two[1] = u /\ two[2] = s
  OBVIOUS
<1> HIDE DEF a, b, two
<1>2. /\ ab \in Seq(A) /\ Len(ab) = Len(a) + Len(b)
      /\ \A i \in 1..Len(a) : ab[i] = a[i]
      /\ \A i \in 1..Len(b) : ab[Len(a) + i] = b[i]
  <2>1. a \in Seq(A) /\ b \in Seq(A)
    BY <1>1
  <2>2. /\ a \o b \in Seq(A) /\ Len(a \o b) = Len(a) + Len(b)
        /\ \A i \in 1..Len(a) : (a \o b)[i] = a[i]
    BY <2>1, ConcatKeeps
  <2>3. \A i \in 1..Len(b) : (a \o b)[Len(a) + i] = b[i]
    BY <2>1, ConcatKeeps
  <2> QED BY <2>2, <2>3
<1> HIDE DEF ab
<1>3. Len(ab) = 2 /\ ab[1] = u /\ ab[2] = s
  BY <1>1, <1>2
<1>4. \A i \in 1..2 : ab[i] = two[i]
  <2>1. \A i \in 1..2 : i = 1 \/ i = 2
    OBVIOUS
  <2> QED BY <1>1, <1>3, <2>1
<1>5. ab = two
  BY <1>1, <1>2, <1>3, <1>4, SeqEqual
<1> QED BY <1>5 DEF ab, a, b, two

\* The packets behind one report.
Sent(reports) == <<UiEventPacket(Len(reports) % 256, 0), StatusPacket(reports[Len(reports)])>>

LEMMA ReportsIs ==
  \A x : x \in Reports <=> x \in Seq(BOOLEAN) /\ Len(x) <= MaxInFlight
<1>1. ASSUME NEW x \in Reports PROVE x \in Seq(BOOLEAN) /\ Len(x) <= MaxInFlight
  <2>1. PICK n \in 0..MaxInFlight : x \in [1..n -> BOOLEAN]
    BY DEF Reports
  <2>2. n \in Nat
    OBVIOUS
  <2> QED BY <2>1, <2>2
<1>2. ASSUME NEW x \in Seq(BOOLEAN), Len(x) <= MaxInFlight PROVE x \in Reports
  <2>1. Len(x) \in 0..MaxInFlight /\ x \in [1..Len(x) -> BOOLEAN]
    BY <1>2, MainboardBridgeAssumption
  <2> QED BY <2>1 DEF Reports
<1> QED BY <1>1, <1>2

LEMMA SentType ==
  ASSUME NEW x \in Reports, Len(x) # 0
  PROVE  First(x, Len(x) - 1) \in Reports /\ Sent(x) \in Seq(Seq(Byte))
<1>1. x \in Seq(BOOLEAN) /\ Len(x) <= MaxInFlight
  BY ReportsIs
<1>2. /\ Len(x) \in Nat \ {0} /\ First(x, Len(x) - 1) \in Seq(BOOLEAN)
      /\ Len(First(x, Len(x) - 1)) = Len(x) - 1 /\ x[Len(x)] \in BOOLEAN
  BY <1>1, FrontAndLast
<1>3. First(x, Len(x) - 1) \in Reports
  <2> DEFINE F == First(x, Len(x) - 1)
  <2>1. F \in Seq(BOOLEAN) /\ Len(F) <= MaxInFlight
    BY <1>1, <1>2, MainboardBridgeAssumption
  <2> HIDE DEF F
  <2>2. F \in Reports
    BY <2>1, ReportsIs
  <2> QED BY <2>2 DEF F
<1>4. Sent(x) \in Seq(Seq(Byte))
  <2> DEFINE u == UiEventPacket(Len(x) % 256, 0)
             s == StatusPacket(x[Len(x)])
  <2>1. Len(x) % 256 \in Byte /\ 0 \in Byte
    BY <1>2, ModByte, ZeroByte
  <2>2. u \in Seq(Byte)
    BY <2>1, UiEventIs
  <2>3. s \in Seq(Byte)
    BY <1>2, StatusIs
  <2> HIDE DEF u, s
  <2>4. <<u, s>> \in Seq(Seq(Byte))
    BY <2>2, <2>3
  <2> QED BY <2>4 DEF u, s, Sent
<1> QED BY <1>3, <1>4

LEMMA UpstreamCollects == Collects(Upstream, Reports, [x \in Reports |-> Sent(x)])
<1> DEFINE S == Reports
           piece == [x \in S |-> Sent(x)]
           Is(g) == g = [x \in S |-> LET n == Len(x)
                                     IN  IF n = 0 THEN <<>>
                                         ELSE g[First(x, n - 1)]
                                                \o <<UiEventPacket(n % 256, 0), StatusPacket(x[n])>>]
<1>1. \A x \in S : Len(x) # 0 => First(x, Len(x) - 1) \in S /\ piece[x] \in Seq(Seq(Byte))
  <2> SUFFICES ASSUME NEW x \in S, Len(x) # 0
               PROVE  First(x, Len(x) - 1) \in S /\ piece[x] \in Seq(Seq(Byte))
    OBVIOUS
  <2>1. piece[x] = Sent(x)
    OBVIOUS
  <2> QED BY <2>1, SentType
<1>2. \A g : Is(g) <=> Collects(g, S, piece)
  <2> SUFFICES ASSUME NEW g PROVE Is(g) <=> Collects(g, S, piece)
    OBVIOUS
  <2>1. [x \in S |-> IF Len(x) = 0 THEN <<>> ELSE g[First(x, Len(x) - 1)] \o piece[x]]
        = [x \in S |-> IF Len(x) = 0 THEN <<>>
                       ELSE g[First(x, Len(x) - 1)] \o Sent(x)]
    <3>1. \A x \in S : piece[x] = Sent(x)
      OBVIOUS
    <3> HIDE DEF piece
    <3> QED BY <3>1
  <2> QED BY <2>1, Zenon DEF Collects, Sent
<1>3. \E g : Collects(g, S, piece)
  <2>1. S \subseteq Seq(BOOLEAN)
    BY ReportsIs
  <2> DEFINE E == Seq(Byte)
  <2> HIDE DEF S, E, piece
  <2> QED BY <1>1, <2>1, Collected DEF E
<1>4. Upstream = CHOOSE g : Is(g)
  BY Zenon DEF Upstream
<1>5. Is(Upstream)
  <2> HIDE DEF Is
  <2> QED BY <1>2, <1>3, <1>4
<1> QED BY <1>2, <1>5

LEMMA UpstreamUnfold ==
  ASSUME NEW x \in Reports
  PROVE  /\ Upstream[x] \in Seq(Seq(Byte))
         /\ Len(x) = 0 => Upstream[x] = <<>>
         /\ Len(x) # 0 => Upstream[x] = Upstream[First(x, Len(x) - 1)] \o Sent(x)
<1> DEFINE S == Reports
           A == BOOLEAN
           E == Seq(Byte)
           piece == [y \in S |-> Sent(y)]
<1>1. Collects(Upstream, S, piece)
  BY UpstreamCollects
<1>2. \A y \in S : Len(y) # 0 => First(y, Len(y) - 1) \in S /\ piece[y] \in Seq(E)
  <2> SUFFICES ASSUME NEW y \in S, Len(y) # 0
               PROVE  First(y, Len(y) - 1) \in S /\ piece[y] \in Seq(E)
    OBVIOUS
  <2>1. piece[y] = Sent(y)
    OBVIOUS
  <2> QED BY <2>1, SentType
<1>3. Upstream[x] \in Seq(E)
  <2>1. S \subseteq Seq(A) /\ x \in S
    BY ReportsIs
  <2> HIDE DEF S, A, E, piece
  <2> QED BY <1>1, <1>2, <2>1, Collected
<1>4. Upstream[x] = IF Len(x) = 0 THEN <<>> ELSE Upstream[First(x, Len(x) - 1)] \o piece[x]
  <2>1. x \in S
    OBVIOUS
  <2> HIDE DEF S, piece
  <2>2. \A y \in S : Upstream[y] = IF Len(y) = 0 THEN <<>>
                                   ELSE Upstream[First(y, Len(y) - 1)] \o piece[y]
    BY <1>1 DEF Collects
  <2> QED BY <2>1, <2>2, Zenon
<1>5. piece[x] = Sent(x)
  OBVIOUS
<1> QED BY <1>3, <1>4, <1>5, Zenon

\* The packets behind the reports are all handled, and tell these reports.
LEMMA UpstreamTells ==
  ASSUME NEW reports \in Reports
  PROVE  /\ \A i \in 1..Len(Upstream[reports]) : IsHandled(Upstream[reports][i])
         /\ Emergencies[Upstream[reports]] = reports
<1> DEFINE S == Reports
           rank == [x \in S |-> Len(x)]
           T == {x \in S : /\ \A i \in 1..Len(Upstream[x]) : IsHandled(Upstream[x][i])
                           /\ Emergencies[Upstream[x]] = x}
<1>1. rank \in [S -> Nat]
  <2>1. \A x \in S : Len(x) \in Nat
    BY ReportsIs, LenProperties
  <2> QED BY <2>1
<1>2. ASSUME NEW x \in S, \A y \in S : rank[y] < rank[x] => y \in T PROVE x \in T
  <2>1. x \in Seq(BOOLEAN)
    BY ReportsIs
  <2>2. CASE Len(x) = 0
    <3>1. Upstream[x] = <<>> /\ x = <<>>
      BY <2>1, <2>2, UpstreamUnfold, EmptySeq
    <3>2. <<>> \in Seq(Seq(Byte)) /\ <<>> \in Seq(Byte) /\ Len(<<>>) = 0
      BY EmptySeq
    <3>3. Emergencies[<<>>] = <<>>
      BY <3>2, EmergenciesUnfold
    <3>4. \A i \in 1..0 : FALSE
      OBVIOUS
    <3> QED BY <3>1, <3>2, <3>3, <3>4
  <2>3. CASE Len(x) # 0
    <3> DEFINE F == First(x, Len(x) - 1)
               e == x[Len(x)]
               u == UiEventPacket(Len(x) % 256, 0)
               s == StatusPacket(e)
               q == Upstream[F]
               qu == q \o <<u>>
    <3>1. /\ Len(x) \in Nat \ {0} /\ F \in Seq(BOOLEAN) /\ Len(F) = Len(x) - 1 /\ e \in BOOLEAN
          /\ F \o <<e>> = x
      BY <2>1, <2>3, FrontAndLast
    <3>2. F \in S
      BY <2>3, SentType
    <3>3. q \in Seq(Seq(Byte))
      BY <3>2, UpstreamUnfold
    <3>4. u \in Seq(Byte) /\ IsHandled(u) /\ Told(u) = <<>>
      <4>1. Len(x) % 256 \in Byte /\ 0 \in Byte
        BY <3>1, ModByte, ZeroByte
      <4> QED BY <4>1, UiEventIs
    <3>5. s \in Seq(Byte) /\ IsHandled(s) /\ Told(s) = <<e>>
      BY <3>1, StatusIs
    <3>6. Upstream[x] = q \o <<u, s>>
      BY <2>3, UpstreamUnfold, Zenon DEF Sent
    <3>7. F \in T
      <4>1. rank[F] < rank[x]
        BY <3>1, <3>2
      <4> QED BY <1>2, <3>2, <4>1
    <3>8. (\A i \in 1..Len(q) : IsHandled(q[i])) /\ Emergencies[q] = F
      BY <3>7
    <3> HIDE DEF F, e, u, s, q
    <3>9. qu \in Seq(Seq(Byte)) /\ Upstream[x] = qu \o <<s>>
      <4>1. <<u>> \in Seq(Seq(Byte)) /\ <<s>> \in Seq(Seq(Byte))
        BY <3>4, <3>5, Singleton
      <4>2. <<u>> \o <<s>> = <<u, s>>
        BY <3>4, <3>5, TwoSingletons
      <4>3. \A a, b, c \in Seq(Seq(Byte)) : (a \o b) \o c = a \o (b \o c)
        BY ConcatAssociative
      <4>4. qu \o <<s>> = q \o (<<u>> \o <<s>>)
        BY <3>3, <4>1, <4>3, Zenon
      <4>5. qu \in Seq(Seq(Byte))
        BY <3>3, <4>1, ConcatProperties
      <4> QED BY <3>6, <4>2, <4>4, <4>5, Zenon
    <3>10. Emergencies[qu] = F
      <4>1. Emergencies[qu] = Emergencies[q] \o <<>>
        BY <3>3, <3>4, EmergenciesUnfold
      <4>2. F \o <<>> = F
        BY <3>1, ConcatEmptySeq
      <4> QED BY <3>8, <4>1, <4>2
    <3>11. Emergencies[Upstream[x]] = x
      <4>1. Emergencies[qu \o <<s>>] = Emergencies[qu] \o Told(s)
        <5> HIDE DEF qu
        <5> QED BY <3>5, <3>9, EmergenciesUnfold
      <4> QED BY <3>1, <3>5, <3>9, <3>10, <4>1, Zenon
    <3>12. \A i \in 1..Len(Upstream[x]) : IsHandled(Upstream[x][i])
      <4> DEFINE us == <<u, s>>
                 both == q \o us
      <4>1. us \in Seq(Seq(Byte)) /\ Len(us) = 2 /\ us[1] = u /\ us[2] = s
        BY <3>4, <3>5
      <4> HIDE DEF us
      <4>2. /\ Len(both) = Len(q) + Len(us)
            /\ \A i \in 1..(Len(q) + Len(us)) :
                 both[i] = IF i <= Len(q) THEN q[i] ELSE us[i - Len(q)]
        BY <3>3, <4>1, ConcatProperties
      <4>3. Len(q) \in Nat
        BY <3>3, LenProperties
      <4> HIDE DEF both
      <4>4. ASSUME NEW i \in 1..Len(both) PROVE IsHandled(both[i])
        <5>1. CASE i <= Len(q)
          <6>1. i \in 1..Len(q) /\ both[i] = q[i]
            BY <4>1, <4>2, <4>3, <5>1
          <6> QED BY <3>8, <6>1
        <5>2. CASE ~(i <= Len(q))
          <6>1. i - Len(q) \in 1..2 /\ both[i] = us[i - Len(q)]
            BY <4>1, <4>2, <4>3, <5>2
          <6>2. us[i - Len(q)] \in {u, s}
            BY <4>1, <6>1
          <6> QED BY <3>4, <3>5, <6>1, <6>2
        <5> QED BY <5>1, <5>2
      <4> QED BY <3>6, <4>4 DEF both, us
    <3> QED BY <3>11, <3>12
  <2> QED BY <2>2, <2>3
<1>3. S \subseteq T
  <2> HIDE DEF S, T, rank
  <2> QED BY <1>1, <1>2, RankedInduction
<1> QED BY <1>3

\* Frames come back whatever state the handshake is in.
LEMMA LineCarries == TypeOK => FramesComeBack
<1>1. SamplesReturn
  BY AnyBytesReturn, SamplesAssumption DEF SamplesReturn
<1>2. HeartbeatsReturn
  BY AnyBytesReturn, HeartbeatType DEF HeartbeatsReturn
<1>3. ReportsReturn
  BY UpstreamUnfold, UpstreamTells, PacketsReturn DEF ReportsReturn
<1>4. TypeOK => up \in Reports
  BY ReportsIs DEF TypeOK
<1> QED BY <1>1, <1>2, <1>3, <1>4 DEF FramesComeBack

\* The packets on the line, any number of them, come back from the bytes they are written as,
\* and so does whatever else is encoded: MainboardBridge may treat packets as units.
THEOREM FramesAlwaysComeBack == Spec => []FramesComeBack
<1>1. Spec => []TypeOK
  BY TypeCorrect
<1>2. TypeOK => FramesComeBack
  BY LineCarries
<1> QED BY <1>1, <1>2, PTL
=============================================================================
