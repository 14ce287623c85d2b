---------------------------- MODULE MapGridProofs ---------------------------
(***************************************************************************)
(* Proofs about the occupancy grid and its blur, for maps, grids and       *)
(* kernels of any size.                                                    *)
(***************************************************************************)
EXTENDS MapGrid, MapServerProofs, SetInduction

-----------------------------------------------------------------------------
(* Sums.                                                                    *)

Picked(T) == CHOOSE t \in T : TRUE

LEMMA PickedIn == \A T : T # {} => Picked(T) \in T
  BY DEF Picked

\* F has the sum of f over every part of D.
AddsUp(F, D, f) ==
  /\ F[{}] = 0
  /\ \A T \in SUBSET D : T # {} => F[T] = f[Picked(T)] + F[T \ {Picked(T)}]

\* The sum of a function is what adding up its values, one at a time, comes to.
LEMMA SumUnfold ==
  ASSUME NEW D, IsFiniteSet(D), NEW f \in [D -> Int]
  PROVE  \E Sum : SumOver(f) = Sum[D] /\ AddsUp(Sum, D, f)
<1> DEFINE Value(T, g) == IF T = {} THEN 0 ELSE f[Picked(T)] + g[T \ {Picked(T)}]
           Is(g) == g = [T \in SUBSET D |-> Value(T, g)]
           step == [p \in (SUBSET D) \X [SUBSET D -> Int] |-> Value(p[1], p[2])]
           rank == [T \in SUBSET D |-> Cardinality(T)]
<1>1. \A T \in SUBSET D : /\ Cardinality(T) \in 0..Cardinality(D)
                          /\ \A x \in T : Cardinality(T \ {x}) < Cardinality(T)
  BY FS_Subset, FS_CardinalityType, FS_RemoveElement
<1>2. rank \in [SUBSET D -> Nat]
  BY <1>1, FS_CardinalityType
<1>3. \A T \in SUBSET D, g \in [SUBSET D -> Int] : Value(T, g) \in Int
  BY PickedIn
<1>4. step \in [(SUBSET D) \X [SUBSET D -> Int] -> Int]
  <2> HIDE DEF Value
  <2> QED BY <1>3
<1>5. ASSUME NEW T \in SUBSET D, NEW g \in [SUBSET D -> Int], NEW h \in [SUBSET D -> Int],
             \A U \in SUBSET D : rank[U] < rank[T] => g[U] = h[U]
      PROVE  step[<<T, g>>] = step[<<T, h>>]
  <2>1. step[<<T, g>>] = Value(T, g) /\ step[<<T, h>>] = Value(T, h)
    OBVIOUS
  <2>2. CASE T = {}
    BY <2>1, <2>2
  <2>3. CASE T # {}
    <3> DEFINE U == T \ {Picked(T)}
    <3>1. U \in SUBSET D /\ rank[U] < rank[T]
      BY <1>1, <2>3, PickedIn
    <3>2. g[U] = h[U]
      BY <1>5, <3>1
    <3> QED BY <2>1, <2>3, <3>2
  <2> QED BY <2>2, <2>3
<1>6. \E g : Is(g)
  <2> DEFINE S == SUBSET D
  <2>1. PICK g \in [S -> Int] : \A T \in S : g[T] = step[<<T, g>>]
    <3> HIDE DEF step, rank
    <3>1. Int # {}
      BY 0 \in Int
    <3>2. \A T \in S : \A g, h \in [S -> Int] :
            (\A U \in S : rank[U] < rank[T] => g[U] = h[U]) => step[<<T, g>>] = step[<<T, h>>]
      BY <1>5
    <3>3. rank \in [S -> Nat] /\ step \in [S \X [S -> Int] -> Int]
      BY <1>2, <1>4
    <3> HIDE DEF S
    <3>4. IsRecursion(S, Int, rank, step)
      BY <3>1, <3>2, <3>3, Zenon DEF IsRecursion
    <3> QED BY <3>4, RankedRecursion
  <2>2. \A T \in SUBSET D : g[T] = Value(T, g)
    BY <2>1
  <2>3. Is(g)
    <3> HIDE DEF Value, step
    <3> QED BY <2>2
  <2> QED BY <2>3
<1> DEFINE Sum == CHOOSE g : Is(g)
<1>7. Is(Sum)
  <2> HIDE DEF Is
  <2> QED BY <1>6
<1>8. SumOver(f) = Sum[D]
  BY Zenon DEF SumOver, Picked
<1> HIDE DEF Sum
<1>9. AddsUp(Sum, D, f)
  BY <1>7 DEF AddsUp
<1> QED BY <1>8, <1>9

\* A sum of bounded values lies between the bounds times the sum of their weights.
LEMMA SumBounds ==
  ASSUME NEW D, IsFiniteSet(D), NEW f \in [D -> Int], NEW w \in [D -> Nat \ {0}],
         NEW lo \in Int, NEW hi \in Int,
         \A x \in D : lo * w[x] <= f[x] /\ f[x] <= hi * w[x]
  PROVE  /\ SumOver(f) \in Int /\ SumOver(w) \in Nat
         /\ D # {} => SumOver(w) > 0
         /\ lo * SumOver(w) <= SumOver(f) /\ SumOver(f) <= hi * SumOver(w)
<1>0. w \in [D -> Int]
  OBVIOUS
<1>1. PICK F : SumOver(f) = F[D] /\ AddsUp(F, D, f)
  BY SumUnfold
<1>2. PICK W : SumOver(w) = W[D] /\ AddsUp(W, D, w)
  BY <1>0, SumUnfold
<1> DEFINE Bounded(T) == /\ F[T] \in Int /\ W[T] \in Nat /\ (T # {} => W[T] > 0)
                         /\ lo * W[T] <= F[T] /\ F[T] <= hi * W[T]
           Sizes == {n \in Nat : \A T \in SUBSET D : Cardinality(T) = n => Bounded(T)}
<1>3. \A T \in SUBSET D : IsFiniteSet(T)
  BY FS_Subset
<1>4. 0 \in Sizes
  <2>1. \A T \in SUBSET D : Cardinality(T) = 0 => T = {}
    BY <1>3, FS_EmptySet
  <2>2. Bounded({})
    BY <1>1, <1>2 DEF AddsUp
  <2> HIDE DEF Bounded
  <2> QED BY <2>1, <2>2
<1>5. ASSUME NEW n \in Nat, n \in Sizes PROVE n + 1 \in Sizes
  <2> SUFFICES ASSUME NEW T \in SUBSET D, Cardinality(T) = n + 1 PROVE Bounded(T)
    OBVIOUS
  <2> DEFINE t == Picked(T)
             U == T \ {t}
  <2>1. T # {}
    <3>1. n + 1 # 0
      OBVIOUS
    <3> QED BY <3>1, FS_EmptySet
  <2>2. t \in T /\ U \in SUBSET D
    BY <2>1, PickedIn
  <2>3. Cardinality(U) = n
    <3>1. Cardinality(U) = Cardinality(T) - 1
      BY <1>3, <2>2, FS_RemoveElement
    <3> QED BY <3>1
  <2>4. Bounded(U)
    BY <1>5, <2>2, <2>3
  <2>5. F[T] = f[t] + F[U] /\ W[T] = w[t] + W[U]
    BY <1>1, <1>2, <2>1 DEF AddsUp
  <2>6. f[t] \in Int /\ w[t] \in Nat \ {0} /\ lo * w[t] <= f[t] /\ f[t] <= hi * w[t]
    BY <2>2
  <2> HIDE DEF t, U
  <2>7. F[T] \in Int /\ W[T] \in Nat /\ W[T] > 0
    BY <2>4, <2>5, <2>6
  <2>8. lo * W[T] = lo * w[t] + lo * W[U] /\ hi * W[T] = hi * w[t] + hi * W[U]
    BY <2>4, <2>5, <2>6
  <2>9. lo * W[T] <= F[T] /\ F[T] <= hi * W[T]
    <3>1. \A a, b, c, d \in Int : a <= b /\ c <= d => a + c <= b + d
      OBVIOUS
    <3>2. lo * w[t] \in Int /\ lo * W[U] \in Int /\ hi * w[t] \in Int /\ hi * W[U] \in Int
      BY <2>4, <2>6
    <3>3. lo * W[U] <= F[U] /\ F[U] <= hi * W[U] /\ F[U] \in Int
      BY <2>4
    <3> HIDE DEF Bounded
    <3> QED BY <2>5, <2>6, <2>8, <3>1, <3>2, <3>3
  <2> QED BY <2>7, <2>9
<1>6. Bounded(D)
  <2>1. Nat \subseteq Sizes
    <3> HIDE DEF Sizes
    <3> QED BY <1>4, <1>5, SetOfNatInduction
  <2>2. Cardinality(D) \in Nat
    BY FS_CardinalityType
  <2> HIDE DEF Bounded
  <2> QED BY <2>1, <2>2
<1> QED BY <1>1, <1>2, <1>6

-----------------------------------------------------------------------------
(* The blur.                                                                *)

\* Rounding a mean does not carry it beyond the bounds of what it is a mean of.
LEMMA RoundedBetween ==
  ASSUME NEW total \in Int, NEW weight \in Nat, weight > 0, NEW lo \in Int, NEW hi \in Int,
         lo * weight <= total, total <= hi * weight
  PROVE  (2 * total + weight) \div (2 * weight) \in lo..hi
<1> DEFINE q == (2 * total + weight) \div (2 * weight)
<1>1. q \in Int /\ q * (2 * weight) <= 2 * total + weight /\ 2 * total + weight < (q + 1) * (2 * weight)
  <2>1. \A a \in Int, b \in Nat \ {0} : a \div b \in Int /\ (a \div b) * b <= a /\ a < (a \div b + 1) * b
    OBVIOUS
  <2>2. 2 * total + weight \in Int /\ 2 * weight \in Nat \ {0}
    OBVIOUS
  <2> HIDE DEF q
  <2>3. q = (2 * total + weight) \div (2 * weight)
    BY DEF q
  <2> QED BY <2>1, <2>2, <2>3
<1> HIDE DEF q
<1>2. ASSUME q + 1 <= lo PROVE FALSE
  <2>1. (q + 1) * weight <= lo * weight
    BY <1>1, <1>2
  <2> QED BY <1>1, <2>1
<1>3. ASSUME hi + 1 <= q PROVE FALSE
  <2>1. (hi + 1) * weight <= q * weight
    BY <1>1, <1>3
  <2> QED BY <1>1, <2>1
<1>4. q \in lo..hi
  BY <1>1, <1>2, <1>3
<1> QED BY <1>4 DEF q

LEMMA KernelShape == Half \in Nat /\ Len(Kernel) = (2 * Half + 1) * (2 * Half + 1)
<1>1. Half \in 0..Len(Kernel) /\ (2 * Half + 1) * (2 * Half + 1) = Len(Kernel)
  BY GridAssumption DEF Half
<1>2. Len(Kernel) \in Nat
  BY GridAssumption, LenProperties
<1> QED BY <1>1, <1>2

\* A grid as the blur may find it.
Blurrable(grid) ==
  /\ DOMAIN grid \subseteq Nat \X Nat /\ IsFiniteSet(DOMAIN grid)
  /\ grid \in [DOMAIN grid -> {Unknown} \union Free..Occupied]

\* Every cell under the kernel has a weight.
LEMMA WeightType ==
  ASSUME NEW grid, Blurrable(grid), NEW cell \in DOMAIN grid, NEW other \in Window(grid, cell)
  PROVE  Weight(cell, other) \in Nat \ {0}
<1> DEFINE x == other[1] - cell[1] + Half
           y == other[2] - cell[2] + Half
           side == 2 * Half + 1
<1>1. Half \in Nat /\ Len(Kernel) = side * side
  BY KernelShape
<1>2. x \in 0..(2 * Half) /\ y \in 0..(2 * Half)
  <2>1. cell[1] \in Nat /\ cell[2] \in Nat /\ other[1] \in Nat /\ other[2] \in Nat
    BY DEF Blurrable, Window
  <2>2. other[1] - cell[1] \in (-Half)..Half /\ other[2] - cell[2] \in (-Half)..Half
    BY DEF Window
  <2> QED BY <1>1, <2>1, <2>2
<1>3. side \in Nat /\ side = 2 * Half + 1
  BY <1>1
<1> HIDE DEF x, y, side
<1>4. y * side \in Nat /\ y * side <= (side - 1) * side
  BY <1>1, <1>2, <1>3
<1>5. (side - 1) * side + side = side * side
  BY <1>3
<1>6. y * side + x + 1 \in 1..Len(Kernel)
  BY <1>1, <1>2, <1>3, <1>4, <1>5
<1>7. Kernel[y * side + x + 1] \in Nat \ {0}
  BY <1>6, GridAssumption, ElementOfSeq
<1> QED BY <1>7 DEF Weight, x, y, side

\* What a mean is taken of, and that it stays between the least and the greatest of it.
LEMMA MeanBetween ==
  ASSUME NEW grid, Blurrable(grid), NEW cell \in DOMAIN grid
  PROVE  LET seen == {Pixel(grid[other]) : other \in Window(grid, cell)}
         IN  Mean(grid, cell) \in Least(seen)..Greatest(seen)
<1> DEFINE D == Window(grid, cell)
           seen == {Pixel(grid[other]) : other \in D}
           w == [o \in D |-> Weight(cell, o)]
           f == [o \in D |-> Pixel(grid[o]) * Weight(cell, o)]
           lo == Least(seen)
           hi == Greatest(seen)
<1>1. IsFiniteSet(D) /\ D \subseteq DOMAIN grid
  <2>1. D \in SUBSET DOMAIN grid
    BY DEF Window
  <2> QED BY <2>1, FS_Subset DEF Blurrable
<1>2. cell \in D
  <2>1. \A axis \in 1..2 : cell[axis] \in Nat
    BY DEF Blurrable
  <2>2. \A axis \in 1..2 : cell[axis] - cell[axis] \in (-Half)..Half
    BY <2>1, KernelShape
  <2> QED BY <2>2 DEF Window
<1>3. \A o \in D : Pixel(grid[o]) \in 0..Occupied
  BY <1>1 DEF Blurrable, Pixel, Unknown, Free, Occupied
<1>4. seen # {} /\ seen \subseteq 0..Occupied /\ Occupied \in Nat
  BY <1>2, <1>3 DEF Occupied
<1>5. lo \in seen /\ \A v \in seen : lo <= v
  <2>1. seen \subseteq Nat
    BY <1>4
  <2> HIDE DEF seen
  <2> QED BY <1>4, <2>1, LeastExists DEF Least
<1>6. hi \in seen /\ \A v \in seen : hi >= v
  <2> HIDE DEF seen
  <2> QED BY <1>4, GreatestExists DEF Greatest
<1>7. w \in [D -> Nat \ {0}]
  BY WeightType
<1>8. \A o \in D : Weight(cell, o) \in Nat \ {0} /\ Pixel(grid[o]) \in seen /\ Pixel(grid[o]) \in Nat
  BY <1>3, WeightType
<1>9. lo \in Nat /\ hi \in Nat
  BY <1>4, <1>5, <1>6
<1> HIDE DEF D, lo, hi, seen
<1>10. f \in [D -> Int]
  BY <1>8
<1>11. ASSUME NEW o \in D PROVE lo * w[o] <= f[o] /\ f[o] <= hi * w[o]
  <2>1. lo <= Pixel(grid[o]) /\ Pixel(grid[o]) <= hi
    BY <1>5, <1>6, <1>8, <1>9
  <2>2. \A a, b \in Nat, c \in Nat \ {0} : a <= b => a * c <= b * c
    OBVIOUS
  <2> QED BY <1>8, <1>9, <2>1, <2>2
<1> DEFINE total == SumOver(f)
           weight == SumOver(w)
<1> HIDE DEF f, w
<1>12. /\ total \in Int /\ weight \in Nat /\ weight > 0
       /\ lo * weight <= total /\ total <= hi * weight
  <2>1. lo \in Int /\ hi \in Int /\ D # {} /\ IsFiniteSet(D)
    BY <1>1, <1>2, <1>9
  <2>2. \A o \in D : lo * w[o] <= f[o] /\ f[o] <= hi * w[o]
    BY <1>11
  <2>3. /\ SumOver(f) \in Int /\ SumOver(w) \in Nat
        /\ D # {} => SumOver(w) > 0
        /\ lo * SumOver(w) <= SumOver(f) /\ SumOver(f) <= hi * SumOver(w)
    BY <1>7, <1>10, <2>1, <2>2, SumBounds, Zenon
  <2> QED BY <2>1, <2>3 DEF total, weight
<1>13. Mean(grid, cell) = (2 * total + weight) \div (2 * weight)
  BY DEF Mean, total, weight, f, w, D
<1> HIDE DEF total, weight
<1>14. Mean(grid, cell) \in lo..hi
  BY <1>9, <1>12, <1>13, RoundedBetween
<1> QED BY <1>14 DEF lo, hi, seen, D

\* Blurring keeps what is unknown and moves no other cell beyond its neighbourhood, whatever
\* the kernel and the grid (SomeGaussianFilter::apply).
THEOREM BlurCorrect ==
  ASSUME NEW grid, Blurrable(grid)
  PROVE  BlurIsRight(grid)
<1>1. \A cell \in DOMAIN grid :
        Blur(grid)[cell] = IF grid[cell] = Unknown THEN Unknown ELSE Mean(grid, cell)
  BY DEF Blur
<1> QED BY <1>1, MeanBetween DEF BlurIsRight

\* A server that blurs does so for every grid it may be given.
THEOREM BlurBetween == Spec => []BlurStaysBetween
<1>1. AllBlursRight
  <2>1. \A grid \in SampleGrids : Blurrable(grid)
    BY MapGridAssumption DEF Blurrable
  <2> QED BY <2>1, BlurCorrect DEF AllBlursRight
<1>2. BlurStaysBetween
  BY <1>1 DEF BlurStaysBetween
<1>3. QED
  BY <1>2, PTL

-----------------------------------------------------------------------------
(* The grid.                                                                *)

\* The cells of the sample points of an area.
Touched(areas, i) == {CellOf(Origin(areas), p) : p \in Visited(areas[i].outline)}

\* After holds the grid after the first areas of an order, for every number of them.
FillsUp(After, areas, order) ==
  /\ After[0] = [cell \in Cells(areas) |-> Unknown]
  /\ \A n \in 1..Len(areas) :
       After[n] = Fill(After[n - 1], Touched(areas, order[n]), FillValue(areas[order[n]]))

LEMMA FillType ==
  ASSUME NEW C, NEW grid \in [C -> Int], NEW touched, NEW value \in Int
  PROVE  /\ Fill(grid, touched, value) \in [C -> Int]
         /\ \A cell \in C : Fill(grid, touched, value)[cell] =
              IF cell \in touched /\ grid[cell] <= value THEN value ELSE grid[cell]
  BY DEF Fill

LEMMA FillValueType == \A area : FillValue(area) \in Int
  BY DEF FillValue, Occupied, Free

LEMMA GridUnfold ==
  ASSUME NEW A, NEW areas \in Seq(A), NEW order
  PROVE  \E After : Grid(areas, order) = After[Len(areas)] /\ FillsUp(After, areas, order)
<1> DEFINE N == Len(areas)
           V == [Cells(areas) -> Int]
           empty == [cell \in Cells(areas) |-> Unknown]
           Filled(n, grid) == Fill(grid, Touched(areas, order[n]), FillValue(areas[order[n]]))
           Value(n, g) == IF n = 0 THEN empty ELSE Filled(n, g[n - 1])
           Is(g) == g = [n \in 0..N |-> Value(n, g)]
           step == [p \in (1..N) \X V |-> Filled(p[1], p[2])]
<1>1. N \in Nat
  BY LenProperties
<1>2. IsStepwise(V, N, empty, step)
  <2>1. empty \in V
    BY DEF Unknown
  <2>2. \A n \in 1..N, grid \in V : Filled(n, grid) \in V
    BY FillType, FillValueType
  <2> HIDE DEF Filled, V, empty, N
  <2> QED BY <1>1, <2>1, <2>2 DEF IsStepwise
<1>3. PICK g \in [0..N -> V] : g[0] = empty /\ \A n \in 1..N : g[n] = step[<<n, g[n - 1]>>]
  <2> HIDE DEF V, N, empty, step
  <2> QED BY <1>2, StepwiseRecursion
<1> HIDE DEF N, V, empty
<1>4. Is(g)
  <2>1. \A n \in 1..N : g[n - 1] \in V
    BY <1>1
  <2>2. \A n \in 1..N : g[n] = Filled(n, g[n - 1])
    <3> HIDE DEF Filled
    <3> QED BY <1>3, <2>1
  <2>3. \A n \in 0..N : g[n] = Value(n, g)
    <3>1. \A n \in 0..N : n # 0 => n \in 1..N
      BY <1>1
    <3> HIDE DEF Filled, step
    <3> QED BY <1>3, <2>2, <3>1
  <2> HIDE DEF Value
  <2> QED BY <2>3
<1> DEFINE After == CHOOSE f : Is(f)
<1>5. Is(After)
  <2> HIDE DEF Is
  <2> QED BY <1>4
<1>6. Grid(areas, order) = After[N]
  BY Zenon DEF Grid, Touched, N, empty
<1> HIDE DEF After
<1>7. FillsUp(After, areas, order)
  <2>1. \A n \in 0..N : After[n] = Value(n, After)
    <3> HIDE DEF Value
    <3> QED BY <1>5
  <2>2. After[0] = [cell \in Cells(areas) |-> Unknown]
    <3>1. 0 \in 0..N
      BY <1>1
    <3> QED BY <2>1, <3>1 DEF empty
  <2>3. \A n \in 1..N : After[n] = Fill(After[n - 1], Touched(areas, order[n]), FillValue(areas[order[n]]))
    <3>1. \A n \in 1..N : n \in 0..N /\ n # 0
      BY <1>1
    <3> QED BY <2>1, <3>1
  <2> QED BY <2>2, <2>3 DEF FillsUp, N
<1> QED BY <1>6, <1>7 DEF N

\* What an area overlapping a cell makes of it: occupied if one of the areas is an exclusion,
\* free if none is, unknown if there is no such area.
ValueOf(areas, cell) ==
  IF \E i \in DOMAIN areas : areas[i].type = Exclusion /\ cell \in Touched(areas, i) THEN Occupied
  ELSE IF \E i \in DOMAIN areas : cell \in Touched(areas, i) THEN Free
  ELSE Unknown

\* The grid of a map depends on its areas alone, and on every one of them: a cell that an exclusion
\* touches is occupied, whatever else touches it and in whatever order the sort leaves the areas
\* (mapToOccupancyGrid, fillGridWithPolygon).
THEOREM GridMeaning ==
  ASSUME NEW A, NEW areas \in Seq(A), NEW order \in Orders(areas)
  PROVE  Grid(areas, order) = [cell \in Cells(areas) |-> ValueOf(areas, cell)]
<1> DEFINE N == Len(areas)
           C == Cells(areas)
           Hit(i, cell) == cell \in Touched(areas, i)
           Banned(i) == areas[i].type = Exclusion
           Upto(n, cell) == IF \E k \in 1..n : Banned(order[k]) /\ Hit(order[k], cell) THEN Occupied
                            ELSE IF \E k \in 1..n : Hit(order[k], cell) THEN Free
                            ELSE Unknown
<1>1. N \in Nat /\ DOMAIN areas = 1..N
  BY LenProperties
<1>2. PICK After : Grid(areas, order) = After[N] /\ FillsUp(After, areas, order)
  BY GridUnfold
<1> HIDE DEF N, C, Hit, Banned
<1> DEFINE T == {n \in 0..N : After[n] = [cell \in C |-> Upto(n, cell)]}
<1>3. 0 \in T
  <2>1. After[0] = [cell \in C |-> Unknown]
    BY <1>2 DEF FillsUp, C
  <2>2. \A cell \in C : Upto(0, cell) = Unknown
    OBVIOUS
  <2> HIDE DEF Upto
  <2> QED BY <1>1, <2>1, <2>2
<1>4. ASSUME NEW n \in 0..(N - 1), n \in T PROVE n + 1 \in T
  <2> DEFINE touched == Touched(areas, order[n + 1])
             value == FillValue(areas[order[n + 1]])
  <2>0. n \in Nat /\ n + 1 \in 1..N /\ (n + 1) - 1 = n
    BY <1>1
  <2>1. After[n + 1] = Fill(After[n], touched, value)
    <3>1. After[n + 1] = Fill(After[(n + 1) - 1], touched, value)
      BY <1>2, <2>0 DEF FillsUp, N
    <3> QED BY <2>0, <3>1
  <2>2. After[n] = [cell \in C |-> Upto(n, cell)]
    BY <1>4
  <2>3. \A cell \in C : Upto(n, cell) \in {Occupied, Free, Unknown}
    OBVIOUS
  <2>4. value = IF Banned(order[n + 1]) THEN Occupied ELSE Free
    BY DEF FillValue, Banned
  <2>5. \A cell \in C : cell \in touched <=> Hit(order[n + 1], cell)
    BY DEF Hit
  <2>6. ASSUME NEW cell \in C
        PROVE  (IF cell \in touched /\ Upto(n, cell) <= value THEN value ELSE Upto(n, cell)) = Upto(n + 1, cell)
    <3>1. \A k \in 1..(n + 1) : k \in 1..n \/ k = n + 1
      BY <2>0
    <3>2. \A k \in 1..n : k \in 1..(n + 1)
      BY <2>0
    <3>3. n + 1 \in 1..(n + 1)
      BY <2>0
    <3> HIDE DEF touched, value
    <3> DEFINE b == \E k \in 1..n : Banned(order[k]) /\ Hit(order[k], cell)
               h == \E k \in 1..n : Hit(order[k], cell)
    <3>4. (\E k \in 1..(n + 1) : Banned(order[k]) /\ Hit(order[k], cell))
            <=> b \/ (Banned(order[n + 1]) /\ Hit(order[n + 1], cell))
      BY <3>1, <3>2, <3>3
    <3>5. (\E k \in 1..(n + 1) : Hit(order[k], cell)) <=> h \/ Hit(order[n + 1], cell)
      BY <3>1, <3>2, <3>3
    <3>6. Upto(n, cell) = IF b THEN Occupied ELSE IF h THEN Free ELSE Unknown
      OBVIOUS
    <3>7. Upto(n + 1, cell) = IF b \/ (Banned(order[n + 1]) /\ Hit(order[n + 1], cell)) THEN Occupied
                              ELSE IF h \/ Hit(order[n + 1], cell) THEN Free ELSE Unknown
      BY <3>4, <3>5
    <3> HIDE DEF b, h, Upto
    <3> QED BY <2>4, <2>5, <3>6, <3>7 DEF Occupied, Free, Unknown
  <2>7. Fill(After[n], touched, value) = [cell \in C |-> Upto(n + 1, cell)]
    <3> HIDE DEF Upto, touched, value
    <3>1. DOMAIN After[n] = C /\ \A cell \in C : After[n][cell] = Upto(n, cell)
      BY <2>2
    <3>2. Fill(After[n], touched, value) =
            [cell \in C |-> IF cell \in touched /\ Upto(n, cell) <= value THEN value ELSE Upto(n, cell)]
      BY <3>1, Zenon DEF Fill
    <3> QED BY <2>6, <3>2
  <2> HIDE DEF Upto, touched, value
  <2> QED BY <2>0, <2>1, <2>7
<1>5. N \in T
  <2> HIDE DEF T
  <2>1. 0..N \subseteq T
    BY <1>1, <1>3, <1>4, SetOfIntervalInduction
  <2> QED BY <1>1, <2>1
<1>6. \A i \in DOMAIN areas : \E k \in 1..N : order[k] = i
  <2>1. order \in Injection(1..N, 1..N)
    BY <1>1 DEF Orders, Injection, IsInjective
  <2>2. order \in Surjection(1..N, 1..N)
    BY <1>1, <2>1, FS_Interval, FS_Injection
  <2> QED BY <1>1, <2>2 DEF Surjection
<1>7. \A k \in 1..N : order[k] \in DOMAIN areas
  BY <1>1 DEF Orders
<1>8. ASSUME NEW cell \in C PROVE Upto(N, cell) = ValueOf(areas, cell)
  BY <1>6, <1>7 DEF ValueOf, Hit, Banned
<1> HIDE DEF Upto
<1> QED BY <1>2, <1>5, <1>8 DEF C

\* Two sorts of the same areas give the same grid.
THEOREM OrderIsIrrelevant ==
  ASSUME NEW A, NEW areas \in Seq(A), NEW first \in Orders(areas), NEW second \in Orders(areas)
  PROVE  Grid(areas, first) = Grid(areas, second)
BY GridMeaning

-----------------------------------------------------------------------------
(* Where a point lies, in numbers.                                          *)

\* Side() of the line from (ax, ay) to (bx, by).
Turn(ax, ay, bx, by, px, py) == (bx - ax) * (py - ay) - (by - ay) * (px - ax)

\* A turn is a number.
LEMMA TurnType ==
  ASSUME NEW ax \in Int, NEW ay \in Int, NEW bx \in Int, NEW by \in Int, NEW px \in Int, NEW py \in Int
  PROVE  Turn(ax, ay, bx, by, px, py) \in Int
BY DEF Turn

\* A product with a factor that is not negative grows with the other factor.
LEMMA ProductGrows ==
  ASSUME NEW a \in Nat, NEW b \in Int, NEW c \in Int, b <= c
  PROVE  a * b \in Int /\ a * c \in Int /\ a * b <= a * c /\ (a > 0 /\ b < c => a * b < a * c)
<1>1. PICK d \in Nat : c = b + d
  <2>1. c = b + (c - b) /\ c - b \in Nat
    OBVIOUS
  <2> QED BY <2>1
<1>2. a * c = a * b + a * d /\ a * d \in Nat /\ (a > 0 /\ d > 0 => a * d > 0)
  BY <1>1
<1> QED BY <1>1, <1>2

\* A factor that is positive can be cancelled.
LEMMA Cancel ==
  ASSUME NEW a \in Nat \ {0}, NEW b \in Int, NEW c \in Int
  PROVE  /\ a * b < a * c => b < c
         /\ a * b <= a * c => b <= c
         /\ a * b > 0 => b > 0
         /\ a * b >= 0 => b >= 0
<1>1. b >= c => a * b >= a * c
  BY ProductGrows
<1>2. b > c => a * b > a * c
  BY ProductGrows
<1>3. a * b \in Int /\ a * c \in Int /\ a * 0 = 0
  OBVIOUS
<1>4. b <= 0 => a * b <= a * 0
  BY ProductGrows
<1>5. b < 0 => a * b < a * 0
  BY ProductGrows
<1> QED BY <1>1, <1>2, <1>3, <1>4, <1>5

\* The square of a number below zero grows as the number falls.
LEMMA SquareFalls ==
  ASSUME NEW x \in Int, NEW y \in Int, y <= x, x <= 0
  PROVE  x * x \in Nat /\ y * y \in Nat /\ x * x <= y * y
<1>1. PICK m \in Nat, n \in Nat : x = 0 - m /\ y = 0 - n /\ m <= n
  <2>1. x = 0 - (0 - x) /\ y = 0 - (0 - y) /\ 0 - x \in Nat /\ 0 - y \in Nat /\ 0 - x <= 0 - y
    OBVIOUS
  <2> QED BY <2>1
<1>2. x * x = m * m /\ y * y = n * n /\ m * m \in Nat /\ n * n \in Nat
  BY <1>1
<1>3. m * m <= m * n /\ n * m <= n * n /\ m * n = n * m /\ m * n \in Int
  BY <1>1, ProductGrows
<1> QED BY <1>2, <1>3

\* By a tenth of size at most on each axis, a point past c is not far from it.
Close(size, wx, wy, zx, zy) ==
  /\ wx >= 0 => 10 * zx >= 0 - size
  /\ wx <= 0 => 10 * zx <= size
  /\ wy >= 0 => 10 * zy >= 0 - size
  /\ wy <= 0 => 10 * zy <= size

\* A point past the end of a segment, and no more than a tenth of size from its line, is nearer than
\* a fifth of size to the end: w is the way along the segment, z the way from the end to the point.
LEMMA PastTheEnd ==
  ASSUME NEW size \in Nat \ {0}, NEW wx \in Int, NEW wy \in Int, NEW zx \in Int, NEW zy \in Int,
         NEW t \in Int, NEW tau \in Int, NEW F \in Nat \ {0}, F = wx * wx + wy * wy,
         t = wx * zy - wy * zx, tau = wx * zx + wy * zy, 100 * t * t < size * size * F,
         tau < 0, Close(size, wx, wy, zx, zy)
  PROVE  25 * (zx * zx + zy * zy) < size * size
<1>a. /\ wx >= 0 => 10 * zx >= 0 - size
      /\ wx <= 0 => 10 * zx <= size
      /\ wy >= 0 => 10 * zy >= 0 - size
      /\ wy <= 0 => 10 * zy <= size
  BY DEF Close
<1> DEFINE Z == zx * zx + zy * zy
           a == IF wx >= 0 THEN wx ELSE 0 - wx
           b == IF wy >= 0 THEN wy ELSE 0 - wy
<1>1. Z \in Nat
  OBVIOUS
<1>3. a \in Nat /\ b \in Nat /\ a * a + b * b = F
  OBVIOUS
<1>4. F * Z = tau * tau + t * t
  OBVIOUS
<1>5. wx * (10 * zx) >= 0 - a * size
  <2>1. CASE wx >= 0
    <3>1. wx * (0 - size) <= wx * (10 * zx)
      BY <1>a, <2>1, ProductGrows
    <3> QED BY <2>1, <3>1
  <2>2. CASE wx < 0
    <3>1. (0 - wx) * (10 * zx) <= (0 - wx) * size
      BY <1>a, <2>2, ProductGrows
    <3> QED BY <2>2, <3>1
  <2> QED BY <2>1, <2>2
<1>6. wy * (10 * zy) >= 0 - b * size
  <2>1. CASE wy >= 0
    <3>1. wy * (0 - size) <= wy * (10 * zy)
      BY <1>a, <2>1, ProductGrows
    <3> QED BY <2>1, <3>1
  <2>2. CASE wy < 0
    <3>1. (0 - wy) * (10 * zy) <= (0 - wy) * size
      BY <1>a, <2>2, ProductGrows
    <3> QED BY <2>2, <3>1
  <2> QED BY <2>1, <2>2
<1> HIDE DEF Z, a, b
<1>7. 10 * tau >= 0 - (a + b) * size /\ (a + b) * size \in Nat
  BY <1>3, <1>5, <1>6
<1>8. (10 * tau) * (10 * tau) <= ((a + b) * size) * ((a + b) * size)
  <2> DEFINE m == (a + b) * size
  <2>1. 0 - m \in Int /\ 0 - m <= 10 * tau /\ 10 * tau \in Int /\ 10 * tau <= 0 /\ (0 - m) * (0 - m) = m * m
    BY <1>7
  <2> HIDE DEF m
  <2>2. (10 * tau) * (10 * tau) <= (0 - m) * (0 - m)
    BY <2>1, SquareFalls
  <2> QED BY <2>1, <2>2 DEF m
<1>9. (a + b) * (a + b) <= 2 * F
  <2>1. (a - b) * (a - b) \in Nat /\ (a + b) * (a + b) + (a - b) * (a - b) = 2 * F
    BY <1>3
  <2> QED BY <1>3, <2>1
<1> DEFINE R == size * size
           P == tau * tau
           T == t * t
<1>10. R \in Nat \ {0} /\ P \in Nat /\ T \in Nat
  OBVIOUS
<1>11. 100 * P <= R * (2 * F)
  <2>1. (10 * tau) * (10 * tau) = 100 * P /\ ((a + b) * size) * ((a + b) * size) = R * ((a + b) * (a + b))
    BY <1>3
  <2>2. R * ((a + b) * (a + b)) <= R * (2 * F)
    <3>1. (a + b) * (a + b) \in Int /\ 2 * F \in Int
      BY <1>3
    <3> HIDE DEF R
    <3> QED BY <1>9, <1>10, <3>1, ProductGrows
  <2>3. R * ((a + b) * (a + b)) \in Int /\ R * (2 * F) \in Int
    BY <1>3
  <2> QED BY <1>8, <2>1, <2>2, <2>3
<1>12. F * Z = P + T /\ 100 * T < R * F
  <2>1. 100 * t * t = 100 * T
    OBVIOUS
  <2> QED BY <1>4, <2>1
<1> HIDE DEF R, P, T
<1>15. F * (100 * Z) < F * (3 * R)
  BY <1>1, <1>10, <1>11, <1>12
<1>16. 100 * Z < 3 * R
  BY <1>1, <1>10, <1>15, Cancel
<1>17. 25 * Z < R
  BY <1>1, <1>10, <1>16
<1> QED BY <1>17 DEF R, Z

\* The edge from a to b is crossed by the ray from p to the right, or by the one straight up, or by
\* both or neither: seen from p, u is the way to a and v the way to b.
RightRay(ux, uy, vx, vy) ==
  (uy > 0) # (vy > 0) /\ IF vy > uy THEN ux * vy - uy * vx > 0 ELSE ux * vy - uy * vx < 0

UpRay(ux, uy, vx, vy) ==
  (ux > 0) # (vx > 0) /\ IF vx > ux THEN ux * vy - uy * vx < 0 ELSE ux * vy - uy * vx > 0

\* An edge that does not run through p leads into the quarter above and to the right of p, or out of
\* it, just if one of the rays crosses it and the other does not.
LEMMA IntoTheQuarter ==
  ASSUME NEW ux \in Int, NEW uy \in Int, NEW vx \in Int, NEW vy \in Int,
         \/ ux = vx /\ uy = vy
         \/ ux * vy - uy * vx # 0
         \/ (ux > 0 /\ vx > 0) \/ (ux < 0 /\ vx < 0) \/ (uy > 0 /\ vy > 0) \/ (uy < 0 /\ vy < 0)
  PROVE  (RightRay(ux, uy, vx, vy) <=> UpRay(ux, uy, vx, vy))
           <=> ((ux > 0 /\ uy > 0) <=> (vx > 0 /\ vy > 0))
<1> DEFINE P == ux * vy
           Q == uy * vx
<1>1. P \in Int /\ Q \in Int
  OBVIOUS
<1>2. /\ ux > 0 /\ vy > 0 => P > 0
      /\ ux > 0 /\ vy <= 0 => P <= 0
      /\ ux <= 0 /\ vy > 0 => P <= 0
      /\ ux <= 0 /\ vy <= 0 => P >= 0
  OBVIOUS
<1>3. /\ uy > 0 /\ vx > 0 => Q > 0
      /\ uy > 0 /\ vx <= 0 => Q <= 0
      /\ uy <= 0 /\ vx > 0 => Q <= 0
      /\ uy <= 0 /\ vx <= 0 => Q >= 0
  OBVIOUS
<1>4. \/ ux = vx /\ uy = vy
      \/ P - Q # 0
      \/ (ux > 0 /\ vx > 0) \/ (ux < 0 /\ vx < 0) \/ (uy > 0 /\ vy > 0) \/ (uy < 0 /\ vy < 0)
  OBVIOUS
<1>5. RightRay(ux, uy, vx, vy) <=> (uy > 0) # (vy > 0) /\ IF vy > uy THEN P - Q > 0 ELSE P - Q < 0
  BY DEF RightRay
<1>6. UpRay(ux, uy, vx, vy) <=> (ux > 0) # (vx > 0) /\ IF vx > ux THEN P - Q < 0 ELSE P - Q > 0
  BY DEF UpRay
<1> HIDE DEF P, Q
<1>7. CASE ux > 0 /\ uy > 0
  BY ONLY <1>1, <1>2, <1>3, <1>4, <1>5, <1>6, <1>7, ux \in Int, uy \in Int, vx \in Int, vy \in Int
<1>8. CASE ux <= 0 /\ uy > 0
  BY ONLY <1>1, <1>2, <1>3, <1>4, <1>5, <1>6, <1>8, ux \in Int, uy \in Int, vx \in Int, vy \in Int
<1>9. CASE ux > 0 /\ uy <= 0
  BY ONLY <1>1, <1>2, <1>3, <1>4, <1>5, <1>6, <1>9, ux \in Int, uy \in Int, vx \in Int, vy \in Int
<1>10. CASE ux <= 0 /\ uy <= 0
  BY ONLY <1>1, <1>2, <1>3, <1>4, <1>5, <1>6, <1>10, ux \in Int, uy \in Int, vx \in Int, vy \in Int
<1> QED BY <1>7, <1>8, <1>9, <1>10

-----------------------------------------------------------------------------
(* Going round the corners of an outline.                                   *)

\* The corner an edge leads to.
Following(i, n) == (i % n) + 1

\* An edge leads to the next corner, and the last edge to the first.
LEMMA RoundTheCorners ==
  ASSUME NEW n \in Nat \ {0}
  PROVE  \A i \in 1..n : /\ Following(i, n) \in 1..n
                         /\ Following(i, n) = IF i = n THEN 1 ELSE i + 1
<1>1. ASSUME NEW i \in 1..n, i < n PROVE Following(i, n) = i + 1
  <2>1. i \in Nat /\ i % n = i
    BY <1>1
  <2> QED BY <2>1 DEF Following
<1>2. Following(n, n) = 1
  <2>1. n % n = 0
    OBVIOUS
  <2> QED BY <2>1 DEF Following
<1>3. \A i \in 1..n : i = n \/ i < n
  OBVIOUS
<1>4. \A i \in 1..n : Following(i, n) = IF i = n THEN 1 ELSE i + 1
  BY <1>1, <1>2, <1>3
<1> QED BY <1>4

\* An odd number of the first k numbers is in S.
OddUpto(S, k) == Cardinality(S \intersect (1..k)) % 2 = 1

\* The next number makes an odd count even or an even count odd if it is in S.
LEMMA OddStep ==
  ASSUME NEW S, NEW k \in Nat
  PROVE  /\ ~OddUpto(S, 0)
         /\ OddUpto(S, k + 1) <=> ~(OddUpto(S, k) <=> k + 1 \in S)
<1>1. S \intersect (1..0) = {}
  OBVIOUS
<1>2. ~OddUpto(S, 0)
  BY <1>1, FS_EmptySet DEF OddUpto
<1> DEFINE T == S \intersect (1..k)
           U == S \intersect (1..(k + 1))
<1>3. U = (IF k + 1 \in S THEN T \union {k + 1} ELSE T) /\ k + 1 \notin T
  OBVIOUS
<1>4. IsFiniteSet(T) /\ Cardinality(T) \in Nat
  <2>1. IsFiniteSet(1..k)
    BY FS_Interval
  <2>2. T \in SUBSET (1..k)
    OBVIOUS
  <2> HIDE DEF T
  <2> QED BY <2>1, <2>2, FS_Subset, FS_CardinalityType
<1> HIDE DEF T, U
<1>5. Cardinality(U) = IF k + 1 \in S THEN Cardinality(T) + 1 ELSE Cardinality(T)
  BY <1>3, <1>4, FS_AddElement
<1>6. (Cardinality(T) + 1) % 2 = 1 <=> ~(Cardinality(T) % 2 = 1)
  BY <1>4
<1>7. OddUpto(S, k + 1) <=> ~(OddUpto(S, k) <=> k + 1 \in S)
  BY <1>5, <1>6 DEF OddUpto, T, U
<1> QED BY <1>2, <1>7

\* Round the corners one leads into a set as often as out of it: if the edges that do are those in
\* just one of R and U, then R and U are both odd or both even.
LEMMA SameParity ==
  ASSUME NEW n \in Nat \ {0}, NEW R \in SUBSET (1..n), NEW U \in SUBSET (1..n), NEW Q,
         \A i \in 1..n : (i \in R <=> i \in U) <=> (i \in Q <=> Following(i, n) \in Q)
  PROVE  Cardinality(R) % 2 = 1 <=> Cardinality(U) % 2 = 1
<1> DEFINE T == {k \in 0..(n - 1) : (OddUpto(R, k) <=> OddUpto(U, k)) <=> (1 \in Q <=> k + 1 \in Q)}
<1>1. 0 \in T
  <2>1. ~OddUpto(R, 0) /\ ~OddUpto(U, 0)
    BY OddStep, 0 \in Nat
  <2>2. 0 + 1 = 1 /\ 0 \in 0..(n - 1)
    OBVIOUS
  <2> QED BY <2>1, <2>2
<1>2. ASSUME NEW k \in 0..((n - 1) - 1), k \in T PROVE k + 1 \in T
  <2> DEFINE i == k + 1
  <2>1. i \in 0..(n - 1) /\ i \in 1..n /\ i # n /\ k \in Nat
    OBVIOUS
  <2>2. (i \in R <=> i \in U) <=> (i \in Q <=> i + 1 \in Q)
    BY <2>1, RoundTheCorners
  <2>3. /\ OddUpto(R, i) <=> ~(OddUpto(R, k) <=> i \in R)
        /\ OddUpto(U, i) <=> ~(OddUpto(U, k) <=> i \in U)
    BY <2>1, OddStep
  <2>4. (OddUpto(R, k) <=> OddUpto(U, k)) <=> (1 \in Q <=> i \in Q)
    BY <1>2
  <2> HIDE DEF i
  <2>5. (OddUpto(R, i) <=> OddUpto(U, i)) <=> (1 \in Q <=> i + 1 \in Q)
    BY <2>2, <2>3, <2>4
  <2> QED BY <2>1, <2>5 DEF i
<1>3. n - 1 \in Nat /\ n - 1 \in 0..(n - 1) /\ (n - 1) + 1 = n /\ n \in 1..n
  OBVIOUS
<1>4. (OddUpto(R, n - 1) <=> OddUpto(U, n - 1)) <=> (1 \in Q <=> n \in Q)
  <2> HIDE DEF T
  <2>1. 0..(n - 1) \subseteq T
    BY <1>1, <1>2, <1>3, SetOfIntervalInduction
  <2>2. n - 1 \in T
    BY <1>3, <2>1
  <2> QED BY <1>3, <2>2 DEF T
<1>5. /\ OddUpto(R, n) <=> ~(OddUpto(R, n - 1) <=> n \in R)
      /\ OddUpto(U, n) <=> ~(OddUpto(U, n - 1) <=> n \in U)
  <2> DEFINE k == n - 1
  <2>1. k \in Nat /\ k + 1 = n
    BY <1>3
  <2> HIDE DEF k
  <2>2. /\ OddUpto(R, k + 1) <=> ~(OddUpto(R, k) <=> k + 1 \in R)
        /\ OddUpto(U, k + 1) <=> ~(OddUpto(U, k) <=> k + 1 \in U)
    BY <2>1, OddStep
  <2> QED BY <2>1, <2>2 DEF k
<1>6. (n \in R <=> n \in U) <=> (n \in Q <=> 1 \in Q)
  BY <1>3, RoundTheCorners
<1>7. OddUpto(R, n) <=> OddUpto(U, n)
  BY <1>4, <1>5, <1>6
<1>8. R \intersect (1..n) = R /\ U \intersect (1..n) = U
  OBVIOUS
<1> QED BY <1>7, <1>8 DEF OddUpto

-----------------------------------------------------------------------------
(* Outlines.                                                                *)

\* Side() of an edge of an outline, and its length, in terms of the coordinates of its corners.
LEMMA SideIsTurn ==
  ASSUME NEW o, NEW i, NEW p
  PROVE  Side(Edge(o, i), p) =
           Turn(o[i][1], o[i][2], o[Following(i, Len(o))][1], o[Following(i, Len(o))][2], p[1], p[2])
BY DEF Side, Edge, Turn, Following

LEMMA SquaredLengthIs ==
  ASSUME NEW o, NEW i
  PROVE  SquaredLength(Edge(o, i)) =
           (o[Following(i, Len(o))][1] - o[i][1]) * (o[Following(i, Len(o))][1] - o[i][1])
             + (o[Following(i, Len(o))][2] - o[i][2]) * (o[Following(i, Len(o))][2] - o[i][2])
BY DEF SquaredLength, Edge, Following

\* The lesser and the greater of two numbers.
LEMMA LeastOfTwo ==
  ASSUME NEW a \in Int, NEW b \in Int
  PROVE  /\ Least({a, b}) = IF a <= b THEN a ELSE b
         /\ Greatest({a, b}) = IF a >= b THEN a ELSE b
<1> DEFINE m == IF a <= b THEN a ELSE b
           n == IF a >= b THEN a ELSE b
<1>1. m \in {a, b} /\ \A c \in {a, b} : m <= c
  OBVIOUS
<1>2. n \in {a, b} /\ \A c \in {a, b} : n >= c
  OBVIOUS
<1>3. Least({a, b}) \in {a, b} /\ \A c \in {a, b} : Least({a, b}) <= c
  BY <1>1, Zenon DEF Least
<1>4. Greatest({a, b}) \in {a, b} /\ \A c \in {a, b} : Greatest({a, b}) >= c
  BY <1>2, Zenon DEF Greatest
<1> QED BY <1>3, <1>4

\* Some of a list of numbers is the least, and some the greatest.
LEMMA ListHasExtremes ==
  ASSUME NEW n \in Nat, n > 0, NEW f \in [1..n -> Int]
  PROVE  (\E i \in 1..n : \A j \in 1..n : f[i] <= f[j]) /\ (\E i \in 1..n : \A j \in 1..n : f[i] >= f[j])
<1> DEFINE T == {k \in 0..(n - 1) : /\ \E i \in 1..(k + 1) : \A j \in 1..(k + 1) : f[i] <= f[j]
                                    /\ \E i \in 1..(k + 1) : \A j \in 1..(k + 1) : f[i] >= f[j]}
<1>1. 0 \in T
  <2>1. 1 \in 1..(0 + 1) /\ \A j \in 1..(0 + 1) : j = 1
    OBVIOUS
  <2> QED BY <2>1
<1>2. ASSUME NEW k \in 0..((n - 1) - 1), k \in T PROVE k + 1 \in T
  <2>1. k + 1 \in 0..(n - 1) /\ k + 1 \in Nat /\ (k + 1) + 1 \in 1..n
    OBVIOUS
  <2>2. \A j \in 1..((k + 1) + 1) : j \in 1..(k + 1) \/ j = (k + 1) + 1
    BY <2>1
  <2>3. \A j \in 1..(k + 1) : j \in 1..((k + 1) + 1) /\ f[j] \in Int
    BY <2>1
  <2>4. (k + 1) + 1 \in 1..((k + 1) + 1) /\ f[(k + 1) + 1] \in Int
    BY <2>1
  <2> DEFINE m == (k + 1) + 1
  <2>5. PICK i \in 1..(k + 1) : \A j \in 1..(k + 1) : f[i] <= f[j]
    BY <1>2
  <2>6. PICK g \in 1..(k + 1) : \A j \in 1..(k + 1) : f[g] >= f[j]
    BY <1>2
  <2> HIDE DEF m
  <2>7. \E l \in 1..m : \A j \in 1..m : f[l] <= f[j]
    <3>1. CASE f[i] <= f[m]
      BY <2>2, <2>3, <2>5, <3>1 DEF m
    <3>2. CASE ~(f[i] <= f[m])
      <4>1. \A j \in 1..m : f[m] <= f[j]
        BY <2>2, <2>3, <2>4, <2>5, <3>2 DEF m
      <4> QED BY <2>4, <4>1 DEF m
    <3> QED BY <3>1, <3>2
  <2>8. \E l \in 1..m : \A j \in 1..m : f[l] >= f[j]
    <3>1. CASE f[g] >= f[m]
      BY <2>2, <2>3, <2>6, <3>1 DEF m
    <3>2. CASE ~(f[g] >= f[m])
      <4>1. \A j \in 1..m : f[m] >= f[j]
        BY <2>2, <2>3, <2>4, <2>6, <3>2 DEF m
      <4> QED BY <2>4, <4>1 DEF m
    <3> QED BY <3>1, <3>2
  <2> QED BY <2>1, <2>7, <2>8 DEF m
<1>3. n - 1 \in T
  <2> HIDE DEF T
  <2>1. n - 1 \in Nat
    OBVIOUS
  <2>2. 0..(n - 1) \subseteq T
    BY <1>1, <1>2, <2>1, SetOfIntervalInduction
  <2> QED BY <2>1, <2>2
<1>4. (n - 1) + 1 = n
  OBVIOUS
<1> QED BY <1>3, <1>4

\* The corners of an outline are points.
LEMMA OutlineCorners ==
  ASSUME NEW o, IsOutline(o)
  PROVE  /\ Len(o) \in Nat \ {0} /\ DOMAIN o = 1..Len(o)
         /\ \A i \in 1..Len(o) : /\ o[i] \in Int \X Int /\ o[i][1] \in Int /\ o[i][2] \in Int
                                 /\ Following(i, Len(o)) \in 1..Len(o)
                                 /\ Edge(o, i)[1] = o[i] /\ Edge(o, i)[2] = o[Following(i, Len(o))]
         /\ Edges(o) = {Edge(o, i) : i \in 1..Len(o)}
<1>1. o \in Seq(Int \X Int) /\ o # <<>>
  BY DEF IsOutline
<1>2. Len(o) \in Nat \ {0} /\ DOMAIN o = 1..Len(o)
  BY <1>1, LenProperties, EmptySeq
<1>3. ASSUME NEW i \in 1..Len(o) PROVE o[i] \in Int \X Int /\ o[i][1] \in Int /\ o[i][2] \in Int
  <2>1. o[i] \in Int \X Int
    BY <1>1, ElementOfSeq
  <2> QED BY <2>1
<1>4. \A i \in 1..Len(o) : Edge(o, i)[1] = o[i] /\ Edge(o, i)[2] = o[Following(i, Len(o))]
  BY DEF Edge, Following
<1>5. Edges(o) = {Edge(o, i) : i \in 1..Len(o)}
  BY <1>2 DEF Edges
<1> QED BY <1>2, <1>3, <1>4, <1>5, RoundTheCorners

\* The bounding box of an outline: no corner lies outside it, and every side has a corner.
LEMMA Box ==
  ASSUME NEW o, IsOutline(o), NEW axis \in 1..2
  PROVE  /\ Least(Coordinates(o, axis)) \in Int /\ Greatest(Coordinates(o, axis)) \in Int
         /\ \A i \in 1..Len(o) : Least(Coordinates(o, axis)) <= o[i][axis] /\ o[i][axis] <= Greatest(Coordinates(o, axis))
         /\ \E i \in 1..Len(o) : o[i][axis] = Least(Coordinates(o, axis))
         /\ \E i \in 1..Len(o) : o[i][axis] = Greatest(Coordinates(o, axis))
<1>1. Len(o) \in Nat /\ Len(o) > 0 /\ DOMAIN o = 1..Len(o)
  BY OutlineCorners
<1>2. \A i \in 1..Len(o) : o[i][axis] \in Int
  <2>1. axis = 1 \/ axis = 2
    OBVIOUS
  <2> QED BY <2>1, OutlineCorners
<1> DEFINE f == [i \in 1..Len(o) |-> o[i][axis]]
<1>3. Coordinates(o, axis) = {o[i][axis] : i \in 1..Len(o)}
  BY <1>1 DEF Coordinates
<1>4. /\ \E i \in 1..Len(o) : \A j \in 1..Len(o) : o[i][axis] <= o[j][axis]
      /\ \E i \in 1..Len(o) : \A j \in 1..Len(o) : o[i][axis] >= o[j][axis]
  <2>1. f \in [1..Len(o) -> Int]
    BY <1>2
  <2>2. \A i \in 1..Len(o) : f[i] = o[i][axis]
    OBVIOUS
  <2> HIDE DEF f
  <2>3. /\ \E i \in 1..Len(o) : \A j \in 1..Len(o) : f[i] <= f[j]
        /\ \E i \in 1..Len(o) : \A j \in 1..Len(o) : f[i] >= f[j]
    BY <1>1, <2>1, ListHasExtremes
  <2> QED BY <2>2, <2>3
<1>5. \E a \in Coordinates(o, axis) : \A b \in Coordinates(o, axis) : a <= b
  <2>1. PICK i \in 1..Len(o) : \A j \in 1..Len(o) : o[i][axis] <= o[j][axis]
    BY <1>4
  <2>2. o[i][axis] \in Coordinates(o, axis) /\ \A b \in Coordinates(o, axis) : o[i][axis] <= b
    BY <1>3, <2>1
  <2> QED BY <2>2
<1>6. \E a \in Coordinates(o, axis) : \A b \in Coordinates(o, axis) : a >= b
  <2>1. PICK i \in 1..Len(o) : \A j \in 1..Len(o) : o[i][axis] >= o[j][axis]
    BY <1>4
  <2>2. o[i][axis] \in Coordinates(o, axis) /\ \A b \in Coordinates(o, axis) : o[i][axis] >= b
    BY <1>3, <2>1
  <2> QED BY <2>2
<1>7. /\ Least(Coordinates(o, axis)) \in Coordinates(o, axis)
      /\ \A b \in Coordinates(o, axis) : Least(Coordinates(o, axis)) <= b
  BY <1>5, Zenon DEF Least
<1>8. /\ Greatest(Coordinates(o, axis)) \in Coordinates(o, axis)
      /\ \A b \in Coordinates(o, axis) : Greatest(Coordinates(o, axis)) >= b
  BY <1>6, Zenon DEF Greatest
<1>9. \A i \in 1..Len(o) : /\ Least(Coordinates(o, axis)) <= o[i][axis]
                           /\ Greatest(Coordinates(o, axis)) >= o[i][axis]
  BY <1>3, <1>7, <1>8
<1>10. /\ \E i \in 1..Len(o) : o[i][axis] = Least(Coordinates(o, axis))
       /\ \E i \in 1..Len(o) : o[i][axis] = Greatest(Coordinates(o, axis))
  BY <1>3, <1>7, <1>8
<1> QED BY <1>2, <1>9, <1>10

-----------------------------------------------------------------------------
(* Inside and outside.                                                      *)

\* An edge that does not run through a point leads into the quarter above and to the right of it, or
\* out of it, just if one of the two rays from the point crosses it.
LEMMA EdgeAndQuarter ==
  ASSUME NEW o, IsOutline(o), NEW i \in 1..Len(o), NEW p \in Int \X Int, ~Through(Edge(o, i), p)
  PROVE  LET j == Following(i, Len(o))
             In(c) == c[1] > p[1] /\ c[2] > p[2]
         IN  (Crosses(Edge(o, i), p) <=> Over(Edge(o, i), p)) <=> (In(o[i]) <=> In(o[j]))
<1> DEFINE j == Following(i, Len(o))
           e == Edge(o, i)
           ax == o[i][1]
           ay == o[i][2]
           bx == o[j][1]
           by == o[j][2]
           x == p[1]
           y == p[2]
           s == Side(e, p)
           ux == ax - x
           uy == ay - y
           vx == bx - x
           vy == by - y
<1>1. j \in 1..Len(o)
  BY OutlineCorners
<1>2. ax \in Int /\ ay \in Int /\ bx \in Int /\ by \in Int /\ x \in Int /\ y \in Int
  BY <1>1, OutlineCorners
<1>3. e[1] = o[i] /\ e[2] = o[j]
  BY OutlineCorners
<1>4. /\ Crosses(e, p) <=> (ay > y) # (by > y) /\ IF by > ay THEN s > 0 ELSE s < 0
      /\ Over(e, p) <=> (ax > x) # (bx > x) /\ IF bx > ax THEN s < 0 ELSE s > 0
  BY <1>3, Zenon DEF Crosses, Over
<1>5. s = Turn(ax, ay, bx, by, x, y)
  BY SideIsTurn
<1>6. SquaredLength(e) = (bx - ax) * (bx - ax) + (by - ay) * (by - ay)
  BY SquaredLengthIs
<1>7. ~(/\ SquaredLength(e) > 0 /\ s = 0
        /\ Least({ax, bx}) <= x /\ Greatest({ax, bx}) >= x
        /\ Least({ay, by}) <= y /\ Greatest({ay, by}) >= y)
  <2>1. \A axis \in 1..2 : axis = 1 \/ axis = 2
    OBVIOUS
  <2> QED BY <1>3, <2>1, Zenon DEF Through
<1> DEFINE q == ux * vy - uy * vx
<1> HIDE DEF e, ax, ay, bx, by, x, y, s, j
<1>8. /\ Least({ax, bx}) = (IF ax <= bx THEN ax ELSE bx) /\ Greatest({ax, bx}) = (IF ax >= bx THEN ax ELSE bx)
      /\ Least({ay, by}) = (IF ay <= by THEN ay ELSE by) /\ Greatest({ay, by}) = (IF ay >= by THEN ay ELSE by)
  BY <1>2, LeastOfTwo
<1>9. ux \in Int /\ uy \in Int /\ vx \in Int /\ vy \in Int
  BY <1>2
<1>10. s = q
  BY <1>2, <1>5 DEF Turn
<1>11. SquaredLength(e) > 0 \/ (ax = bx /\ ay = by)
  <2> DEFINE dx == bx - ax
             dy == by - ay
  <2>1. dx \in Int /\ dy \in Int /\ (dx = 0 => ax = bx) /\ (dy = 0 => ay = by)
    BY <1>2
  <2>2. SquaredLength(e) = dx * dx + dy * dy
    BY <1>6
  <2> HIDE DEF dx, dy
  <2>3. dx * dx \in Nat /\ dy * dy \in Nat /\ (dx # 0 => dx * dx > 0) /\ (dy # 0 => dy * dy > 0)
    BY <2>1
  <2> QED BY <2>1, <2>2, <2>3
<1>12. \/ ux = vx /\ uy = vy
       \/ q # 0
       \/ (ux > 0 /\ vx > 0) \/ (ux < 0 /\ vx < 0) \/ (uy > 0 /\ vy > 0) \/ (uy < 0 /\ vy < 0)
  <2> HIDE DEF q
  <2> QED BY <1>2, <1>7, <1>8, <1>10, <1>11
<1>13. (RightRay(ux, uy, vx, vy) <=> UpRay(ux, uy, vx, vy))
          <=> ((ux > 0 /\ uy > 0) <=> (vx > 0 /\ vy > 0))
  <2> HIDE DEF ux, uy, vx, vy
  <2> QED BY <1>9, <1>12, IntoTheQuarter DEF q
<1>14. /\ RightRay(ux, uy, vx, vy) <=> (uy > 0) # (vy > 0) /\ IF vy > uy THEN q > 0 ELSE q < 0
       /\ UpRay(ux, uy, vx, vy) <=> (ux > 0) # (vx > 0) /\ IF vx > ux THEN q < 0 ELSE q > 0
  BY DEF RightRay, UpRay
<1> HIDE DEF q
<1>15. /\ ux > 0 <=> ax > x
       /\ uy > 0 <=> ay > y
       /\ vx > 0 <=> bx > x
       /\ vy > 0 <=> by > y
       /\ vx > ux <=> bx > ax
       /\ vy > uy <=> by > ay
  BY <1>2
<1> HIDE DEF ux, uy, vx, vy
<1>16. (Crosses(e, p) <=> RightRay(ux, uy, vx, vy)) /\ (Over(e, p) <=> UpRay(ux, uy, vx, vy))
  BY <1>4, <1>10, <1>14, <1>15
<1>17. (Crosses(e, p) <=> Over(e, p)) <=> ((ax > x /\ ay > y) <=> (bx > x /\ by > y))
  BY <1>13, <1>15, <1>16
<1> QED BY <1>17 DEF e, ax, ay, bx, by, x, y, j

\* A point that no edge runs through is inside for one ray just if it is inside for the other.
LEMMA RaysAgree ==
  ASSUME NEW o, IsOutline(o), NEW p \in Int \X Int, \A edge \in Edges(o) : ~Through(edge, p)
  PROVE  Cardinality({i \in DOMAIN o : Crosses(Edge(o, i), p)}) % 2 = 1
           <=> Cardinality({i \in DOMAIN o : Over(Edge(o, i), p)}) % 2 = 1
<1> DEFINE n == Len(o)
           R == {i \in 1..n : Crosses(Edge(o, i), p)}
           U == {i \in 1..n : Over(Edge(o, i), p)}
           Q == {i \in 1..n : o[i][1] > p[1] /\ o[i][2] > p[2]}
<1>1. n \in Nat \ {0} /\ DOMAIN o = 1..n
  BY OutlineCorners
<1>2. ASSUME NEW i \in 1..n
      PROVE  (i \in R <=> i \in U) <=> (i \in Q <=> Following(i, n) \in Q)
  <2> DEFINE j == Following(i, n)
             In(c) == c[1] > p[1] /\ c[2] > p[2]
  <2>1. j \in 1..n /\ Edge(o, i) \in Edges(o)
    BY OutlineCorners
  <2>2. (Crosses(Edge(o, i), p) <=> Over(Edge(o, i), p)) <=> (In(o[i]) <=> In(o[j]))
    BY <2>1, EdgeAndQuarter
  <2> QED BY <2>1, <2>2
<1> HIDE DEF n, R, U, Q
<1>3. Cardinality(R) % 2 = 1 <=> Cardinality(U) % 2 = 1
  <2>1. R \in SUBSET (1..n) /\ U \in SUBSET (1..n)
    BY DEF R, U
  <2> QED BY <1>1, <1>2, <2>1, SameParity
<1> QED BY <1>1, <1>3 DEF R, U

\* An odd set of edges has an edge.
LEMMA OddIsSome ==
  ASSUME NEW S, Cardinality(S) % 2 = 1
  PROVE  S # {}
BY FS_EmptySet

\* What is inside the outline is inside its bounding box.
LEMMA InsideTheBox ==
  ASSUME NEW o, IsOutline(o), NEW p \in Int \X Int, Inside(o, p), NEW axis \in 1..2
  PROVE  Least(Coordinates(o, axis)) <= p[axis] /\ p[axis] <= Greatest(Coordinates(o, axis))
<1> DEFINE lo == Least(Coordinates(o, axis))
           hi == Greatest(Coordinates(o, axis))
<1>1. axis = 1 \/ axis = 2
  OBVIOUS
<1>2. lo \in Int /\ hi \in Int /\ \A i \in 1..Len(o) : lo <= o[i][axis] /\ o[i][axis] <= hi
  BY Box
<1>3. p[axis] \in Int /\ \A i \in 1..Len(o) : o[i][axis] \in Int
  BY <1>1, OutlineCorners
<1>4. ASSUME NEW i \in 1..Len(o), NEW j \in 1..Len(o), o[i][axis] <= p[axis], p[axis] <= o[j][axis]
      PROVE  lo <= p[axis] /\ p[axis] <= hi
  <2> HIDE DEF lo, hi
  <2>1. lo <= o[i][axis] /\ o[j][axis] <= hi
    BY <1>2
  <2> QED BY <1>2, <1>3, <1>4, <2>1
<1>5. CASE \E edge \in Edges(o) : Through(edge, p)
  <2>1. PICK i \in 1..Len(o) : Through(Edge(o, i), p)
    BY <1>5, OutlineCorners
  <2> DEFINE j == Following(i, Len(o))
             a == o[i][axis]
             b == o[j][axis]
  <2>2. j \in 1..Len(o) /\ Edge(o, i)[1] = o[i] /\ Edge(o, i)[2] = o[j]
    BY OutlineCorners
  <2>3. Least({a, b}) <= p[axis] /\ Greatest({a, b}) >= p[axis]
    BY <2>1, <2>2 DEF Through
  <2>4. a \in Int /\ b \in Int
    BY <1>3, <2>2
  <2>5. (a <= p[axis] \/ b <= p[axis]) /\ (p[axis] <= a \/ p[axis] <= b)
    <3> HIDE DEF a, b
    <3> QED BY <1>3, <2>3, <2>4, LeastOfTwo
  <2> QED BY <1>3, <1>4, <2>2, <2>5
<1>6. CASE ~\E edge \in Edges(o) : Through(edge, p)
  <2>1. Cardinality({i \in DOMAIN o : Over(Edge(o, i), p)}) % 2 = 1
    BY <1>6 DEF Inside
  <2>2. Cardinality({i \in DOMAIN o : Crosses(Edge(o, i), p)}) % 2 = 1
    BY <1>6, <2>1, RaysAgree
  <2>3. PICK u \in 1..Len(o) : Over(Edge(o, u), p)
    BY <2>1, OddIsSome, OutlineCorners
  <2>4. PICK r \in 1..Len(o) : Crosses(Edge(o, r), p)
    BY <2>2, OddIsSome, OutlineCorners
  <2>5. \E i \in 1..Len(o) : (o[i][axis] > p[axis]) # (o[Following(i, Len(o))][axis] > p[axis])
    <3>1. CASE axis = 1
      BY <2>3, <3>1, OutlineCorners DEF Over
    <3>2. CASE axis = 2
      BY <2>4, <3>2, OutlineCorners DEF Crosses
    <3> QED BY <1>1, <3>1, <3>2
  <2>6. PICK i \in 1..Len(o) : (o[i][axis] > p[axis]) # (o[Following(i, Len(o))][axis] > p[axis])
    BY <2>5
  <2> DEFINE j == Following(i, Len(o))
  <2>7. j \in 1..Len(o)
    BY OutlineCorners
  <2> HIDE DEF j
  <2>8. \/ o[i][axis] <= p[axis] /\ p[axis] <= o[j][axis]
        \/ o[j][axis] <= p[axis] /\ p[axis] <= o[i][axis]
    BY <1>3, <2>6, <2>7 DEF j
  <2> QED BY <1>4, <2>7, <2>8
<1> QED BY <1>5, <1>6

\* What is inside the outline is inside it for the iterator.
LEMMA InsideIsInside ==
  ASSUME NEW o, IsOutline(o), NEW p \in Int \X Int, Inside(o, p)
  PROVE  IsPointInsidePolygon(o, p)
<1>1. CASE \E edge \in Edges(o) : Through(edge, p)
  <2>1. PICK edge \in Edges(o) : Through(edge, p)
    BY <1>1
  <2>2. PICK i \in 1..Len(o) : edge = Edge(o, i)
    BY OutlineCorners
  <2> DEFINE L == SquaredLength(edge)
             s == Side(edge, p)
             R == Resolution * Resolution
  <2>3. Resolution \in Nat \ {0} /\ R \in Nat \ {0}
    BY GridAssumption
  <2>4. L \in Int /\ L > 0 /\ s = 0
    <3> DEFINE j == Following(i, Len(o))
               dx == o[j][1] - o[i][1]
               dy == o[j][2] - o[i][2]
    <3>0. j \in 1..Len(o)
      BY OutlineCorners
    <3>1. dx \in Int /\ dy \in Int
      <4> HIDE DEF j
      <4>1. o[i][1] \in Int /\ o[i][2] \in Int /\ o[j][1] \in Int /\ o[j][2] \in Int
        BY <3>0, OutlineCorners
      <4> QED BY <4>1
    <3>2. L = dx * dx + dy * dy
      BY <2>2, SquaredLengthIs
    <3> HIDE DEF dx, dy
    <3> QED BY <2>1, <3>1, <3>2 DEF Through
  <2>5. 100 * s * s < R * L
    <3> HIDE DEF L, s, R
    <3> QED BY <2>3, <2>4
  <2>6. \A axis \in 1..2 :
          /\ 10 * p[axis] >= 10 * Least({edge[1][axis], edge[2][axis]}) - Resolution
          /\ 10 * p[axis] <= 10 * Greatest({edge[1][axis], edge[2][axis]}) + Resolution
    <3> TAKE axis \in 1..2
    <3> DEFINE a == edge[1][axis]
               b == edge[2][axis]
               c == p[axis]
    <3>1. a \in Int /\ b \in Int /\ c \in Int
      <4>1. axis = 1 \/ axis = 2
        OBVIOUS
      <4> QED BY <2>2, <4>1, OutlineCorners
    <3>2. Least({a, b}) <= c /\ Greatest({a, b}) >= c
      BY <2>1 DEF Through
    <3> HIDE DEF a, b, c
    <3>3. Least({a, b}) \in Int /\ Greatest({a, b}) \in Int
      BY <3>1, LeastOfTwo
    <3>4. 10 * c >= 10 * Least({a, b}) - Resolution /\ 10 * c <= 10 * Greatest({a, b}) + Resolution
      BY <2>3, <3>1, <3>2, <3>3
    <3> QED BY <3>4 DEF a, b, c
  <2>7. OnEdge(edge, p)
    BY <2>5, <2>6 DEF OnEdge
  <2> QED BY <2>1, <2>7 DEF IsPointInsidePolygon
<1>2. CASE ~\E edge \in Edges(o) : Through(edge, p)
  <2>1. Cardinality({i \in DOMAIN o : Over(Edge(o, i), p)}) % 2 = 1
    BY <1>2 DEF Inside
  <2>2. Cardinality({i \in DOMAIN o : Crosses(Edge(o, i), p)}) % 2 = 1
    BY <1>2, <2>1, RaysAgree
  <2> QED BY <2>2 DEF IsPointInsidePolygon
<1> QED BY <1>1, <1>2

\* A point within a tenth of an edge, as the iterator measures it, is nearer than a fifth to it.
LEMMA OnEdgeIsBeside ==
  ASSUME NEW o, IsOutline(o), NEW i \in 1..Len(o), NEW p \in Int \X Int, OnEdge(Edge(o, i), p)
  PROVE  Beside(Edge(o, i), p)
<1> DEFINE e == Edge(o, i)
           j == Following(i, Len(o))
           ax == o[i][1]
           ay == o[i][2]
           bx == o[j][1]
           by == o[j][2]
           x == p[1]
           y == p[2]
           wx == bx - ax
           wy == by - ay
           zx == x - ax
           zy == y - ay
           s == Side(e, p)
           tau == Along(e, p)
           F == SquaredLength(e)
           size == Resolution
<1>1. ax \in Int /\ ay \in Int /\ bx \in Int /\ by \in Int /\ x \in Int /\ y \in Int
  <2>1. j \in 1..Len(o)
    BY OutlineCorners
  <2> QED BY <2>1, OutlineCorners
<1>2. e[1] = o[i] /\ e[2] = o[j]
  BY OutlineCorners
<1>3. /\ 100 * s * s < size * size * F
      /\ 10 * x >= 10 * Least({ax, bx}) - size /\ 10 * x <= 10 * Greatest({ax, bx}) + size
      /\ 10 * y >= 10 * Least({ay, by}) - size /\ 10 * y <= 10 * Greatest({ay, by}) + size
  BY <1>2 DEF OnEdge
<1>4. F = wx * wx + wy * wy
  BY SquaredLengthIs
<1>5. tau = wx * zx + wy * zy
  BY <1>2 DEF Along
<1>6. s = wx * zy - wy * zx
  BY <1>2 DEF Side
<1>7. /\ SquaredLength(<<e[1], p>>) = zx * zx + zy * zy
      /\ SquaredLength(<<e[2], p>>) = (x - bx) * (x - bx) + (y - by) * (y - by)
  BY <1>2 DEF SquaredLength
<1>8. size \in Nat \ {0}
  BY GridAssumption
<1> HIDE DEF e, ax, ay, bx, by, x, y, s, tau, F, size, j
<1>9. /\ Least({ax, bx}) = (IF ax <= bx THEN ax ELSE bx) /\ Greatest({ax, bx}) = (IF ax >= bx THEN ax ELSE bx)
      /\ Least({ay, by}) = (IF ay <= by THEN ay ELSE by) /\ Greatest({ay, by}) = (IF ay >= by THEN ay ELSE by)
  BY <1>1, LeastOfTwo
<1>10. Close(size, wx, wy, zx, zy) /\ Close(size, 0 - wx, 0 - wy, zx - wx, zy - wy)
  <2>1. /\ 10 * x >= 10 * (IF ax <= bx THEN ax ELSE bx) - size
        /\ 10 * x <= 10 * (IF ax >= bx THEN ax ELSE bx) + size
        /\ 10 * y >= 10 * (IF ay <= by THEN ay ELSE by) - size
        /\ 10 * y <= 10 * (IF ay >= by THEN ay ELSE by) + size
    BY <1>3, <1>9
  <2>2. size \in Int
    BY <1>8
  <2>3. Close(size, wx, wy, zx, zy)
    BY ONLY <1>1, <2>1, <2>2 DEF Close, wx, wy, zx, zy
  <2>4. Close(size, 0 - wx, 0 - wy, zx - wx, zy - wy)
    BY ONLY <1>1, <2>1, <2>2 DEF Close, wx, wy, zx, zy
  <2> QED BY <2>3, <2>4
<1>11. wx \in Int /\ wy \in Int /\ zx \in Int /\ zy \in Int /\ x - bx = zx - wx /\ y - by = zy - wy
  BY <1>1
<1> HIDE DEF wx, wy, zx, zy
<1>12. s \in Int /\ tau \in Int /\ F \in Nat
  BY <1>4, <1>5, <1>6, <1>11
<1>13. F # 0
  <2>1. F = 0 => size * size * F = 0
    BY <1>8
  <2>2. 100 * s * s = 100 * (s * s) /\ s * s \in Nat
    BY <1>12
  <2> QED BY <1>3, <2>1, <2>2
<1>14. CASE tau < 0
  <2>1. 25 * (zx * zx + zy * zy) < size * size
    BY <1>3, <1>4, <1>5, <1>6, <1>8, <1>10, <1>11, <1>12, <1>13, <1>14, PastTheEnd
  <2>2. 25 * SquaredLength(<<e[1], p>>) < Resolution * Resolution
    BY <1>7, <2>1 DEF size
  <2> QED BY <2>2, 1 \in 1..2 DEF Beside, e
<1>15. CASE tau > F
  <2> DEFINE mx == 0 - wx
             my == 0 - wy
             yx == zx - wx
             yy == zy - wy
             r == 0 - s
             rho == F - tau
  <2>1. mx \in Int /\ my \in Int /\ yx \in Int /\ yy \in Int /\ r \in Int /\ rho \in Int
    BY <1>11, <1>12
  <2>2. F = mx * mx + my * my /\ r = mx * yy - my * yx /\ rho = mx * yx + my * yy
    BY <1>4, <1>5, <1>6, <1>11
  <2>3. 100 * r * r < size * size * F
    <3>1. r * r = s * s
      BY <1>12
    <3>2. 100 * r * r = 100 * (r * r) /\ 100 * s * s = 100 * (s * s)
      BY <1>12
    <3> QED BY <1>3, <3>1, <3>2
  <2>4. rho < 0
    BY <1>12, <1>15
  <2>5. Close(size, mx, my, yx, yy)
    BY <1>10
  <2>6. SquaredLength(<<e[2], p>>) = yx * yx + yy * yy
    BY <1>7, <1>11
  <2> HIDE DEF mx, my, yx, yy, r, rho
  <2>7. 25 * (yx * yx + yy * yy) < size * size
    BY <1>8, <1>12, <1>13, <2>1, <2>2, <2>3, <2>4, <2>5, PastTheEnd
  <2>8. 25 * SquaredLength(<<e[2], p>>) < Resolution * Resolution
    BY <2>6, <2>7 DEF size
  <2> QED BY <2>8, 2 \in 1..2 DEF Beside, e
<1>16. CASE 0 <= tau /\ tau <= F
  <2>1. tau \in 0..F
    BY <1>12, <1>16
  <2>2. 25 * s * s < size * size * F
    <3> DEFINE S == s * s
               R == size * size * F
    <3>1. 100 * s * s = 100 * S /\ 25 * s * s = 25 * S /\ S \in Nat /\ R \in Int
      BY <1>8, <1>12
    <3>2. 100 * S < R
      BY <1>3, <3>1
    <3> HIDE DEF S, R
    <3>3. 25 * S < R
      BY <3>1, <3>2
    <3> QED BY <3>1, <3>3 DEF R
  <2> QED BY <2>1, <2>2 DEF Beside, e, tau, F, s, size
<1> QED BY <1>12, <1>14, <1>15, <1>16 DEF e

\* What is inside the outline for the iterator is inside it or right beside an edge of it.
LEMMA HitIsNear ==
  ASSUME NEW o, IsOutline(o), NEW p \in Int \X Int, IsPointInsidePolygon(o, p)
  PROVE  Inside(o, p) \/ \E edge \in Edges(o) : Beside(edge, p)
<1>1. CASE \E edge \in Edges(o) : OnEdge(edge, p)
  <2>1. PICK i \in 1..Len(o) : OnEdge(Edge(o, i), p) /\ Edge(o, i) \in Edges(o)
    BY <1>1, OutlineCorners
  <2> QED BY <2>1, OnEdgeIsBeside
<1>2. CASE \E edge \in Edges(o) : Through(edge, p)
  BY <1>2 DEF Inside
<1>3. CASE ~(\E edge \in Edges(o) : OnEdge(edge, p)) /\ ~\E edge \in Edges(o) : Through(edge, p)
  <2>1. Cardinality({i \in DOMAIN o : Crosses(Edge(o, i), p)}) % 2 = 1
    BY <1>3 DEF IsPointInsidePolygon
  <2>2. Cardinality({i \in DOMAIN o : Over(Edge(o, i), p)}) % 2 = 1
    BY <1>3, <2>1, RaysAgree
  <2> QED BY <2>2 DEF Inside
<1> QED BY <1>1, <1>2, <1>3

-----------------------------------------------------------------------------
(* Cells and the points in them.                                            *)

\* The quotient by Resolution is the number of whole cells.
LEMMA DivIs ==
  ASSUME NEW n \in Int, NEW c \in Int
  PROVE  n \div Resolution = c <=> Resolution * c <= n /\ n < Resolution * (c + 1)
<1>1. Resolution \in Nat \ {0}
  BY GridAssumption
<1> DEFINE q == n \div Resolution
           r == n % Resolution
<1>2. q \in Int /\ r \in Nat /\ r < Resolution /\ n = Resolution * q + r
  BY <1>1
<1> HIDE DEF q, r
<1>3. Resolution * q <= n /\ n < Resolution * (q + 1)
  BY <1>1, <1>2
<1>4. ASSUME Resolution * c <= n, n < Resolution * (c + 1) PROVE q = c
  <2>1. Resolution * c < Resolution * (q + 1) /\ Resolution * q < Resolution * (c + 1)
    <3>1. Resolution * c \in Int /\ Resolution * q \in Int /\ Resolution * (q + 1) \in Int /\ Resolution * (c + 1) \in Int
      BY <1>1, <1>2
    <3> QED BY <1>3, <1>4, <3>1
  <2>2. c < q + 1 /\ q < c + 1
    BY <1>1, <1>2, <2>1, Cancel
  <2> QED BY <1>2, <2>2
<1> QED BY <1>3, <1>4 DEF q

\* In every stretch as long as a cell there is one of the iterator's steps.
LEMMA StepInReach ==
  ASSUME NEW lo \in Int, NEW x \in Int
  PROVE  \E n \in x..(x + Resolution - 1) : (n - lo) % Resolution = 0
<1>1. Resolution \in Nat \ {0}
  BY GridAssumption
<1> DEFINE q == (x - lo) \div Resolution
           r == (x - lo) % Resolution
<1>2. q \in Int /\ r \in Nat /\ r < Resolution /\ x - lo = Resolution * q + r
  BY <1>1
<1> HIDE DEF q, r
<1>3. CASE r = 0
  <2>1. x \in x..(x + Resolution - 1) /\ (x - lo) % Resolution = 0
    BY <1>1, <1>3 DEF r
  <2> QED BY <2>1
<1>4. CASE r # 0
  <2> DEFINE n == x + Resolution - r
             c == q + 1
  <2>1. n \in x..(x + Resolution - 1)
    BY <1>1, <1>2, <1>4
  <2>2. n - lo = Resolution * c /\ c \in Int
    BY <1>1, <1>2
  <2> HIDE DEF n, c
  <2>3. (Resolution * c) % Resolution = 0
    BY <1>1, <2>2
  <2> QED BY <2>1, <2>2, <2>3
<1> QED BY <1>3, <1>4

\* A point is in a cell if it is, on each axis, between its borders.
LEMMA CellOfIs ==
  ASSUME NEW origin \in Int \X Int, NEW p \in Int \X Int, NEW cell \in Int \X Int
  PROVE  CellOf(origin, p) = cell <=>
           \A axis \in 1..2 : /\ origin[axis] + Resolution * cell[axis] <= p[axis]
                              /\ p[axis] < origin[axis] + Resolution * (cell[axis] + 1)
<1>1. /\ origin[1] \in Int /\ origin[2] \in Int /\ p[1] \in Int /\ p[2] \in Int
      /\ cell[1] \in Int /\ cell[2] \in Int /\ cell = <<cell[1], cell[2]>>
  OBVIOUS
<1>2. CellOf(origin, p) = cell <=> /\ (p[1] - origin[1]) \div Resolution = cell[1]
                                   /\ (p[2] - origin[2]) \div Resolution = cell[2]
  BY <1>1 DEF CellOf
<1>3. Resolution \in Nat
  BY GridAssumption
<1>4. \A m, n, c \in Int : (n - m) \div Resolution = c <=> /\ m + Resolution * c <= n
                                                            /\ n < m + Resolution * (c + 1)
  <2> TAKE m \in Int, n \in Int, c \in Int
  <2> DEFINE k == n - m
  <2>1. k \in Int
    OBVIOUS
  <2>2. k \div Resolution = c <=> Resolution * c <= k /\ k < Resolution * (c + 1)
    <3> HIDE DEF k
    <3> QED BY <2>1, DivIs
  <2>3. Resolution * c \in Int /\ Resolution * (c + 1) \in Int
    BY <1>3
  <2> QED BY <2>2, <2>3
<1>5. \A axis \in 1..2 : axis = 1 \/ axis = 2
  OBVIOUS
<1>6. 1 \in 1..2 /\ 2 \in 1..2
  OBVIOUS
<1>7. (\A axis \in 1..2 : /\ origin[axis] + Resolution * cell[axis] <= p[axis]
                          /\ p[axis] < origin[axis] + Resolution * (cell[axis] + 1))
        <=> /\ origin[1] + Resolution * cell[1] <= p[1] /\ p[1] < origin[1] + Resolution * (cell[1] + 1)
            /\ origin[2] + Resolution * cell[2] <= p[2] /\ p[2] < origin[2] + Resolution * (cell[2] + 1)
  BY <1>5, <1>6, Zenon
<1>8. (p[1] - origin[1]) \div Resolution = cell[1]
        <=> origin[1] + Resolution * cell[1] <= p[1] /\ p[1] < origin[1] + Resolution * (cell[1] + 1)
  BY <1>1, <1>4, Zenon
<1>9. (p[2] - origin[2]) \div Resolution = cell[2]
        <=> origin[2] + Resolution * cell[2] <= p[2] /\ p[2] < origin[2] + Resolution * (cell[2] + 1)
  BY <1>1, <1>4, Zenon
<1> QED BY <1>2, <1>7, <1>8, <1>9, Zenon

\* The points of the cell whose bottom-left corner is (x, y).
LiesAt(origin, cell, x, y) ==
  /\ PointsOf(origin, cell) = (x..(x + Resolution - 1)) \X (y..(y + Resolution - 1))
  /\ \A p \in Int \X Int : CellOf(origin, p) = cell <=> p \in PointsOf(origin, cell)

LEMMA CornerOf ==
  ASSUME NEW origin \in Int \X Int, NEW cell \in Int \X Int
  PROVE  \E x \in Int, y \in Int : LiesAt(origin, cell, x, y)
<1>1. /\ origin[1] \in Int /\ origin[2] \in Int /\ cell[1] \in Int /\ cell[2] \in Int
  OBVIOUS
<1>2. Resolution \in Nat \ {0}
  BY GridAssumption
<1> DEFINE x == origin[1] + Resolution * cell[1]
           y == origin[2] + Resolution * cell[2]
<1>3. \A m, c \in Int : m + Resolution * c \in Int /\ m + Resolution * (c + 1) = (m + Resolution * c) + Resolution
  BY <1>2
<1>4. /\ x \in Int /\ y \in Int
      /\ origin[1] + Resolution * (cell[1] + 1) = x + Resolution
      /\ origin[2] + Resolution * (cell[2] + 1) = y + Resolution
  BY <1>1, <1>3
<1>5. PointsOf(origin, cell) = (x..(x + Resolution - 1)) \X (y..(y + Resolution - 1))
  <2>1. PointsOf(origin, cell) = {<<x + a, y + b>> : a \in 0..(Resolution - 1), b \in 0..(Resolution - 1)}
    BY DEF PointsOf
  <2> HIDE DEF x, y
  <2>2. ASSUME NEW p \in PointsOf(origin, cell)
        PROVE  p \in (x..(x + Resolution - 1)) \X (y..(y + Resolution - 1))
    <3>1. PICK a \in 0..(Resolution - 1), b \in 0..(Resolution - 1) : p = <<x + a, y + b>>
      BY <2>1
    <3>2. x + a \in x..(x + Resolution - 1) /\ y + b \in y..(y + Resolution - 1)
      BY <1>2, <1>4
    <3> QED BY <3>1, <3>2
  <2>3. ASSUME NEW c \in x..(x + Resolution - 1), NEW d \in y..(y + Resolution - 1)
        PROVE  <<c, d>> \in PointsOf(origin, cell)
    <3>1. /\ c - x \in 0..(Resolution - 1) /\ d - y \in 0..(Resolution - 1)
          /\ x + (c - x) = c /\ y + (d - y) = d
      BY <1>2, <1>4
    <3> QED BY <2>1, <3>1
  <2> QED BY <2>2, <2>3
<1>6. ASSUME NEW p \in Int \X Int
      PROVE  CellOf(origin, p) = cell <=> p \in PointsOf(origin, cell)
  <2>1. CellOf(origin, p) = cell <=>
           \A axis \in 1..2 : /\ origin[axis] + Resolution * cell[axis] <= p[axis]
                              /\ p[axis] < origin[axis] + Resolution * (cell[axis] + 1)
    BY CellOfIs
  <2>2. \A axis \in 1..2 : axis = 1 \/ axis = 2
    OBVIOUS
  <2>3. 1 \in 1..2 /\ 2 \in 1..2
    OBVIOUS
  <2>4. CellOf(origin, p) = cell <=>
           /\ x <= p[1] /\ p[1] < origin[1] + Resolution * (cell[1] + 1)
           /\ y <= p[2] /\ p[2] < origin[2] + Resolution * (cell[2] + 1)
    BY <2>1, <2>2, <2>3, Zenon
  <2> HIDE DEF x, y
  <2>5. p = <<p[1], p[2]>> /\ p[1] \in Int /\ p[2] \in Int
    OBVIOUS
  <2>6. p \in PointsOf(origin, cell) <=> /\ p[1] \in x..(x + Resolution - 1)
                                         /\ p[2] \in y..(y + Resolution - 1)
    BY <1>5, <2>5
  <2> QED BY <1>2, <1>4, <2>4, <2>5, <2>6
<1>7. LiesAt(origin, cell, x, y)
  <2> HIDE DEF x, y
  <2> QED BY <1>5, <1>6, Zenon DEF LiesAt
<1> QED BY <1>4, <1>7

-----------------------------------------------------------------------------
(* Areas and cells.                                                         *)

\* The borders of a grid are numbers.
LEMMA ExtentType ==
  ASSUME NEW A, NEW areas \in Seq(A), \A i \in DOMAIN areas : IsOutline(areas[i].outline), NEW axis \in 1..2
  PROVE  Least(Extent(areas, axis)) \in Int /\ Greatest(Extent(areas, axis)) \in Int
<1>1. Padding \in Int /\ DefaultReach \in Int
  BY GridAssumption
<1>2. Len(areas) \in Nat /\ DOMAIN areas = 1..Len(areas)
  BY LenProperties
<1>3. Least(Extent(areas, axis)) \in Int /\ Greatest(Extent(areas, axis)) \in Int
  <2>1. CASE areas = <<>>
    <3>1. Extent(areas, axis) = {0 - DefaultReach, DefaultReach}
      BY <1>1, <2>1 DEF Extent
    <3> DEFINE c == 0 - DefaultReach
    <3>2. Least({c, DefaultReach}) \in Int /\ Greatest({c, DefaultReach}) \in Int
      <4>1. c \in Int
        BY <1>1
      <4> HIDE DEF c
      <4> QED BY <1>1, <4>1, LeastOfTwo
    <3> QED BY <3>1, <3>2
  <2>2. CASE areas # <<>>
    <3> DEFINE all == UNION {Coordinates(areas[i].outline, axis) : i \in DOMAIN areas}
               f == [i \in 1..Len(areas) |-> Least(Coordinates(areas[i].outline, axis))]
               g == [i \in 1..Len(areas) |-> Greatest(Coordinates(areas[i].outline, axis))]
    <3>1. Extent(areas, axis) = {Least(all) - Padding, Greatest(all) + Padding}
      BY <2>2, Zenon DEF Extent
    <3>2. Len(areas) > 0
      BY <1>2, <2>2, EmptySeq, LenProperties
    <3>3. ASSUME NEW i \in 1..Len(areas)
          PROVE  /\ Least(Coordinates(areas[i].outline, axis)) \in Coordinates(areas[i].outline, axis)
                 /\ Greatest(Coordinates(areas[i].outline, axis)) \in Coordinates(areas[i].outline, axis)
                 /\ \A b \in Coordinates(areas[i].outline, axis) :
                      /\ b \in Int /\ Least(Coordinates(areas[i].outline, axis)) <= b
                      /\ b <= Greatest(Coordinates(areas[i].outline, axis))
      <4> DEFINE o == areas[i].outline
      <4>1. IsOutline(o)
        BY <1>2
      <4> HIDE DEF o
      <4>2. DOMAIN o = 1..Len(o) /\ \A k \in 1..Len(o) : o[k][1] \in Int /\ o[k][2] \in Int
        BY <4>1, OutlineCorners
      <4>3. Coordinates(o, axis) = {o[k][axis] : k \in 1..Len(o)}
        BY <4>2 DEF Coordinates
      <4>4. \A k \in 1..Len(o) : Least(Coordinates(o, axis)) <= o[k][axis] /\ o[k][axis] <= Greatest(Coordinates(o, axis))
        BY <4>1, Box
      <4>5. (\E k \in 1..Len(o) : o[k][axis] = Least(Coordinates(o, axis)))
              /\ (\E k \in 1..Len(o) : o[k][axis] = Greatest(Coordinates(o, axis)))
        BY <4>1, Box
      <4>6. \A k \in 1..Len(o) : o[k][axis] \in Int
        <5>1. axis = 1 \/ axis = 2
          OBVIOUS
        <5> QED BY <4>2, <5>1
      <4>7. /\ Least(Coordinates(o, axis)) \in Coordinates(o, axis)
            /\ Greatest(Coordinates(o, axis)) \in Coordinates(o, axis)
            /\ \A b \in Coordinates(o, axis) :
                 /\ b \in Int /\ Least(Coordinates(o, axis)) <= b
                 /\ b <= Greatest(Coordinates(o, axis))
        BY <4>3, <4>4, <4>5, <4>6
      <4> QED BY <4>7 DEF o
    <3>4. f \in [1..Len(areas) -> Int] /\ g \in [1..Len(areas) -> Int]
      BY <3>3
    <3>5. \A i \in 1..Len(areas) :
             /\ f[i] = Least(Coordinates(areas[i].outline, axis))
             /\ g[i] = Greatest(Coordinates(areas[i].outline, axis))
      OBVIOUS
    <3> HIDE DEF f, g
    <3>6. PICK l \in 1..Len(areas) : \A j \in 1..Len(areas) : f[l] <= f[j]
      BY <1>2, <3>2, <3>4, ListHasExtremes
    <3>7. PICK h \in 1..Len(areas) : \A j \in 1..Len(areas) : g[h] >= g[j]
      BY <1>2, <3>2, <3>4, ListHasExtremes
    <3>8. \A b \in all : \E i \in 1..Len(areas) : b \in Coordinates(areas[i].outline, axis)
      BY <1>2
    <3>9. f[l] \in all /\ g[h] \in all
      BY <1>2, <3>3, <3>5, <3>6, <3>7
    <3>10. \A b \in all : b \in Int /\ f[l] <= b /\ b <= g[h]
      <4> TAKE b \in all
      <4>1. PICK i \in 1..Len(areas) : b \in Coordinates(areas[i].outline, axis)
        BY <3>8
      <4>2. b \in Int /\ f[i] <= b /\ b <= g[i] /\ f[l] <= f[i] /\ g[i] <= g[h]
        BY <3>3, <3>5, <3>6, <3>7, <4>1
      <4>3. f[i] \in Int /\ g[i] \in Int /\ f[l] \in Int /\ g[h] \in Int
        BY <3>4
      <4> QED BY <4>2, <4>3
    <3> HIDE DEF all
    <3>11. Least(all) \in all
      <4>1. \E a \in all : \A b \in all : a <= b
        BY <3>9, <3>10
      <4> QED BY <4>1, Zenon DEF Least
    <3>12. Greatest(all) \in all
      <4>1. \E a \in all : \A b \in all : a >= b
        <5>1. \A b \in all : g[h] >= b
          BY <3>10
        <5> QED BY <3>9, <5>1
      <4> QED BY <4>1, Zenon DEF Greatest
    <3>13. Least(all) - Padding \in Int /\ Greatest(all) + Padding \in Int
      BY <1>1, <3>10, <3>11, <3>12
    <3> DEFINE a == Least(all) - Padding
               b == Greatest(all) + Padding
    <3> HIDE DEF a, b
    <3>14. Least({a, b}) \in Int /\ Greatest({a, b}) \in Int
      <4>1. a \in Int /\ b \in Int
        BY <3>13 DEF a, b
      <4> QED BY <4>1, LeastOfTwo
    <3> QED BY <3>1, <3>14 DEF a, b
  <2> QED BY <2>1, <2>2
<1> QED BY <1>3

\* The origin of a grid is a point, and there are finitely many cells.
LEMMA GridType ==
  ASSUME NEW A, NEW areas \in Seq(A), \A i \in DOMAIN areas : IsOutline(areas[i].outline)
  PROVE  /\ Origin(areas) \in Int \X Int
         /\ Cells(areas) \subseteq Nat \X Nat /\ IsFiniteSet(Cells(areas))
<1>1. 1 \in 1..2 /\ 2 \in 1..2
  OBVIOUS
<1>2. ASSUME NEW axis \in 1..2 PROVE CellCount(areas, axis) \in Int
  <2> DEFINE lo == Least(Extent(areas, axis))
             hi == Greatest(Extent(areas, axis))
             cells == (hi - lo) \div Resolution
             n == Least({MaxCells, cells})
  <2>1. lo \in Int /\ hi \in Int
    BY ExtentType
  <2>2. Resolution \in Nat \ {0} /\ MaxCells \in Int /\ MinCells \in Int
    BY GridAssumption
  <2>3. CellCount(areas, axis) = Greatest({MinCells, n})
    BY DEF CellCount
  <2> HIDE DEF lo, hi
  <2>4. cells \in Int
    BY <2>1, <2>2
  <2> HIDE DEF cells
  <2>5. n \in Int
    BY <2>2, <2>4, LeastOfTwo
  <2> HIDE DEF n
  <2>6. Greatest({MinCells, n}) \in Int
    BY <2>2, <2>5, LeastOfTwo
  <2> QED BY <2>3, <2>6
<1> DEFINE c == CellCount(areas, 1)
           d == CellCount(areas, 2)
<1>3. c \in Int /\ d \in Int
  BY <1>1, <1>2
<1>4. Cells(areas) = (0..(c - 1)) \X (0..(d - 1))
  BY DEF Cells
<1> HIDE DEF c, d
<1>5. Cells(areas) \subseteq Nat \X Nat
  BY <1>3, <1>4
<1>6. IsFiniteSet(Cells(areas))
  <2>1. IsFiniteSet(0..(c - 1)) /\ IsFiniteSet(0..(d - 1))
    BY <1>3, FS_Interval
  <2> QED BY <1>4, <2>1, FS_Product
<1>7. Origin(areas) \in Int \X Int
  <2>1. Least(Extent(areas, 1)) \in Int /\ Least(Extent(areas, 2)) \in Int
    BY <1>1, ExtentType
  <2> QED BY <2>1 DEF Origin
<1> QED BY <1>5, <1>6, <1>7

\* A cell that an area covers holds a point the iterator stops at, unless it is the cell of the
\* corner the iterator passes over.
LEMMA CoveredIsVisited ==
  ASSUME NEW o, IsOutline(o), NEW origin \in Int \X Int, NEW cell \in Int \X Int,
         Covers(o, origin, cell), cell # Skipped(o, origin)
  PROVE  \E p \in Visited(o) : CellOf(origin, p) = cell
<1>1. Resolution \in Nat \ {0}
  BY GridAssumption
<1>2. PICK x \in Int, y \in Int : LiesAt(origin, cell, x, y)
  BY CornerOf
<1>3. /\ PointsOf(origin, cell) = (x..(x + Resolution - 1)) \X (y..(y + Resolution - 1))
      /\ \A p \in Int \X Int : CellOf(origin, p) = cell <=> p \in PointsOf(origin, cell)
  BY <1>2 DEF LiesAt
<1> DEFINE lx == Least(Coordinates(o, 1))
           gx == Greatest(Coordinates(o, 1))
           ly == Least(Coordinates(o, 2))
           gy == Greatest(Coordinates(o, 2))
<1>4. lx \in Int /\ gx \in Int /\ ly \in Int /\ gy \in Int
  BY Box
<1>5. \A p \in PointsOf(origin, cell) : p \in Int \X Int /\ Inside(o, p)
  BY <1>3 DEF Covers
<1>6. \A p \in PointsOf(origin, cell) : lx <= p[1] /\ p[1] <= gx /\ ly <= p[2] /\ p[2] <= gy
  <2> TAKE p \in PointsOf(origin, cell)
  <2>1. p \in Int \X Int /\ Inside(o, p)
    BY <1>5
  <2>2. 1 \in 1..2 /\ 2 \in 1..2
    OBVIOUS
  <2>3. lx <= p[1] /\ p[1] <= gx
    BY <2>1, <2>2, InsideTheBox
  <2>4. ly <= p[2] /\ p[2] <= gy
    BY <2>1, <2>2, InsideTheBox
  <2> QED BY <2>3, <2>4
<1>7. PICK px \in x..(x + Resolution - 1) : (px - lx) % Resolution = 0
  BY <1>4, StepInReach
<1>8. PICK py \in y..(y + Resolution - 1) : (py - ly) % Resolution = 0
  BY <1>4, StepInReach
<1> DEFINE p == <<px, py>>
<1>9. p \in Int \X Int /\ p[1] = px /\ p[2] = py /\ px \in Int /\ py \in Int
  BY <1>1
<1>10. p \in PointsOf(origin, cell)
  BY <1>3
<1> HIDE DEF p
<1>11. CellOf(origin, p) = cell
  BY <1>3, <1>9, <1>10
<1>12. px \in Steps(Coordinates(o, 1)) /\ py \in Steps(Coordinates(o, 2))
  <2>1. px \in lx..gx /\ py \in ly..gy
    <3> HIDE DEF lx, gx, ly, gy
    <3>1. lx <= px /\ px <= gx /\ ly <= py /\ py <= gy
      BY <1>6, <1>9, <1>10
    <3> QED BY <1>4, <1>9, <3>1
  <2> QED BY <1>7, <1>8, <2>1 DEF Steps
<1>13. IsPointInsidePolygon(o, p)
  BY <1>5, <1>10, InsideIsInside
<1>14. p # MinCorner(o)
  BY <1>11 DEF Skipped
<1>15. p \in Visited(o)
  <2>1. p \in Steps(Coordinates(o, 1)) \X Steps(Coordinates(o, 2))
    BY <1>12 DEF p
  <2> QED BY <1>13, <1>14, <2>1 DEF Visited
<1> QED BY <1>11, <1>15

\* A cell that holds a point the iterator stops at is one the area reaches.
LEMMA VisitedIsReached ==
  ASSUME NEW o, IsOutline(o), NEW origin \in Int \X Int, NEW p \in Visited(o), NEW cell \in Int \X Int,
         cell = CellOf(origin, p)
  PROVE  Reaches(o, origin, cell)
<1>1. p \in Steps(Coordinates(o, 1)) \X Steps(Coordinates(o, 2)) /\ IsPointInsidePolygon(o, p)
  BY DEF Visited
<1>2. p \in Int \X Int
  <2>1. Steps(Coordinates(o, 1)) \subseteq Int /\ Steps(Coordinates(o, 2)) \subseteq Int
    BY DEF Steps
  <2> QED BY <1>1, <2>1
<1>3. Inside(o, p) \/ \E edge \in Edges(o) : Beside(edge, p)
  BY <1>1, <1>2, HitIsNear
<1>4. p \in PointsOf(origin, cell)
  <2>1. PICK x \in Int, y \in Int : LiesAt(origin, cell, x, y)
    BY CornerOf
  <2> QED BY <1>2, <2>1 DEF LiesAt
<1> QED BY <1>3, <1>4 DEF Reaches

\* What an area covers it touches, but for the cell passed over, and what it touches it reaches.
LEMMA CoveredIsTouched ==
  ASSUME NEW A, NEW areas \in Seq(A), \A i \in DOMAIN areas : IsOutline(areas[i].outline),
         NEW cell \in Cells(areas), NEW i \in DOMAIN areas
  PROVE  /\ Covers(areas[i].outline, Origin(areas), cell) /\ cell # Skipped(areas[i].outline, Origin(areas))
              => cell \in Touched(areas, i)
         /\ cell \in Touched(areas, i) => Reaches(areas[i].outline, Origin(areas), cell)
<1> DEFINE o == areas[i].outline
           origin == Origin(areas)
<1>1. origin \in Int \X Int /\ cell \in Int \X Int /\ IsOutline(o)
  BY GridType
<1>2. Touched(areas, i) = {CellOf(origin, p) : p \in Visited(o)}
  BY DEF Touched
<1> HIDE DEF o, origin
<1>3. ASSUME Covers(o, origin, cell), cell # Skipped(o, origin)
      PROVE  cell \in Touched(areas, i)
  BY <1>1, <1>2, <1>3, CoveredIsVisited
<1>4. ASSUME cell \in Touched(areas, i)
      PROVE  Reaches(o, origin, cell)
  <2>1. PICK p \in Visited(o) : cell = CellOf(origin, p)
    BY <1>2, <1>4
  <2> QED BY <1>1, <2>1, VisitedIsReached
<1> QED BY <1>3, <1>4 DEF o, origin

\* What the outlines say of a cell, and what is on the grid before the blur.
LEMMA FilledIsRight ==
  ASSUME NEW A, NEW areas \in Seq(A), \A i \in DOMAIN areas : IsOutline(areas[i].outline),
         NEW cell \in Cells(areas)
  PROVE  CellIsRight(areas, cell, ValueOf(areas, cell))
<1> DEFINE origin == Origin(areas)
           v == ValueOf(areas, cell)
           Hit(i) == cell \in Touched(areas, i)
           Banned(i) == areas[i].type = Exclusion
<1>1. \A i \in DOMAIN areas :
        /\ Covers(areas[i].outline, origin, cell) /\ cell # Skipped(areas[i].outline, origin) => Hit(i)
        /\ Hit(i) => Reaches(areas[i].outline, origin, cell)
  BY CoveredIsTouched
<1>2. v = IF \E i \in DOMAIN areas : Banned(i) /\ Hit(i) THEN Occupied
          ELSE IF \E i \in DOMAIN areas : Hit(i) THEN Free ELSE Unknown
  BY Zenon DEF ValueOf
<1>3. Occupied # Free /\ Occupied # Unknown /\ Free # Unknown
  BY DEF Occupied, Free, Unknown
<1> HIDE DEF v, Hit, Banned
<1>4. /\ \A outline \in OutlinesOf(areas, TRUE) : \E i \in DOMAIN areas : Banned(i) /\ outline = areas[i].outline
      /\ \A outline \in OutlinesOf(areas, FALSE) : \E i \in DOMAIN areas : ~Banned(i) /\ outline = areas[i].outline
      /\ \A i \in DOMAIN areas : /\ Banned(i) => areas[i].outline \in OutlinesOf(areas, TRUE)
                                 /\ ~Banned(i) => areas[i].outline \in OutlinesOf(areas, FALSE)
  BY DEF OutlinesOf, Banned
<1>5. Covered(areas, TRUE, cell) => v = Occupied
  BY <1>1, <1>2, <1>4 DEF Covered
<1>6. Covered(areas, FALSE, cell) => v # Unknown
  BY <1>1, <1>2, <1>3, <1>4 DEF Covered
<1>7. v = Occupied => Reached(areas, TRUE, cell)
  BY <1>1, <1>2, <1>3, <1>4 DEF Reached
<1>8. v = Free => Reached(areas, FALSE, cell)
  BY <1>1, <1>2, <1>3, <1>4 DEF Reached
<1>9. v \in {Unknown, Free, Occupied}
  BY <1>2
<1> QED BY <1>5, <1>6, <1>7, <1>8, <1>9 DEF CellIsRight, v

\* What is on the grid after the blur.
LEMMA BlurredIsRight ==
  ASSUME NEW A, NEW areas \in Seq(A), \A i \in DOMAIN areas : IsOutline(areas[i].outline),
         NEW grid, grid = [cell \in Cells(areas) |-> ValueOf(areas, cell)], NEW cell \in Cells(areas)
  PROVE  BlurredCellIsRight(areas, Window(grid, cell), cell, Blur(grid)[cell])
<1> DEFINE around == Window(grid, cell)
           seen == {Pixel(grid[other]) : other \in around}
           m == Mean(grid, cell)
           v == Blur(grid)[cell]
<1>1. DOMAIN grid = Cells(areas) /\ \A other \in Cells(areas) : grid[other] = ValueOf(areas, other)
  OBVIOUS
<1>2. \A other \in Cells(areas) : CellIsRight(areas, other, grid[other])
  BY <1>1, FilledIsRight
<1>3. Unknown = -1 /\ Free = 0 /\ Occupied = 100
  BY DEF Unknown, Free, Occupied
<1>a. \A other \in Cells(areas) :
        /\ grid[other] \in {Unknown, Free, Occupied}
        /\ Covered(areas, TRUE, other) => grid[other] = Occupied
        /\ Covered(areas, FALSE, other) => grid[other] # Unknown
        /\ grid[other] = Occupied => Reached(areas, TRUE, other)
        /\ grid[other] = Free => Reached(areas, FALSE, other)
  BY <1>2, Zenon DEF CellIsRight
<1>4. Blurrable(grid)
  <2>1. \A other \in Cells(areas) : grid[other] \in {Unknown} \union Free..Occupied
    <3>1. {Unknown, Free, Occupied} \subseteq {Unknown} \union Free..Occupied
      BY ONLY <1>3
    <3>2. \A other \in Cells(areas) : grid[other] \in {Unknown, Free, Occupied}
      BY ONLY <1>a, Zenon
    <3> QED BY ONLY <3>1, <3>2, Zenon
  <2>2. grid \in [Cells(areas) -> {Unknown} \union Free..Occupied]
    BY <2>1
  <2> QED BY <1>1, <2>2, GridType DEF Blurrable
<1>5. around \subseteq Cells(areas) /\ cell \in around
  <2>1. \A axis \in 1..2 : cell[axis] \in Nat
    BY GridType
  <2>2. \A axis \in 1..2 : cell[axis] - cell[axis] \in (-Half)..Half
    BY <2>1, KernelShape
  <2> QED BY <1>1, <2>2 DEF Window
<1>6. m \in Least(seen)..Greatest(seen)
  <2>1. cell \in DOMAIN grid
    BY <1>1
  <2>2. LET s == {Pixel(grid[other]) : other \in Window(grid, cell)}
        IN  Mean(grid, cell) \in Least(s)..Greatest(s)
    BY ONLY <1>4, <2>1, MeanBetween
  <2> QED BY <2>2
<1>7. v = IF grid[cell] = Unknown THEN Unknown ELSE m
  BY <1>1 DEF Blur
<1>8. seen # {} /\ seen \subseteq {Free, Occupied}
  <2>1. \A other \in around : Pixel(grid[other]) \in {Free, Occupied}
    BY <1>5, <1>a DEF Pixel
  <2> QED BY <1>5, <2>1
<1>9. /\ seen \subseteq {Free} => m = Free
      /\ seen \subseteq {Occupied} => m = Occupied
      /\ m \in Free..Occupied
  <2> HIDE DEF seen, m
  <2>1. seen = {Free} \/ seen = {Occupied} \/ seen = {Free, Occupied}
    BY <1>8
  <2>2. Least({Free, Free}) = 0 /\ Greatest({Free, Free}) = 0
    BY <1>3, LeastOfTwo
  <2>3. Least({Occupied, Occupied}) = 100 /\ Greatest({Occupied, Occupied}) = 100
    BY <1>3, LeastOfTwo
  <2>4. Least({Free, Occupied}) = 0 /\ Greatest({Free, Occupied}) = 100
    BY <1>3, LeastOfTwo
  <2>5. {Free, Free} = {Free} /\ {Occupied, Occupied} = {Occupied}
    OBVIOUS
  <2>6. CASE seen = {Free}
    <3>1. Least(seen) = 0 /\ Greatest(seen) = 0
      BY ONLY <2>2, <2>5, <2>6, Zenon
    <3>2. m \in 0..0
      BY ONLY <1>6, <3>1, Zenon
    <3> QED BY ONLY <1>3, <2>6, <3>2
  <2>7. CASE seen = {Occupied}
    <3>1. Least(seen) = 100 /\ Greatest(seen) = 100
      BY ONLY <2>3, <2>5, <2>7, Zenon
    <3>2. m \in 100..100
      BY ONLY <1>6, <3>1, Zenon
    <3> QED BY ONLY <1>3, <2>7, <3>2
  <2>8. CASE seen = {Free, Occupied}
    BY ONLY <1>3, <1>6, <2>4, <2>8
  <2> QED BY <2>1, <2>6, <2>7, <2>8
<1> HIDE DEF m, v, around, seen
<1>10. v \in {Unknown} \union Free..Occupied
  BY <1>7, <1>9
<1>11. Covered(areas, TRUE, cell) \/ Covered(areas, FALSE, cell) => v # Unknown
  <2>1. Covered(areas, TRUE, cell) \/ Covered(areas, FALSE, cell) => grid[cell] # Unknown
    <3>1. Free # Unknown /\ Occupied # Unknown
      BY ONLY <1>3
    <3> QED BY ONLY <1>a, <3>1, cell \in Cells(areas), Zenon
  <2>2. m # Unknown
    BY <1>3, <1>9
  <2> QED BY <1>7, <2>1, <2>2
<1>12. v # Unknown => Reached(areas, TRUE, cell) \/ Reached(areas, FALSE, cell)
  <2>1. grid[cell] # Unknown => Reached(areas, TRUE, cell) \/ Reached(areas, FALSE, cell)
    BY ONLY <1>3, <1>a, cell \in Cells(areas)
  <2> QED BY <1>7, <2>1
<1>13. ASSUME \A other \in around : Covered(areas, TRUE, other)
       PROVE  v = Occupied
  <2>1. \A other \in around : grid[other] = Occupied
    BY <1>5, <1>13, <1>a
  <2>2. seen \subseteq {Occupied}
    <3>1. \A other \in around : Pixel(grid[other]) = Occupied
      BY <1>3, <2>1 DEF Pixel
    <3> QED BY <3>1 DEF seen
  <2> QED BY <1>3, <1>5, <1>7, <1>9, <2>1, <2>2
<1>14. ASSUME \A other \in around : Covered(areas, FALSE, other) /\ ~Reached(areas, TRUE, other)
       PROVE  v = Free
  <2>1. \A other \in around : grid[other] = Free
    BY <1>5, <1>14, <1>a
  <2>2. seen \subseteq {Free}
    <3>1. \A other \in around : Pixel(grid[other]) = Free
      BY <1>3, <2>1 DEF Pixel
    <3> QED BY <3>1 DEF seen
  <2> QED BY <1>3, <1>5, <1>7, <1>9, <2>1, <2>2
<1> QED BY <1>10, <1>11, <1>12, <1>13, <1>14 DEF BlurredCellIsRight, v, around

\* The published grid of any areas says what their outlines say, whatever shape they have, whichever
\* way round they run and whether or not they repeat a corner: a cell that an exclusion covers is
\* occupied and one that another area covers is known, and no cell is occupied or free that the areas
\* that would make it so do not reach; and what the blur of a server that blurs may make of that
\* (mapToOccupancyGrid, fillGridWithPolygon, the iterator's isPointInsidePolygon, the filter's apply).
THEOREM GridCorrect ==
  ASSUME NEW A, NEW areas \in Seq(A), \A i \in DOMAIN areas : IsOutline(areas[i].outline),
         NEW blurred \in BOOLEAN
  PROVE  GridIsRight(areas, blurred)
<1> DEFINE filled == [cell \in Cells(areas) |-> ValueOf(areas, cell)]
<1>1. ASSUME NEW order \in Orders(areas)
      PROVE  LET grid == MapToOccupancyGrid(areas, order, blurred)
             IN  \A cell \in DOMAIN grid :
                   IF blurred THEN BlurredCellIsRight(areas, Window(grid, cell), cell, grid[cell])
                   ELSE CellIsRight(areas, cell, grid[cell])
  <2>1. Grid(areas, order) = filled
    BY GridMeaning
  <2>2. CASE blurred
    <3>1. MapToOccupancyGrid(areas, order, blurred) = Blur(filled)
      BY <2>1, <2>2 DEF MapToOccupancyGrid
    <3>2. DOMAIN Blur(filled) = Cells(areas)
      BY DEF Blur
    <3>3. \A cell : Window(Blur(filled), cell) = Window(filled, cell)
      BY <3>2 DEF Window
    <3>4. ASSUME NEW cell \in Cells(areas)
          PROVE  BlurredCellIsRight(areas, Window(filled, cell), cell, Blur(filled)[cell])
      <4> DEFINE grid == filled
      <4>1. grid = [c \in Cells(areas) |-> ValueOf(areas, c)]
        OBVIOUS
      <4> HIDE DEF grid
      <4>2. BlurredCellIsRight(areas, Window(grid, cell), cell, Blur(grid)[cell])
        BY <4>1, BlurredIsRight
      <4> QED BY <4>2 DEF grid
    <3> HIDE DEF filled
    <3> QED BY <2>2, <3>1, <3>2, <3>3, <3>4
  <2>3. CASE ~blurred
    <3>1. MapToOccupancyGrid(areas, order, blurred) = filled
      BY <2>1, <2>3 DEF MapToOccupancyGrid
    <3>2. \A cell \in Cells(areas) : CellIsRight(areas, cell, filled[cell])
      BY FilledIsRight
    <3>3. DOMAIN filled = Cells(areas)
      OBVIOUS
    <3> HIDE DEF filled
    <3> QED BY <2>3, <3>1, <3>2, <3>3
  <2> QED BY <2>2, <2>3
<1> QED BY <1>1, Zenon DEF GridIsRight

\* Every map of the server has outlines.
LEMMA DrawnHasOutlines ==
  ASSUME NEW m \in Maps
  PROVE  /\ Drawn(m) \in Seq([outline: Seq(Int \X Int), type: Nat])
         /\ \A i \in DOMAIN Drawn(m) : IsOutline(Drawn(m)[i].outline)
<1> DEFINE n == Len(m.areas)
           S == [outline: Seq(Int \X Int), type: Nat]
           d == [i \in 1..n |-> [outline |-> Outlines[m.areas[i].shape], type |-> m.areas[i].type]]
<1>1. m.areas \in Seq(Areas)
  BY DEF Maps
<1>2. n \in Nat /\ DOMAIN m.areas = 1..n /\ \A i \in 1..n : m.areas[i] \in Areas
  BY <1>1, LenProperties, ElementOfSeq
<1>3. \A i \in 1..n : m.areas[i].shape \in Shapes /\ m.areas[i].type \in Nat
  <2>1. AreaTypes \union {0} \subseteq Nat
    BY MapServerAssumption
  <2> QED BY <1>2, <2>1 DEF Areas
<1>4. \A shape \in Shapes : IsOutline(Outlines[shape]) /\ Outlines[shape] \in Seq(Int \X Int)
  BY MapGridAssumption DEF IsOutline
<1>5. Drawn(m) = d
  BY <1>2 DEF Drawn
<1>6. d \in [1..n -> S]
  BY <1>3, <1>4
<1>7. \A T : \A k \in Nat : \A g \in [1..k -> T] : g \in Seq(T) /\ DOMAIN g = 1..k
  OBVIOUS
<1>8. \A i \in 1..n : d[i].outline = Outlines[m.areas[i].shape]
  OBVIOUS
<1> HIDE DEF n, S, d
<1>9. d \in Seq(S) /\ DOMAIN d = 1..n
  BY <1>2, <1>6, <1>7
<1> QED BY <1>3, <1>4, <1>5, <1>8, <1>9 DEF S

\* In a run of the server every published grid has every exclusion on it, and nothing that no area
\* accounts for, whatever requests and faults came before (mapToOccupancyGrid, and
\* publishMap, which publishes what it returns).
THEOREM ExclusionAlwaysWins == Spec => []ExclusionWins
<1>1. AllGridsRight
  BY MapGridAssumption, GridCorrect DEF AllGridsRight
<1>2. TypeOK => ExclusionWins
  <2> SUFFICES ASSUME TypeOK, topic["grid"] # NoMap PROVE GridIsRight(Drawn(topic["grid"]), Blurring)
    BY <1>1 DEF ExclusionWins
  <2>1. topic["grid"] \in Maps
    BY DEF TypeOK, Topics
  <2>2. Blurring \in BOOLEAN
    BY DEF Blurring
  <2> QED BY <2>1, <2>2, DrawnHasOutlines, GridCorrect
<1>3. QED
  BY <1>2, TypeCorrect, PTL
=============================================================================
