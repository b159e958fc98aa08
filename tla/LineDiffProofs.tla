--------------------------- MODULE LineDiffProofs ---------------------------
(***************************************************************************)
(* Theorems about the comparison of two payloads, for texts of any length  *)
(* over any characters: the changes explain the one by the other, and as   *)
(* many lines are equal as can be.  The table and the walk are recursive   *)
(* functions of two numbers; what they have is shown cell by cell, from    *)
(* the last cell back.                                                     *)
(***************************************************************************)
EXTENDS LineDiff, InductionProofs, SequenceTheorems

-----------------------------------------------------------------------------
(* Tables.  A table has A + 1 rows and B + 1 columns; the cells of the     *)
(* last row and of the last column are its edge.                           *)
Cells(A, B) == (1..A + 1) \X (1..B + 1)

Inner(x, A, B) == x[1] <= A /\ x[2] <= B

Below(x) == <<x[1] + 1, x[2]>>
Beside(x) == <<x[1], x[2] + 1>>
Across(x) == <<x[1] + 1, x[2] + 1>>

(* The steps from a cell to the last one.                                  *)
Steps(x, A, B) == (A + 1 - x[1]) + (B + 1 - x[2])

LEMMA CellSteps ==
  ASSUME NEW A \in Nat, NEW B \in Nat, NEW x \in Cells(A, B)
  PROVE  /\ Steps(x, A, B) \in Nat
         /\ x[1] <= A => Below(x) \in Cells(A, B) /\ Steps(Below(x), A, B) + 1 = Steps(x, A, B)
         /\ x[2] <= B => Beside(x) \in Cells(A, B) /\ Steps(Beside(x), A, B) + 1 = Steps(x, A, B)
         /\ Inner(x, A, B) => Across(x) \in Cells(A, B) /\ Steps(Across(x), A, B) + 2 = Steps(x, A, B)
<1> DEFINE i == x[1]
           j == x[2]
<1>1. i \in 1..A + 1 /\ j \in 1..B + 1
  BY DEF Cells
<1>2. /\ Below(x) = <<i + 1, j>> /\ Beside(x) = <<i, j + 1>> /\ Across(x) = <<i + 1, j + 1>>
      /\ Inner(x, A, B) <=> i <= A /\ j <= B
  BY DEF Below, Beside, Across, Inner
<1>3. /\ Steps(x, A, B) = (A + 1 - i) + (B + 1 - j)
      /\ Steps(<<i + 1, j>>, A, B) = (A + 1 - (i + 1)) + (B + 1 - j)
      /\ Steps(<<i, j + 1>>, A, B) = (A + 1 - i) + (B + 1 - (j + 1))
      /\ Steps(<<i + 1, j + 1>>, A, B) = (A + 1 - (i + 1)) + (B + 1 - (j + 1))
  BY DEF Steps
<1> HIDE DEF i, j
<1>4. Steps(x, A, B) \in Nat
  BY <1>1, <1>3
<1>5. i <= A => <<i + 1, j>> \in Cells(A, B) /\ Steps(<<i + 1, j>>, A, B) + 1 = Steps(x, A, B)
  <2>1. i <= A => <<i + 1, j>> \in Cells(A, B)
    BY <1>1 DEF Cells
  <2>2. Steps(<<i + 1, j>>, A, B) + 1 = Steps(x, A, B)
    BY <1>1, <1>3
  <2> QED BY <2>1, <2>2
<1>6. j <= B => <<i, j + 1>> \in Cells(A, B) /\ Steps(<<i, j + 1>>, A, B) + 1 = Steps(x, A, B)
  <2>1. j <= B => <<i, j + 1>> \in Cells(A, B)
    BY <1>1 DEF Cells
  <2>2. Steps(<<i, j + 1>>, A, B) + 1 = Steps(x, A, B)
    BY <1>1, <1>3
  <2> QED BY <2>1, <2>2
<1>7. i <= A /\ j <= B =>
        <<i + 1, j + 1>> \in Cells(A, B) /\ Steps(<<i + 1, j + 1>>, A, B) + 2 = Steps(x, A, B)
  <2>1. i <= A /\ j <= B => <<i + 1, j + 1>> \in Cells(A, B)
    BY <1>1 DEF Cells
  <2>2. Steps(<<i + 1, j + 1>>, A, B) + 2 = Steps(x, A, B)
    BY <1>1, <1>3
  <2> QED BY <2>1, <2>2
<1> QED BY <1>2, <1>4, <1>5, <1>6, <1>7 DEF i, j

(* Induction from the last cell back.                                      *)
LEMMA CellInduction ==
  ASSUME NEW A \in Nat, NEW B \in Nat, NEW S,
         \A x \in Cells(A, B) :
           (\A y \in Cells(A, B) : Steps(y, A, B) < Steps(x, A, B) => y \in S) => x \in S
  PROVE  \A x \in Cells(A, B) : x \in S
<1> DEFINE G == {d \in Nat : \A x \in Cells(A, B) : Steps(x, A, B) < d => x \in S}
<1>1. \A x \in Cells(A, B) : Steps(x, A, B) \in Nat
  BY CellSteps
<1>2. 0 \in G
  BY <1>1
<1>3. ASSUME NEW d \in Nat, d \in G PROVE d + 1 \in G
  <2> SUFFICES ASSUME NEW x \in Cells(A, B), Steps(x, A, B) < d + 1 PROVE x \in S
    OBVIOUS
  <2>1. ASSUME NEW y \in Cells(A, B), Steps(y, A, B) < Steps(x, A, B) PROVE y \in S
    <3>1. Steps(y, A, B) < d
      BY <1>1, <2>1
    <3> QED BY <1>3, <3>1
  <2> QED BY <2>1
<1>4. \A d \in Nat : d \in G
  <2> HIDE DEF G
  <2> QED BY <1>2, <1>3, NumberInduction
<1>5. ASSUME NEW x \in Cells(A, B) PROVE x \in S
  <2>1. Steps(x, A, B) + 1 \in Nat /\ Steps(x, A, B) < Steps(x, A, B) + 1
    BY <1>1
  <2> QED BY <1>4, <2>1
<1> QED BY <1>5

(* A table that is filled from its edge: F makes a cell of the three cells *)
(* after it.                                                               *)
Filled(g, x, A, B, edge, F) ==
  IF Inner(x, A, B) THEN F[<<x, g[Across(x)], g[Below(x)], g[Beside(x)]>>] ELSE edge[x]

Fillers(A, B, R) == [Cells(A, B) \X R \X R \X R -> R]

Fills(g, A, B, R, edge, F) ==
  g \in [Cells(A, B) -> R] /\ \A x \in Cells(A, B) : g[x] = Filled(g, x, A, B, edge, F)

LEMMA TableExists ==
  ASSUME NEW A \in Nat, NEW B \in Nat, NEW R, NEW edge \in [Cells(A, B) -> R],
         NEW F \in Fillers(A, B, R)
  PROVE  \E g : Fills(g, A, B, R, edge, F)
<1>0. F \in [Cells(A, B) \X R \X R \X R -> R]
  BY DEF Fillers
<1> DEFINE C == Cells(A, B)
           N(x) == Steps(x, A, B)
           V(g, x) == Filled(g, x, A, B, edge, F)
           Upto(d) == \E g \in [C -> R] : \A x \in C : N(x) < d => g[x] = V(g, x)
           G == {d \in Nat : Upto(d)}
<1>1. ASSUME NEW x \in C
      PROVE  /\ N(x) \in Nat
             /\ Inner(x, A, B) => \A y \in {Across(x), Below(x), Beside(x)} : y \in C /\ N(y) < N(x)
  <2>1. Inner(x, A, B) => x[1] <= A /\ x[2] <= B
    BY DEF Inner
  <2>2. /\ N(x) \in Nat
        /\ Inner(x, A, B) => \A y \in {Across(x), Below(x), Beside(x)} :
                                y \in C /\ (N(y) + 1 = N(x) \/ N(y) + 2 = N(x))
    BY <2>1, CellSteps
  <2>3. \A y \in C : N(y) \in Nat
    BY CellSteps
  <2> HIDE DEF N, C
  <2> QED BY <2>2, <2>3
<1>2. ASSUME NEW g \in [C -> R], NEW x \in C PROVE V(g, x) \in R
  <2>1. CASE Inner(x, A, B)
    <3>1. <<x, g[Across(x)], g[Below(x)], g[Beside(x)]>> \in C \X R \X R \X R
      BY <1>1, <2>1
    <3> QED BY <1>0, <2>1, <3>1 DEF Filled
  <2>2. CASE ~Inner(x, A, B)
    BY <2>2 DEF Filled
  <2> QED BY <2>1, <2>2
<1>3. ASSUME NEW g, NEW h, NEW x \in C, \A y \in C : N(y) < N(x) => g[y] = h[y]
      PROVE  V(g, x) = V(h, x)
  BY <1>1, <1>3 DEF Filled
<1> HIDE DEF C, N, V
<1>4. 0 \in G
  <2>1. edge \in [C -> R]
    BY DEF C
  <2>2. \A x \in C : ~(N(x) < 0)
    BY <1>1
  <2> QED BY <2>1, <2>2
<1>5. ASSUME NEW d \in Nat, d \in G PROVE d + 1 \in G
  <2>1. PICK g \in [C -> R] : \A x \in C : N(x) < d => g[x] = V(g, x)
    BY <1>5
  <2> DEFINE h == [x \in C |-> V(g, x)]
  <2>2. h \in [C -> R]
    BY <1>2
  <2>3. \A x \in C : h[x] = V(g, x)
    OBVIOUS
  <2> HIDE DEF h
  <2>4. ASSUME NEW x \in C, N(x) < d + 1 PROVE h[x] = V(h, x)
    <3>1. ASSUME NEW y \in C, N(y) < N(x) PROVE g[y] = h[y]
      <4>1. N(y) < d
        BY <1>1, <2>4, <3>1
      <4> QED BY <2>1, <2>3, <4>1
    <3>2. V(g, x) = V(h, x)
      BY <1>3, <3>1
    <3> QED BY <2>3, <3>2
  <2>5. Upto(d + 1)
    BY <2>2, <2>4
  <2> QED BY <2>5
<1>6. \A d \in Nat : d \in G
  <2> HIDE DEF G
  <2> QED BY <1>4, <1>5, NumberInduction
<1>7. A + B + 3 \in G
  BY <1>6
<1>8. \A x \in C : N(x) < A + B + 3
  <2> SUFFICES ASSUME NEW x \in C PROVE N(x) < A + B + 3
    OBVIOUS
  <2>1. x[1] \in 1..A + 1 /\ x[2] \in 1..B + 1 /\ N(x) = (A + 1 - x[1]) + (B + 1 - x[2])
    BY DEF C, N, Cells, Steps
  <2> QED BY <2>1
<1>9. PICK g \in [C -> R] : \A x \in C : N(x) < A + B + 3 => g[x] = V(g, x)
  BY <1>7
<1>10. \A x \in C : g[x] = V(g, x)
  BY <1>8, <1>9
<1>11. Fills(g, A, B, R, edge, F)
  BY <1>10 DEF C, V, Fills
<1> QED BY <1>11

(* From the last cell back, cell by cell.                                  *)
LEMMA BackInduction ==
  ASSUME NEW A \in Nat, NEW B \in Nat, NEW S,
         \A i \in 1..A + 1, j \in 1..B + 1 :
           ( /\ i <= A => <<i + 1, j>> \in S
             /\ j <= B => <<i, j + 1>> \in S
             /\ i <= A /\ j <= B => <<i + 1, j + 1>> \in S ) => <<i, j>> \in S
  PROVE  \A i \in 1..A + 1, j \in 1..B + 1 : <<i, j>> \in S
<1>1. ASSUME NEW x \in Cells(A, B), \A y \in Cells(A, B) : Steps(y, A, B) < Steps(x, A, B) => y \in S
      PROVE  x \in S
  <2> DEFINE i == x[1]
             j == x[2]
  <2>1. x = <<i, j>> /\ i \in 1..A + 1 /\ j \in 1..B + 1
    BY DEF Cells
  <2>2. /\ Below(x) = <<i + 1, j>> /\ Beside(x) = <<i, j + 1>> /\ Across(x) = <<i + 1, j + 1>>
        /\ Inner(x, A, B) <=> i <= A /\ j <= B
    BY DEF Below, Beside, Across, Inner
  <2>3. \A y \in Cells(A, B) : Steps(y, A, B) \in Nat
    BY CellSteps
  <2> HIDE DEF i, j
  <2>4. i <= A => <<i + 1, j>> \in S
    <3> SUFFICES ASSUME i <= A PROVE Below(x) \in S
      BY <2>2
    <3>1. Below(x) \in Cells(A, B) /\ Steps(Below(x), A, B) + 1 = Steps(x, A, B)
      BY CellSteps DEF i
    <3>2. Steps(Below(x), A, B) < Steps(x, A, B)
      BY <2>3, <3>1
    <3> QED BY <1>1, <3>1, <3>2
  <2>5. j <= B => <<i, j + 1>> \in S
    <3> SUFFICES ASSUME j <= B PROVE Beside(x) \in S
      BY <2>2
    <3>1. Beside(x) \in Cells(A, B) /\ Steps(Beside(x), A, B) + 1 = Steps(x, A, B)
      BY CellSteps DEF j
    <3>2. Steps(Beside(x), A, B) < Steps(x, A, B)
      BY <2>3, <3>1
    <3> QED BY <1>1, <3>1, <3>2
  <2>6. i <= A /\ j <= B => <<i + 1, j + 1>> \in S
    <3> SUFFICES ASSUME Inner(x, A, B) PROVE Across(x) \in S
      BY <2>2
    <3>1. Across(x) \in Cells(A, B) /\ Steps(Across(x), A, B) + 2 = Steps(x, A, B)
      BY CellSteps
    <3>2. Steps(Across(x), A, B) < Steps(x, A, B)
      BY <2>3, <3>1
    <3> QED BY <1>1, <3>1, <3>2
  <2> QED BY <2>1, <2>4, <2>5, <2>6
<1>2. \A x \in Cells(A, B) : x \in S
  BY <1>1, CellInduction
<1> QED BY <1>2 DEF Cells

-----------------------------------------------------------------------------
(* Selections.                                                             *)
Rising(f, n) == f \in Seq(1..n) /\ \A k, l \in 1..Len(f) : k < l => f[k] < f[l]

(* f is an enumeration of what I has below n + 1.                          *)
Enumerates(f, I, n) == Rising(f, n) /\ \A i \in 1..n : i \in I <=> \E k \in 1..Len(f) : f[k] = i

Counts(g, I, n) ==
  g = [m \in 0..n |-> IF m = 0 THEN <<>> ELSE IF m \in I THEN Append(g[m - 1], m) ELSE g[m - 1]]

LEMMA CountsExists == ASSUME NEW I, NEW n \in Nat PROVE \E g : Counts(g, I, n)
<1> DEFINE R == Seq(Nat)
           F == [x \in (1..n) \X R |-> IF x[1] \in I THEN Append(x[2], x[1]) ELSE x[2]]
<1>1. F \in [(1..n) \X R -> R] /\ <<>> \in R
  OBVIOUS
<1>2. PICK g \in [0..n -> R] : Unfolds(g, n, <<>>, F)
  <2> HIDE DEF R, F
  <2> QED BY <1>1, UnfoldExists
<1>3. ASSUME NEW m \in 0..n
      PROVE  g[m] = IF m = 0 THEN <<>> ELSE IF m \in I THEN Append(g[m - 1], m) ELSE g[m - 1]
  <2>1. g[m] = IF m = 0 THEN <<>> ELSE F[<<m, g[m - 1]>>]
    <3> HIDE DEF F
    <3> QED BY <1>2 DEF Unfolds
  <2>2. m # 0 => m \in 1..n /\ m - 1 \in 0..n
    OBVIOUS
  <2>3. m # 0 => <<m, g[m - 1]>> \in (1..n) \X R
    <3> HIDE DEF R
    <3> QED BY <2>2
  <2>4. m # 0 => F[<<m, g[m - 1]>>] = IF m \in I THEN Append(g[m - 1], m) ELSE g[m - 1]
    <3> HIDE DEF R
    <3> QED BY <2>3
  <2> HIDE DEF F
  <2> QED BY <2>1, <2>4
<1>4. g = [m \in 0..n |-> g[m]]
  OBVIOUS
<1>5. Counts(g, I, n)
  BY <1>3, <1>4 DEF Counts
<1> QED BY <1>5

(* What InOrder has when it has come to m.                                 *)
Collects(g, I, n) ==
  /\ InOrder(I, n) = g[n] /\ g[0] = <<>>
  /\ \A m \in 0..n - 1 : g[m + 1] = IF m + 1 \in I THEN Append(g[m], m + 1) ELSE g[m]

LEMMA InOrderIs == ASSUME NEW I, NEW n \in Nat PROVE \E g : Collects(g, I, n)
<1> DEFINE g == CHOOSE h : Counts(h, I, n)
<1>1. Counts(g, I, n)
  BY CountsExists
<1>2. InOrder(I, n) = g[n]
  BY DEF InOrder, Counts
<1> HIDE DEF g
<1>3. ASSUME NEW m \in 0..n
      PROVE  g[m] = IF m = 0 THEN <<>> ELSE IF m \in I THEN Append(g[m - 1], m) ELSE g[m - 1]
  BY <1>1 DEF Counts
<1>4. g[0] = <<>>
  BY <1>3
<1>5. ASSUME NEW m \in 0..n - 1
      PROVE  g[m + 1] = IF m + 1 \in I THEN Append(g[m], m + 1) ELSE g[m]
  <2>1. m + 1 \in 0..n /\ m + 1 # 0 /\ (m + 1) - 1 = m
    OBVIOUS
  <2> QED BY <1>3, <2>1
<1>6. Collects(g, I, n)
  BY <1>2, <1>4, <1>5 DEF Collects
<1> QED BY <1>6

(* One more number.                                                        *)
LEMMA EnumeratesMore ==
  ASSUME NEW I, NEW n \in Nat, NEW f, Enumerates(f, I, n)
  PROVE  Enumerates(IF n + 1 \in I THEN Append(f, n + 1) ELSE f, I, n + 1)
<1>0. f \in Seq(1..n) /\ Len(f) \in Nat
  BY DEF Enumerates, Rising
<1>1. f \in Seq(1..n + 1)
  <2>1. 1..n \subseteq 1..n + 1
    OBVIOUS
  <2> QED BY <1>0, <2>1, SeqMonotonic
<1>2. \A k \in 1..Len(f) : f[k] \in 1..n
  BY <1>0
<1>3. CASE n + 1 \notin I
  <2>1. \A i \in 1..n + 1 : i \in I <=> \E k \in 1..Len(f) : f[k] = i
    BY <1>2, <1>3 DEF Enumerates
  <2> QED BY <1>1, <1>3, <2>1 DEF Enumerates, Rising
<1>4. CASE n + 1 \in I
  <2> DEFINE h == Append(f, n + 1)
  <2>1. /\ h \in Seq(1..n + 1) /\ Len(h) = Len(f) + 1 /\ h[Len(f) + 1] = n + 1
        /\ \A k \in 1..Len(f) : h[k] = f[k]
    BY <1>1, AppendProperties
  <2> HIDE DEF h
  <2>2. ASSUME NEW k \in 1..Len(h), NEW l \in 1..Len(h), k < l PROVE h[k] < h[l]
    <3>1. CASE l = Len(f) + 1
      <4>1. k \in 1..Len(f)
        BY <1>0, <2>2, <3>1
      <4> QED BY <1>2, <2>1, <3>1, <4>1
    <3>2. CASE l # Len(f) + 1
      <4>0. Len(h) = Len(f) + 1
        BY <2>1
      <4>1. k \in 1..Len(f) /\ l \in 1..Len(f)
        BY <1>0, <2>2, <3>2, <4>0
      <4> QED BY <2>1, <2>2, <4>1 DEF Enumerates, Rising
    <3> QED BY <3>1, <3>2
  <2>3. ASSUME NEW i \in 1..n + 1 PROVE i \in I <=> \E k \in 1..Len(h) : h[k] = i
    <3>1. CASE i = n + 1
      <4>1. Len(f) + 1 \in 1..Len(h)
        BY <1>0, <2>1
      <4> QED BY <1>4, <2>1, <3>1, <4>1
    <3>2. CASE i # n + 1
      <4>1. i \in 1..n
        BY <3>2
      <4>2. \A k \in 1..Len(h) : k = Len(f) + 1 \/ k \in 1..Len(f)
        BY <1>0, <2>1
      <4>3. \A k \in 1..Len(f) : k \in 1..Len(h)
        BY <1>0, <2>1
      <4>4. (\E k \in 1..Len(h) : h[k] = i) <=> \E k \in 1..Len(f) : f[k] = i
        BY <2>1, <3>2, <4>2, <4>3
      <4> QED BY <4>1, <4>4 DEF Enumerates
    <3> QED BY <3>1, <3>2
  <2>4. Enumerates(h, I, n + 1)
    BY <2>1, <2>2, <2>3 DEF Enumerates, Rising
  <2> QED BY <1>4, <2>4 DEF h
<1> QED BY <1>3, <1>4

LEMMA InOrderEnumerates == ASSUME NEW I, NEW n \in Nat PROVE Enumerates(InOrder(I, n), I, n)
<1>0. PICK g : Collects(g, I, n)
  BY InOrderIs
<1>1. /\ InOrder(I, n) = g[n] /\ g[0] = <<>>
      /\ \A m \in 0..n - 1 : g[m + 1] = IF m + 1 \in I THEN Append(g[m], m + 1) ELSE g[m]
  BY <1>0 DEF Collects
<1> DEFINE G == {m \in Nat : m <= n => Enumerates(g[m], I, m)}
<1>2. 0 \in G
  <2>1. Enumerates(<<>>, I, 0)
    BY DEF Enumerates, Rising
  <2> QED BY <1>1, <2>1
<1>3. ASSUME NEW m \in Nat, m \in G PROVE m + 1 \in G
  <2> SUFFICES ASSUME m + 1 <= n PROVE Enumerates(g[m + 1], I, m + 1)
    OBVIOUS
  <2>1. m \in 0..n - 1 /\ Enumerates(g[m], I, m)
    BY <1>3
  <2> QED BY <1>1, <2>1, EnumeratesMore
<1>4. n \in G
  <2> HIDE DEF G
  <2> QED BY <1>2, <1>3, NumberInduction
<1> QED BY <1>1, <1>4

(* There is one enumeration only.                                          *)
LEMMA EnumeratesLess ==
  ASSUME NEW I, NEW n \in Nat, NEW f, Enumerates(f, I, n + 1)
  PROVE  \/ n + 1 \notin I /\ Enumerates(f, I, n)
         \/ n + 1 \in I /\ \E h : Enumerates(h, I, n) /\ f = Append(h, n + 1)
<1>0. f \in Seq(1..n + 1) /\ Len(f) \in Nat /\ \A k \in 1..Len(f) : f[k] \in 1..n + 1
  BY DEF Enumerates, Rising
<1>1. CASE n + 1 \notin I
  <2>1. \A k \in 1..Len(f) : f[k] \in 1..n
    <3>1. n + 1 \in 1..n + 1
      OBVIOUS
    <3>2. \A k \in 1..Len(f) : f[k] # n + 1
      BY <1>1, <3>1 DEF Enumerates
    <3> QED BY <1>0, <3>2
  <2>2. f \in Seq(1..n)
    <3>1. f \in [1..Len(f) -> 1..n]
      BY <1>0, <2>1
    <3> QED BY <1>0, <3>1
  <2>3. \A i \in 1..n : i \in 1..n + 1
    OBVIOUS
  <2> QED BY <1>1, <2>2, <2>3 DEF Enumerates, Rising
<1>2. CASE n + 1 \in I
  <2>1. PICK k \in 1..Len(f) : f[k] = n + 1
    BY <1>2 DEF Enumerates
  <2>2. k = Len(f)
    <3> SUFFICES ASSUME k < Len(f) PROVE FALSE
      BY <1>0
    <3>1. Len(f) \in 1..Len(f)
      BY <1>0
    <3>2. f[k] < f[Len(f)]
      BY <3>1 DEF Enumerates, Rising
    <3> QED BY <1>0, <2>1, <3>1, <3>2
  <2> DEFINE h == [l \in 1..Len(f) - 1 |-> f[l]]
  <2>3. \A l \in 1..Len(f) - 1 : l \in 1..Len(f) /\ f[l] \in 1..n
    <3>1. ASSUME NEW l \in 1..Len(f) - 1 PROVE l \in 1..Len(f) /\ f[l] \in 1..n
      <4>1. l \in 1..Len(f) /\ l < k
        BY <1>0, <2>2
      <4>2. f[l] < f[k]
        BY <4>1 DEF Enumerates, Rising
      <4> QED BY <1>0, <2>1, <4>1, <4>2
    <3> QED BY <3>1
  <2>4. Len(f) - 1 \in Nat
    BY <1>0, <2>1
  <2>5. h \in Seq(1..n) /\ Len(h) = Len(f) - 1 /\ \A l \in 1..Len(h) : h[l] = f[l]
    BY <2>3, <2>4
  <2> HIDE DEF h
  <2>6. Rising(h, n)
    BY <2>3, <2>5 DEF Enumerates, Rising
  <2>7. ASSUME NEW i \in 1..n PROVE i \in I <=> \E l \in 1..Len(h) : h[l] = i
    <3>1. i \in I <=> \E l \in 1..Len(f) : f[l] = i
      BY DEF Enumerates
    <3>2. \A l \in 1..Len(f) : l = Len(f) \/ l \in 1..Len(f) - 1
      BY <1>0
    <3>3. f[Len(f)] # i
      BY <2>1, <2>2
    <3> QED BY <2>3, <2>5, <3>1, <3>2, <3>3
  <2>8. f = Append(h, n + 1)
    <3> DEFINE u == Append(h, n + 1)
    <3>1. h \in Seq(1..n + 1) /\ n + 1 \in 1..n + 1
      <4>1. 1..n \subseteq 1..n + 1
        OBVIOUS
      <4> QED BY <2>5, <4>1, SeqMonotonic
    <3>2. /\ u \in Seq(1..n + 1) /\ Len(u) = Len(h) + 1 /\ u[Len(h) + 1] = n + 1
          /\ \A l \in 1..Len(h) : u[l] = h[l]
      BY <3>1, AppendProperties
    <3> HIDE DEF u
    <3>3. Len(u) = Len(f)
      BY <1>0, <2>5, <3>2
    <3>4. ASSUME NEW l \in 1..Len(f) PROVE u[l] = f[l]
      <4>1. l = Len(f) \/ l \in 1..Len(h)
        BY <1>0, <2>5
      <4>2. Len(h) + 1 = Len(f)
        BY <1>0, <2>5
      <4> QED BY <2>1, <2>2, <2>5, <3>2, <4>1, <4>2
    <3>5. u = f
      BY <1>0, <3>2, <3>3, <3>4, SeqEqual
    <3> QED BY <3>5 DEF u
  <2> QED BY <1>2, <2>6, <2>7, <2>8 DEF Enumerates
<1> QED BY <1>1, <1>2

LEMMA EnumerationIsInOrder ==
  ASSUME NEW I, NEW n \in Nat, NEW f, Enumerates(f, I, n)
  PROVE  InOrder(I, n) = f
<1>0. PICK g : Collects(g, I, n)
  BY InOrderIs
<1>1. /\ InOrder(I, n) = g[n] /\ g[0] = <<>>
      /\ \A m \in 0..n - 1 : g[m + 1] = IF m + 1 \in I THEN Append(g[m], m + 1) ELSE g[m]
  BY <1>0 DEF Collects
<1> DEFINE G == {m \in Nat : m <= n => \A h : Enumerates(h, I, m) => g[m] = h}
<1>2. 0 \in G
  <2>1. ASSUME NEW h, Enumerates(h, I, 0) PROVE h = <<>>
    <3>1. h \in Seq(1..0)
      BY <2>1 DEF Enumerates, Rising
    <3>2. Len(h) = 0
      <4> SUFFICES ASSUME Len(h) # 0 PROVE FALSE
        OBVIOUS
      <4>1. 1 \in 1..Len(h)
        BY <3>1
      <4> QED BY <3>1, <4>1
    <3> QED BY <3>1, <3>2, EmptySeq
  <2> QED BY <1>1, <2>1
<1>3. ASSUME NEW m \in Nat, m \in G PROVE m + 1 \in G
  <2> SUFFICES ASSUME m + 1 <= n, NEW h, Enumerates(h, I, m + 1) PROVE g[m + 1] = h
    OBVIOUS
  <2>1. m \in 0..n - 1 /\ \A x : Enumerates(x, I, m) => g[m] = x
    BY <1>3
  <2>2. CASE m + 1 \notin I
    BY <1>1, <2>1, <2>2, EnumeratesLess
  <2>3. CASE m + 1 \in I
    <3>1. PICK x : Enumerates(x, I, m) /\ h = Append(x, m + 1)
      BY <2>3, EnumeratesLess
    <3> QED BY <1>1, <2>1, <2>3, <3>1
  <2> QED BY <2>2, <2>3
<1>4. n \in G
  <2> HIDE DEF G
  <2> QED BY <1>2, <1>3, NumberInduction
<1> QED BY <1>1, <1>4

-----------------------------------------------------------------------------
(* The table and the walk.                                                 *)
ChangesOf(T) == [op : {"eq", "del", "add"}, old : Nat, new : Nat, text : T]

LcsAt(dp, a, b, i, j) ==
  IF i > Len(a) \/ j > Len(b) THEN 0
  ELSE IF a[i] = b[j] THEN dp[<<i + 1, j + 1>>] + 1
  ELSE IF dp[<<i + 1, j>>] >= dp[<<i, j + 1>>] THEN dp[<<i + 1, j>>] ELSE dp[<<i, j + 1>>]

LcsTable(dp, a, b) == dp = [at \in Grid(a, b) |-> LcsAt(dp, a, b, at[1], at[2])]

WalkAt(walk, dp, a, b, i, j) ==
  IF i > Len(a) \/ j > Len(b) THEN LeftOver(a, b, i, j)
  ELSE IF a[i] = b[j] THEN <<Eq(a, i, j)>> \o walk[<<i + 1, j + 1>>]
  ELSE IF dp[<<i + 1, j>>] >= dp[<<i, j + 1>>] THEN <<Del(a, i)>> \o walk[<<i + 1, j>>]
  ELSE <<Add(b, j)>> \o walk[<<i, j + 1>>]

WalkTable(walk, dp, a, b) == walk = [at \in Grid(a, b) |-> WalkAt(walk, dp, a, b, at[1], at[2])]

LEMMA LcsTableExists ==
  ASSUME NEW T, NEW a \in Seq(T), NEW b \in Seq(T)
  PROVE  \E dp : LcsTable(dp, a, b)
<1> DEFINE A == Len(a)
           B == Len(b)
           C == Cells(A, B)
           edge == [x \in C |-> 0]
           F == [y \in C \X Nat \X Nat \X Nat |->
                   IF a[y[1][1]] = b[y[1][2]] THEN y[2] + 1 ELSE IF y[3] >= y[4] THEN y[3] ELSE y[4]]
<1>1. A \in Nat /\ B \in Nat
  OBVIOUS
<1>2. edge \in [C -> Nat]
  OBVIOUS
<1>3. F \in [C \X Nat \X Nat \X Nat -> Nat]
  <2> HIDE DEF C
  <2> QED OBVIOUS
<1>4. PICK g : Fills(g, A, B, Nat, edge, F)
  <2>1. F \in Fillers(A, B, Nat)
    <3> HIDE DEF F
    <3> QED BY <1>3 DEF Fillers
  <2>2. edge \in [Cells(A, B) -> Nat]
    BY <1>2
  <2> HIDE DEF A, B, edge, F
  <2> QED BY <1>1, <2>1, <2>2, TableExists
<1>a. g \in [C -> Nat] /\ \A x \in C : g[x] = Filled(g, x, A, B, edge, F)
  <2> HIDE DEF edge, F
  <2> QED BY <1>4 DEF Fills
<1>5. ASSUME NEW x \in C PROVE g[x] = LcsAt(g, a, b, x[1], x[2])
  <2> DEFINE i == x[1]
             j == x[2]
  <2>1. x = <<i, j>> /\ i \in Nat /\ j \in Nat
    BY DEF Cells
  <2>2. CASE ~Inner(x, A, B)
    <3>1. g[x] = edge[x]
      BY <1>a, <2>2 DEF Filled
    <3>2. i > A \/ j > B
      BY <1>1, <2>1, <2>2 DEF Inner
    <3> QED BY <3>1, <3>2 DEF LcsAt
  <2>3. CASE Inner(x, A, B)
    <3>1. ~(i > A \/ j > B) /\ i <= A /\ j <= B
      BY <1>1, <2>1, <2>3 DEF Inner
    <3>2. Across(x) \in C /\ Below(x) \in C /\ Beside(x) \in C
      BY <1>1, <2>3, <3>1, CellSteps
    <3>3. /\ Across(x) = <<i + 1, j + 1>> /\ Below(x) = <<i + 1, j>> /\ Beside(x) = <<i, j + 1>>
      BY DEF Across, Below, Beside
    <3> DEFINE y == <<x, g[Across(x)], g[Below(x)], g[Beside(x)]>>
    <3>4. y \in C \X Nat \X Nat \X Nat
      <4> HIDE DEF C
      <4> QED BY <1>a, <3>2
    <3>5. y[1] = x /\ y[2] = g[<<i + 1, j + 1>>] /\ y[3] = g[<<i + 1, j>>] /\ y[4] = g[<<i, j + 1>>]
      BY <3>3
    <3>6. g[x] = F[y]
      <4> HIDE DEF F
      <4> QED BY <1>a, <2>3 DEF Filled
    <3> HIDE DEF y, C
    <3>7. g[x] = IF a[i] = b[j] THEN g[<<i + 1, j + 1>>] + 1
                 ELSE IF g[<<i + 1, j>>] >= g[<<i, j + 1>>] THEN g[<<i + 1, j>>] ELSE g[<<i, j + 1>>]
      BY <3>4, <3>5, <3>6
    <3> HIDE DEF i, j, F
    <3> QED BY <3>1, <3>7 DEF LcsAt, i, j
  <2> QED BY <2>2, <2>3
<1>6. C = Grid(a, b)
  BY DEF Cells, Grid
<1>7. g = [at \in C |-> LcsAt(g, a, b, at[1], at[2])]
  <2> HIDE DEF C
  <2>1. g = [at \in C |-> g[at]]
    BY <1>a
  <2> QED BY <1>5, <2>1
<1>8. LcsTable(g, a, b)
  <2> HIDE DEF C
  <2> QED BY <1>6, <1>7 DEF LcsTable
<1> QED BY <1>8

LEMMA LcsIs ==
  ASSUME NEW T, NEW a \in Seq(T), NEW b \in Seq(T), NEW i \in 1..Len(a) + 1, NEW j \in 1..Len(b) + 1
  PROVE  Lcs(a, b)[<<i, j>>] = LcsAt(Lcs(a, b), a, b, i, j)
<1>1. Lcs(a, b) = CHOOSE dp : LcsTable(dp, a, b)
  BY DEF Lcs, LcsTable, LcsAt
<1>2. LcsTable(Lcs(a, b), a, b)
  BY <1>1, LcsTableExists
<1> DEFINE dp == Lcs(a, b)
           x == <<i, j>>
<1>3. x \in Grid(a, b) /\ x[1] = i /\ x[2] = j
  BY DEF Grid
<1> HIDE DEF dp, x
<1>4. dp[x] = LcsAt(dp, a, b, x[1], x[2])
  BY <1>2, <1>3 DEF LcsTable, dp
<1> QED BY <1>3, <1>4 DEF dp, x

LEMMA LeftOverType ==
  ASSUME NEW T, NEW a \in Seq(T), NEW b \in Seq(T), NEW i \in 1..Len(a) + 1, NEW j \in 1..Len(b) + 1
  PROVE  LeftOver(a, b, i, j) \in Seq(ChangesOf(T))
<1> DEFINE D == [n \in 1..(Len(a) + 1 - i) |-> Del(a, i + n - 1)]
           E == [n \in 1..(Len(b) + 1 - j) |-> Add(b, j + n - 1)]
<1>0. Len(a) \in Nat /\ Len(b) \in Nat /\ Len(a) + 1 - i \in Nat /\ Len(b) + 1 - j \in Nat
  OBVIOUS
<1>1. \A n \in 1..(Len(a) + 1 - i) : Del(a, i + n - 1) \in ChangesOf(T)
  <2> SUFFICES ASSUME NEW n \in 1..(Len(a) + 1 - i) PROVE Del(a, i + n - 1) \in ChangesOf(T)
    OBVIOUS
  <2>1. i + n - 1 \in 1..Len(a)
    BY <1>0
  <2> QED BY <2>1 DEF Del, ChangesOf
<1>2. \A n \in 1..(Len(b) + 1 - j) : Add(b, j + n - 1) \in ChangesOf(T)
  <2> SUFFICES ASSUME NEW n \in 1..(Len(b) + 1 - j) PROVE Add(b, j + n - 1) \in ChangesOf(T)
    OBVIOUS
  <2>1. j + n - 1 \in 1..Len(b)
    BY <1>0
  <2> QED BY <2>1 DEF Add, ChangesOf
<1>3. D \in Seq(ChangesOf(T)) /\ E \in Seq(ChangesOf(T))
  BY <1>0, <1>1, <1>2
<1> HIDE DEF D, E
<1>4. D \o E \in Seq(ChangesOf(T))
  BY <1>3
<1> QED BY <1>4 DEF LeftOver, D, E

LEMMA WalkTableExists ==
  ASSUME NEW T, NEW a \in Seq(T), NEW b \in Seq(T), NEW dp
  PROVE  \E walk : WalkTable(walk, dp, a, b)
<1> DEFINE A == Len(a)
           B == Len(b)
           C == Cells(A, B)
           R == Seq(ChangesOf(T))
           edge == [x \in C |-> LeftOver(a, b, x[1], x[2])]
           W(x, p, q, r) == IF a[x[1]] = b[x[2]] THEN <<Eq(a, x[1], x[2])>> \o p
                            ELSE IF dp[Below(x)] >= dp[Beside(x)] THEN <<Del(a, x[1])>> \o q
                            ELSE <<Add(b, x[2])>> \o r
           F == [y \in C \X R \X R \X R |-> IF Inner(y[1], A, B) THEN W(y[1], y[2], y[3], y[4]) ELSE <<>>]
<1>1. A \in Nat /\ B \in Nat
  OBVIOUS
<1>2. edge \in [C -> R]
  <2>1. ASSUME NEW x \in C PROVE LeftOver(a, b, x[1], x[2]) \in R
    <3>1. x[1] \in 1..Len(a) + 1 /\ x[2] \in 1..Len(b) + 1
      BY DEF Cells
    <3> QED BY <3>1, LeftOverType
  <2> HIDE DEF C, R
  <2> QED BY <2>1
<1>3. ASSUME NEW x \in C, Inner(x, A, B), NEW p \in R, NEW q \in R, NEW r \in R PROVE W(x, p, q, r) \in R
  <2>1. x[1] \in 1..Len(a) /\ x[2] \in 1..Len(b)
    BY <1>1, <1>3 DEF Cells, Inner
  <2>2. /\ Eq(a, x[1], x[2]) \in ChangesOf(T) /\ Del(a, x[1]) \in ChangesOf(T)
        /\ Add(b, x[2]) \in ChangesOf(T)
    BY <2>1 DEF Eq, Del, Add, ChangesOf
  <2>3. /\ <<Eq(a, x[1], x[2])>> \o p \in R /\ <<Del(a, x[1])>> \o q \in R
        /\ <<Add(b, x[2])>> \o r \in R
    BY <2>2
  <2> QED BY <2>3
<1>4. F \in [C \X R \X R \X R -> R]
  <2>1. <<>> \in R
    OBVIOUS
  <2> HIDE DEF C, R, W
  <2>2. ASSUME NEW y \in C \X R \X R \X R
        PROVE  (IF Inner(y[1], A, B) THEN W(y[1], y[2], y[3], y[4]) ELSE <<>>) \in R
    <3>1. y[1] \in C /\ y[2] \in R /\ y[3] \in R /\ y[4] \in R
      OBVIOUS
    <3> QED BY <1>3, <2>1, <3>1
  <2> QED BY <2>2
<1>5. PICK g : Fills(g, A, B, R, edge, F)
  <2>1. F \in Fillers(A, B, R)
    <3> HIDE DEF F
    <3> QED BY <1>4 DEF Fillers
  <2>2. edge \in [Cells(A, B) -> R]
    BY <1>2
  <2> HIDE DEF A, B, edge, F, R
  <2> QED BY <1>1, <2>1, <2>2, TableExists
<1>a. g \in [C -> R] /\ \A x \in C : g[x] = Filled(g, x, A, B, edge, F)
  <2> HIDE DEF edge, F
  <2> QED BY <1>5 DEF Fills
<1>6. ASSUME NEW x \in C PROVE g[x] = WalkAt(g, dp, a, b, x[1], x[2])
  <2> DEFINE i == x[1]
             j == x[2]
  <2>1. x = <<i, j>> /\ i \in Nat /\ j \in Nat
    BY DEF Cells
  <2>2. CASE ~Inner(x, A, B)
    <3>1. g[x] = edge[x]
      <4> HIDE DEF edge
      <4> QED BY <1>a, <2>2 DEF Filled
    <3>2. i > A \/ j > B
      BY <1>1, <2>1, <2>2 DEF Inner
    <3>3. edge[x] = LeftOver(a, b, i, j)
      <4> HIDE DEF C
      <4> QED OBVIOUS
    <3> HIDE DEF edge
    <3> QED BY <3>1, <3>2, <3>3 DEF WalkAt
  <2>3. CASE Inner(x, A, B)
    <3>1. ~(i > A \/ j > B) /\ i <= A /\ j <= B
      BY <1>1, <2>1, <2>3 DEF Inner
    <3>2. Across(x) \in C /\ Below(x) \in C /\ Beside(x) \in C
      BY <1>1, <2>3, <3>1, CellSteps
    <3>3. /\ Across(x) = <<i + 1, j + 1>> /\ Below(x) = <<i + 1, j>> /\ Beside(x) = <<i, j + 1>>
      BY DEF Across, Below, Beside
    <3> DEFINE y == <<x, g[Across(x)], g[Below(x)], g[Beside(x)]>>
    <3>4. y \in C \X R \X R \X R
      <4> HIDE DEF C, R
      <4> QED BY <1>a, <3>2
    <3>5. y[1] = x /\ y[2] = g[<<i + 1, j + 1>>] /\ y[3] = g[<<i + 1, j>>] /\ y[4] = g[<<i, j + 1>>]
      BY <3>3
    <3>6. g[x] = F[y]
      <4> HIDE DEF F
      <4> QED BY <1>a, <2>3 DEF Filled
    <3> HIDE DEF y, C, R
    <3>7. F[y] = W(x, y[2], y[3], y[4])
      <4> HIDE DEF W
      <4> QED BY <2>3, <3>4, <3>5
    <3> HIDE DEF F
    <3>8. g[x] = W(x, g[<<i + 1, j + 1>>], g[<<i + 1, j>>], g[<<i, j + 1>>])
      <4> HIDE DEF W
      <4> QED BY <3>5, <3>6, <3>7
    <3>9. WalkAt(g, dp, a, b, i, j) = W(x, g[<<i + 1, j + 1>>], g[<<i + 1, j>>], g[<<i, j + 1>>])
      BY <3>1, <3>3 DEF WalkAt
    <3> QED BY <3>8, <3>9
  <2> QED BY <2>2, <2>3
<1>7. C = Grid(a, b)
  BY DEF Cells, Grid
<1>8. g = [at \in C |-> WalkAt(g, dp, a, b, at[1], at[2])]
  <2> HIDE DEF C
  <2>1. g = [at \in C |-> g[at]]
    BY <1>a
  <2> QED BY <1>6, <2>1
<1>9. WalkTable(g, dp, a, b)
  <2> HIDE DEF C
  <2> QED BY <1>7, <1>8 DEF WalkTable
<1> QED BY <1>9

(* The walk, from every cell.                                              *)
Walk(a, b) == CHOOSE walk : WalkTable(walk, Lcs(a, b), a, b)

LEMMA WalkIs ==
  ASSUME NEW T, NEW a \in Seq(T), NEW b \in Seq(T), NEW i \in 1..Len(a) + 1, NEW j \in 1..Len(b) + 1
  PROVE  Walk(a, b)[<<i, j>>] = WalkAt(Walk(a, b), Lcs(a, b), a, b, i, j)
<1>1. WalkTable(Walk(a, b), Lcs(a, b), a, b)
  BY WalkTableExists DEF Walk
<1> DEFINE walk == Walk(a, b)
           dp == Lcs(a, b)
           x == <<i, j>>
<1>2. x \in Grid(a, b) /\ x[1] = i /\ x[2] = j
  BY DEF Grid
<1> HIDE DEF walk, dp, x
<1>3. walk[x] = WalkAt(walk, dp, a, b, x[1], x[2])
  BY <1>1, <1>2 DEF WalkTable, walk, dp
<1> QED BY <1>2, <1>3 DEF walk, dp, x

LEMMA ChangesAre == ASSUME NEW a, NEW b PROVE Changes(a, b) = Walk(a, b)[<<1, 1>>]
BY DEF Changes, Walk, WalkTable, WalkAt

-----------------------------------------------------------------------------
LEMMA FunctionIsSeq ==
  ASSUME NEW n \in Nat, NEW R, NEW f \in [1..n -> R]
  PROVE  f \in Seq(R) /\ Len(f) = n
OBVIOUS

(* A sequence that is one longer at its head.                              *)
Longer(s, t) == Len(s) = Len(t) + 1 /\ \A n \in 1..Len(t) : s[n + 1] = t[n]

LEMMA LongerIsCons ==
  ASSUME NEW R, NEW s \in Seq(R), NEW t \in Seq(R)
  PROVE  Longer(s, t) <=> s # <<>> /\ s = <<s[1]>> \o t
<1>0. Len(s) \in Nat /\ Len(t) \in Nat
  OBVIOUS
<1>1. ASSUME Longer(s, t) PROVE s # <<>> /\ s = <<s[1]>> \o t
  <2>1. Len(s) = Len(t) + 1 /\ \A n \in 1..Len(t) : s[n + 1] = t[n]
    BY <1>1 DEF Longer
  <2>2. 1 \in 1..Len(s) /\ s[1] \in R /\ s # <<>>
    BY <1>0, <2>1
  <2> DEFINE e == s[1]
             u == <<e>> \o t
  <2>3. <<e>> \in Seq(R) /\ Len(<<e>>) = 1 /\ <<e>>[1] = e
    BY <2>2
  <2>4. /\ u \in Seq(R) /\ Len(u) = 1 + Len(t)
        /\ \A i \in 1..1 + Len(t) : u[i] = IF i <= 1 THEN <<e>>[i] ELSE t[i - 1]
    <3> HIDE DEF e
    <3> QED BY <2>3, ConcatProperties
  <2> HIDE DEF u, e
  <2>5. ASSUME NEW i \in 1..Len(s) PROVE s[i] = u[i]
    <3>1. i \in 1..1 + Len(t)
      BY <1>0, <2>1
    <3>2. CASE i = 1
      BY <2>3, <2>4, <3>1, <3>2 DEF e
    <3>3. CASE i # 1
      <4>1. i - 1 \in 1..Len(t) /\ (i - 1) + 1 = i /\ ~(i <= 1)
        BY <1>0, <3>1, <3>3
      <4>2. u[i] = t[i - 1]
        BY <2>4, <3>1, <4>1
      <4>3. s[(i - 1) + 1] = t[i - 1]
        BY <2>1, <4>1
      <4> QED BY <4>1, <4>2, <4>3
    <3> QED BY <3>2, <3>3
  <2>6. Len(s) = Len(u)
    BY <1>0, <2>1, <2>4
  <2>7. s = u
    BY <2>4, <2>5, <2>6, SeqEqual
  <2> QED BY <2>2, <2>7 DEF u, e
<1>2. ASSUME s # <<>>, s = <<s[1]>> \o t PROVE Longer(s, t)
  <2> DEFINE e == s[1]
  <2>1. e \in R
    BY <1>2
  <2>2. s = <<e>> \o t
    BY <1>2
  <2> HIDE DEF e
  <2>3. <<e>> \in Seq(R) /\ Len(<<e>>) = 1
    BY <2>1
  <2>4. /\ Len(s) = 1 + Len(t)
        /\ \A i \in 1..1 + Len(t) : s[i] = IF i <= 1 THEN <<e>>[i] ELSE t[i - 1]
    BY <2>2, <2>3, ConcatProperties
  <2>5. ASSUME NEW n \in 1..Len(t) PROVE s[n + 1] = t[n]
    <3>1. n + 1 \in 1..1 + Len(t) /\ ~(n + 1 <= 1) /\ (n + 1) - 1 = n
      BY <1>0
    <3> QED BY <2>4, <3>1
  <2>6. Len(s) = Len(t) + 1
    BY <1>0, <2>4
  <2> QED BY <2>5, <2>6 DEF Longer
<1> QED BY <1>1, <1>2

LEMMA ConsIsLonger ==
  ASSUME NEW R, NEW e \in R, NEW t \in Seq(R)
  PROVE  LET s == <<e>> \o t IN s \in Seq(R) /\ Longer(s, t) /\ s[1] = e
<1> DEFINE s == <<e>> \o t
<1>0. Len(t) \in Nat
  OBVIOUS
<1>1. <<e>> \in Seq(R) /\ Len(<<e>>) = 1 /\ <<e>>[1] = e
  OBVIOUS
<1>2. /\ s \in Seq(R) /\ Len(s) = 1 + Len(t)
      /\ \A i \in 1..1 + Len(t) : s[i] = IF i <= 1 THEN <<e>>[i] ELSE t[i - 1]
  BY <1>1, ConcatProperties
<1> HIDE DEF s
<1>3. s[1] = e
  <2>1. 1 \in 1..1 + Len(t) /\ 1 <= 1
    BY <1>0
  <2> QED BY <1>1, <1>2, <2>1
<1>4. ASSUME NEW n \in 1..Len(t) PROVE s[n + 1] = t[n]
  <2>1. n + 1 \in 1..1 + Len(t) /\ ~(n + 1 <= 1) /\ (n + 1) - 1 = n
    BY <1>0
  <2> QED BY <1>2, <2>1
<1>5. Len(s) = Len(t) + 1
  BY <1>0, <1>2
<1> QED BY <1>2, <1>3, <1>4, <1>5 DEF Longer, s

-----------------------------------------------------------------------------
(* Pick.                                                                   *)
LEMMA PickIs ==
  ASSUME NEW s, Len(s) \in Nat, NEW I, NEW f, Enumerates(f, I, Len(s))
  PROVE  Pick(s, I) = [n \in 1..Len(f) |-> s[f[n]]]
<1>1. InOrder(I, Len(s)) = f
  BY EnumerationIsInOrder
<1> QED BY <1>1 DEF Pick

LEMMA PickType ==
  ASSUME NEW R, NEW s \in Seq(R), NEW I
  PROVE  Pick(s, I) \in Seq(R) /\ Len(Pick(s, I)) = Len(InOrder(I, Len(s)))
<1> DEFINE f == InOrder(I, Len(s))
<1>0. Len(s) \in Nat
  OBVIOUS
<1>1. f \in Seq(1..Len(s))
  BY <1>0, InOrderEnumerates DEF Enumerates, Rising
<1>2. Pick(s, I) = [n \in 1..Len(f) |-> s[f[n]]]
  BY DEF Pick
<1> HIDE DEF f
<1>3. Len(f) \in Nat /\ \A n \in 1..Len(f) : s[f[n]] \in R
  BY <1>1
<1> QED BY <1>2, <1>3 DEF f

Shifts(I, J, n) == \A k \in 1..n : k + 1 \in I <=> k \in J

LEMMA PickLonger ==
  ASSUME NEW R, NEW s \in Seq(R), NEW t \in Seq(R), Longer(s, t), NEW I, NEW J,
         Shifts(I, J, Len(t))
  PROVE  Pick(s, I) = IF 1 \in I THEN <<s[1]>> \o Pick(t, J) ELSE Pick(t, J)
<1> DEFINE m == Len(t)
           f == InOrder(J, m)
           p == Len(f)
<1>0. m \in Nat /\ Len(s) = m + 1 /\ \A n \in 1..m : s[n + 1] = t[n]
  BY DEF Longer
<1>1. Enumerates(f, J, m)
  BY <1>0, InOrderEnumerates
<1>2. Pick(t, J) = [n \in 1..p |-> t[f[n]]]
  BY DEF Pick
<1> HIDE DEF m, f
<1>3. f \in Seq(1..m) /\ p \in Nat /\ \A k \in 1..p : f[k] \in 1..m
  <2>1. f \in Seq(1..m)
    BY <1>1 DEF Enumerates, Rising
  <2>2. Len(f) \in Nat
    BY <2>1
  <2>3. \A k \in 1..Len(f) : f[k] \in 1..m
    <3> DEFINE M == 1..m
    <3>1. f \in Seq(M)
      BY <2>1
    <3> HIDE DEF M
    <3>2. \A k \in 1..Len(f) : f[k] \in M
      BY <3>1
    <3> QED BY <3>2 DEF M
  <2> QED BY <2>1, <2>2, <2>3
<1> HIDE DEF p
<1>4. \A k \in 1..p : f[k] + 1 \in 1..m + 1 /\ f[k] + 1 # 1 /\ s[f[k] + 1] = t[f[k]]
  BY <1>0, <1>3
<1>5. \A k, l \in 1..p : k < l => f[k] < f[l]
  BY <1>1 DEF Enumerates, Rising, p
<1>6. \A i \in 1..m : i + 1 \in I <=> \E k \in 1..p : f[k] = i
  BY <1>1 DEF Enumerates, Shifts, m, p
<1>7. ASSUME NEW i \in 1..m + 1, i # 1 PROVE i \in I <=> \E k \in 1..p : f[k] + 1 = i
  <2>1. i - 1 \in 1..m /\ (i - 1) + 1 = i
    BY <1>0, <1>7
  <2>2. i \in I <=> \E k \in 1..p : f[k] = i - 1
    BY <1>6, <2>1
  <2>3. ASSUME NEW k \in 1..p PROVE f[k] = i - 1 <=> f[k] + 1 = i
    <3>1. f[k] \in Int /\ i \in Int
      BY <1>0, <1>3
    <3> QED BY <3>1
  <2> QED BY <2>2, <2>3
<1>8. CASE 1 \notin I
  <2> DEFINE h == [k \in 1..p |-> f[k] + 1]
  <2>1. h \in Seq(1..m + 1) /\ Len(h) = p /\ \A k \in 1..p : h[k] = f[k] + 1
    BY <1>3, <1>4
  <2> HIDE DEF h
  <2>2. \A k, l \in 1..p : k < l => h[k] < h[l]
    <3>1. ASSUME NEW k \in 1..p, NEW l \in 1..p, k < l PROVE h[k] < h[l]
      <4>1. f[k] < f[l] /\ f[k] \in 1..m /\ f[l] \in 1..m
        BY <1>3, <1>5, <3>1
      <4>2. h[k] = f[k] + 1 /\ h[l] = f[l] + 1
        BY <2>1
      <4> QED BY <4>1, <4>2
    <3> QED BY <3>1
  <2>3. ASSUME NEW i \in 1..m + 1 PROVE i \in I <=> \E k \in 1..p : h[k] = i
    <3>1. CASE i = 1
      BY <1>4, <1>8, <2>1, <3>1
    <3>2. CASE i # 1
      BY <1>7, <2>1, <3>2
    <3> QED BY <3>1, <3>2
  <2>4. Enumerates(h, I, m + 1)
    BY <2>1, <2>2, <2>3 DEF Enumerates, Rising
  <2>5. Pick(s, I) = [n \in 1..p |-> s[h[n]]]
    <3>1. Len(s) \in Nat /\ Enumerates(h, I, Len(s))
      BY <1>0, <2>4
    <3>2. Pick(s, I) = [n \in 1..Len(h) |-> s[h[n]]]
      BY <3>1, PickIs
    <3> QED BY <2>1, <3>2
  <2>6. \A n \in 1..p : s[h[n]] = t[f[n]]
    BY <1>4, <2>1
  <2> QED BY <1>2, <1>8, <2>5, <2>6
<1>9. CASE 1 \in I
  <2> DEFINE h == [k \in 1..p + 1 |-> IF k = 1 THEN 1 ELSE f[k - 1] + 1]
  <2>1. \A k \in 1..p + 1 : k # 1 => k - 1 \in 1..p
    BY <1>3
  <2>2. /\ h \in Seq(1..m + 1) /\ Len(h) = p + 1 /\ h[1] = 1
        /\ \A k \in 1..p + 1 : k # 1 => h[k] = f[k - 1] + 1
    <3>1. \A k \in 1..p + 1 : (IF k = 1 THEN 1 ELSE f[k - 1] + 1) \in 1..m + 1
      BY <1>0, <1>4, <2>1
    <3>2. h \in [1..p + 1 -> 1..m + 1]
      BY <3>1
    <3>3. p + 1 \in Nat /\ 1 \in 1..p + 1
      BY <1>3
    <3>4. h[1] = 1 /\ \A k \in 1..p + 1 : k # 1 => h[k] = f[k - 1] + 1
      BY <3>3
    <3> HIDE DEF h
    <3>5. h \in Seq(1..m + 1) /\ Len(h) = p + 1
      BY <3>2, <3>3, FunctionIsSeq
    <3> QED BY <3>4, <3>5
  <2> HIDE DEF h
  <2>3. \A k, l \in 1..p + 1 : k < l => h[k] < h[l]
    <3>1. ASSUME NEW k \in 1..p + 1, NEW l \in 1..p + 1, k < l PROVE h[k] < h[l]
      <4>1. l # 1 /\ l - 1 \in 1..p /\ h[l] = f[l - 1] + 1 /\ f[l - 1] \in 1..m
        <5>1. l # 1
          BY <1>3, <3>1
        <5> QED BY <1>3, <2>1, <2>2, <5>1
      <4>2. CASE k = 1
        BY <1>0, <2>2, <4>1, <4>2
      <4>3. CASE k # 1
        <5>1. k - 1 \in 1..p /\ h[k] = f[k - 1] + 1 /\ f[k - 1] \in 1..m
          BY <1>3, <2>1, <2>2, <4>3
        <5>2. k - 1 < l - 1
          BY <1>3, <3>1
        <5>3. f[k - 1] < f[l - 1]
          BY <1>5, <4>1, <5>1, <5>2
        <5> QED BY <4>1, <5>1, <5>3
      <4> QED BY <4>2, <4>3
    <3> QED BY <3>1
  <2>4. ASSUME NEW i \in 1..m + 1 PROVE i \in I <=> \E k \in 1..p + 1 : h[k] = i
    <3>0. 1 \in 1..p + 1
      BY <1>3
    <3>1. CASE i = 1
      BY <1>9, <2>2, <3>0, <3>1
    <3>2. CASE i # 1
      <4>1. ASSUME NEW k \in 1..p, f[k] + 1 = i PROVE \E l \in 1..p + 1 : h[l] = i
        <5>1. k + 1 \in 1..p + 1 /\ k + 1 # 1 /\ (k + 1) - 1 = k
          BY <1>3
        <5> QED BY <2>2, <4>1, <5>1
      <4>2. ASSUME NEW l \in 1..p + 1, h[l] = i PROVE \E k \in 1..p : f[k] + 1 = i
        <5>1. l # 1
          BY <2>2, <3>2, <4>2
        <5> QED BY <2>1, <2>2, <4>2, <5>1
      <4> QED BY <1>7, <3>2, <4>1, <4>2
    <3> QED BY <3>1, <3>2
  <2>5. Enumerates(h, I, m + 1)
    BY <2>2, <2>3, <2>4 DEF Enumerates, Rising
  <2>6. Pick(s, I) = [n \in 1..p + 1 |-> s[h[n]]]
    <3>1. Len(s) \in Nat /\ Enumerates(h, I, Len(s))
      BY <1>0, <2>5
    <3>2. Pick(s, I) = [n \in 1..Len(h) |-> s[h[n]]]
      BY <3>1, PickIs
    <3> QED BY <2>2, <3>2
  <2> DEFINE u == Pick(s, I)
             v == Pick(t, J)
  <2>7. u \in Seq(R) /\ v \in Seq(R)
    BY PickType
  <2>8. Len(u) = p + 1 /\ Len(v) = p
    BY <1>2, <1>3, <2>6
  <2>9. u[1] = s[1]
    BY <1>3, <2>2, <2>6
  <2>10. \A n \in 1..p : u[n + 1] = v[n]
    <3>1. ASSUME NEW n \in 1..p PROVE u[n + 1] = v[n]
      <4>1. n + 1 \in 1..p + 1 /\ n + 1 # 1 /\ (n + 1) - 1 = n
        BY <1>3
      <4>2. u[n + 1] = s[h[n + 1]] /\ v[n] = t[f[n]] /\ h[n + 1] = f[n] + 1
        BY <1>2, <2>2, <2>6, <4>1
      <4> QED BY <1>4, <4>2
    <3> QED BY <3>1
  <2> HIDE DEF u, v
  <2>11. Longer(u, v)
    BY <2>8, <2>10 DEF Longer
  <2>12. u = <<u[1]>> \o v
    BY <2>7, <2>11, LongerIsCons
  <2> QED BY <1>9, <2>9, <2>12 DEF u, v
<1> QED BY <1>8, <1>9

(* What is picked of a sequence of which everything, or nothing, is.       *)
LEMMA PickAll ==
  ASSUME NEW R, NEW s \in Seq(R), NEW I, \A n \in 1..Len(s) : n \in I
  PROVE  Pick(s, I) = s
<1> DEFINE m == Len(s)
           f == [n \in 1..m |-> n]
<1>0. m \in Nat
  OBVIOUS
<1>1. f \in Seq(1..m) /\ Len(f) = m /\ \A n \in 1..m : f[n] = n
  BY <1>0
<1> HIDE DEF m, f
<1>2. \A k, l \in 1..m : k < l => f[k] < f[l]
  BY <1>1
<1>3. \A i \in 1..m : i \in I <=> \E k \in 1..m : f[k] = i
  BY <1>1 DEF m
<1>4. Enumerates(f, I, m)
  BY <1>1, <1>2, <1>3 DEF Enumerates, Rising
<1>5. Pick(s, I) = [n \in 1..m |-> s[f[n]]]
  BY <1>0, <1>1, <1>4, PickIs DEF m
<1>6. [n \in 1..m |-> s[f[n]]] = [n \in 1..m |-> s[n]]
  BY <1>1
<1>7. s = [n \in 1..m |-> s[n]]
  BY DEF m
<1> QED BY <1>5, <1>6, <1>7

-----------------------------------------------------------------------------
(* The sides of a list of changes.                                         *)
Olds(w) == [n \in 1..Len(w) |-> <<w[n].old, w[n].text>>]
News(w) == [n \in 1..Len(w) |-> <<w[n].new, w[n].text>>]

LEMMA SidesType ==
  ASSUME NEW T, NEW w \in Seq(ChangesOf(T))
  PROVE  /\ Olds(w) \in Seq(Nat \X T) /\ Len(Olds(w)) = Len(w)
         /\ News(w) \in Seq(Nat \X T) /\ Len(News(w)) = Len(w)
         /\ Len(w) \in Nat
<1>1. Len(w) \in Nat
  OBVIOUS
<1>2. \A n \in 1..Len(w) : w[n].old \in Nat /\ w[n].new \in Nat /\ w[n].text \in T
  <2>1. \A n \in 1..Len(w) : w[n] \in ChangesOf(T)
    OBVIOUS
  <2> QED BY <2>1 DEF ChangesOf
<1>3. Olds(w) \in [1..Len(w) -> Nat \X T] /\ News(w) \in [1..Len(w) -> Nat \X T]
  BY <1>2 DEF Olds, News
<1> QED BY <1>1, <1>3, FunctionIsSeq

LEMMA SidesOfMore ==
  ASSUME NEW T, NEW c \in ChangesOf(T), NEW w \in Seq(ChangesOf(T))
  PROVE  LET v == <<c>> \o w
         IN  /\ v \in Seq(ChangesOf(T))
             /\ OldSide(v) = IF c.op \in {"eq", "del"} THEN <<<<c.old, c.text>>>> \o OldSide(w) ELSE OldSide(w)
             /\ NewSide(v) = IF c.op \in {"eq", "add"} THEN <<<<c.new, c.text>>>> \o NewSide(w) ELSE NewSide(w)
<1> DEFINE v == <<c>> \o w
<1>1. v \in Seq(ChangesOf(T)) /\ Longer(v, w) /\ v[1] = c
  BY ConsIsLonger
<1> HIDE DEF v
<1>2. /\ Olds(w) \in Seq(Nat \X T) /\ Len(Olds(w)) = Len(w)
      /\ News(w) \in Seq(Nat \X T) /\ Len(News(w)) = Len(w)
      /\ Olds(v) \in Seq(Nat \X T) /\ Len(Olds(v)) = Len(v)
      /\ News(v) \in Seq(Nat \X T) /\ Len(News(v)) = Len(v)
      /\ Len(w) \in Nat
  BY <1>1, SidesType
<1>3. Len(v) = Len(w) + 1 /\ \A n \in 1..Len(w) : v[n + 1] = w[n]
  BY <1>1 DEF Longer
<1>4. \A n \in 1..Len(w) : n + 1 \in 1..Len(v)
  BY <1>2, <1>3
<1>5. 1 \in 1..Len(v)
  BY <1>2, <1>3
<1>6. Longer(Olds(v), Olds(w)) /\ Olds(v)[1] = <<c.old, c.text>>
  <2>1. \A n \in 1..Len(w) : Olds(v)[n + 1] = Olds(w)[n]
    BY <1>3, <1>4 DEF Olds
  <2>2. Olds(v)[1] = <<c.old, c.text>>
    BY <1>1, <1>5 DEF Olds
  <2> QED BY <1>2, <1>3, <2>1, <2>2 DEF Longer
<1>7. Longer(News(v), News(w)) /\ News(v)[1] = <<c.new, c.text>>
  <2>1. \A n \in 1..Len(w) : News(v)[n + 1] = News(w)[n]
    BY <1>3, <1>4 DEF News
  <2>2. News(v)[1] = <<c.new, c.text>>
    BY <1>1, <1>5 DEF News
  <2> QED BY <1>2, <1>3, <2>1, <2>2 DEF Longer
<1>8. ASSUME NEW K PROVE /\ \A n \in 1..Len(w) : n + 1 \in Marked(v, K) <=> n \in Marked(w, K)
                         /\ 1 \in Marked(v, K) <=> c.op \in K
  BY <1>1, <1>3, <1>4, <1>5 DEF Marked
<1>9. OldSide(v) = IF c.op \in {"eq", "del"} THEN <<<<c.old, c.text>>>> \o OldSide(w) ELSE OldSide(w)
  <2> DEFINE I == Marked(v, {"eq", "del"})
             J == Marked(w, {"eq", "del"})
  <2>1. OldSide(v) = Pick(Olds(v), I) /\ OldSide(w) = Pick(Olds(w), J)
    BY DEF OldSide, Olds
  <2>2. Shifts(I, J, Len(Olds(w)))
    BY <1>2, <1>8 DEF Shifts
  <2>3. 1 \in I <=> c.op \in {"eq", "del"}
    BY <1>8
  <2> HIDE DEF I, J
  <2>4. Pick(Olds(v), I) = IF 1 \in I THEN <<Olds(v)[1]>> \o Pick(Olds(w), J) ELSE Pick(Olds(w), J)
    <3> DEFINE R == Nat \X T
    <3>1. Olds(v) \in Seq(R) /\ Olds(w) \in Seq(R)
      BY <1>2
    <3> DEFINE x == Olds(v)
               y == Olds(w)
    <3>2. x \in Seq(R) /\ y \in Seq(R) /\ Longer(x, y) /\ Shifts(I, J, Len(y))
      BY <1>6, <2>2, <3>1
    <3> HIDE DEF R, x, y
    <3>3. Pick(x, I) = IF 1 \in I THEN <<x[1]>> \o Pick(y, J) ELSE Pick(y, J)
      BY <3>2, PickLonger
    <3> QED BY <3>3 DEF x, y
  <2> QED BY <1>6, <2>1, <2>3, <2>4
<1>10. NewSide(v) = IF c.op \in {"eq", "add"} THEN <<<<c.new, c.text>>>> \o NewSide(w) ELSE NewSide(w)
  <2> DEFINE I == Marked(v, {"eq", "add"})
             J == Marked(w, {"eq", "add"})
  <2>1. NewSide(v) = Pick(News(v), I) /\ NewSide(w) = Pick(News(w), J)
    BY DEF NewSide, News
  <2>2. Shifts(I, J, Len(News(w)))
    BY <1>2, <1>8 DEF Shifts
  <2>3. 1 \in I <=> c.op \in {"eq", "add"}
    BY <1>8
  <2> HIDE DEF I, J
  <2>4. Pick(News(v), I) = IF 1 \in I THEN <<News(v)[1]>> \o Pick(News(w), J) ELSE Pick(News(w), J)
    <3> DEFINE R == Nat \X T
    <3>1. News(v) \in Seq(R) /\ News(w) \in Seq(R)
      BY <1>2
    <3> DEFINE x == News(v)
               y == News(w)
    <3>2. x \in Seq(R) /\ y \in Seq(R) /\ Longer(x, y) /\ Shifts(I, J, Len(y))
      BY <1>7, <2>2, <3>1
    <3> HIDE DEF R, x, y
    <3>3. Pick(x, I) = IF 1 \in I THEN <<x[1]>> \o Pick(y, J) ELSE Pick(y, J)
      BY <3>2, PickLonger
    <3> QED BY <3>3 DEF x, y
  <2> QED BY <1>7, <2>1, <2>3, <2>4
<1> QED BY <1>1, <1>9, <1>10 DEF v

(* The number of lines that are the same.                                  *)
Same(w) == Marked(w, {"eq"})

LEMMA SameOfMore ==
  ASSUME NEW T, NEW c \in ChangesOf(T), NEW w \in Seq(ChangesOf(T)), IsFiniteSet(Same(w))
  PROVE  LET v == <<c>> \o w
         IN  /\ IsFiniteSet(Same(v))
             /\ Cardinality(Same(v)) = IF c.op = "eq" THEN Cardinality(Same(w)) + 1 ELSE Cardinality(Same(w))
<1> DEFINE v == <<c>> \o w
           W == Same(w)
           U == Same(v) \ {1}
<1>1. v \in Seq(ChangesOf(T)) /\ Longer(v, w) /\ v[1] = c
  BY ConsIsLonger
<1> HIDE DEF v
<1>2. Len(w) \in Nat /\ Len(v) = Len(w) + 1 /\ \A n \in 1..Len(w) : v[n + 1] = w[n]
  BY <1>1 DEF Longer
<1>3. 1 \in Same(v) <=> c.op = "eq"
  <2>1. 1 \in 1..Len(v)
    BY <1>2
  <2> QED BY <1>1, <2>1 DEF Same, Marked
<1>4. ASSUME NEW n \in W PROVE n \in Nat /\ n + 1 \in U
  <2>1. n \in 1..Len(w) /\ w[n].op = "eq"
    BY DEF Same, Marked
  <2>2. n + 1 \in 1..Len(v) /\ n + 1 # 1
    BY <1>2, <2>1
  <2> QED BY <1>2, <2>1, <2>2 DEF Same, Marked
<1>5. ASSUME NEW k \in U PROVE k - 1 \in W /\ (k - 1) + 1 = k
  <2>1. k \in 1..Len(v) /\ v[k].op = "eq" /\ k # 1
    BY DEF Same, Marked
  <2>2. k - 1 \in 1..Len(w) /\ (k - 1) + 1 = k
    BY <1>2, <2>1
  <2>3. v[(k - 1) + 1] = w[k - 1]
    BY <1>2, <2>2
  <2> QED BY <2>1, <2>2, <2>3 DEF Same, Marked
<1> HIDE DEF W, U
<1> DEFINE f == [n \in W |-> n + 1]
<1>6. f \in Bijection(W, U)
  <2>1. f \in [W -> U] /\ \A n \in W : f[n] = n + 1
    BY <1>4
  <2> HIDE DEF f
  <2>2. \A m, n \in W : f[m] = f[n] => m = n
    BY <1>4, <2>1
  <2>3. \A k \in U : \E n \in W : f[n] = k
    BY <1>5, <2>1
  <2> QED BY <2>1, <2>2, <2>3 DEF Bijection, Injection, Surjection, IsInjective
<1>7. IsFiniteSet(U) /\ Cardinality(U) = Cardinality(W)
  <2>1. ExistsBijection(W, U)
    BY <1>6 DEF ExistsBijection
  <2>2. IsFiniteSet(W)
    BY DEF W
  <2> QED BY <2>1, <2>2, FS_Bijection
<1>8. CASE c.op = "eq"
  <2>1. Same(v) = U \cup {1} /\ 1 \notin U
    BY <1>3, <1>8 DEF U
  <2> QED BY <1>7, <1>8, <2>1, FS_AddElement DEF W, v
<1>9. CASE c.op # "eq"
  <2>1. Same(v) = U
    BY <1>3, <1>9 DEF U
  <2> QED BY <1>7, <1>9, <2>1 DEF W, v
<1> QED BY <1>8, <1>9

-----------------------------------------------------------------------------
(* What is left of a text, with its line numbers.                          *)
Rest(s, i) == [n \in 1..Len(s) + 1 - i |-> <<i + n - 1, s[i + n - 1]>>]

LEMMA RestIs ==
  ASSUME NEW T, NEW s \in Seq(T)
  PROVE  /\ \A i \in 1..Len(s) : Rest(s, i) = <<<<i, s[i]>>>> \o Rest(s, i + 1)
         /\ Rest(s, Len(s) + 1) = <<>>
         /\ Rest(s, 1) = Numbered(s)
<1>0. Len(s) \in Nat
  OBVIOUS
<1>1. ASSUME NEW i \in 1..Len(s) + 1
      PROVE  Rest(s, i) \in Seq(Nat \X T) /\ Len(Rest(s, i)) = Len(s) + 1 - i
  <2>1. Len(s) + 1 - i \in Nat
    BY <1>0
  <2>2. ASSUME NEW n \in 1..Len(s) + 1 - i PROVE <<i + n - 1, s[i + n - 1]>> \in Nat \X T
    <3>1. i + n - 1 \in 1..Len(s)
      BY <1>0
    <3> QED BY <3>1
  <2>3. Rest(s, i) \in [1..Len(s) + 1 - i -> Nat \X T]
    BY <2>2 DEF Rest
  <2> QED BY <2>1, <2>3, FunctionIsSeq
<1>2. ASSUME NEW i \in 1..Len(s) PROVE Rest(s, i) = <<<<i, s[i]>>>> \o Rest(s, i + 1)
  <2> DEFINE r == Rest(s, i)
             t == Rest(s, i + 1)
             l == Len(s) + 1 - i
  <2>1. i \in 1..Len(s) + 1 /\ i + 1 \in 1..Len(s) + 1
    BY <1>0
  <2>2. r \in Seq(Nat \X T) /\ Len(r) = l
    BY <1>1, <2>1
  <2>3. t \in Seq(Nat \X T) /\ Len(t) = Len(s) + 1 - (i + 1)
    BY <1>1, <2>1
  <2>4. l \in Nat /\ Len(t) = l - 1 /\ 1 \in 1..l
    <3> DEFINE m == Len(t)
               n == Len(s)
    <3>1. n \in Nat /\ m = n + 1 - (i + 1)
      BY <1>0, <2>3
    <3> HIDE DEF m, n
    <3>2. i \in 1..n /\ l = n + 1 - i
      BY DEF n
    <3> HIDE DEF l
    <3>3. l \in Nat /\ m = l - 1 /\ 1 \in 1..l
      BY <3>1, <3>2
    <3> QED BY <3>3 DEF m
  <2>5. r[1] = <<i, s[i]>>
    <3>1. i + 1 - 1 = i
      BY <1>0
    <3> QED BY <2>4, <3>1 DEF Rest
  <2>6. ASSUME NEW n \in 1..Len(t) PROVE r[n + 1] = t[n]
    <3>1. n \in 1..Len(s) + 1 - (i + 1) /\ n + 1 \in 1..l /\ i + (n + 1) - 1 = (i + 1) + n - 1
      BY <1>0, <2>3, <2>4
    <3>2. r[n + 1] = <<i + (n + 1) - 1, s[i + (n + 1) - 1]>>
      BY <3>1 DEF Rest
    <3>3. t[n] = <<(i + 1) + n - 1, s[(i + 1) + n - 1]>>
      BY <3>1 DEF Rest
    <3> QED BY <3>1, <3>2, <3>3
  <2> HIDE DEF r, t
  <2>7. Longer(r, t)
    <3>1. Len(r) = Len(t) + 1
      BY <2>2, <2>4
    <3> QED BY <2>6, <3>1 DEF Longer
  <2>8. r = <<r[1]>> \o t
    BY <2>2, <2>3, <2>7, LongerIsCons
  <2> QED BY <2>5, <2>8 DEF r, t
<1>3. Rest(s, Len(s) + 1) = <<>>
  <2>1. Len(s) + 1 \in 1..Len(s) + 1 /\ Len(s) + 1 - (Len(s) + 1) = 0
    BY <1>0
  <2>2. Rest(s, Len(s) + 1) \in Seq(Nat \X T) /\ Len(Rest(s, Len(s) + 1)) = 0
    BY <1>1, <2>1
  <2> QED BY <2>2, EmptySeq
<1>4. Rest(s, 1) = Numbered(s)
  <2>1. Len(s) + 1 - 1 = Len(s) /\ \A n \in 1..Len(s) : 1 + n - 1 = n
    BY <1>0
  <2> QED BY <2>1 DEF Rest, Numbered
<1> QED BY <1>2, <1>3, <1>4

-----------------------------------------------------------------------------
(* The steps of the walk: to the end, past two lines that are the same,    *)
(* past a line that was deleted, and past one that was added.              *)
AtEnd(w, dp, a, b, i, j) ==
  i = Len(a) + 1 /\ j = Len(b) + 1 /\ w[<<i, j>>] = <<>> /\ dp[<<i, j>>] = 0

PastBoth(w, dp, a, b, i, j) ==
  /\ i <= Len(a) /\ j <= Len(b) /\ a[i] = b[j]
  /\ w[<<i, j>>] = <<Eq(a, i, j)>> \o w[<<i + 1, j + 1>>]
  /\ dp[<<i, j>>] = dp[<<i + 1, j + 1>>] + 1

PastOld(w, dp, a, b, i, j) ==
  /\ i <= Len(a)
  /\ w[<<i, j>>] = <<Del(a, i)>> \o w[<<i + 1, j>>]
  /\ dp[<<i, j>>] = dp[<<i + 1, j>>]

PastNew(w, dp, a, b, i, j) ==
  /\ j <= Len(b)
  /\ w[<<i, j>>] = <<Add(b, j)>> \o w[<<i, j + 1>>]
  /\ dp[<<i, j>>] = dp[<<i, j + 1>>]

LEMMA LeftOverSteps ==
  ASSUME NEW T, NEW a \in Seq(T), NEW b \in Seq(T), NEW i \in 1..Len(a) + 1, NEW j \in 1..Len(b) + 1
  PROVE  /\ i = Len(a) + 1 /\ j = Len(b) + 1 => LeftOver(a, b, i, j) = <<>>
         /\ i <= Len(a) => LeftOver(a, b, i, j) = <<Del(a, i)>> \o LeftOver(a, b, i + 1, j)
         /\ i = Len(a) + 1 /\ j <= Len(b) =>
              LeftOver(a, b, i, j) = <<Add(b, j)>> \o LeftOver(a, b, i, j + 1)
<1> DEFINE C == ChangesOf(T)
           D(k) == [n \in 1..(Len(a) + 1 - k) |-> Del(a, k + n - 1)]
           E(l) == [n \in 1..(Len(b) + 1 - l) |-> Add(b, l + n - 1)]
<1>0. Len(a) \in Nat /\ Len(b) \in Nat
  OBVIOUS
<1>1. ASSUME NEW k \in 1..Len(a) + 1
      PROVE  /\ D(k) \in Seq(C) /\ Len(D(k)) = Len(a) + 1 - k
             /\ \A n \in 1..(Len(a) + 1 - k) : D(k)[n] = Del(a, k + n - 1)
  <2> DEFINE m == Len(a) + 1 - k
  <2>1. m \in Nat
    BY <1>0
  <2>2. ASSUME NEW n \in 1..m PROVE Del(a, k + n - 1) \in C
    <3>1. k + n - 1 \in 1..Len(a)
      BY <1>0
    <3> QED BY <3>1 DEF Del, ChangesOf
  <2> HIDE DEF C
  <2>3. D(k) \in [1..m -> C]
    BY <2>2
  <2>4. \A n \in 1..m : D(k)[n] = Del(a, k + n - 1)
    OBVIOUS
  <2> HIDE DEF D, m
  <2>5. D(k) \in Seq(C) /\ Len(D(k)) = m
    BY <2>1, <2>3, FunctionIsSeq
  <2> QED BY <2>4, <2>5 DEF m
<1>2. ASSUME NEW l \in 1..Len(b) + 1
      PROVE  /\ E(l) \in Seq(C) /\ Len(E(l)) = Len(b) + 1 - l
             /\ \A n \in 1..(Len(b) + 1 - l) : E(l)[n] = Add(b, l + n - 1)
  <2> DEFINE m == Len(b) + 1 - l
  <2>1. m \in Nat
    BY <1>0
  <2>2. ASSUME NEW n \in 1..m PROVE Add(b, l + n - 1) \in C
    <3>1. l + n - 1 \in 1..Len(b)
      BY <1>0
    <3> QED BY <3>1 DEF Add, ChangesOf
  <2> HIDE DEF C
  <2>3. E(l) \in [1..m -> C]
    BY <2>2
  <2>4. \A n \in 1..m : E(l)[n] = Add(b, l + n - 1)
    OBVIOUS
  <2> HIDE DEF E, m
  <2>5. E(l) \in Seq(C) /\ Len(E(l)) = m
    BY <2>1, <2>3, FunctionIsSeq
  <2> QED BY <2>4, <2>5 DEF m
<1>3. \A k, l : LeftOver(a, b, k, l) = D(k) \o E(l)
  BY DEF LeftOver
<1> HIDE DEF C, D, E
<1>4. ASSUME NEW k \in 1..Len(a) PROVE D(k) = <<Del(a, k)>> \o D(k + 1) /\ Del(a, k) \in C
  <2>1. k \in 1..Len(a) + 1 /\ k + 1 \in 1..Len(a) + 1
    BY <1>0
  <2>2. /\ D(k) \in Seq(C) /\ Len(D(k)) = Len(a) + 1 - k
        /\ \A n \in 1..(Len(a) + 1 - k) : D(k)[n] = Del(a, k + n - 1)
    BY <1>1, <2>1
  <2>3. /\ D(k + 1) \in Seq(C) /\ Len(D(k + 1)) = Len(a) + 1 - (k + 1)
        /\ \A n \in 1..(Len(a) + 1 - (k + 1)) : D(k + 1)[n] = Del(a, (k + 1) + n - 1)
    BY <1>1, <2>1
  <2>4. Len(D(k)) = Len(D(k + 1)) + 1
    <3>1. Len(a) + 1 - k = (Len(a) + 1 - (k + 1)) + 1
      BY <1>0
    <3> QED BY <2>2, <2>3, <3>1
  <2>5. ASSUME NEW n \in 1..Len(D(k + 1)) PROVE D(k)[n + 1] = D(k + 1)[n]
    <3>1. /\ n \in 1..(Len(a) + 1 - (k + 1)) /\ n + 1 \in 1..(Len(a) + 1 - k)
          /\ k + (n + 1) - 1 = (k + 1) + n - 1
      BY <1>0, <2>3
    <3> QED BY <2>2, <2>3, <3>1
  <2>6. D(k)[1] = Del(a, k)
    <3>1. 1 \in 1..(Len(a) + 1 - k) /\ k + 1 - 1 = k
      BY <1>0
    <3> QED BY <2>2, <3>1
  <2>7. Longer(D(k), D(k + 1))
    BY <2>4, <2>5 DEF Longer
  <2>8. D(k) = <<D(k)[1]>> \o D(k + 1)
    BY <2>2, <2>3, <2>7, LongerIsCons
  <2>9. Del(a, k) \in C
    BY DEF Del, C, ChangesOf
  <2> QED BY <2>6, <2>8, <2>9
<1>5. ASSUME NEW l \in 1..Len(b) PROVE E(l) = <<Add(b, l)>> \o E(l + 1)
  <2>1. l \in 1..Len(b) + 1 /\ l + 1 \in 1..Len(b) + 1
    BY <1>0
  <2>2. /\ E(l) \in Seq(C) /\ Len(E(l)) = Len(b) + 1 - l
        /\ \A n \in 1..(Len(b) + 1 - l) : E(l)[n] = Add(b, l + n - 1)
    BY <1>2, <2>1
  <2>3. /\ E(l + 1) \in Seq(C) /\ Len(E(l + 1)) = Len(b) + 1 - (l + 1)
        /\ \A n \in 1..(Len(b) + 1 - (l + 1)) : E(l + 1)[n] = Add(b, (l + 1) + n - 1)
    BY <1>2, <2>1
  <2>4. Len(E(l)) = Len(E(l + 1)) + 1
    <3>1. Len(b) + 1 - l = (Len(b) + 1 - (l + 1)) + 1
      BY <1>0
    <3> QED BY <2>2, <2>3, <3>1
  <2>5. ASSUME NEW n \in 1..Len(E(l + 1)) PROVE E(l)[n + 1] = E(l + 1)[n]
    <3>1. /\ n \in 1..(Len(b) + 1 - (l + 1)) /\ n + 1 \in 1..(Len(b) + 1 - l)
          /\ l + (n + 1) - 1 = (l + 1) + n - 1
      BY <1>0, <2>3
    <3> QED BY <2>2, <2>3, <3>1
  <2>6. E(l)[1] = Add(b, l)
    <3>1. 1 \in 1..(Len(b) + 1 - l) /\ l + 1 - 1 = l
      BY <1>0
    <3> QED BY <2>2, <3>1
  <2>7. Longer(E(l), E(l + 1))
    BY <2>4, <2>5 DEF Longer
  <2>8. E(l) = <<E(l)[1]>> \o E(l + 1)
    BY <2>2, <2>3, <2>7, LongerIsCons
  <2> QED BY <2>6, <2>8
<1>6. D(Len(a) + 1) = <<>>
  <2>1. Len(a) + 1 \in 1..Len(a) + 1 /\ Len(a) + 1 - (Len(a) + 1) = 0
    BY <1>0
  <2>2. D(Len(a) + 1) \in Seq(C) /\ Len(D(Len(a) + 1)) = 0
    BY <1>1, <2>1
  <2> QED BY <2>2, EmptySeq
<1>7. E(Len(b) + 1) = <<>>
  <2>1. Len(b) + 1 \in 1..Len(b) + 1 /\ Len(b) + 1 - (Len(b) + 1) = 0
    BY <1>0
  <2>2. E(Len(b) + 1) \in Seq(C) /\ Len(E(Len(b) + 1)) = 0
    BY <1>2, <2>1
  <2> QED BY <2>2, EmptySeq
<1>8. i = Len(a) + 1 /\ j = Len(b) + 1 => LeftOver(a, b, i, j) = <<>>
  <2>1. <<>> \in Seq(C) /\ <<>> \o <<>> = <<>>
    <3>1. <<>> \in Seq(C)
      OBVIOUS
    <3> QED BY <3>1, ConcatEmptySeq
  <2> QED BY <1>3, <1>6, <1>7, <2>1
<1>9. i <= Len(a) => LeftOver(a, b, i, j) = <<Del(a, i)>> \o LeftOver(a, b, i + 1, j)
  <2> SUFFICES ASSUME i <= Len(a) PROVE D(i) \o E(j) = <<Del(a, i)>> \o (D(i + 1) \o E(j))
    BY <1>3
  <2>1. i \in 1..Len(a) /\ i + 1 \in 1..Len(a) + 1
    BY <1>0
  <2>2. D(i + 1) \in Seq(C) /\ E(j) \in Seq(C) /\ <<Del(a, i)>> \in Seq(C)
    <3>1. Del(a, i) \in C
      BY <1>4, <2>1
    <3>2. D(i + 1) \in Seq(C)
      BY <1>1, <2>1
    <3>3. E(j) \in Seq(C)
      BY <1>2
    <3> QED BY <3>1, <3>2, <3>3
  <2>3. (<<Del(a, i)>> \o D(i + 1)) \o E(j) = <<Del(a, i)>> \o (D(i + 1) \o E(j))
    BY <2>2, ConcatAssociative
  <2> QED BY <1>4, <2>1, <2>3
<1>10. i = Len(a) + 1 /\ j <= Len(b) =>
         LeftOver(a, b, i, j) = <<Add(b, j)>> \o LeftOver(a, b, i, j + 1)
  <2> SUFFICES ASSUME i = Len(a) + 1, j <= Len(b)
               PROVE  D(i) \o E(j) = <<Add(b, j)>> \o (D(i) \o E(j + 1))
    BY <1>3
  <2>1. j \in 1..Len(b) /\ j + 1 \in 1..Len(b) + 1
    BY <1>0
  <2>2. E(j) \in Seq(C) /\ E(j + 1) \in Seq(C)
    BY <1>2, <2>1
  <2>3. <<>> \o E(j) = E(j) /\ <<>> \o E(j + 1) = E(j + 1)
    BY <2>2, ConcatEmptySeq
  <2> QED BY <1>5, <1>6, <2>1, <2>3
<1> QED BY <1>8, <1>9, <1>10

LEMMA WalkSteps ==
  ASSUME NEW T, NEW a \in Seq(T), NEW b \in Seq(T), NEW i \in 1..Len(a) + 1, NEW j \in 1..Len(b) + 1
  PROVE  LET w == Walk(a, b)
             dp == Lcs(a, b)
         IN  \/ AtEnd(w, dp, a, b, i, j) \/ PastBoth(w, dp, a, b, i, j)
             \/ PastOld(w, dp, a, b, i, j) \/ PastNew(w, dp, a, b, i, j)
<1> DEFINE w == Walk(a, b)
           dp == Lcs(a, b)
<1>0. Len(a) \in Nat /\ Len(b) \in Nat
  OBVIOUS
<1>1. ASSUME NEW k \in 1..Len(a) + 1, NEW l \in 1..Len(b) + 1
      PROVE  w[<<k, l>>] = WalkAt(w, dp, a, b, k, l) /\ dp[<<k, l>>] = LcsAt(dp, a, b, k, l)
  BY LcsIs, WalkIs
<1> HIDE DEF w, dp
<1>2. ASSUME NEW k \in 1..Len(a) + 1, NEW l \in 1..Len(b) + 1, k > Len(a) \/ l > Len(b)
      PROVE  w[<<k, l>>] = LeftOver(a, b, k, l) /\ dp[<<k, l>>] = 0
  BY <1>1, <1>2 DEF WalkAt, LcsAt
<1>3. CASE i = Len(a) + 1 /\ j = Len(b) + 1
  <2>1. w[<<i, j>>] = LeftOver(a, b, i, j) /\ dp[<<i, j>>] = 0
    BY <1>0, <1>2, <1>3
  <2>2. LeftOver(a, b, i, j) = <<>>
    BY <1>3, LeftOverSteps
  <2>3. AtEnd(w, dp, a, b, i, j)
    BY <1>3, <2>1, <2>2 DEF AtEnd
  <2> QED BY <2>3 DEF w, dp
<1>4. CASE i <= Len(a) /\ j = Len(b) + 1
  <2>1. i + 1 \in 1..Len(a) + 1 /\ j > Len(b)
    BY <1>0, <1>4
  <2>2. w[<<i, j>>] = LeftOver(a, b, i, j) /\ dp[<<i, j>>] = 0
    BY <1>2, <2>1
  <2>3. w[<<i + 1, j>>] = LeftOver(a, b, i + 1, j) /\ dp[<<i + 1, j>>] = 0
    BY <1>2, <2>1
  <2>4. LeftOver(a, b, i, j) = <<Del(a, i)>> \o LeftOver(a, b, i + 1, j)
    BY <1>4, LeftOverSteps
  <2>5. PastOld(w, dp, a, b, i, j)
    BY <1>4, <2>2, <2>3, <2>4 DEF PastOld
  <2> QED BY <2>5 DEF w, dp
<1>5. CASE i = Len(a) + 1 /\ j <= Len(b)
  <2>1. j + 1 \in 1..Len(b) + 1 /\ i > Len(a)
    BY <1>0, <1>5
  <2>2. w[<<i, j>>] = LeftOver(a, b, i, j) /\ dp[<<i, j>>] = 0
    BY <1>2, <2>1
  <2>3. w[<<i, j + 1>>] = LeftOver(a, b, i, j + 1) /\ dp[<<i, j + 1>>] = 0
    BY <1>2, <2>1
  <2>4. LeftOver(a, b, i, j) = <<Add(b, j)>> \o LeftOver(a, b, i, j + 1)
    BY <1>5, LeftOverSteps
  <2>5. PastNew(w, dp, a, b, i, j)
    BY <1>5, <2>2, <2>3, <2>4 DEF PastNew
  <2> QED BY <2>5 DEF w, dp
<1>6. CASE i <= Len(a) /\ j <= Len(b)
  <2>1. ~(i > Len(a) \/ j > Len(b))
    BY <1>0, <1>6
  <2>2. CASE a[i] = b[j]
    <3>1. w[<<i, j>>] = <<Eq(a, i, j)>> \o w[<<i + 1, j + 1>>]
      BY <1>1, <2>1, <2>2 DEF WalkAt
    <3>2. dp[<<i, j>>] = dp[<<i + 1, j + 1>>] + 1
      BY <1>1, <2>1, <2>2 DEF LcsAt
    <3>3. PastBoth(w, dp, a, b, i, j)
      BY <1>6, <2>2, <3>1, <3>2 DEF PastBoth
    <3> QED BY <3>3 DEF w, dp
  <2>3. CASE a[i] # b[j] /\ dp[<<i + 1, j>>] >= dp[<<i, j + 1>>]
    <3>1. w[<<i, j>>] = <<Del(a, i)>> \o w[<<i + 1, j>>]
      BY <1>1, <2>1, <2>3 DEF WalkAt
    <3>2. dp[<<i, j>>] = dp[<<i + 1, j>>]
      BY <1>1, <2>1, <2>3 DEF LcsAt
    <3>3. PastOld(w, dp, a, b, i, j)
      BY <1>6, <3>1, <3>2 DEF PastOld
    <3> QED BY <3>3 DEF w, dp
  <2>4. CASE a[i] # b[j] /\ ~(dp[<<i + 1, j>>] >= dp[<<i, j + 1>>])
    <3>1. w[<<i, j>>] = <<Add(b, j)>> \o w[<<i, j + 1>>]
      BY <1>1, <2>1, <2>4 DEF WalkAt
    <3>2. dp[<<i, j>>] = dp[<<i, j + 1>>]
      BY <1>1, <2>1, <2>4 DEF LcsAt
    <3>3. PastNew(w, dp, a, b, i, j)
      BY <1>6, <3>1, <3>2 DEF PastNew
    <3> QED BY <3>3 DEF w, dp
  <2> QED BY <2>2, <2>3, <2>4
<1>7. \/ i = Len(a) + 1 /\ j = Len(b) + 1
      \/ i <= Len(a) /\ j = Len(b) + 1
      \/ i = Len(a) + 1 /\ j <= Len(b)
      \/ i <= Len(a) /\ j <= Len(b)
  BY <1>0
<1> QED BY <1>3, <1>4, <1>5, <1>6, <1>7

-----------------------------------------------------------------------------
(* A list of changes that tells two sides and has k lines that are same.   *)
Tells(w, k, p, q, T) ==
  /\ w \in Seq(ChangesOf(T)) /\ k \in Nat
  /\ OldSide(w) = p /\ NewSide(w) = q
  /\ IsFiniteSet(Same(w)) /\ Cardinality(Same(w)) = k

LEMMA NothingTells == ASSUME NEW T PROVE Tells(<<>>, 0, <<>>, <<>>, T)
<1>1. <<>> \in Seq(ChangesOf(T)) /\ Len(<<>>) = 0
  OBVIOUS
<1>2. Olds(<<>>) = <<>> /\ News(<<>>) = <<>>
  <2>1. /\ Olds(<<>>) \in Seq(Nat \X T) /\ Len(Olds(<<>>)) = 0
        /\ News(<<>>) \in Seq(Nat \X T) /\ Len(News(<<>>)) = 0
    BY <1>1, SidesType
  <2> QED BY <2>1, EmptySeq
<1>3. ASSUME NEW I PROVE Pick(<<>>, I) = <<>>
  <2>1. <<>> \in Seq(Nat) /\ \A n \in 1..Len(<<>>) : n \in I
    OBVIOUS
  <2> QED BY <2>1, PickAll
<1>4. OldSide(<<>>) = <<>> /\ NewSide(<<>>) = <<>>
  <2>1. /\ OldSide(<<>>) = Pick(Olds(<<>>), Marked(<<>>, {"eq", "del"}))
        /\ NewSide(<<>>) = Pick(News(<<>>), Marked(<<>>, {"eq", "add"}))
    BY DEF OldSide, NewSide, Olds, News
  <2> QED BY <1>2, <1>3, <2>1
<1>5. Same(<<>>) = {}
  BY <1>1 DEF Same, Marked
<1> QED BY <1>1, <1>4, <1>5, FS_EmptySet DEF Tells

LEMMA TellsMore ==
  ASSUME NEW T, NEW c \in ChangesOf(T), NEW w, NEW k, NEW p, NEW q, Tells(w, k, p, q, T)
  PROVE  LET v == <<c>> \o w
         IN  /\ c.op = "eq" => Tells(v, k + 1, <<<<c.old, c.text>>>> \o p, <<<<c.new, c.text>>>> \o q, T)
             /\ c.op = "del" => Tells(v, k, <<<<c.old, c.text>>>> \o p, q, T)
             /\ c.op = "add" => Tells(v, k, p, <<<<c.new, c.text>>>> \o q, T)
<1> DEFINE v == <<c>> \o w
           f == <<<<c.old, c.text>>>>
           g == <<<<c.new, c.text>>>>
<1>1. /\ w \in Seq(ChangesOf(T)) /\ k \in Nat /\ OldSide(w) = p /\ NewSide(w) = q
      /\ IsFiniteSet(Same(w)) /\ Cardinality(Same(w)) = k
  BY DEF Tells
<1>2. /\ v \in Seq(ChangesOf(T))
      /\ OldSide(v) = IF c.op \in {"eq", "del"} THEN f \o OldSide(w) ELSE OldSide(w)
      /\ NewSide(v) = IF c.op \in {"eq", "add"} THEN g \o NewSide(w) ELSE NewSide(w)
  BY <1>1, SidesOfMore
<1>3. /\ IsFiniteSet(Same(v))
      /\ Cardinality(Same(v)) = IF c.op = "eq" THEN Cardinality(Same(w)) + 1 ELSE Cardinality(Same(w))
  BY <1>1, SameOfMore
<1> HIDE DEF v, f, g
<1>4. c.op = "eq" => Tells(v, k + 1, f \o p, g \o q, T)
  BY <1>1, <1>2, <1>3 DEF Tells
<1>5. c.op = "del" => Tells(v, k, f \o p, q, T)
  BY <1>1, <1>2, <1>3 DEF Tells
<1>6. c.op = "add" => Tells(v, k, p, g \o q, T)
  BY <1>1, <1>2, <1>3 DEF Tells
<1> QED BY <1>4, <1>5, <1>6 DEF v, f, g

LEMMA WalkTells ==
  ASSUME NEW T, NEW a \in Seq(T), NEW b \in Seq(T)
  PROVE  Tells(Changes(a, b), Lcs(a, b)[<<1, 1>>], Numbered(a), Numbered(b), T)
<1> DEFINE A == Len(a)
           B == Len(b)
           w == Walk(a, b)
           dp == Lcs(a, b)
           At(i, j) == Tells(w[<<i, j>>], dp[<<i, j>>], Rest(a, i), Rest(b, j), T)
           S == {x \in (1..A + 1) \X (1..B + 1) : At(x[1], x[2])}
<1>0. A \in Nat /\ B \in Nat
  OBVIOUS
<1>1. ASSUME NEW i \in 1..A + 1, NEW j \in 1..B + 1 PROVE <<i, j>> \in S <=> At(i, j)
  <2> HIDE DEF At
  <2>1. <<i, j>> \in (1..A + 1) \X (1..B + 1) /\ <<i, j>>[1] = i /\ <<i, j>>[2] = j
    OBVIOUS
  <2> QED BY <2>1
<1>s. ASSUME NEW i \in 1..A + 1, NEW j \in 1..B + 1
      PROVE  \/ AtEnd(w, dp, a, b, i, j) \/ PastBoth(w, dp, a, b, i, j)
             \/ PastOld(w, dp, a, b, i, j) \/ PastNew(w, dp, a, b, i, j)
  BY WalkSteps
<1>e. Changes(a, b) = w[<<1, 1>>]
  BY ChangesAre
<1> HIDE DEF w, dp
<1>2. ASSUME NEW i \in 1..A + 1, NEW j \in 1..B + 1,
             i <= A => <<i + 1, j>> \in S,
             j <= B => <<i, j + 1>> \in S,
             i <= A /\ j <= B => <<i + 1, j + 1>> \in S
      PROVE  <<i, j>> \in S
  <2>1. /\ i <= A => i + 1 \in 1..A + 1 /\ i \in 1..A
        /\ j <= B => j + 1 \in 1..B + 1 /\ j \in 1..B
    BY <1>0
  <2> HIDE DEF S
  <2>2. /\ i <= A => At(i + 1, j)
        /\ j <= B => At(i, j + 1)
        /\ i <= A /\ j <= B => At(i + 1, j + 1)
    <3> HIDE DEF At
    <3> QED BY <1>1, <1>2, <2>1
  <2>3. ASSUME AtEnd(w, dp, a, b, i, j) PROVE At(i, j)
    <3>1. i = Len(a) + 1 /\ j = Len(b) + 1 /\ w[<<i, j>>] = <<>> /\ dp[<<i, j>>] = 0
      BY <2>3 DEF AtEnd
    <3>2. Rest(a, i) = <<>> /\ Rest(b, j) = <<>>
      BY <3>1, RestIs
    <3>3. Tells(w[<<i, j>>], 0, <<>>, <<>>, T)
      BY <3>1, NothingTells
    <3> QED BY <3>1, <3>2, <3>3
  <2>4. ASSUME PastBoth(w, dp, a, b, i, j) PROVE At(i, j)
    <3> DEFINE c == Eq(a, i, j)
               u == w[<<i + 1, j + 1>>]
               k == dp[<<i + 1, j + 1>>]
    <3>1. /\ i <= A /\ j <= B /\ a[i] = b[j]
          /\ w[<<i, j>>] = <<c>> \o u /\ dp[<<i, j>>] = k + 1
      BY <2>4 DEF PastBoth
    <3>2. /\ c \in ChangesOf(T) /\ c.op = "eq" /\ c.old = i /\ c.text = a[i] /\ c.new = j /\ c.text = b[j]
      BY <2>1, <3>1 DEF Eq, ChangesOf
    <3>3. Tells(u, k, Rest(a, i + 1), Rest(b, j + 1), T)
      BY <2>2, <3>1
    <3>4. Rest(a, i) = <<<<i, a[i]>>>> \o Rest(a, i + 1) /\ Rest(b, j) = <<<<j, b[j]>>>> \o Rest(b, j + 1)
      BY <2>1, <3>1, RestIs
    <3> HIDE DEF c, u, k
    <3>5. Tells(<<c>> \o u, k + 1, <<<<c.old, c.text>>>> \o Rest(a, i + 1), <<<<c.new, c.text>>>> \o Rest(b, j + 1), T)
      BY <3>2, <3>3, TellsMore
    <3> QED BY <3>1, <3>2, <3>4, <3>5
  <2>5. ASSUME PastOld(w, dp, a, b, i, j) PROVE At(i, j)
    <3> DEFINE c == Del(a, i)
               u == w[<<i + 1, j>>]
               k == dp[<<i + 1, j>>]
    <3>1. i <= A /\ w[<<i, j>>] = <<c>> \o u /\ dp[<<i, j>>] = k
      BY <2>5 DEF PastOld
    <3>2. c \in ChangesOf(T) /\ c.op = "del" /\ c.old = i /\ c.text = a[i]
      BY <2>1, <3>1 DEF Del, ChangesOf
    <3>3. Tells(u, k, Rest(a, i + 1), Rest(b, j), T)
      BY <2>2, <3>1
    <3>4. Rest(a, i) = <<<<i, a[i]>>>> \o Rest(a, i + 1)
      BY <2>1, <3>1, RestIs
    <3> HIDE DEF c, u, k
    <3>5. Tells(<<c>> \o u, k, <<<<c.old, c.text>>>> \o Rest(a, i + 1), Rest(b, j), T)
      BY <3>2, <3>3, TellsMore
    <3> QED BY <3>1, <3>2, <3>4, <3>5
  <2>6. ASSUME PastNew(w, dp, a, b, i, j) PROVE At(i, j)
    <3> DEFINE c == Add(b, j)
               u == w[<<i, j + 1>>]
               k == dp[<<i, j + 1>>]
    <3>1. j <= B /\ w[<<i, j>>] = <<c>> \o u /\ dp[<<i, j>>] = k
      BY <2>6 DEF PastNew
    <3>2. c \in ChangesOf(T) /\ c.op = "add" /\ c.new = j /\ c.text = b[j]
      BY <2>1, <3>1 DEF Add, ChangesOf
    <3>3. Tells(u, k, Rest(a, i), Rest(b, j + 1), T)
      BY <2>2, <3>1
    <3>4. Rest(b, j) = <<<<j, b[j]>>>> \o Rest(b, j + 1)
      BY <2>1, <3>1, RestIs
    <3> HIDE DEF c, u, k
    <3>5. Tells(<<c>> \o u, k, Rest(a, i), <<<<c.new, c.text>>>> \o Rest(b, j + 1), T)
      BY <3>2, <3>3, TellsMore
    <3> QED BY <3>1, <3>2, <3>4, <3>5
  <2> HIDE DEF At
  <2>7. At(i, j)
    BY <1>s, <2>3, <2>4, <2>5, <2>6
  <2> QED BY <1>1, <2>7
<1>3. \A i \in 1..A + 1, j \in 1..B + 1 : <<i, j>> \in S
  <2> HIDE DEF A, B, S
  <2> QED BY <1>0, <1>2, BackInduction
<1>4. At(1, 1)
  <2>1. 1 \in 1..A + 1 /\ 1 \in 1..B + 1
    BY <1>0
  <2> HIDE DEF At, S
  <2> QED BY <1>1, <1>3, <2>1
<1>5. Rest(a, 1) = Numbered(a) /\ Rest(b, 1) = Numbered(b)
  BY RestIs
<1>6. Tells(w[<<1, 1>>], dp[<<1, 1>>], Numbered(a), Numbered(b), T)
  BY <1>4, <1>5
<1> QED BY <1>6, <1>e DEF dp

-----------------------------------------------------------------------------
(* m lines that what follows line i of a and line j of b have in common.   *)
Rises(f, m, i, n) == f \in [1..m -> i..n] /\ \A k, l \in 1..m : k < l => f[k] < f[l]

Common(m, a, i, b, j) ==
  \E f, g : /\ Rises(f, m, i, Len(a)) /\ Rises(g, m, j, Len(b))
            /\ \A k \in 1..m : a[f[k]] = b[g[k]]

LEMMA RisesLater ==
  ASSUME NEW m \in Nat, NEW i \in Nat, NEW n \in Nat, NEW f, Rises(f, m, i, n)
  PROVE  /\ \A h \in Nat : h <= i => Rises(f, m, h, n)
         /\ m # 0 => i <= n /\ f[1] \in i..n
         /\ m # 0 /\ f[1] # i => Rises(f, m, i + 1, n)
<1>1. f \in [1..m -> i..n] /\ \A k, l \in 1..m : k < l => f[k] < f[l]
  BY DEF Rises
<1>2. ASSUME NEW h \in Nat, h <= i PROVE Rises(f, m, h, n)
  <2>1. i..n \subseteq h..n
    BY <1>2
  <2>2. f \in [1..m -> h..n]
    BY <1>1, <2>1
  <2> QED BY <1>1, <2>2 DEF Rises
<1>3. ASSUME m # 0 PROVE i <= n /\ f[1] \in i..n
  <2>1. 1 \in 1..m
    BY <1>3
  <2>2. f[1] \in i..n
    BY <1>1, <2>1
  <2> QED BY <2>2
<1>4. ASSUME m # 0, f[1] # i PROVE Rises(f, m, i + 1, n)
  <2>1. f[1] \in i + 1..n
    BY <1>3, <1>4
  <2>2. ASSUME NEW k \in 1..m PROVE f[k] \in i + 1..n
    <3>1. CASE k = 1
      BY <2>1, <3>1
    <3>2. CASE k # 1
      <4>1. 1 \in 1..m /\ 1 < k
        BY <3>2
      <4>2. f[1] < f[k] /\ f[k] \in i..n
        BY <1>1, <4>1
      <4> QED BY <2>1, <4>2
    <3> QED BY <3>1, <3>2
  <2>3. f \in [1..m -> i + 1..n]
    BY <1>1, <2>2
  <2> QED BY <1>1, <2>3 DEF Rises
<1> QED BY <1>2, <1>3, <1>4

(* One place more at the start, or one less.                               *)
After(f, m, i) == [k \in 1..m + 1 |-> IF k = 1 THEN i ELSE f[k - 1]]
Rear(f, m) == [k \in 1..m |-> f[k + 1]]

LEMMA RisesAfter ==
  ASSUME NEW m \in Nat, NEW i \in Nat, NEW n \in Nat, i <= n, NEW f, Rises(f, m, i + 1, n)
  PROVE  Rises(After(f, m, i), m + 1, i, n)
<1> DEFINE h == After(f, m, i)
<1>1. f \in [1..m -> i + 1..n] /\ \A k, l \in 1..m : k < l => f[k] < f[l]
  BY DEF Rises
<1>2. \A k \in 1..m + 1 : h[k] = IF k = 1 THEN i ELSE f[k - 1]
  BY DEF After
<1>3. h = [k \in 1..m + 1 |-> h[k]]
  BY DEF After
<1> HIDE DEF h
<1>4. 1 \in 1..m + 1 /\ h[1] = i
  BY <1>2
<1>5. ASSUME NEW k \in 1..m + 1, k # 1
      PROVE  k - 1 \in 1..m /\ h[k] = f[k - 1] /\ f[k - 1] \in i + 1..n
  <2>1. k - 1 \in 1..m
    BY <1>5
  <2> QED BY <1>1, <1>2, <1>5, <2>1
<1>6. ASSUME NEW k \in 1..m + 1 PROVE h[k] \in i..n
  <2>1. CASE k = 1
    BY <1>4, <2>1
  <2>2. CASE k # 1
    <3>1. h[k] = f[k - 1] /\ f[k - 1] \in i + 1..n
      BY <1>5, <2>2
    <3> QED BY <3>1
  <2> QED BY <2>1, <2>2
<1>7. ASSUME NEW k \in 1..m + 1, NEW l \in 1..m + 1, k < l PROVE h[k] < h[l]
  <2>1. l # 1
    BY <1>7
  <2>2. l - 1 \in 1..m /\ h[l] = f[l - 1] /\ f[l - 1] \in i + 1..n
    BY <1>5, <2>1
  <2>3. CASE k = 1
    <3>1. h[k] = i
      BY <1>4, <2>3
    <3> QED BY <2>2, <3>1
  <2>4. CASE k # 1
    <3>1. k - 1 \in 1..m /\ h[k] = f[k - 1] /\ f[k - 1] \in i + 1..n
      BY <1>5, <2>4
    <3>2. k - 1 < l - 1
      BY <1>7
    <3>3. f[k - 1] < f[l - 1]
      BY <1>1, <2>2, <3>1, <3>2
    <3> QED BY <2>2, <3>1, <3>3
  <2> QED BY <2>3, <2>4
<1>8. h \in [1..m + 1 -> i..n]
  BY <1>3, <1>6
<1>9. Rises(h, m + 1, i, n)
  BY <1>7, <1>8 DEF Rises
<1> QED BY <1>9 DEF h

LEMMA RisesRear ==
  ASSUME NEW m \in Nat, NEW i \in Nat, NEW n \in Nat, NEW f, Rises(f, m + 1, i, n)
  PROVE  Rises(Rear(f, m), m, i + 1, n)
<1> DEFINE h == Rear(f, m)
<1>1. f \in [1..m + 1 -> i..n] /\ \A k, l \in 1..m + 1 : k < l => f[k] < f[l]
  BY DEF Rises
<1>2. \A k \in 1..m : h[k] = f[k + 1] /\ k + 1 \in 1..m + 1
  BY DEF Rear
<1>3. h = [k \in 1..m |-> h[k]]
  BY DEF Rear
<1> HIDE DEF h
<1>4. ASSUME NEW k \in 1..m PROVE h[k] \in i + 1..n
  <2>1. 1 \in 1..m + 1 /\ k + 1 \in 1..m + 1 /\ 1 < k + 1
    OBVIOUS
  <2>2. f[1] < f[k + 1] /\ f[1] \in i..n /\ f[k + 1] \in i..n
    BY <1>1, <2>1
  <2>3. f[k + 1] \in i + 1..n
    BY <2>2
  <2> QED BY <1>2, <2>3
<1>5. ASSUME NEW k \in 1..m, NEW l \in 1..m, k < l PROVE h[k] < h[l]
  <2>1. k + 1 < l + 1 /\ k + 1 \in 1..m + 1 /\ l + 1 \in 1..m + 1
    BY <1>5
  <2>2. f[k + 1] < f[l + 1]
    BY <1>1, <2>1
  <2> QED BY <1>2, <2>2
<1>6. h \in [1..m -> i + 1..n]
  BY <1>3, <1>4
<1>7. Rises(h, m, i + 1, n)
  BY <1>5, <1>6 DEF Rises
<1> QED BY <1>7 DEF h

LEMMA CommonNone == ASSUME NEW a, NEW i, NEW b, NEW j PROVE Common(0, a, i, b, j)
<1> DEFINE f == [k \in 1..0 |-> i]
<1>1. Rises(f, 0, i, Len(a)) /\ Rises(f, 0, j, Len(b))
  BY DEF Rises
<1> HIDE DEF f
<1>2. \A k \in 1..0 : a[f[k]] = b[f[k]]
  OBVIOUS
<1> QED BY <1>1, <1>2 DEF Common

LEMMA CommonSteps ==
  ASSUME NEW T, NEW a \in Seq(T), NEW b \in Seq(T), NEW i \in Nat, NEW j \in Nat, NEW m \in Nat
  PROVE  /\ Common(m, a, i, b, j) /\ m # 0 => i <= Len(a) /\ j <= Len(b)
         /\ Common(m, a, i + 1, b, j) => Common(m, a, i, b, j)
         /\ Common(m, a, i, b, j + 1) => Common(m, a, i, b, j)
         /\ Common(m, a, i + 1, b, j + 1) /\ i <= Len(a) /\ j <= Len(b) /\ a[i] = b[j] =>
              Common(m + 1, a, i, b, j)
         /\ Common(m + 1, a, i, b, j) => Common(m, a, i + 1, b, j + 1)
         /\ Common(m, a, i, b, j) /\ m # 0 /\ a[i] # b[j] =>
              Common(m, a, i + 1, b, j) \/ Common(m, a, i, b, j + 1)
<1>0. Len(a) \in Nat /\ Len(b) \in Nat /\ i + 1 \in Nat /\ j + 1 \in Nat /\ i <= i + 1 /\ j <= j + 1
  OBVIOUS
<1>1. ASSUME Common(m, a, i, b, j), m # 0 PROVE i <= Len(a) /\ j <= Len(b)
  <2>1. PICK f, g : Rises(f, m, i, Len(a)) /\ Rises(g, m, j, Len(b))
    BY <1>1 DEF Common
  <2> QED BY <1>0, <1>1, <2>1, RisesLater
<1>2. ASSUME Common(m, a, i + 1, b, j) PROVE Common(m, a, i, b, j)
  <2>1. PICK f, g : /\ Rises(f, m, i + 1, Len(a)) /\ Rises(g, m, j, Len(b))
                    /\ \A k \in 1..m : a[f[k]] = b[g[k]]
    BY <1>2 DEF Common
  <2>2. Rises(f, m, i, Len(a))
    BY <1>0, <2>1, RisesLater
  <2> QED BY <2>1, <2>2 DEF Common
<1>3. ASSUME Common(m, a, i, b, j + 1) PROVE Common(m, a, i, b, j)
  <2>1. PICK f, g : /\ Rises(f, m, i, Len(a)) /\ Rises(g, m, j + 1, Len(b))
                    /\ \A k \in 1..m : a[f[k]] = b[g[k]]
    BY <1>3 DEF Common
  <2>2. Rises(g, m, j, Len(b))
    BY <1>0, <2>1, RisesLater
  <2> QED BY <2>1, <2>2 DEF Common
<1>4. ASSUME Common(m, a, i + 1, b, j + 1), i <= Len(a), j <= Len(b), a[i] = b[j]
      PROVE  Common(m + 1, a, i, b, j)
  <2>1. PICK f, g : /\ Rises(f, m, i + 1, Len(a)) /\ Rises(g, m, j + 1, Len(b))
                    /\ \A k \in 1..m : a[f[k]] = b[g[k]]
    BY <1>4 DEF Common
  <2> DEFINE F == After(f, m, i)
             G == After(g, m, j)
  <2>2. Rises(F, m + 1, i, Len(a)) /\ Rises(G, m + 1, j, Len(b))
    BY <1>0, <1>4, <2>1, RisesAfter
  <2>3. \A k \in 1..m + 1 : /\ F[k] = IF k = 1 THEN i ELSE f[k - 1]
                            /\ G[k] = IF k = 1 THEN j ELSE g[k - 1]
    BY DEF After
  <2> HIDE DEF F, G
  <2>4. ASSUME NEW k \in 1..m + 1 PROVE a[F[k]] = b[G[k]]
    <3>1. CASE k = 1
      BY <1>4, <2>3, <3>1
    <3>2. CASE k # 1
      <4>1. k - 1 \in 1..m
        BY <3>2
      <4> QED BY <2>1, <2>3, <3>2, <4>1
    <3> QED BY <3>1, <3>2
  <2> QED BY <2>2, <2>4 DEF Common
<1>5. ASSUME Common(m + 1, a, i, b, j) PROVE Common(m, a, i + 1, b, j + 1)
  <2>1. PICK f, g : /\ Rises(f, m + 1, i, Len(a)) /\ Rises(g, m + 1, j, Len(b))
                    /\ \A k \in 1..m + 1 : a[f[k]] = b[g[k]]
    BY <1>5 DEF Common
  <2> DEFINE F == Rear(f, m)
             G == Rear(g, m)
  <2>2. Rises(F, m, i + 1, Len(a)) /\ Rises(G, m, j + 1, Len(b))
    BY <1>0, <2>1, RisesRear
  <2>3. \A k \in 1..m : F[k] = f[k + 1] /\ G[k] = g[k + 1] /\ k + 1 \in 1..m + 1
    BY DEF Rear
  <2> HIDE DEF F, G
  <2>4. \A k \in 1..m : a[F[k]] = b[G[k]]
    BY <2>1, <2>3
  <2> QED BY <2>2, <2>4 DEF Common
<1>6. ASSUME Common(m, a, i, b, j), m # 0, a[i] # b[j]
      PROVE  Common(m, a, i + 1, b, j) \/ Common(m, a, i, b, j + 1)
  <2>1. PICK f, g : /\ Rises(f, m, i, Len(a)) /\ Rises(g, m, j, Len(b))
                    /\ \A k \in 1..m : a[f[k]] = b[g[k]]
    BY <1>6 DEF Common
  <2>2. 1 \in 1..m
    BY <1>6
  <2>3. f[1] # i \/ g[1] # j
    BY <1>6, <2>1, <2>2
  <2>4. CASE f[1] # i
    <3>1. Rises(f, m, i + 1, Len(a))
      BY <1>0, <1>6, <2>1, <2>4, RisesLater
    <3> QED BY <2>1, <3>1 DEF Common
  <2>5. CASE g[1] # j
    <3>1. Rises(g, m, j + 1, Len(b))
      BY <1>0, <1>6, <2>1, <2>5, RisesLater
    <3> QED BY <2>1, <3>1 DEF Common
  <2> QED BY <2>3, <2>4, <2>5
<1> QED BY <1>1, <1>2, <1>3, <1>4, <1>5, <1>6

(* The most lines in common: what the table has.                           *)
Most(k, a, i, b, j) ==
  k \in Nat /\ Common(k, a, i, b, j) /\ \A m \in Nat : Common(m, a, i, b, j) => m <= k

LEMMA MostIs ==
  ASSUME NEW T, NEW a \in Seq(T), NEW b \in Seq(T)
  PROVE  Most(Lcs(a, b)[<<1, 1>>], a, 1, b, 1)
<1> DEFINE A == Len(a)
           B == Len(b)
           dp == Lcs(a, b)
           At(i, j) == Most(dp[<<i, j>>], a, i, b, j)
           S == {x \in (1..A + 1) \X (1..B + 1) : At(x[1], x[2])}
<1>0. A \in Nat /\ B \in Nat
  OBVIOUS
<1>1. ASSUME NEW i \in 1..A + 1, NEW j \in 1..B + 1 PROVE <<i, j>> \in S <=> At(i, j)
  <2> HIDE DEF At
  <2>1. <<i, j>> \in (1..A + 1) \X (1..B + 1) /\ <<i, j>>[1] = i /\ <<i, j>>[2] = j
    OBVIOUS
  <2> QED BY <2>1
<1>s. ASSUME NEW i \in 1..A + 1, NEW j \in 1..B + 1 PROVE dp[<<i, j>>] = LcsAt(dp, a, b, i, j)
  BY LcsIs
<1> HIDE DEF dp
<1>2. ASSUME NEW i \in 1..A + 1, NEW j \in 1..B + 1,
             i <= A => <<i + 1, j>> \in S,
             j <= B => <<i, j + 1>> \in S,
             i <= A /\ j <= B => <<i + 1, j + 1>> \in S
      PROVE  <<i, j>> \in S
  <2>1. /\ i <= A => i + 1 \in 1..A + 1 /\ i \in 1..A
        /\ j <= B => j + 1 \in 1..B + 1 /\ j \in 1..B
        /\ i \in Nat /\ j \in Nat
    BY <1>0
  <2> HIDE DEF S
  <2>2. /\ i <= A => At(i + 1, j)
        /\ j <= B => At(i, j + 1)
        /\ i <= A /\ j <= B => At(i + 1, j + 1)
    <3> HIDE DEF At
    <3> QED BY <1>1, <1>2, <2>1
  <2> DEFINE k == dp[<<i, j>>]
  <2>3. ASSUME i > A \/ j > B PROVE Most(k, a, i, b, j)
    <3>1. k = 0
      BY <1>s, <2>3 DEF LcsAt
    <3>2. ASSUME NEW m \in Nat, Common(m, a, i, b, j) PROVE m <= 0
      <4>1. m # 0 => i <= A /\ j <= B
        BY <2>1, <3>2, CommonSteps
      <4> QED BY <1>0, <2>3, <4>1
    <3> HIDE DEF k
    <3> QED BY <3>1, <3>2, CommonNone DEF Most
  <2>4. ASSUME i <= A, j <= B, a[i] = b[j] PROVE Most(k, a, i, b, j)
    <3> DEFINE l == dp[<<i + 1, j + 1>>]
    <3>1. k = l + 1
      <4>1. ~(i > A \/ j > B)
        BY <1>0, <2>4
      <4> QED BY <1>s, <2>4, <4>1 DEF LcsAt
    <3>2. /\ l \in Nat /\ Common(l, a, i + 1, b, j + 1)
          /\ \A m \in Nat : Common(m, a, i + 1, b, j + 1) => m <= l
      BY <2>2, <2>4 DEF Most
    <3> HIDE DEF k, l
    <3>3. Common(l + 1, a, i, b, j)
      BY <2>1, <2>4, <3>2, CommonSteps
    <3>4. ASSUME NEW m \in Nat, Common(m, a, i, b, j) PROVE m <= l + 1
      <4>1. CASE m = 0
        BY <3>2, <4>1
      <4>2. CASE m # 0
        <5>1. m - 1 \in Nat /\ (m - 1) + 1 = m
          BY <4>2
        <5>2. Common(m - 1, a, i + 1, b, j + 1)
          BY <2>1, <3>4, <5>1, CommonSteps
        <5>3. m - 1 <= l
          BY <3>2, <5>1, <5>2
        <5> QED BY <3>2, <5>3
      <4> QED BY <4>1, <4>2
    <3> QED BY <3>1, <3>2, <3>3, <3>4 DEF Most
  <2>5. ASSUME i <= A, j <= B, a[i] # b[j] PROVE Most(k, a, i, b, j)
    <3> DEFINE l == dp[<<i + 1, j>>]
               r == dp[<<i, j + 1>>]
    <3>1. k = IF l >= r THEN l ELSE r
      <4>1. ~(i > A \/ j > B)
        BY <1>0, <2>5
      <4> QED BY <1>s, <2>5, <4>1 DEF LcsAt
    <3>2. /\ l \in Nat /\ Common(l, a, i + 1, b, j)
          /\ \A m \in Nat : Common(m, a, i + 1, b, j) => m <= l
      BY <2>2, <2>5 DEF Most
    <3>3. /\ r \in Nat /\ Common(r, a, i, b, j + 1)
          /\ \A m \in Nat : Common(m, a, i, b, j + 1) => m <= r
      BY <2>2, <2>5 DEF Most
    <3> HIDE DEF k, l, r
    <3>4. Common(l, a, i, b, j) /\ Common(r, a, i, b, j)
      BY <2>1, <3>2, <3>3, CommonSteps
    <3>5. ASSUME NEW m \in Nat, Common(m, a, i, b, j) PROVE m <= l \/ m <= r
      <4>1. CASE m = 0
        BY <3>2, <4>1
      <4>2. CASE m # 0
        <5>1. Common(m, a, i + 1, b, j) \/ Common(m, a, i, b, j + 1)
          BY <2>1, <2>5, <3>5, <4>2, CommonSteps
        <5> QED BY <3>2, <3>3, <5>1
      <4> QED BY <4>1, <4>2
    <3>6. k \in Nat /\ l <= k /\ r <= k
      BY <3>1, <3>2, <3>3
    <3>7. ASSUME NEW m \in Nat, Common(m, a, i, b, j) PROVE m <= k
      <4>1. m <= l \/ m <= r
        BY <3>5, <3>7
      <4> QED BY <3>2, <3>3, <3>6, <4>1
    <3>8. Common(k, a, i, b, j)
      BY <3>1, <3>4
    <3> QED BY <3>6, <3>7, <3>8 DEF Most
  <2>6. i > A \/ j > B \/ (i <= A /\ j <= B)
    BY <1>0
  <2>7. At(i, j)
    BY <2>3, <2>4, <2>5, <2>6
  <2> HIDE DEF At
  <2> QED BY <1>1, <2>7
<1>3. \A i \in 1..A + 1, j \in 1..B + 1 : <<i, j>> \in S
  <2> HIDE DEF A, B, S
  <2> QED BY <1>0, <1>2, BackInduction
<1>4. At(1, 1)
  <2>1. 1 \in 1..A + 1 /\ 1 \in 1..B + 1
    BY <1>0
  <2> HIDE DEF At, S
  <2> QED BY <1>1, <1>3, <2>1
<1> QED BY <1>4 DEF dp

-----------------------------------------------------------------------------
(* t is what stands at the m rising places f of s.                         *)
Part(t, m, f, s) == Rises(f, m, 1, Len(s)) /\ t = [k \in 1..m |-> s[f[k]]]

LEMMA PartIs ==
  ASSUME NEW T, NEW s \in Seq(T), NEW m \in Nat, NEW f, NEW t, Part(t, m, f, s)
  PROVE  t \in Parts(s) /\ Len(t) = m
<1> DEFINE n == Len(s)
           I == {f[k] : k \in 1..m}
<1>0. n \in Nat
  OBVIOUS
<1>1. f \in [1..m -> 1..n] /\ t = [k \in 1..m |-> s[f[k]]] /\ \A k, l \in 1..m : k < l => f[k] < f[l]
  BY DEF Part, Rises
<1>2. f \in Seq(1..n) /\ Len(f) = m
  BY <1>1, FunctionIsSeq
<1>3. \A i \in 1..n : i \in I <=> \E k \in 1..m : f[k] = i
  OBVIOUS
<1>4. I \in SUBSET (1..n)
  BY <1>1
<1> HIDE DEF I
<1>5. Enumerates(f, I, n)
  BY <1>1, <1>2, <1>3 DEF Enumerates, Rising
<1>6. Pick(s, I) = [k \in 1..m |-> s[f[k]]]
  BY <1>0, <1>2, <1>5, PickIs
<1>7. t \in Parts(s)
  BY <1>1, <1>4, <1>6 DEF Parts
<1>8. Len(t) = m
  <2>1. \A k \in 1..m : s[f[k]] \in T
    BY <1>1
  <2>2. t \in [1..m -> T]
    BY <1>1, <2>1
  <2> QED BY <2>2, FunctionIsSeq
<1> QED BY <1>7, <1>8

LEMMA PartsAre ==
  ASSUME NEW T, NEW s \in Seq(T), NEW t \in Parts(s)
  PROVE  Len(t) \in Nat /\ \E f : Part(t, Len(t), f, s)
<1> DEFINE n == Len(s)
<1>0. n \in Nat
  OBVIOUS
<1>1. PICK I \in SUBSET (1..n) : t = Pick(s, I)
  BY DEF Parts
<1> DEFINE f == InOrder(I, n)
           m == Len(f)
<1>2. Rising(f, n)
  BY <1>0, InOrderEnumerates DEF Enumerates
<1>3. t = [k \in 1..m |-> s[f[k]]] /\ Len(t) = m
  <2>1. Len(t) = m
    BY <1>1, PickType
  <2> QED BY <1>1, <2>1 DEF Pick
<1> HIDE DEF f, n
<1>4. f \in Seq(1..n) /\ \A k, l \in 1..m : k < l => f[k] < f[l]
  BY <1>2 DEF Rising
<1>5. m \in Nat /\ f \in [1..m -> 1..n]
  <2> DEFINE M == 1..n
  <2>1. f \in Seq(M)
    BY <1>4
  <2> HIDE DEF M
  <2>2. m \in Nat /\ f \in [1..m -> M]
    BY <2>1
  <2> QED BY <2>2 DEF M
<1> HIDE DEF m
<1>6. Part(t, m, f, s)
  BY <1>3, <1>4, <1>5 DEF Part, Rises, n
<1> QED BY <1>3, <1>5, <1>6

LEMMA CommonParts ==
  ASSUME NEW T, NEW a \in Seq(T), NEW b \in Seq(T)
  PROVE  \A m : (\E t \in Parts(a) \cap Parts(b) : Len(t) = m) <=> m \in Nat /\ Common(m, a, 1, b, 1)
<1>1. ASSUME NEW t \in Parts(a) \cap Parts(b) PROVE Len(t) \in Nat /\ Common(Len(t), a, 1, b, 1)
  <2> DEFINE m == Len(t)
  <2>1. m \in Nat
    BY PartsAre
  <2>2. PICK f : Part(t, m, f, a)
    BY PartsAre
  <2>3. PICK g : Part(t, m, g, b)
    BY PartsAre
  <2> HIDE DEF m
  <2>4. Rises(f, m, 1, Len(a)) /\ Rises(g, m, 1, Len(b))
    BY <2>2, <2>3 DEF Part
  <2>5. \A k \in 1..m : a[f[k]] = t[k]
    BY <2>2 DEF Part
  <2>6. \A k \in 1..m : b[g[k]] = t[k]
    BY <2>3 DEF Part
  <2>7. Common(m, a, 1, b, 1)
    BY <2>4, <2>5, <2>6 DEF Common
  <2> QED BY <2>1, <2>7 DEF m
<1>2. ASSUME NEW m \in Nat, Common(m, a, 1, b, 1)
      PROVE  \E t \in Parts(a) \cap Parts(b) : Len(t) = m
  <2>1. PICK f, g : /\ Rises(f, m, 1, Len(a)) /\ Rises(g, m, 1, Len(b))
                    /\ \A k \in 1..m : a[f[k]] = b[g[k]]
    BY <1>2 DEF Common
  <2> DEFINE t == [k \in 1..m |-> a[f[k]]]
  <2>2. t = [k \in 1..m |-> b[g[k]]]
    BY <2>1
  <2>3. Part(t, m, f, a)
    BY <2>1 DEF Part
  <2>4. Part(t, m, g, b)
    BY <2>1, <2>2 DEF Part
  <2> HIDE DEF t
  <2>5. t \in Parts(a) /\ Len(t) = m
    BY <2>3, PartIs
  <2>6. t \in Parts(b)
    BY <2>4, PartIs
  <2> QED BY <2>5, <2>6
<1> QED BY <1>1, <1>2

(* The table has the length of a longest common subsequence.               *)
LEMMA TableIsCommonLength ==
  ASSUME NEW T, NEW a \in Seq(T), NEW b \in Seq(T)
  PROVE  Lcs(a, b)[<<1, 1>>] = CommonLength(a, b)
<1> DEFINE L == {Len(t) : t \in Parts(a) \cap Parts(b)}
           k == Lcs(a, b)[<<1, 1>>]
<1>1. \A m : m \in L <=> m \in Nat /\ Common(m, a, 1, b, 1)
  <2>1. \A m : m \in L <=> \E t \in Parts(a) \cap Parts(b) : Len(t) = m
    OBVIOUS
  <2> HIDE DEF L
  <2> QED BY <2>1, CommonParts
<1>2. k \in Nat /\ Common(k, a, 1, b, 1) /\ \A m \in Nat : Common(m, a, 1, b, 1) => m <= k
  BY MostIs DEF Most
<1>3. CommonLength(a, b) = CHOOSE n \in L : \A m \in L : m <= n
  BY DEF CommonLength
<1> HIDE DEF L, k
<1>4. k \in L /\ L \subseteq Nat /\ \A m \in L : m <= k
  BY <1>1, <1>2
<1>5. \A n \in L : (\A m \in L : m <= n) => n = k
  <2>1. ASSUME NEW n \in L, \A m \in L : m <= n PROVE n = k
    <3>1. n <= k /\ k <= n /\ n \in Nat /\ k \in Nat
      BY <1>4, <2>1
    <3> QED BY <3>1
  <2> QED BY <2>1
<1>6. (CHOOSE n \in L : \A m \in L : m <= n) = k
  BY <1>4, <1>5
<1> QED BY <1>3, <1>6 DEF k

-----------------------------------------------------------------------------
(* When nothing is shown, nothing is different.                            *)
LEMMA NothingShown ==
  ASSUME NEW T, NEW w \in Seq(ChangesOf(T)), Pick(w, Marked(w, {"del", "add"})) = <<>>
  PROVE  OldSide(w) = Olds(w) /\ NewSide(w) = News(w)
<1> DEFINE M == Marked(w, {"del", "add"})
<1>0. /\ Olds(w) \in Seq(Nat \X T) /\ Len(Olds(w)) = Len(w)
      /\ News(w) \in Seq(Nat \X T) /\ Len(News(w)) = Len(w)
      /\ Len(w) \in Nat
  BY SidesType
<1>1. Len(InOrder(M, Len(w))) = 0
  <2>1. Len(Pick(w, M)) = 0
    OBVIOUS
  <2> HIDE DEF M
  <2> QED BY <2>1, PickType
<1>2. \A n \in 1..Len(w) : n \notin M
  <2> HIDE DEF M
  <2>1. Enumerates(InOrder(M, Len(w)), M, Len(w))
    BY <1>0, InOrderEnumerates
  <2> QED BY <1>1, <2>1 DEF Enumerates
<1>3. \A n \in 1..Len(w) : w[n].op = "eq"
  <2>1. \A n \in 1..Len(w) : w[n] \in ChangesOf(T)
    OBVIOUS
  <2> QED BY <1>2, <2>1 DEF Marked, ChangesOf
<1>4. \A n \in 1..Len(w) : n \in Marked(w, {"eq", "del"}) /\ n \in Marked(w, {"eq", "add"})
  BY <1>3 DEF Marked
<1>5. OldSide(w) = Pick(Olds(w), Marked(w, {"eq", "del"})) /\ NewSide(w) = Pick(News(w), Marked(w, {"eq", "add"}))
  BY DEF OldSide, NewSide, Olds, News
<1>6. Pick(Olds(w), Marked(w, {"eq", "del"})) = Olds(w)
  BY <1>0, <1>4, PickAll
<1>7. Pick(News(w), Marked(w, {"eq", "add"})) = News(w)
  BY <1>0, <1>4, PickAll
<1> QED BY <1>5, <1>6, <1>7

LEMMA SameSides ==
  ASSUME NEW T, NEW a \in Seq(T), NEW b \in Seq(T), NEW w \in Seq(ChangesOf(T)),
         Olds(w) = Numbered(a), News(w) = Numbered(b)
  PROVE  a = b
<1>0. Len(a) \in Nat /\ Len(b) \in Nat /\ Len(w) \in Nat
  OBVIOUS
<1>1. ASSUME NEW s \in Seq(T) PROVE Len(Numbered(s)) = Len(s) /\ \A n \in 1..Len(s) : Numbered(s)[n] = <<n, s[n]>>
  <2>1. Numbered(s) \in [1..Len(s) -> Nat \X T] /\ Len(s) \in Nat
    BY DEF Numbered
  <2>2. Len(Numbered(s)) = Len(s)
    BY <2>1, FunctionIsSeq
  <2> QED BY <2>2 DEF Numbered
<1>2. Len(a) = Len(w) /\ Len(b) = Len(w)
  BY <1>1, SidesType
<1>3. ASSUME NEW n \in 1..Len(a) PROVE a[n] = b[n]
  <2>1. Olds(w)[n] = <<n, a[n]>> /\ News(w)[n] = <<n, b[n]>>
    BY <1>1, <1>2
  <2>2. Olds(w)[n] = <<w[n].old, w[n].text>> /\ News(w)[n] = <<w[n].new, w[n].text>>
    BY <1>2 DEF Olds, News
  <2>3. w[n].text = a[n]
    BY <2>1, <2>2
  <2>4. w[n].text = b[n]
    BY <2>1, <2>2
  <2> QED BY <2>3, <2>4
<1> QED BY <1>2, <1>3, SeqEqual

-----------------------------------------------------------------------------
(* The lines of a text are a sequence.                                     *)
LEMMA UnixType ==
  ASSUME NEW R, NEW p \in Seq(R)
  PROVE  Len(Unix(p)) \in Nat
<1> DEFINE I == {i \in 1..Len(p) : ~(p[i] = NL /\ i > 1 /\ p[i - 1] = CR)}
           kept == Pick(p, I)
<1>1. kept \in Seq(R)
  <2> HIDE DEF I
  <2> QED BY PickType
<1>2. Unix(p) = [n \in 1..Len(kept) |-> IF kept[n] = CR THEN NL ELSE kept[n]]
  BY DEF Unix
<1> HIDE DEF kept
<1>3. Len(kept) \in Nat /\ \A n \in 1..Len(kept) : (IF kept[n] = CR THEN NL ELSE kept[n]) \in R \cup {NL}
  BY <1>1
<1>4. Unix(p) \in [1..Len(kept) -> R \cup {NL}]
  BY <1>2, <1>3
<1>5. Len(Unix(p)) = Len(kept)
  BY <1>3, <1>4, FunctionIsSeq
<1> QED BY <1>3, <1>5

LEMMA LinesAre ==
  ASSUME NEW R, NEW p \in Seq(R)
  PROVE  \E n \in Nat : SplitLines(p) = [i \in 1..n |-> SplitLines(p)[i]]
<1> DEFINE s == Unix(p)
           at == InOrder({i \in 1..Len(s) : s[i] = NL}, Len(s))
           cuts == <<0>> \o at \o <<Len(s) + 1>>
<1>1. Len(s) \in Nat
  BY UnixType
<1>2. at \in Seq(Nat)
  <2> DEFINE I == {i \in 1..Len(s) : s[i] = NL}
  <2>1. at \in Seq(1..Len(s))
    <3> HIDE DEF I, s
    <3> QED BY <1>1, InOrderEnumerates DEF Enumerates, Rising
  <2>2. 1..Len(s) \subseteq Nat
    OBVIOUS
  <2> HIDE DEF at
  <2> QED BY <2>1, <2>2, SeqMonotonic
<1>3. SplitLines(p) = IF p = <<>> THEN <<>>
                      ELSE [n \in 1..(Len(cuts) - 1) |-> SubSeq(s, cuts[n] + 1, cuts[n + 1] - 1)]
  BY DEF SplitLines
<1> HIDE DEF s, at
<1>4. Len(cuts) - 1 \in Nat
  <2>1. <<0>> \in Seq(Nat) /\ Len(<<0>>) = 1 /\ <<Len(s) + 1>> \in Seq(Nat) /\ Len(<<Len(s) + 1>>) = 1
    BY <1>1
  <2>2. <<0>> \o at \in Seq(Nat) /\ Len(<<0>> \o at) = 1 + Len(at)
    BY <1>2, <2>1, ConcatProperties
  <2>3. Len(cuts) = 1 + Len(at) + 1
    BY <2>1, <2>2, ConcatProperties
  <2> QED BY <1>2, <2>3
<1> HIDE DEF cuts
<1>5. CASE p = <<>>
  <2>1. SplitLines(p) = [i \in 1..0 |-> SplitLines(p)[i]]
    BY <1>3, <1>5
  <2> QED BY <2>1
<1>6. CASE p # <<>>
  <2>1. SplitLines(p) = [i \in 1..(Len(cuts) - 1) |-> SplitLines(p)[i]]
    BY <1>3, <1>6
  <2> QED BY <1>4, <2>1
<1> QED BY <1>5, <1>6

LEMMA LinesType ==
  ASSUME NEW R, NEW p \in Seq(R), NEW q \in Seq(R)
  PROVE  \E T : SplitLines(p) \in Seq(T) /\ SplitLines(q) \in Seq(T)
<1> DEFINE a == SplitLines(p)
           b == SplitLines(q)
<1>1. PICK m \in Nat : a = [i \in 1..m |-> a[i]]
  BY LinesAre
<1>2. PICK n \in Nat : b = [i \in 1..n |-> b[i]]
  BY LinesAre
<1> HIDE DEF a, b
<1> DEFINE T == {a[i] : i \in 1..m} \cup {b[i] : i \in 1..n}
<1>3. a \in [1..m -> T] /\ b \in [1..n -> T]
  BY <1>1, <1>2
<1> HIDE DEF T
<1>4. a \in Seq(T) /\ b \in Seq(T)
  BY <1>3, FunctionIsSeq
<1> QED BY <1>4 DEF a, b

-----------------------------------------------------------------------------
(* What Explains asks of two texts, of any characters and length.          *)
THEOREM AnyDiffExplains ==
  ASSUME NEW R, NEW old \in Seq(R), NEW new \in Seq(R)
  PROVE  Explains(old, new, Diff(old, new))
<1> DEFINE a == SplitLines(old)
           b == SplitLines(new)
           d == Diff(old, new)
           w == Changes(a, b)
<1>1. PICK T : a \in Seq(T) /\ b \in Seq(T)
  BY LinesType
<1>2. \/ d.equal /\ old = new
      \/ ~d.equal /\ d.binary
      \/ ~d.equal /\ ~d.binary /\ d.truncated /\ d.changes = <<>>
      \/ ~d.equal /\ ~d.binary /\ ~d.truncated /\ d.changes = w
  <2> HIDE DEF w, a, b
  <2>1. /\ old = new => d = [equal |-> TRUE, binary |-> FALSE, truncated |-> FALSE, changes |-> <<>>]
        /\ old # new => d \in {[equal |-> FALSE, binary |-> TRUE, truncated |-> FALSE, changes |-> <<>>],
                               [equal |-> FALSE, binary |-> FALSE, truncated |-> TRUE, changes |-> <<>>],
                               [equal |-> FALSE, binary |-> FALSE, truncated |-> FALSE, changes |-> w]}
    BY DEF Diff, w, a, b
  <2> HIDE DEF d
  <2> QED BY <2>1
<1> HIDE DEF d
<1>3. Tells(w, CommonLength(a, b), Numbered(a), Numbered(b), T)
  <2> HIDE DEF a, b
  <2>1. Lcs(a, b)[<<1, 1>>] = CommonLength(a, b)
    BY <1>1, TableIsCommonLength
  <2>2. Tells(w, Lcs(a, b)[<<1, 1>>], Numbered(a), Numbered(b), T)
    BY <1>1, WalkTells
  <2> QED BY <2>1, <2>2
<1>4. ASSUME ~d.equal, ~d.binary, ~d.truncated
      PROVE  /\ OldSide(d.changes) = Numbered(a) /\ NewSide(d.changes) = Numbered(b)
             /\ Cardinality(Marked(d.changes, {"eq"})) = CommonLength(a, b)
  <2>1. d.changes = w
    BY <1>2, <1>4
  <2> HIDE DEF a, b, w
  <2> QED BY <1>3, <2>1 DEF Tells, Same
<1>5. ASSUME Unified(d) = <<>> PROVE a = b
  <2>1. CASE d.equal
    <3>1. old = new
      BY <1>2, <2>1
    <3> QED BY <3>1
  <2>2. CASE ~d.equal /\ d.binary
    <3>1. Unified(d) = <<"binary">>
      BY <2>2 DEF Unified
    <3> QED BY <1>5, <3>1
  <2>3. CASE ~d.equal /\ ~d.binary /\ d.truncated /\ d.changes = <<>>
    <3> DEFINE u == Pick(<<>>, Marked(<<>>, {"del", "add"}))
    <3>1. Unified(d) = u \o <<"truncated">>
      BY <2>3 DEF Unified
    <3>2. u = <<>>
      <4>1. <<>> \in Seq(Nat) /\ \A n \in 1..Len(<<>>) : n \in Marked(<<>>, {"del", "add"})
        OBVIOUS
      <4> QED BY <4>1, PickAll
    <3> HIDE DEF u
    <3>3. Unified(d) = <<"truncated">>
      BY <3>1, <3>2
    <3> QED BY <1>5, <3>3
  <2>4. CASE ~d.equal /\ ~d.binary /\ ~d.truncated /\ d.changes = w
    <3> HIDE DEF a, b, w
    <3>1. w \in Seq(ChangesOf(T)) /\ OldSide(w) = Numbered(a) /\ NewSide(w) = Numbered(b)
      BY <1>3 DEF Tells
    <3> DEFINE u == Pick(w, Marked(w, {"del", "add"}))
    <3>2. Unified(d) = u \o <<>>
      BY <2>4 DEF Unified
    <3>3. u \in Seq(ChangesOf(T))
      BY <3>1, PickType
    <3>4. u = <<>>
      <4> HIDE DEF u
      <4> QED BY <1>5, <3>2, <3>3, ConcatEmptySeq
    <3>5. OldSide(w) = Olds(w) /\ NewSide(w) = News(w)
      BY <3>1, <3>4, NothingShown
    <3>6. Olds(w) = Numbered(a) /\ News(w) = Numbered(b)
      BY <3>1, <3>5
    <3> QED BY <1>1, <3>1, <3>6, SameSides
  <2> QED BY <1>2, <2>1, <2>2, <2>3, <2>4
<1>6. Explains(old, new, d)
  BY <1>4, <1>5 DEF Explains
<1> QED BY <1>6 DEF d
=============================================================================
