--------------------------- MODULE VampiresProofs ---------------------------
(***************************************************************************)
(* Theorems about Vampires, for a field of any size and any number of      *)
(* walls and vampires that have room on it: what every state and every     *)
(* step of the loops keeps, and that the loops implement VampiresGame.     *)
(***************************************************************************)
EXTENDS VampiresRefinement, InductionLemmas, FiniteSetTheorems, TLAPS

Plane == Int \X Int

----------------------------------------------------------------------------
(* Geometry. *)

LEMMA CellsInPlane == Inner \subseteq Cells /\ Cells \subseteq Plane
  BY SizeAssumption DEF Inner, Cells, Plane

(* The eight directions of directionToDistance(). *)
LEMMA DirectionCases ==
  ASSUME NEW dir \in Directions
  PROVE  LET d == DirectionToDistance(dir) IN
           \/ d = <<0, -1>> \/ d = <<1, -1>> \/ d = <<1, 0>> \/ d = <<1, 1>>
           \/ d = <<0, 1>> \/ d = <<-1, 1>> \/ d = <<-1, 0>> \/ d = <<-1, -1>>
  BY DEF Directions, DirectionToDistance

LEMMA NeighborInCells ==
  ASSUME NEW c \in Inner, NEW dir \in Directions
  PROVE  Neighbor(c, dir) \in Cells
  BY DirectionCases, SizeAssumption DEF Inner, Cells, Neighbor

LEMMA NeighborInPlane ==
  ASSUME NEW c \in Plane, NEW dir \in Directions
  PROVE  Neighbor(c, dir) \in Plane /\ Neighbor(c, dir) # c
  BY DirectionCases DEF Plane, Neighbor

(* Every step can be undone by a step in the opposite direction. *)
LEMMA OppositeDirection ==
  ASSUME NEW c \in Plane, NEW dir \in Directions
  PROVE  \E opposite \in Directions : Neighbor(Neighbor(c, dir), opposite) = c
<1>1. CASE dir \in 1..4
  <2>1. dir + 4 \in Directions BY <1>1 DEF Directions
  <2>2. Neighbor(Neighbor(c, dir), dir + 4) = c
    BY <1>1 DEF Neighbor, DirectionToDistance, Plane
  <2>3. QED BY <2>1, <2>2
<1>2. CASE dir \in 5..8
  <2>1. dir - 4 \in Directions BY <1>2 DEF Directions
  <2>2. Neighbor(Neighbor(c, dir), dir - 4) = c
    BY <1>2 DEF Neighbor, DirectionToDistance, Plane
  <2>3. QED BY <2>1, <2>2
<1>3. QED BY <1>1, <1>2 DEF Directions

(* The cells ahead of c in one direction are told apart by their number. *)
LEMMA CellsAhead ==
  ASSUME NEW c \in Plane, NEW dir \in Directions, NEW n \in Nat
  PROVE  /\ CellAhead(c, dir, n) \in Plane
         /\ CellAhead(c, dir, 1) = Neighbor(c, dir)
         /\ CellAhead(c, dir, n + 1) = Neighbor(CellAhead(c, dir, n), dir)
         /\ CellAhead(c, dir, n) = Behind(CellAhead(c, dir, n + 1), dir)
         /\ \A m \in Nat : CellAhead(c, dir, m) = CellAhead(c, dir, n) => m = n
         /\ CellAhead(c, dir, n) = c => n = 0
<1>1. PICK x \in Int, y \in Int : c = <<x, y>> BY DEF Plane
<1>2. PICK dx \in {-1, 0, 1}, dy \in {-1, 0, 1} :
        DirectionToDistance(dir) = <<dx, dy>> /\ (dx # 0 \/ dy # 0)
  BY DirectionCases
<1>3. \A m \in Nat : CellAhead(c, dir, m) = <<x + m * dx, y + m * dy>>
  BY <1>1, <1>2 DEF CellAhead
<1>4. \A m \in Nat : m * dx \in Int /\ m * dy \in Int
  BY <1>2
<1>5. (n + 1) * dx = n * dx + dx /\ (n + 1) * dy = n * dy + dy
  BY <1>2
<1>6. \A m \in Nat : m * dx = n * dx /\ m * dy = n * dy => m = n
  BY <1>2
<1>7. \A a, b \in Int : Neighbor(<<a, b>>, dir) = <<a + dx, b + dy>>
                     /\ Behind(<<a, b>>, dir) = <<a - dx, b - dy>>
  BY <1>2 DEF Neighbor, Behind
<1>8. CellAhead(c, dir, n) \in Plane
  BY <1>1, <1>3, <1>4 DEF Plane
<1>9. CellAhead(c, dir, 1) = Neighbor(c, dir)
  <2>1. 1 * dx = dx /\ 1 * dy = dy BY <1>2
  <2>2. QED BY <2>1, <1>1, <1>3, <1>7
<1>10. CellAhead(c, dir, n + 1) = Neighbor(CellAhead(c, dir, n), dir)
  <2>1. CellAhead(c, dir, n + 1) = <<x + (n + 1) * dx, y + (n + 1) * dy>> BY <1>3
  <2>2. Neighbor(CellAhead(c, dir, n), dir) = <<x + n * dx + dx, y + n * dy + dy>>
    BY <1>1, <1>3, <1>4, <1>7
  <2>3. QED BY <2>1, <2>2, <1>2, <1>4, <1>5
<1>11. CellAhead(c, dir, n) = Behind(CellAhead(c, dir, n + 1), dir)
  <2>1. CellAhead(c, dir, n + 1) = <<x + n * dx + dx, y + n * dy + dy>>
    BY <1>2, <1>3, <1>4, <1>5
  <2>2. PICK a \in Int, b \in Int : a = x + n * dx /\ b = y + n * dy
    BY <1>1, <1>4
  <2>3. a + dx \in Int /\ b + dy \in Int /\ a + dx - dx = a /\ b + dy - dy = b
    BY <1>2
  <2>4. Behind(<<a + dx, b + dy>>, dir) = <<a, b>> BY <2>3, <1>7
  <2>5. CellAhead(c, dir, n) = <<a, b>> BY <2>2, <1>3
  <2>6. QED BY <2>1, <2>2, <2>4, <2>5
<1>12. \A m \in Nat : CellAhead(c, dir, m) = CellAhead(c, dir, n) => m = n
  <2> SUFFICES ASSUME NEW m \in Nat, CellAhead(c, dir, m) = CellAhead(c, dir, n)
               PROVE  m = n
    OBVIOUS
  <2>1. x + m * dx = x + n * dx /\ y + m * dy = y + n * dy BY <1>3
  <2>2. m * dx = n * dx /\ m * dy = n * dy BY <2>1, <1>1, <1>4
  <2>3. QED BY <2>2, <1>6
<1>13. ASSUME CellAhead(c, dir, n) = c PROVE n = 0
  <2>1. CellAhead(c, dir, 0) = c
    <3>1. 0 * dx = 0 /\ 0 * dy = 0 BY <1>2
    <3>2. QED BY <3>1, <1>1, <1>3
  <2>2. QED BY <2>1, <1>12, <1>13
<1>14. QED BY <1>8, <1>9, <1>10, <1>11, <1>12, <1>13

(* DistanceDelta is the change of the squared distance. *)
LEMMA DeltaIsExact ==
  ASSUME NEW c \in Plane, NEW p \in Plane, NEW dir \in Directions
  PROVE  SquaredDistance(Neighbor(c, dir), p)
           = SquaredDistance(c, p) + DistanceDelta(c, p, dir)
  BY DirectionCases DEF Plane, SquaredDistance, Neighbor, DistanceDelta

----------------------------------------------------------------------------
(* The initial placement puts every item in a cell of its own. *)

LEMMA ProductIsMonotonic ==
  ASSUME NEW k \in Nat, NEW a \in Nat, NEW b \in Nat, a <= b
  PROVE  k * a <= k * b
<1>1. b - a \in Nat /\ k * (b - a) \in Nat /\ k * b = k * a + k * (b - a) OBVIOUS
<1>2. QED BY <1>1

LEMMA Quotient ==
  ASSUME NEW a \in Nat, NEW n \in Nat \ {0}
  PROVE  /\ a \div n \in Nat
         /\ n * (a \div n) <= a
         /\ a < n * (a \div n) + n
  OBVIOUS

(* A number is the quotient when the rest is a rest.                       *)
LEMMA QuotientIs ==
  ASSUME NEW a \in Nat, NEW n \in Nat \ {0}, NEW q \in Nat, NEW r \in 0..n - 1,
         q * n + r = a
  PROVE  a \div n = q
<1> DEFINE p == a \div n
<1>1. p \in Nat /\ n * p <= a /\ a < n * p + n BY Quotient
<1> HIDE DEF p
<1>2. n * q <= a /\ a < n * q + n
  <2>1. q * n = n * q /\ q * n \in Nat OBVIOUS
  <2>2. QED BY <2>1
<1>3. ASSUME NEW x \in Nat, NEW y \in Nat, x + 1 <= y, a < n * x + n, n * y <= a PROVE FALSE
  <2>1. n * (x + 1) <= n * y BY <1>3, ProductIsMonotonic
  <2>2. n * (x + 1) = n * x + n BY <1>3
  <2>3. n * x \in Nat /\ n * y \in Nat BY <1>3
  <2>4. QED BY <2>1, <2>2, <2>3, <1>3
<1>4. ~(p + 1 <= q) BY <1>1, <1>2, <1>3
<1>5. ~(q + 1 <= p) BY <1>1, <1>2, <1>3
<1>6. QED BY <1>1, <1>4, <1>5 DEF p

(* One iteration of the loop that settles the vampires keeps what both     *)
(* variables say together.                                                 *)
CursorIs(cursor, i, max, n) ==
  /\ cursor[1] \in Nat /\ cursor[2] \in 0..n - 1
  /\ cursor[1] * n + cursor[2] = i * max

LEMMA AdvanceIs ==
  ASSUME NEW max \in Nat, NEW n \in Nat \ {0}, NEW cursor, NEW i \in Nat,
         CursorIs(cursor, i, max, n)
  PROVE  CursorIs(Advance(cursor, max, n), i + 1, max, n)
<1> DEFINE q == max \div n
           r == max % n
           a == cursor[1]
           b == cursor[2]
<1>1. q \in Nat /\ r \in 0..n - 1 /\ q * n + r = max OBVIOUS
<1>2. a \in Nat /\ b \in 0..n - 1 /\ a * n + b = i * max BY DEF CursorIs
<1>3. Advance(cursor, max, n) = IF b + r >= n THEN <<a + q + 1, b + r - n>> ELSE <<a + q, b + r>>
  <2>1. q \in Nat /\ r \in Nat /\ cursor[1] \in Nat /\ cursor[2] \in Nat BY <1>1, <1>2
  <2>2. QED BY <2>1 DEF Advance
<1> HIDE DEF q, r, a, b
<1>4. /\ (a + q) * n = a * n + q * n
      /\ (a + q + 1) * n = a * n + q * n + n
      /\ (i + 1) * max = i * max + max
      /\ a * n \in Nat /\ q * n \in Nat /\ i * max \in Nat
  BY <1>1, <1>2
<1>5. (i + 1) * max = a * n + b + (q * n + r) BY <1>1, <1>2, <1>4
<1>6. CASE b + r >= n
  <2>1. Advance(cursor, max, n) = <<a + q + 1, b + r - n>> BY <1>3, <1>6
  <2>2. a + q + 1 \in Nat /\ b + r - n \in 0..n - 1 BY <1>1, <1>2, <1>6
  <2>3. (a + q + 1) * n + (b + r - n) = (i + 1) * max BY <1>1, <1>2, <1>4, <1>5
  <2>4. QED BY <2>1, <2>2, <2>3 DEF CursorIs
<1>7. CASE ~(b + r >= n)
  <2>1. Advance(cursor, max, n) = <<a + q, b + r>> BY <1>3, <1>7
  <2>2. a + q \in Nat /\ b + r \in 0..n - 1 BY <1>1, <1>2, <1>7
  <2>3. (a + q) * n + (b + r) = (i + 1) * max BY <1>1, <1>2, <1>4, <1>5
  <2>4. QED BY <2>1, <2>2, <2>3 DEF CursorIs
<1>8. QED BY <1>6, <1>7

(* The loop has such values.                                               *)
LEMMA CursorExists ==
  ASSUME NEW max \in Nat, NEW n \in Nat \ {0}
  PROVE  /\ Cursor(max, n)[0] = <<0, 0>>
         /\ \A j \in 1..n - 1 : Cursor(max, n)[j] = Advance(Cursor(max, n)[j - 1], max, n)
<1> DEFINE Cursors(g) ==
             g = [j \in 0..n - 1 |-> IF j = 0 THEN <<0, 0>> ELSE Advance(g[j - 1], max, n)]
           k == n - 1
           cursor == CHOOSE g : Cursors(g)
           T == Nat \X Nat
           step == [x \in T \X (1..k) |-> Advance(x[1], max, n)]
<1>1. k \in Nat /\ <<0, 0>> \in T OBVIOUS
<1>2. \A c \in T : Advance(c, max, n) \in T
  <2> TAKE c \in T
  <2> DEFINE q == max \div n
             r == max % n
  <2>1. q \in Nat /\ r \in Nat OBVIOUS
  <2>2. Advance(c, max, n) = IF c[2] + r >= n THEN <<c[1] + q + 1, c[2] + r - n>>
                                              ELSE <<c[1] + q, c[2] + r>>
    BY DEF Advance
  <2> HIDE DEF q, r
  <2>3. c[1] \in Nat /\ c[2] \in Nat OBVIOUS
  <2>4. CASE c[2] + r >= n
    <3>1. c[1] + q + 1 \in Nat /\ c[2] + r - n \in Nat BY <2>1, <2>3, <2>4
    <3>2. QED BY <2>2, <2>4, <3>1
  <2>5. CASE ~(c[2] + r >= n)
    <3>1. c[1] + q \in Nat /\ c[2] + r \in Nat BY <2>1, <2>3
    <3>2. QED BY <2>2, <2>5, <3>1
  <2>6. QED BY <2>4, <2>5
<1>3. step \in [T \X (1..k) -> T]
  <2> HIDE DEF T
  <2>1. QED BY <1>2
<1>4. PICK g : g \in Computations(T, <<0, 0>>, k, step)
  <2> HIDE DEF step, k, T
  <2>1. QED BY <1>1, <1>3, ComputationExists
<1>5. g \in [0..k -> T] /\ g[0] = <<0, 0>> /\ \A j \in 1..k : g[j] = Advance(g[j - 1], max, n)
  <2>1. g \in [0..k -> T] /\ g[0] = <<0, 0>> /\ \A j \in 1..k : g[j] = step[<<g[j - 1], j>>]
    <3> HIDE DEF step, k, T
    <3>1. QED BY <1>4 DEF Computations
  <2> HIDE DEF T
  <2>2. \A j \in 1..k : j - 1 \in 0..k BY <1>1
  <2>3. \A j \in 1..k : g[j - 1] \in T BY <2>1, <2>2
  <2>4. QED BY <2>1, <2>3
<1>6. Cursors(g)
  <2>1. \A j \in 0..n - 1 : j # 0 => j \in 1..k OBVIOUS
  <2>2. g \in [0..n - 1 -> T] BY <1>5
  <2> HIDE DEF T, k
  <2>3. \A j \in 0..n - 1 : g[j] = IF j = 0 THEN <<0, 0>> ELSE Advance(g[j - 1], max, n)
    BY <1>5, <2>1
  <2>4. QED BY <2>2, <2>3
<1>7. Cursors(cursor)
  <2> HIDE DEF Cursors
  <2>1. QED BY <1>6
<1>8. Cursor(max, n) = cursor BY DEF Cursor
<1> HIDE DEF cursor
<1>9. cursor[0] = <<0, 0>> /\ \A j \in 1..n - 1 : cursor[j] = Advance(cursor[j - 1], max, n)
  <2>1. 0 \in 0..n - 1 /\ \A j \in 1..n - 1 : j \in 0..n - 1 /\ j # 0 OBVIOUS
  <2>2. QED BY <1>7, <2>1
<1>10. QED BY <1>8, <1>9

(* The positions are those of a division: no error of the loop adds up.    *)
LEMMA CursorDivides ==
  ASSUME NEW max \in Nat, NEW n \in Nat \ {0}, NEW i \in 0..n - 1
  PROVE  Cursor(max, n)[i][1] = (i * max) \div n
<1> DEFINE cursor == Cursor(max, n)
           Bad == {j \in 0..n - 1 : ~CursorIs(cursor[j], j, max, n)}
<1>1. cursor[0] = <<0, 0>> /\ \A j \in 1..n - 1 : cursor[j] = Advance(cursor[j - 1], max, n)
  BY CursorExists
<1> HIDE DEF cursor
<1>2. Bad = {}
  <2> SUFFICES ASSUME Bad # {} PROVE FALSE
    OBVIOUS
  <2>1. PICK j \in Bad : \A m \in Bad : j <= m
    <3>1. Bad \in SUBSET Nat OBVIOUS
    <3> HIDE DEF Bad
    <3>2. QED BY <3>1, LeastNumber
  <2>2. CursorIs(cursor[0], 0, max, n)
    <3>1. cursor[0][1] = 0 /\ cursor[0][2] = 0 BY <1>1
    <3>2. 0 * n = 0 /\ 0 * max = 0 OBVIOUS
    <3>3. QED BY <3>1, <3>2 DEF CursorIs
  <2>3. j \in 0..n - 1 /\ ~CursorIs(cursor[j], j, max, n) BY <2>1
  <2>4. j \in 1..n - 1
    <3> HIDE DEF Bad
    <3>1. j # 0 BY <2>2, <2>3
    <3>2. QED BY <2>3, <3>1
  <2>5. j - 1 \in 0..n - 1 /\ j - 1 \in Nat /\ ~(j <= j - 1) /\ (j - 1) + 1 = j BY <2>4
  <2>6. CursorIs(cursor[j - 1], j - 1, max, n) BY <2>1, <2>5
  <2> HIDE DEF Bad
  <2>7. CursorIs(Advance(cursor[j - 1], max, n), j, max, n)
    <3>1. CursorIs(Advance(cursor[j - 1], max, n), (j - 1) + 1, max, n)
      BY <2>5, <2>6, AdvanceIs
    <3>2. QED BY <2>5, <3>1
  <2>8. QED BY <1>1, <2>3, <2>4, <2>7
<1>3. CursorIs(cursor[i], i, max, n) BY <1>2
<1>4. i * max \in Nat OBVIOUS
<1> HIDE DEF Bad
<1>5. (i * max) \div n = cursor[i][1] BY <1>3, <1>4, QuotientIs DEF CursorIs
<1>6. QED BY <1>5 DEF cursor

(* The vampires are spread over different positions of the inner ring. *)
LEMMA PositionsAreDistinct ==
  ASSUME NEW i \in VampireItems
  PROVE  /\ VampirePosition(i) \in 0..MaxVampireCount - 1
         /\ \A j \in VampireItems : i < j => VampirePosition(i) < VampirePosition(j)
<1> DEFINE M == MaxVampireCount
           n == vampireCount
<1>1. M \in Nat /\ n \in Nat \ {0} /\ n <= M /\ i \in Nat /\ i <= n - 1
  BY SizeAssumption DEF MaxVampireCount, VampireItems
<1> HIDE DEF M, n
<1>2. \A k \in Nat : /\ k * M \in Nat
                     /\ (k * M) \div n \in Nat
                     /\ n * ((k * M) \div n) <= k * M
                     /\ k * M < n * ((k * M) \div n) + n
  <2> TAKE k \in Nat
  <2>1. k * M \in Nat BY <1>1
  <2>2. QED BY <2>1, <1>1, Quotient
<1>3. ASSUME NEW j \in Nat, i < j
      PROVE  (i * M) \div n < (j * M) \div n
  <2> DEFINE p == (i * M) \div n
             q == (j * M) \div n
  <2>1. i * M + M <= j * M
    <3>1. M * (i + 1) <= M * j BY <1>1, <1>3, ProductIsMonotonic
    <3>2. M * (i + 1) = i * M + M /\ M * j = j * M BY <1>1
    <3>3. QED BY <3>1, <3>2
  <2>2. p \in Nat /\ q \in Nat /\ n * p <= i * M /\ j * M < n * q + n
    BY <1>1, <1>2, <1>3
  <2> HIDE DEF p, q
  <2>3. ASSUME q <= p PROVE FALSE
    <3>1. n * q <= n * p BY <1>1, <2>2, <2>3, ProductIsMonotonic
    <3>2. n * p \in Nat /\ n * q \in Nat /\ i * M \in Nat /\ j * M \in Nat
      BY <1>1, <1>3, <2>2
    <3>3. QED BY <3>1, <3>2, <2>1, <2>2, <1>1
  <2>4. QED BY <2>2, <2>3 DEF p, q
<1>4. (i * M) \div n <= M - 1
  <2> DEFINE p == (i * M) \div n
  <2>1. p \in Nat /\ n * p <= i * M BY <1>1, <1>2
  <2> HIDE DEF p
  <2>2. i * M < n * M
    <3>1. M * (i + 1) <= M * n BY <1>1, ProductIsMonotonic
    <3>2. M * (i + 1) = i * M + M /\ M * n = n * M BY <1>1
    <3>3. M > 0 /\ i * M \in Nat /\ n * M \in Nat BY <1>1
    <3>4. QED BY <3>1, <3>2, <3>3, <1>1
  <2>3. ASSUME p >= M PROVE FALSE
    <3>1. n * M <= n * p BY <1>1, <2>1, <2>3, ProductIsMonotonic
    <3>2. n * M \in Nat /\ n * p \in Nat /\ i * M \in Nat BY <1>1, <2>1
    <3>3. QED BY <3>1, <3>2, <2>1, <2>2
  <2>4. QED BY <2>1, <2>3, <1>1 DEF p
<1>5. QED
  <2>1. \A j \in VampireItems : j \in Nat /\ VampirePosition(j) = (j * M) \div n
    <3> TAKE j \in VampireItems
    <3>1. j \in 0..n - 1 BY DEF VampireItems, n
    <3>2. VampirePosition(j) = Cursor(M, n)[j][1] BY DEF VampirePosition, M, n
    <3>3. QED BY <1>1, <3>1, <3>2, CursorDivides
  <2>2. VampirePosition(i) = (i * M) \div n BY <2>1
  <2>3. QED BY <2>1, <2>2, <1>1, <1>2, <1>3, <1>4 DEF M

(* Different positions are different cells of the inner ring. *)
LEMMA RingCellsAreDistinct ==
  ASSUME NEW p \in 0..MaxVampireCount - 1
  PROVE  /\ RingCell(p) \in Inner
         /\ RingCell(p) \notin (2..width - 3) \X (2..height - 3)
         /\ \A q \in 0..MaxVampireCount - 1 : RingCell(p) = RingCell(q) => p = q
  BY SizeAssumption DEF MaxVampireCount, RingCell, Inner

LEMMA PlayerCellIsCentral == PlayerCell \in (2..width - 3) \X (2..height - 3)
<1>1. \A k \in Nat : k >= 5 => k \div 2 >= 2 /\ k \div 2 <= k - 3 /\ k \div 2 \in Nat
  OBVIOUS
<1>2. QED BY <1>1, SizeAssumption DEF PlayerCell

LEMMA PlacementsAreDistinct ==
  ASSUME NEW w \in Injection(Walls, WallSpaces)
  PROVE  /\ Placement(w) \in [Items -> Inner]
         /\ \A i, j \in Items : Placement(w)[i] = Placement(w)[j] => i = j
<1> DEFINE Middle == (2..width - 3) \X (2..height - 3)
<1>1. /\ w \in [Walls -> WallSpaces]
      /\ \A i, j \in Walls : w[i] = w[j] => i = j
  BY DEF Injection, IsInjective
<1>2. Middle \subseteq Inner BY SizeAssumption DEF Inner
<1>3. PlayerCell \in Middle BY PlayerCellIsCentral
<1> HIDE DEF Middle
<1>4. \A i \in Walls : w[i] \in Middle /\ w[i] # PlayerCell
  BY <1>1 DEF WallSpaces, Middle
<1>5. \A i \in VampireItems : /\ i # Player /\ i \notin Walls
                              /\ RingCell(VampirePosition(i)) \in Inner \ Middle
  BY PositionsAreDistinct, RingCellsAreDistinct, ItemsAssumption DEF Middle
<1>6. \A i, j \in VampireItems :
        RingCell(VampirePosition(i)) = RingCell(VampirePosition(j)) => i = j
  <2> SUFFICES ASSUME NEW i \in VampireItems, NEW j \in VampireItems,
                      RingCell(VampirePosition(i)) = RingCell(VampirePosition(j))
               PROVE  i = j
    OBVIOUS
  <2>1. VampirePosition(i) = VampirePosition(j)
    BY PositionsAreDistinct, RingCellsAreDistinct
  <2>2. /\ VampirePosition(i) \in Int /\ i \in Int /\ j \in Int
        /\ i < j => VampirePosition(i) < VampirePosition(j)
        /\ j < i => VampirePosition(j) < VampirePosition(i)
    BY PositionsAreDistinct DEF VampireItems
  <2>3. QED BY <2>1, <2>2
<1>7. Player \notin Walls BY ItemsAssumption
<1>8. /\ Placement(w)[Player] = PlayerCell
      /\ \A i \in Walls : Placement(w)[i] = w[i]
      /\ \A i \in VampireItems : Placement(w)[i] = RingCell(VampirePosition(i))
  BY <1>5, <1>7 DEF Placement, Items
<1>9. Placement(w) \in [Items -> Inner]
  <2>1. \A i \in Items : Placement(w)[i] \in Inner
    BY <1>2, <1>3, <1>4, <1>5, <1>8 DEF Items
  <2>2. QED BY <2>1 DEF Placement
<1>10. QED BY <1>1, <1>3, <1>4, <1>5, <1>6, <1>8, <1>9 DEF Items

----------------------------------------------------------------------------
(* The inductive invariant. *)

FieldInv == TypeOK /\ FieldConsistent /\ BorderIntact

(* The loops of movePlayer(): every cell from the one the player wants to  *)
(* enter up to emptyCell holds a wall, and "push" has found an empty cell. *)
IsRow(n) ==
  /\ emptyCell = CellAhead(at[Player], direction, n)
  /\ \A k \in 1..n - 1 :
       \E w \in Walls : at[w] = CellAhead(at[Player], direction, k)

RowInv ==
  /\ (pc \in {"scan", "push"}) => \E n \in Nat \ {0} : IsRow(n)
  /\ (pc = "push") => field[emptyCell] = Empty

(* The loop of moveVampires(): until the first one moves, the vampires     *)
(* already handled are shut in.                                            *)
IsShutIn(v) == ~TouchesPlayer(v) /\ FreeDirections(v) = {}

LoopInv ==
  /\ (pc # "idle") => (result = "ok")
  /\ (pc # "vampires") => (hasSomeVampiresMoved = FALSE)
  /\ (pc = "vampires" /\ ~hasSomeVampiresMoved) =>
       \A v \in VampireItems \ pending : IsShutIn(v)

IInv == FieldInv /\ RowInv /\ LoopInv /\ HonestResult

LEMMA FieldOfDistinctItems ==
  ASSUME NEW a \in [Items -> Inner], \A i, j \in Items : a[i] = a[j] => i = j
  PROVE  /\ FieldOf(a) \in [Cells -> Items \union {Border, Empty}]
         /\ \A i \in Items : FieldOf(a)[a[i]] = i
         /\ \A c \in Cells : FieldOf(a)[c] \in Items => a[FieldOf(a)[c]] = c
         /\ \A c \in Cells : FieldOf(a)[c] = Border <=> c \notin Inner
<1>1. Border \notin Items /\ Empty \notin Items /\ Border # Empty
  BY ItemsAssumption DEF Items
<1>2. ASSUME NEW c \in Cells
      PROVE  \/ c \notin Inner /\ FieldOf(a)[c] = Border
             \/ c \in Inner /\ FieldOf(a)[c] \in Items /\ a[FieldOf(a)[c]] = c
             \/ /\ c \in Inner /\ FieldOf(a)[c] = Empty
                /\ \A i \in Items : a[i] # c
  <2>1. CASE c \notin Inner BY <2>1 DEF FieldOf
  <2>2. CASE c \in Inner /\ \E i \in Items : a[i] = c
    <3>1. FieldOf(a)[c] = CHOOSE i \in Items : a[i] = c BY <2>2 DEF FieldOf
    <3>2. QED BY <3>1, <2>2
  <2>3. CASE c \in Inner /\ ~\E i \in Items : a[i] = c BY <2>3 DEF FieldOf
  <2>4. QED BY <2>1, <2>2, <2>3
<1>3. FieldOf(a) \in [Cells -> Items \union {Border, Empty}]
  <2>1. FieldOf(a) = [c \in Cells |-> FieldOf(a)[c]] BY DEF FieldOf
  <2>2. \A c \in Cells : FieldOf(a)[c] \in Items \union {Border, Empty} BY <1>2
  <2>3. QED BY <2>1, <2>2
<1>4. \A i \in Items : FieldOf(a)[a[i]] = i
  <2> TAKE i \in Items
  <2>1. a[i] \in Inner /\ a[i] \in Cells BY CellsInPlane
  <2>2. QED BY <2>1, <1>2
<1>5. QED BY <1>1, <1>2, <1>3, <1>4

(* A game that begins is consistent. *)
LEMMA PlacementIsConsistent ==
  ASSUME NEW w \in Injection(Walls, WallSpaces)
  PROVE  LET a == Placement(w) IN
           /\ a \in [Items -> Inner]
           /\ FieldOf(a) \in [Cells -> Items \union {Border, Empty}]
           /\ \A i \in Items : FieldOf(a)[a[i]] = i
           /\ \A c \in Cells : FieldOf(a)[c] \in Items => a[FieldOf(a)[c]] = c
           /\ \A c \in Cells : FieldOf(a)[c] = Border <=> c \notin Inner
  BY PlacementsAreDistinct, FieldOfDistinctItems

LEMMA InitIsConsistent == Init => IInv
<1> SUFFICES ASSUME Init PROVE IInv OBVIOUS
<1>1. PICK w \in Injection(Walls, WallSpaces) : at = Placement(w) BY DEF Init
<1>2. /\ at \in [Items -> Inner]
      /\ field \in [Cells -> Items \union {Border, Empty}]
      /\ FieldConsistent
      /\ BorderIntact
  BY <1>1, PlacementIsConsistent DEF Init, FieldConsistent, BorderIntact
<1>3. PlayerCell \in Cells
  BY PlayerCellIsCentral, SizeAssumption DEF Cells
<1>4. /\ result = "ok" /\ pc = "idle" /\ direction = 1 /\ emptyCell = PlayerCell
      /\ pending = {} /\ hasSomeVampiresMoved = FALSE
  BY DEF Init
<1>5. direction \in Directions BY <1>4 DEF Directions
<1>6. TypeOK
  <2>1. hasSomeVampiresMoved \in BOOLEAN BY <1>4
  <2>2. QED BY <1>2, <1>3, <1>4, <1>5, <2>1 DEF TypeOK
<1>7. QED
  <2>1. RowInv /\ HonestResult BY <1>4 DEF RowInv, HonestResult
  <2>2. LoopInv BY <1>4 DEF LoopInv
  <2>3. QED BY <1>2, <1>6, <2>1, <2>2 DEF IInv, FieldInv

(* moveItem() to an empty cell keeps the field and the items consistent;   *)
(* no other cell changes and no other item moves.                          *)
LEMMA MoveItemIsConsistent ==
  ASSUME FieldInv, NEW item \in Items, NEW c \in Cells, field[c] = Empty,
         MoveItem(item, c)
  PROVE  /\ field' \in [Cells -> Items \union {Border, Empty}]
         /\ at' \in [Items -> Inner]
         /\ FieldConsistent'
         /\ BorderIntact'
         /\ at'[item] = c /\ field'[c] = item /\ field'[at[item]] = Empty
         /\ \A i \in Items : i # item => at'[i] = at[i]
         /\ \A d \in Cells : d # c /\ d # at[item] => field'[d] = field[d]
<1>1. Border \notin Items /\ Empty \notin Items /\ Border # Empty
  BY ItemsAssumption DEF Items
<1>2. /\ field \in [Cells -> Items \union {Border, Empty}]
      /\ at \in [Items -> Inner]
      /\ \A i \in Items : field[at[i]] = i
      /\ \A d \in Cells : field[d] \in Items => at[field[d]] = d
      /\ \A d \in Cells : field[d] = Border <=> d \notin Inner
  BY DEF FieldInv, TypeOK, FieldConsistent, BorderIntact
<1>3. at[item] \in Cells /\ at[item] # c /\ c \in Inner
  BY <1>1, <1>2, CellsInPlane
<1>4. at' = [at EXCEPT ![item] = c] BY DEF MoveItem
<1>5. field' = [field EXCEPT ![at[item]] = Empty, ![c] = item]
  BY <1>2 DEF MoveItem
<1>6. at' \in [Items -> Inner] BY <1>2, <1>3, <1>4
<1>7. field' \in [Cells -> Items \union {Border, Empty}] BY <1>2, <1>5
<1>8. /\ at'[item] = c
      /\ \A i \in Items : i # item => at'[i] = at[i]
  BY <1>2, <1>4
<1>9. /\ field'[c] = item /\ field'[at[item]] = Empty
      /\ \A d \in Cells : d # c /\ d # at[item] => field'[d] = field[d]
  BY <1>2, <1>3, <1>5
<1>10. \A i \in Items : field'[at'[i]] = i
  <2> TAKE i \in Items
  <2>1. CASE i = item BY <2>1, <1>8, <1>9
  <2>2. CASE i # item
    <3>1. at'[i] = at[i] /\ at[i] \in Cells /\ field[at[i]] = i
      BY <2>2, <1>2, <1>8, CellsInPlane
    <3>2. at[i] # c /\ at[i] # at[item] BY <3>1, <2>2, <1>1, <1>2
    <3>3. QED BY <3>1, <3>2, <1>9
  <2>3. QED BY <2>1, <2>2
<1>11. \A d \in Cells : field'[d] \in Items => at'[field'[d]] = d
  <2> SUFFICES ASSUME NEW d \in Cells, field'[d] \in Items
               PROVE  at'[field'[d]] = d
    OBVIOUS
  <2>1. CASE d = c BY <2>1, <1>8, <1>9
  <2>2. CASE d = at[item] BY <2>2, <1>1, <1>9
  <2>3. CASE d # c /\ d # at[item]
    <3>1. field'[d] = field[d] /\ at[field[d]] = d BY <2>3, <1>2, <1>9
    <3>2. QED BY <3>1, <2>3, <1>8
  <2>4. QED BY <2>1, <2>2, <2>3
<1>12. \A d \in Cells : field'[d] = Border <=> d \notin Inner
  BY <1>1, <1>2, <1>3, <1>9
<1>13. QED
  BY <1>6, <1>7, <1>8, <1>9, <1>10, <1>11, <1>12 DEF FieldConsistent, BorderIntact

----------------------------------------------------------------------------
(* Every step keeps the invariant: what a step does to one part of it ...  *)

LEMMA ItemTypes ==
  /\ Player \in Items /\ Walls \subseteq Items /\ VampireItems \subseteq Items
  /\ Player \notin Walls /\ Player \notin VampireItems
  /\ Walls \intersect VampireItems = {}
  /\ Border \notin Items /\ Empty \notin Items
  BY ItemsAssumption DEF Items

(* A call that returns leaves no loop behind. *)
LEMMA ReturnStep ==
  ASSUME NoCall
  PROVE  /\ pc' = "idle"
         /\ direction' \in Directions /\ emptyCell' \in Cells
         /\ pending' \in SUBSET VampireItems /\ hasSomeVampiresMoved' \in BOOLEAN
         /\ RowInv'
         /\ LoopInv'
<1>1. PlayerCell \in Cells
  BY PlayerCellIsCentral, SizeAssumption DEF Cells
<1>2. pc' = "idle" /\ direction' = 1 /\ emptyCell' = PlayerCell /\ pending' = {}
  BY DEF NoCall
<1>3. hasSomeVampiresMoved' = FALSE BY DEF NoCall
<1>4. direction' \in Directions BY <1>2 DEF Directions
<1>5. RowInv' BY <1>2 DEF RowInv
<1>6. LoopInv' BY <1>2, <1>3 DEF LoopInv
<1>7. QED BY <1>1, <1>2, <1>3, <1>4, <1>5, <1>6

(* A step that moves nothing keeps the field as it is. *)
LEMMA FieldUnchanged ==
  ASSUME FieldInv, UNCHANGED <<field, at>>,
         result' \in {"ok", "lost", "win"},
         pc' \in {"idle", "scan", "push", "vampires"},
         direction' \in Directions, emptyCell' \in Cells,
         pending' \in SUBSET VampireItems, hasSomeVampiresMoved' \in BOOLEAN
  PROVE  FieldInv'
  BY DEF FieldInv, TypeOK, FieldConsistent, BorderIntact

LEMMA NewGameKeepsIInv == IInv /\ NewGame => IInv'
<1> SUFFICES ASSUME IInv, NewGame PROVE IInv' OBVIOUS
<1>1. PICK w \in Injection(Walls, WallSpaces) : at' = Placement(w)
  BY DEF NewGame
<1>2. field' = FieldOf(at') BY DEF NewGame
<1>3. /\ at' \in [Items -> Inner]
      /\ field' \in [Cells -> Items \union {Border, Empty}]
      /\ FieldConsistent'
      /\ BorderIntact'
  BY <1>1, <1>2, PlacementIsConsistent DEF FieldConsistent, BorderIntact
<1>4. /\ result' = "ok" /\ pc' = "idle" /\ pc = "idle"
      /\ direction' = direction /\ emptyCell' = emptyCell /\ pending' = pending
      /\ hasSomeVampiresMoved' = hasSomeVampiresMoved
  BY DEF NewGame, callVars
<1>5. FieldInv'
  BY <1>3, <1>4 DEF IInv, FieldInv, TypeOK
<1>6. RowInv' /\ HonestResult' BY <1>4 DEF RowInv, HonestResult
<1>7. LoopInv' BY <1>4 DEF IInv, LoopInv
<1>8. QED BY <1>5, <1>6, <1>7 DEF IInv

----------------------------------------------------------------------------
(* ... for every step of movePlayer(), ... *)

LEMMA BeginMovePlayerKeepsIInv ==
  ASSUME IInv, NEW dir \in Directions, BeginMovePlayer(dir)
  PROVE  IInv'
<1>1. at[Player] \in Inner /\ at[Player] \in Plane
  BY ItemTypes, CellsInPlane DEF IInv, FieldInv, TypeOK
<1>2. /\ direction' = dir /\ emptyCell' = Neighbor(at[Player], dir)
      /\ pc = "idle" /\ result = "ok" /\ result' = "ok"
      /\ pc' = (IF field[emptyCell'] = Empty THEN "push" ELSE "scan")
      /\ UNCHANGED <<field, at, pending, hasSomeVampiresMoved>>
  BY DEF BeginMovePlayer, ScanFrom
<1>3. emptyCell' \in Cells BY <1>1, <1>2, NeighborInCells
<1>4. FieldInv'
  BY <1>2, <1>3, FieldUnchanged DEF IInv, FieldInv, TypeOK
<1>5. RowInv'
  <2>1. emptyCell' = CellAhead(at[Player]', direction', 1)
    BY <1>1, <1>2, CellsAhead
  <2>2. IsRow(1)' BY <2>1 DEF IsRow
  <2>3. QED BY <2>2, <1>2 DEF RowInv
<1>6. LoopInv' /\ HonestResult'
  BY <1>2 DEF IInv, LoopInv, HonestResult
<1>7. QED BY <1>4, <1>5, <1>6 DEF IInv

LEMMA MeetVampireKeepsIInv == IInv /\ MeetVampire => IInv'
<1> SUFFICES ASSUME IInv, MeetVampire PROVE IInv' OBVIOUS
<1>1. /\ emptyCell = NewCell /\ field[NewCell] \in VampireItems
      /\ result' = "lost" /\ NoCall /\ UNCHANGED <<field, at>>
  BY DEF MeetVampire
<1>2. FieldInv' /\ RowInv' /\ LoopInv'
  BY <1>1, ReturnStep, FieldUnchanged DEF IInv
<1>3. HonestResult'
  <2>1. at[Player] \in Plane /\ direction \in Directions /\ NewCell \in Cells
    BY <1>1, ItemTypes, CellsInPlane DEF IInv, FieldInv, TypeOK
  <2>2. PICK v \in VampireItems : at[v] = NewCell
    BY <1>1, <2>1, ItemTypes DEF IInv, FieldInv, FieldConsistent
  <2>3. PICK opposite \in Directions : Neighbor(at[v], opposite) = at[Player]
    BY <2>1, <2>2, OppositeDirection DEF NewCell
  <2>4. field[at[Player]] = Player
    BY ItemTypes DEF IInv, FieldInv, FieldConsistent
  <2>5. TouchesPlayer(v)' BY <1>1, <2>3, <2>4 DEF TouchesPlayer
  <2>6. QED BY <1>1, <2>5 DEF HonestResult
<1>4. QED BY <1>2, <1>3 DEF IInv

LEMMA ScanWallKeepsIInv == IInv /\ ScanWall => IInv'
<1> SUFFICES ASSUME IInv, ScanWall PROVE IInv' OBVIOUS
<1>1. /\ emptyCell' = Neighbor(emptyCell, direction)
      /\ pc = "scan" /\ field[emptyCell] \in Walls
      /\ pc' = (IF field[emptyCell'] = Empty THEN "push" ELSE "scan")
      /\ UNCHANGED <<field, at, result, direction, pending, hasSomeVampiresMoved>>
  BY DEF ScanWall, ScanFrom
<1>2. /\ emptyCell \in Inner /\ at[field[emptyCell]] = emptyCell
      /\ at[Player] \in Plane /\ direction \in Directions
  BY <1>1, ItemTypes, CellsInPlane
  DEF IInv, FieldInv, TypeOK, FieldConsistent, BorderIntact
<1>3. emptyCell' \in Cells BY <1>1, <1>2, NeighborInCells
<1>4. FieldInv'
  BY <1>1, <1>3, FieldUnchanged DEF IInv, FieldInv, TypeOK
<1>5. RowInv'
  <2>1. PICK n \in Nat \ {0} : IsRow(n) BY <1>1 DEF IInv, RowInv
  <2>2. emptyCell' = CellAhead(at[Player], direction, n + 1)
    BY <1>1, <1>2, <2>1, CellsAhead DEF IsRow
  <2>3. ASSUME NEW k \in 1..n
        PROVE  \E w \in Walls : at[w] = CellAhead(at[Player], direction, k)
    <3>1. CASE k \in 1..n - 1 BY <3>1, <2>1 DEF IsRow
    <3>2. CASE k = n BY <3>2, <1>1, <1>2, <2>1 DEF IsRow
    <3>3. QED BY <3>1, <3>2
  <2>4. IsRow(n + 1)'
    <3>1. (n + 1) - 1 = n OBVIOUS
    <3>2. QED BY <3>1, <2>2, <2>3, <1>1 DEF IsRow
  <2>5. n + 1 \in Nat \ {0} OBVIOUS
  <2>6. QED BY <2>4, <2>5, <1>1 DEF RowInv
<1>6. LoopInv' /\ HonestResult'
  BY <1>1 DEF IInv, LoopInv, HonestResult
<1>7. QED BY <1>4, <1>5, <1>6 DEF IInv

LEMMA PlayerIsBlockedKeepsIInv == IInv /\ PlayerIsBlocked => IInv'
<1> SUFFICES ASSUME IInv, PlayerIsBlocked PROVE IInv' OBVIOUS
<1>1. pc = "scan" /\ NoCall /\ UNCHANGED <<field, at, result>>
  BY DEF PlayerIsBlocked
<1>2. result = "ok" BY <1>1 DEF IInv, LoopInv
<1>3. FieldInv' /\ RowInv' /\ LoopInv'
  BY <1>1, <1>2, ReturnStep, FieldUnchanged DEF IInv
<1>4. HonestResult' BY <1>1, <1>2 DEF HonestResult
<1>5. QED BY <1>3, <1>4 DEF IInv

LEMMA PushWallKeepsIInv == IInv /\ PushWall => IInv'
<1> SUFFICES ASSUME IInv, PushWall PROVE IInv' OBVIOUS
<1>1. /\ pc = "push" /\ emptyCell # NewCell
      /\ MoveItem(field[Behind(emptyCell, direction)], emptyCell)
      /\ emptyCell' = Behind(emptyCell, direction)
      /\ UNCHANGED <<result, pc, direction, pending, hasSomeVampiresMoved>>
  BY DEF PushWall
<1>2. PICK n \in Nat \ {0} : IsRow(n) BY <1>1 DEF IInv, RowInv
<1>3. at[Player] \in Plane /\ direction \in Directions
  BY ItemTypes, CellsInPlane DEF IInv, FieldInv, TypeOK
<1>4. n # 1 BY <1>1, <1>2, <1>3, CellsAhead DEF IsRow, NewCell
<1>5. PICK m \in Nat \ {0} : n = m + 1
  <2>1. n - 1 \in Nat \ {0} /\ n = (n - 1) + 1 BY <1>4
  <2>2. QED BY <2>1
<1>6. Behind(emptyCell, direction) = CellAhead(at[Player], direction, m)
  BY <1>2, <1>3, <1>5, CellsAhead DEF IsRow
<1>7. PICK wall \in Walls : at[wall] = CellAhead(at[Player], direction, m)
  BY <1>2, <1>5 DEF IsRow
<1>8. wall \in Items /\ field[Behind(emptyCell, direction)] = wall
  BY <1>6, <1>7, ItemTypes DEF IInv, FieldInv, FieldConsistent
<1>9. MoveItem(wall, emptyCell) BY <1>1, <1>8
<1>10. FieldInv /\ field[emptyCell] = Empty /\ emptyCell \in Cells
  BY <1>1 DEF IInv, RowInv, FieldInv, TypeOK
<1>11. /\ field' \in [Cells -> Items \union {Border, Empty}]
       /\ at' \in [Items -> Inner]
       /\ FieldConsistent' /\ BorderIntact'
       /\ field'[at[wall]] = Empty
       /\ \A i \in Items : i # wall => at'[i] = at[i]
  BY <1>8, <1>9, <1>10, MoveItemIsConsistent
<1>12. emptyCell' = at[wall] /\ emptyCell' \in Cells
  BY <1>1, <1>6, <1>7, <1>8, CellsInPlane DEF IInv, FieldInv, TypeOK
<1>13. FieldInv'
  BY <1>1, <1>11, <1>12 DEF IInv, FieldInv, TypeOK
<1>14. RowInv'
  <2>1. at'[Player] = at[Player] BY <1>7, <1>11, ItemTypes
  <2>2. ASSUME NEW k \in 1..m - 1
        PROVE  \E w \in Walls : at'[w] = CellAhead(at[Player], direction, k)
    <3>1. PICK w \in Walls : at[w] = CellAhead(at[Player], direction, k)
      BY <1>2, <1>5 DEF IsRow
    <3>2. k \in Nat /\ k # m OBVIOUS
    <3>3. w # wall BY <1>3, <1>7, <3>1, <3>2, CellsAhead
    <3>4. QED BY <1>11, <3>1, <3>3, ItemTypes
  <2>3. emptyCell' = CellAhead(at'[Player], direction', m)
    BY <1>1, <1>6, <2>1
  <2>4. IsRow(m)' BY <1>1, <2>1, <2>2, <2>3 DEF IsRow
  <2>5. field'[emptyCell'] = Empty BY <1>11, <1>12
  <2>6. QED BY <2>4, <2>5 DEF RowInv
<1>15. LoopInv' /\ HonestResult'
  BY <1>1 DEF IInv, LoopInv, HonestResult
<1>16. QED BY <1>13, <1>14, <1>15 DEF IInv

LEMMA FinishMovePlayerKeepsIInv == IInv /\ FinishMovePlayer => IInv'
<1> SUFFICES ASSUME IInv, FinishMovePlayer PROVE IInv' OBVIOUS
<1>1. pc = "push" /\ emptyCell = NewCell /\ MoveItem(Player, NewCell) /\ NoCall
      /\ result' = result
  BY DEF FinishMovePlayer
<1>2. FieldInv /\ field[NewCell] = Empty /\ NewCell \in Cells /\ result = "ok"
  BY <1>1 DEF IInv, RowInv, LoopInv, FieldInv, TypeOK
<1>3. /\ field' \in [Cells -> Items \union {Border, Empty}]
      /\ at' \in [Items -> Inner]
      /\ FieldConsistent' /\ BorderIntact'
  BY <1>1, <1>2, ItemTypes, MoveItemIsConsistent
<1>4. FieldInv'
  BY <1>1, <1>2, <1>3, ReturnStep DEF FieldInv, TypeOK
<1>5. RowInv' /\ LoopInv' BY <1>1, ReturnStep
<1>6. HonestResult' BY <1>1, <1>2 DEF HonestResult
<1>7. QED BY <1>4, <1>5, <1>6 DEF IInv

----------------------------------------------------------------------------
(* ... and for every step of moveVampires(). *)

LEMMA BeginMoveVampiresKeepsIInv == IInv /\ BeginMoveVampires => IInv'
<1> SUFFICES ASSUME IInv, BeginMoveVampires PROVE IInv' OBVIOUS
<1>1. /\ pc = "idle" /\ result = "ok" /\ result' = "ok"
      /\ pc' = "vampires" /\ pending' = VampireItems
      /\ UNCHANGED <<field, at, direction, emptyCell, hasSomeVampiresMoved>>
  BY DEF BeginMoveVampires
<1>2. FieldInv'
  BY <1>1, FieldUnchanged DEF IInv, FieldInv, TypeOK
<1>3. RowInv' /\ HonestResult' BY <1>1 DEF RowInv, HonestResult
<1>4. LoopInv' BY <1>1 DEF LoopInv
<1>5. QED BY <1>2, <1>3, <1>4 DEF IInv

LEMMA CatchPlayerKeepsIInv ==
  ASSUME IInv, NEW v \in VampireItems, CatchPlayer(v)
  PROVE  IInv'
<1>1. TouchesPlayer(v) /\ result' = "lost" /\ NoCall /\ UNCHANGED <<field, at>>
  BY DEF CatchPlayer
<1>2. FieldInv' /\ RowInv' /\ LoopInv'
  BY <1>1, ReturnStep, FieldUnchanged DEF IInv
<1>3. TouchesPlayer(v)' BY <1>1 DEF TouchesPlayer
<1>4. HonestResult' BY <1>1, <1>3 DEF HonestResult
<1>5. QED BY <1>2, <1>4 DEF IInv

LEMMA SkipVampireKeepsIInv ==
  ASSUME IInv, NEW v \in VampireItems, SkipVampire(v)
  PROVE  IInv'
<1>1. /\ pc = "vampires" /\ IsShutIn(v)
      /\ pending' = pending \ {v}
      /\ UNCHANGED <<field, at, result, pc, direction, emptyCell, hasSomeVampiresMoved>>
  BY DEF SkipVampire, IsNext, IsShutIn
<1>2. FieldInv'
  BY <1>1, FieldUnchanged DEF IInv, FieldInv, TypeOK
<1>3. RowInv' BY <1>1 DEF RowInv
<1>4. LoopInv'
  <2>1. result' = "ok" BY <1>1 DEF IInv, LoopInv
  <2>2. ASSUME ~hasSomeVampiresMoved', NEW u \in VampireItems \ pending'
        PROVE  IsShutIn(u)'
    <3>1. IsShutIn(u) BY <1>1, <2>2 DEF IInv, LoopInv
    <3>2. QED BY <1>1, <3>1 DEF IsShutIn, TouchesPlayer, FreeDirections
  <2>3. QED BY <1>1, <2>1, <2>2 DEF LoopInv
<1>5. HonestResult' BY <1>1 DEF IInv, LoopInv, HonestResult
<1>6. QED BY <1>2, <1>3, <1>4, <1>5 DEF IInv

LEMMA MoveVampireKeepsIInv ==
  ASSUME IInv, NEW v \in VampireItems, NEW dir \in Directions, MoveVampire(v, dir)
  PROVE  IInv'
<1>1. /\ pc = "vampires" /\ dir \in FreeDirections(v)
      /\ MoveItem(v, Neighbor(at[v], dir))
      /\ pending' = pending \ {v} /\ hasSomeVampiresMoved' = TRUE
      /\ UNCHANGED <<result, pc, direction, emptyCell>>
  BY DEF MoveVampire, IsNext, BestDirection
<1>2. /\ FieldInv /\ v \in Items /\ field[Neighbor(at[v], dir)] = Empty
      /\ Neighbor(at[v], dir) \in Cells
  BY <1>1, ItemTypes, NeighborInCells DEF IInv, FieldInv, TypeOK, FreeDirections
<1>3. /\ field' \in [Cells -> Items \union {Border, Empty}]
      /\ at' \in [Items -> Inner]
      /\ FieldConsistent' /\ BorderIntact'
  BY <1>1, <1>2, MoveItemIsConsistent
<1>4. hasSomeVampiresMoved' \in BOOLEAN BY <1>1
<1>5. FieldInv'
  BY <1>1, <1>2, <1>3, <1>4 DEF FieldInv, TypeOK
<1>6. RowInv' BY <1>1 DEF RowInv
<1>7. result' = "ok" /\ pc' = "vampires" BY <1>1 DEF IInv, LoopInv
<1>8. LoopInv' BY <1>1, <1>7 DEF LoopInv
<1>9. HonestResult' BY <1>7 DEF HonestResult
<1>10. QED BY <1>5, <1>6, <1>8, <1>9 DEF IInv

LEMMA EndMoveVampiresKeepsIInv == IInv /\ EndMoveVampires => IInv'
<1> SUFFICES ASSUME IInv, EndMoveVampires PROVE IInv' OBVIOUS
<1>1. /\ pc = "vampires" /\ pending = {}
      /\ result' = (IF hasSomeVampiresMoved THEN "ok" ELSE "win")
      /\ NoCall /\ UNCHANGED <<field, at>>
  BY DEF EndMoveVampires
<1>2. FieldInv' /\ RowInv' /\ LoopInv'
  BY <1>1, ReturnStep, FieldUnchanged DEF IInv
<1>3. HonestResult'
  <2>1. ASSUME result' = "win", NEW v \in VampireItems
        PROVE  ~TouchesPlayer(v)' /\ FreeDirections(v)' = {}
    <3>1. ~hasSomeVampiresMoved BY <1>1, <2>1
    <3>2. IsShutIn(v) BY <1>1, <3>1 DEF IInv, LoopInv
    <3>3. QED BY <1>1, <3>2 DEF IsShutIn, TouchesPlayer, FreeDirections
  <2>2. result' # "lost" BY <1>1
  <2>3. QED BY <2>1, <2>2 DEF HonestResult
<1>4. QED BY <1>2, <1>3 DEF IInv

----------------------------------------------------------------------------
(* The theorems. *)

LEMMA StutterKeepsIInv == IInv /\ UNCHANGED vars => IInv'
  BY DEF vars, callVars, IInv, FieldInv, TypeOK, FieldConsistent, BorderIntact,
         RowInv, IsRow, LoopInv, IsShutIn, HonestResult, TouchesPlayer, FreeDirections

LEMMA NextKeepsIInv == IInv /\ [Next]_vars => IInv'
<1> SUFFICES ASSUME IInv, [Next]_vars PROVE IInv' OBVIOUS
<1>1. CASE MovePlayer
  <2>1. CASE \E dir \in Directions : BeginMovePlayer(dir)
    BY <2>1, BeginMovePlayerKeepsIInv
  <2>2. CASE MeetVampire BY <2>2, MeetVampireKeepsIInv
  <2>3. CASE ScanWall BY <2>3, ScanWallKeepsIInv
  <2>4. CASE PlayerIsBlocked BY <2>4, PlayerIsBlockedKeepsIInv
  <2>5. CASE PushWall BY <2>5, PushWallKeepsIInv
  <2>6. CASE FinishMovePlayer BY <2>6, FinishMovePlayerKeepsIInv
  <2>7. QED BY <1>1, <2>1, <2>2, <2>3, <2>4, <2>5, <2>6 DEF MovePlayer
<1>2. CASE MoveVampires
  <2>1. CASE BeginMoveVampires BY <2>1, BeginMoveVampiresKeepsIInv
  <2>2. ASSUME NEW v \in VampireItems, CatchPlayer(v) PROVE IInv'
    BY <2>2, CatchPlayerKeepsIInv
  <2>3. ASSUME NEW v \in VampireItems, SkipVampire(v) PROVE IInv'
    BY <2>3, SkipVampireKeepsIInv
  <2>4. ASSUME NEW v \in VampireItems, NEW dir \in Directions, MoveVampire(v, dir)
        PROVE  IInv'
    BY <2>4, MoveVampireKeepsIInv
  <2>5. CASE EndMoveVampires BY <2>5, EndMoveVampiresKeepsIInv
  <2>6. QED BY <1>2, <2>1, <2>2, <2>3, <2>4, <2>5 DEF MoveVampires
<1>3. CASE NewGame BY <1>3, NewGameKeepsIInv
<1>4. CASE UNCHANGED vars BY <1>4, StutterKeepsIInv
<1>5. QED BY <1>1, <1>2, <1>3, <1>4 DEF Next

(* The invariant holds in every state of every game. *)
THEOREM Invariance == Spec => []IInv
<1>1. Init => IInv BY InitIsConsistent
<1>2. IInv /\ [Next]_vars => IInv' BY NextKeepsIInv
<1>3. QED BY <1>1, <1>2, PTL DEF Spec

(* Every variable keeps its type: no loop leaves the field, no item ever   *)
(* stands on the border.                                                   *)
THEOREM TypeCorrectness == Spec => []TypeOK
<1>1. IInv => TypeOK BY DEF IInv, FieldInv
<1>2. QED BY <1>1, Invariance, PTL

(* moveItem(): the field and the coordinates kept in the items agree.      *)
THEOREM Consistency == Spec => []FieldConsistent
<1>1. IInv => FieldConsistent BY DEF IInv, FieldInv
<1>2. QED BY <1>1, Invariance, PTL

(* movePlayer(): "The loop is safe because of the border".                 *)
THEOREM BorderIsSafe == Spec => []BorderIntact
<1>1. IInv => BorderIntact BY DEF IInv, FieldInv
<1>2. QED BY <1>1, Invariance, PTL

(* movePlayer() pushes walls, last first, into an empty cell.              *)
THEOREM PushIsSafe == Spec => []PushesIntoEmptyCell
<1>1. IInv => PushesIntoEmptyCell
  <2> SUFFICES ASSUME IInv, pc = "push" PROVE PushesIntoEmptyCell
    BY DEF PushesIntoEmptyCell
  <2>1. PICK n \in Nat \ {0} : IsRow(n) BY DEF IInv, RowInv
  <2>2. field[emptyCell] = Empty BY DEF IInv, RowInv
  <2>3. at[Player] \in Plane /\ direction \in Directions
    BY ItemTypes, CellsInPlane DEF IInv, FieldInv, TypeOK
  <2>4. ASSUME emptyCell # NewCell
        PROVE  field[Behind(emptyCell, direction)] \in Walls
    <3>1. n # 1 BY <2>1, <2>3, <2>4, CellsAhead DEF IsRow, NewCell
    <3>2. PICK m \in Nat \ {0} : n = m + 1
      <4>1. n - 1 \in Nat \ {0} /\ n = (n - 1) + 1 BY <3>1
      <4>2. QED BY <4>1
    <3>3. Behind(emptyCell, direction) = CellAhead(at[Player], direction, m)
      BY <2>1, <2>3, <3>2, CellsAhead DEF IsRow
    <3>4. PICK wall \in Walls : at[wall] = CellAhead(at[Player], direction, m)
      BY <2>1, <3>2 DEF IsRow
    <3>5. QED BY <3>3, <3>4, ItemTypes DEF IInv, FieldInv, FieldConsistent
  <2>5. QED BY <2>2, <2>4 DEF PushesIntoEmptyCell
<1>2. QED BY <1>1, Invariance, PTL

(* movePlayer() and moveVampires(): what the player is told is true.       *)
THEOREM Honesty == Spec => []HonestResult
<1>1. IInv => HonestResult BY DEF IInv
<1>2. QED BY <1>1, Invariance, PTL

(* moveVampires(): the sum of the distance deltas chooses a cell that is   *)
(* nearest to the player in true distance.                                 *)
LEMMA MoveVampireGoesNearest ==
  ASSUME IInv, NEW u \in VampireItems, NEW dir \in Directions, MoveVampire(u, dir)
  PROVE  MovedToNearestCell
<1> SUFFICES ASSUME NEW v \in VampireItems, at'[v] # at[v],
                    NEW other \in FreeDirections(v)
             PROVE  SquaredDistance(at'[v], at[Player])
                      <= SquaredDistance(Neighbor(at[v], other), at[Player])
  BY DEF MovedToNearestCell
<1>1. at' = [at EXCEPT ![u] = Neighbor(at[u], dir)] /\ BestDirection(u, dir)
  BY DEF MoveVampire, MoveItem
<1>2. at \in [Items -> Inner] BY DEF IInv, FieldInv, TypeOK
<1>3. v = u /\ at'[v] = Neighbor(at[v], dir) BY <1>1, <1>2, ItemTypes
<1>4. at[v] \in Plane /\ at[Player] \in Plane /\ other \in Directions
  BY <1>2, ItemTypes, CellsInPlane DEF FreeDirections
<1>5. /\ DistanceDelta(at[v], at[Player], dir) \in Int
      /\ DistanceDelta(at[v], at[Player], other) \in Int
  BY <1>4, DirectionCases DEF DistanceDelta, Plane
<1>6. DistanceDelta(at[v], at[Player], dir) <= DistanceDelta(at[v], at[Player], other)
  <2> DEFINE dd(d) == DistanceDelta(at[u], at[Player], d)
  <2>1. other \in FreeDirections(u) BY <1>3
  <2>2. dd(dir) < dd(other) \/ dd(dir) = dd(other) BY <1>1, <2>1 DEF BestDirection
  <2>3. dd(dir) \in Int /\ dd(other) \in Int BY <1>3, <1>5
  <2> HIDE DEF dd
  <2>4. dd(dir) <= dd(other) BY <2>2, <2>3
  <2>5. QED BY <2>4, <1>3 DEF dd
<1>7. SquaredDistance(at[v], at[Player]) \in Int
  BY <1>4 DEF SquaredDistance, Plane
<1>8. QED BY <1>3, <1>4, <1>5, <1>6, <1>7, DeltaIsExact

(* No free cell was closer to the player than the one a vampire took.      *)
THEOREM Pursuit == Spec => StepsToNearestCell
<1>1. ASSUME IInv, [Next]_vars PROVE [MovedToNearestCell]_vars
  <2>1. ASSUME NEW u \in VampireItems, NEW dir \in Directions, MoveVampire(u, dir)
        PROVE  MovedToNearestCell
    BY <1>1, <2>1, MoveVampireGoesNearest
  <2>2. ASSUME at' = at PROVE MovedToNearestCell
    BY <2>2 DEF MovedToNearestCell
  <2>3. ASSUME pc # "vampires" PROVE MovedToNearestCell
    BY <2>3 DEF MovedToNearestCell
  <2>4. CASE MovePlayer
    BY <2>4, <2>3 DEF MovePlayer, BeginMovePlayer, MeetVampire, ScanWall,
                      PlayerIsBlocked, PushWall, FinishMovePlayer
  <2>5. CASE MoveVampires
    BY <2>5, <2>1, <2>2
    DEF MoveVampires, BeginMoveVampires, CatchPlayer, SkipVampire, EndMoveVampires
  <2>6. CASE NewGame BY <2>6, <2>3 DEF NewGame
  <2>7. QED BY <1>1, <2>4, <2>5, <2>6 DEF Next
<1>2. IInv /\ [Next]_vars => [MovedToNearestCell]_vars BY <1>1
<1>3. QED BY <1>2, Invariance, PTL DEF Spec, StepsToNearestCell

----------------------------------------------------------------------------
(* The refinement.  `before` is where the items were when the running call *)
(* began, and this is how the loops have changed it so far.                *)

CellInFront(n) == CellAhead(before[Player], direction, n)

HadWall(c) == \E w \in Walls : before[w] = c

WasFree(c) == c \in Inner /\ \A i \in Items : before[i] # c

(* The walls of the row from the n-th cell on are pushed by one cell, into *)
(* the last one, which was free.                                           *)
IsPushed(last, n) ==
  /\ emptyCell = CellInFront(n)
  /\ \A k \in 1..last - 1 : HadWall(CellInFront(k))
  /\ WasFree(CellInFront(last))
  /\ \A i \in Items :
       at[i] = IF \E k \in n..last - 1 : before[i] = CellInFront(k)
               THEN Neighbor(before[i], direction) ELSE before[i]

PushHistory ==
  pc = "push" => \E last, n \in Nat \ {0} : n <= last /\ IsPushed(last, n)

(* A vampire that is handled has not found the player, and has taken, of   *)
(* the cells that were free and still are, none that is farther than some. *)
WasNextToPlayer(v) == \E dir \in Directions : Neighbor(before[v], dir) = before[Player]

HadMove(v) == \E dir \in Directions : WasFree(Neighbor(before[v], dir))

IsFreeStill(c) == WasFree(c) /\ \A i \in Items : at[i] # c

IsHandled(v) ==
  /\ ~WasNextToPlayer(v)
  /\ at[v] # before[v] => \E dir \in Directions : at[v] = Neighbor(before[v], dir)
  /\ \A dir \in Directions :
       LET c == Neighbor(before[v], dir) IN
         IsFreeStill(c) =>
           /\ at[v] # before[v]
           /\ SquaredDistance(at[v], before[Player]) <= SquaredDistance(c, before[Player])

VampireHistory ==
  pc = "vampires" =>
    /\ \A i \in Items : i \notin VampireItems \ pending => at[i] = before[i]
    /\ \A v \in VampireItems \ pending : IsHandled(v)
    /\ hasSomeVampiresMoved => at # before /\ \E v \in VampireItems : HadMove(v)
    /\ ~hasSomeVampiresMoved => at = before

BeforeOK ==
  /\ before \in [Items -> Inner]
  /\ \A i, j \in Items : before[i] = before[j] => i = j

HistoryInv ==
  /\ BeforeOK
  /\ pc \in {"idle", "scan"} => before = at
  /\ pc = "scan" => field[emptyCell] # Empty
  /\ PushHistory /\ VampireHistory

----------------------------------------------------------------------------
(* VampiresGame has copies of its own of what both modules are written in. *)
LEMMA GameField ==
  /\ Game!Items = Items /\ Game!VampireItems = VampireItems /\ Game!Inner = Inner
  /\ Game!Directions = Directions /\ Game!wallCount = wallCount
  /\ \A c, dir : Game!Neighbor(c, dir) = Neighbor(c, dir)
  /\ \A c, dir, n : Game!CellAhead(c, dir, n) = CellAhead(c, dir, n)
  /\ \A c, p : Game!SquaredDistance(c, p) = SquaredDistance(c, p)
  /\ \A S : Game!Cardinality(S) = Cardinality(S)
<1>1. \A S : Game!Cardinality(S) = Cardinality(S)
  BY Zenon DEF Cardinality, Game!Cardinality
<1>2. Game!wallCount = wallCount BY <1>1 DEF Game!wallCount, wallCount
<1>3. \A c, dir : Game!Neighbor(c, dir) = Neighbor(c, dir)
  BY DEF Neighbor, Game!Neighbor, DirectionToDistance, Game!DirectionToDistance
<1>4. \A c, dir, n : Game!CellAhead(c, dir, n) = CellAhead(c, dir, n)
  BY DEF CellAhead, Game!CellAhead, DirectionToDistance, Game!DirectionToDistance
<1>5. /\ Game!Items = Items /\ Game!VampireItems = VampireItems
      /\ Game!Inner = Inner /\ Game!Directions = Directions
  BY DEF Game!Items, Items, Game!VampireItems, VampireItems, Game!Inner, Inner,
         Game!Directions, Directions
<1>6. \A c, p : Game!SquaredDistance(c, p) = SquaredDistance(c, p)
  BY DEF Game!SquaredDistance, SquaredDistance
<1>7. QED BY <1>1, <1>2, <1>3, <1>4, <1>5, <1>6

LEMMA GamePlacement ==
  /\ Game!Injection(Walls, Game!WallSpaces) = Injection(Walls, WallSpaces)
  /\ \A w : Game!Placement(w) = Placement(w)
<1>1. Game!Injection(Walls, Game!WallSpaces) = Injection(Walls, WallSpaces)
  BY DEF Game!WallSpaces, WallSpaces, Game!PlayerCell, PlayerCell,
         Game!Injection, Injection, Game!IsInjective, IsInjective
<1>2. \A w : Game!Placement(w) = Placement(w)
  BY GameField
  DEF Game!Placement, Placement, Game!PlayerCell, PlayerCell, Game!RingCell, RingCell,
      Game!VampirePosition, VampirePosition, Game!MaxVampireCount, MaxVampireCount,
      Game!Cursor, Cursor, Game!Advance, Advance
<1>3. QED BY <1>1, <1>2

(* What the rules say of cells, in terms of `before`.                      *)
LEMMA GameCells ==
  ASSUME NEW c
  PROVE  /\ Game!ItemsAt(c) = {i \in Items : before[i] = c}
         /\ Game!ItemsAt(c) \intersect Walls # {} <=> HadWall(c)
         /\ ~Game!Occupied(c) <=> WasFree(c)
<1>1. Game!ItemsAt(c) = {i \in Items : before[i] = c} BY GameField DEF Game!ItemsAt
<1>2. QED BY <1>1, GameField, ItemTypes DEF HadWall, WasFree, Game!Occupied

LEMMA GameAhead ==
  ASSUME NEW n
  PROVE  Game!Ahead(direction, n) = CellInFront(n)
BY GameField DEF Game!Ahead, CellInFront

(* A cell of the field is empty when no item is in it.                     *)
LEMMA EmptyCells ==
  ASSUME FieldInv, NEW c \in Cells
  PROVE  field[c] = Empty <=> c \in Inner /\ \A i \in Items : at[i] # c
BY ItemTypes, ItemsAssumption, CellsInPlane
DEF FieldInv, TypeOK, FieldConsistent, BorderIntact

(* The cells in front of the player are all different.                     *)
LEMMA CellsInFront ==
  ASSUME BeforeOK, direction \in Directions, NEW n \in Nat
  PROVE  /\ before[Player] \in Plane
         /\ CellInFront(n) \in Plane
         /\ CellInFront(1) = Neighbor(before[Player], direction)
         /\ CellInFront(n + 1) = Neighbor(CellInFront(n), direction)
         /\ CellInFront(n) = Behind(CellInFront(n + 1), direction)
         /\ \A m \in Nat : CellInFront(m) = CellInFront(n) => m = n
         /\ CellInFront(n) = before[Player] => n = 0
<1>1. before[Player] \in Plane BY ItemTypes, CellsInPlane DEF BeforeOK
<1>2. QED BY <1>1, CellsAhead DEF CellInFront

(* The row of the rules is the row that the loop has found.                *)
LEMMA RowOfWallsIs ==
  ASSUME BeforeOK, direction \in Directions, NEW n \in Nat \ {0},
         \A k \in 1..n - 1 : HadWall(CellInFront(k)), ~HadWall(CellInFront(n))
  PROVE  LET row == {w \in Walls : \E k \in 1..n - 1 : before[w] = CellInFront(k)}
         IN  /\ Game!RowOfWalls(direction) = row
             /\ Game!Cardinality(row) = n - 1
<1> DEFINE row == {w \in Walls : \E k \in 1..n - 1 : before[w] = CellInFront(k)}
           f == [k \in 1..n - 1 |-> CHOOSE w \in Walls : before[w] = CellInFront(k)]
<1>1. \A k \in 1..n - 1 : f[k] \in Walls /\ before[f[k]] = CellInFront(k)
  BY DEF HadWall
<1>2. \A j, k \in 1..n - 1 : CellInFront(j) = CellInFront(k) => j = k
  BY CellsInFront
<1>3. f \in Bijection(1..n - 1, row)
  <2>1. f \in [1..n - 1 -> row] BY <1>1
  <2>2. \A j, k \in 1..n - 1 : f[j] = f[k] => j = k BY <1>1, <1>2
  <2>3. \A w \in row : \E k \in 1..n - 1 : f[k] = w
    <3> TAKE w \in row
    <3>1. PICK k \in 1..n - 1 : before[w] = CellInFront(k) OBVIOUS
    <3>2. f[k] = w BY <1>1, <3>1, ItemTypes DEF BeforeOK
    <3>3. QED BY <3>2
  <2> HIDE DEF f, row
  <2>4. QED BY <2>1, <2>2, <2>3 DEF Bijection, Injection, Surjection, IsInjective
<1>4. Cardinality(row) = n - 1 /\ IsFiniteSet(row)
  <2> HIDE DEF f, row
  <2>1. IsFiniteSet(1..n - 1) /\ Cardinality(1..n - 1) = n - 1 BY FS_Interval
  <2>2. ExistsBijection(1..n - 1, row) BY <1>3 DEF ExistsBijection
  <2>3. QED BY <2>1, <2>2, FS_Bijection
<1>5. n - 1 <= wallCount
  <2>1. row \subseteq Walls OBVIOUS
  <2> HIDE DEF row
  <2>2. QED BY <1>4, <2>1, FS_Subset, SizeAssumption DEF wallCount
<1>6. Game!RowOfWalls(direction)
        = {w \in Walls : \E m \in 1..wallCount :
             /\ before[w] = CellInFront(m)
             /\ \A k \in 1..m : HadWall(CellInFront(k))}
  BY GameField, GameAhead, GameCells DEF Game!RowOfWalls
<1>7. ASSUME NEW w \in Walls, NEW m \in 1..wallCount, before[w] = CellInFront(m),
             \A k \in 1..m : HadWall(CellInFront(k))
      PROVE  w \in row
  <2>1. wallCount \in Nat BY FS_CardinalityType, SizeAssumption DEF wallCount
  <2>2. m \in 1..n - 1 BY <1>7, <2>1
  <2>3. QED BY <1>7, <2>2
<1>8. ASSUME NEW w \in Walls, NEW m \in 1..n - 1, before[w] = CellInFront(m)
      PROVE  m \in 1..wallCount /\ \A k \in 1..m : HadWall(CellInFront(k))
  <2>1. wallCount \in Nat BY FS_CardinalityType, SizeAssumption DEF wallCount
  <2>2. QED BY <1>5, <2>1
<1>9. Game!RowOfWalls(direction) = row BY <1>6, <1>7, <1>8
<1>10. QED BY <1>4, <1>9, GameField

----------------------------------------------------------------------------
(* movePlayer() *)

StepIsGood == HistoryInv' /\ [Game!GameNext]_(Game!gameVars)

(* Between the cells that the loops look at, the caller sees nothing.      *)
LEMMA InnerStep ==
  ASSUME pc \in {"scan", "push"}, pc' \in {"scan", "push"},
         UNCHANGED <<before, result, direction>>
  PROVE  UNCHANGED Game!gameVars
BY DEF Game!gameVars

(* Pushing begins as soon as a free cell is found, when nothing is pushed. *)
LEMMA PushBegins ==
  ASSUME IInv', BeforeOK', pc' = "push", at' = before'
  PROVE  PushHistory'
<1>1. PICK n \in Nat \ {0} : IsRow(n)' BY DEF IInv, RowInv
<1>2. emptyCell' = CellInFront(n)' /\ \A k \in 1..n - 1 : HadWall(CellInFront(k))'
  BY <1>1 DEF IsRow, CellInFront, HadWall
<1>3. WasFree(CellInFront(n))'
  <2>1. field'[emptyCell'] = Empty /\ emptyCell' \in Cells
    BY DEF IInv, RowInv, FieldInv, TypeOK
  <2>2. emptyCell' \in Inner /\ \A i \in Items : at'[i] # emptyCell'
    BY <2>1, ItemTypes, ItemsAssumption
    DEF IInv, FieldInv, TypeOK, FieldConsistent, BorderIntact
  <2>3. QED BY <1>2, <2>2 DEF WasFree
<1>4. \A k \in n..n - 1 : FALSE OBVIOUS
<1>5. IsPushed(n, n)' BY <1>2, <1>3, <1>4 DEF IsPushed
<1>6. QED BY <1>5 DEF PushHistory

LEMMA BeginMovePlayerIsGood ==
  ASSUME IInv, IInv', HistoryInv, NEW dir \in Directions, BeginMovePlayer(dir),
         before' = before
  PROVE  StepIsGood
<1>1. /\ pc = "idle" /\ result = "ok" /\ direction' = dir
      /\ pc' \in {"scan", "push"} /\ UNCHANGED <<at, result>>
      /\ pc' = "scan" => field'[emptyCell'] # Empty
  BY DEF BeginMovePlayer, ScanFrom
<1>2. BeforeOK' /\ before' = at' BY <1>1 DEF HistoryInv, BeforeOK
<1>3. HistoryInv' BY <1>1, <1>2, PushBegins DEF HistoryInv, PushHistory, VampireHistory
<1>4. Game!GameBegin BY <1>1, GameField DEF Game!GameBegin
<1>5. QED BY <1>3, <1>4 DEF StepIsGood, Game!GameNext

LEMMA ScanWallIsGood ==
  ASSUME IInv, IInv', HistoryInv, ScanWall, before' = before
  PROVE  StepIsGood
<1>1. /\ pc = "scan" /\ pc' \in {"scan", "push"}
      /\ pc' = "scan" => field'[emptyCell'] # Empty
      /\ UNCHANGED <<at, result, direction>>
  BY DEF ScanWall, ScanFrom
<1>2. BeforeOK' /\ before' = at' BY <1>1 DEF HistoryInv, BeforeOK
<1>3. HistoryInv' BY <1>1, <1>2, PushBegins DEF HistoryInv, PushHistory, VampireHistory
<1>4. QED BY <1>1, <1>3, InnerStep DEF StepIsGood

(* A call that returns leaves nothing but its result.                      *)
LEMMA ReturnIsGood ==
  ASSUME BeforeOK', NoCall, before' = at'
  PROVE  /\ HistoryInv'
         /\ direction' = 1 /\ pc' = "idle"
BY DEF HistoryInv, NoCall, PushHistory, VampireHistory

(* After a call the items are in the field, each in its own cell.          *)
LEMMA BeforeIsKept ==
  ASSUME IInv', before' = at'
  PROVE  BeforeOK'
BY DEF IInv, FieldInv, TypeOK, FieldConsistent, BeforeOK

LEMMA MeetVampireIsGood ==
  ASSUME IInv, IInv', HistoryInv, MeetVampire, before' = at'
  PROVE  StepIsGood
<1>1. /\ pc = "scan" /\ emptyCell = NewCell /\ field[NewCell] \in VampireItems
      /\ result' = "lost" /\ NoCall /\ UNCHANGED <<field, at>>
  BY DEF MeetVampire
<1>2. before = at /\ before' = before BY <1>1 DEF HistoryInv
<1>3. NewCell = CellInFront(1) /\ NewCell \in Cells
  BY <1>1, <1>2, CellsInFront DEF HistoryInv, NewCell, IInv, FieldInv, TypeOK
<1>4. PICK v \in VampireItems : before[v] = CellInFront(1)
  BY <1>1, <1>2, <1>3, ItemTypes DEF IInv, FieldInv, FieldConsistent
<1>5. Game!ItemsAt(Game!Ahead(direction, 1)) \intersect Game!VampireItems # {}
  BY <1>4, GameAhead, GameCells, GameField, ItemTypes
<1>6. HistoryInv' /\ direction' = 1 /\ pc' = "idle"
  BY <1>1, ReturnIsGood, BeforeIsKept
<1>7. Game!GameMovePlayer
  BY <1>1, <1>2, <1>5, <1>6 DEF Game!GameMovePlayer, Game!GameReturn
<1>8. QED BY <1>6, <1>7 DEF StepIsGood, Game!GameNext

LEMMA PlayerIsBlockedIsGood ==
  ASSUME IInv, IInv', HistoryInv, PlayerIsBlocked, before' = at'
  PROVE  StepIsGood
<1>1. /\ pc = "scan" /\ field[emptyCell] \notin Walls
      /\ ~(emptyCell = NewCell /\ field[NewCell] \in VampireItems)
      /\ result' = result /\ NoCall /\ UNCHANGED <<field, at>>
  BY DEF PlayerIsBlocked
<1>2. before = at /\ before' = before BY <1>1 DEF HistoryInv
<1>3. result' = "ok" BY <1>1 DEF IInv, LoopInv
<1>4. BeforeOK /\ direction \in Directions BY DEF HistoryInv, IInv, FieldInv, TypeOK
<1>5. PICK n \in Nat \ {0} : IsRow(n) BY <1>1 DEF IInv, RowInv
<1>6. emptyCell = CellInFront(n) /\ \A k \in 1..n - 1 : HadWall(CellInFront(k))
  BY <1>2, <1>5 DEF IsRow, CellInFront, HadWall
<1>7. ~HadWall(CellInFront(n))
  BY <1>1, <1>2, <1>6, ItemTypes DEF HadWall, IInv, FieldInv, FieldConsistent
<1>8. Game!Ahead(direction, Game!Cardinality(Game!RowOfWalls(direction)) + 1)
        = CellInFront(n)
  <2>1. n - 1 + 1 = n OBVIOUS
  <2>2. Game!Cardinality(Game!RowOfWalls(direction)) = n - 1
    BY <1>4, <1>6, <1>7, RowOfWallsIs
  <2>3. QED BY <2>1, <2>2, GameAhead
<1>9. Game!Occupied(CellInFront(n))
  <2>1. field[emptyCell] # Empty /\ emptyCell \in Cells
    BY <1>1 DEF HistoryInv, IInv, FieldInv, TypeOK
  <2>2. QED BY <2>1, <1>2, <1>6, EmptyCells, GameCells DEF IInv, WasFree
<1>10. Game!ItemsAt(Game!Ahead(direction, 1)) \intersect Game!VampireItems = {}
  <2>1. CASE n = 1
    BY <1>1, <1>2, <1>4, <1>6, <2>1, CellsInFront, GameAhead, GameCells, GameField
    DEF NewCell, IInv, FieldInv, FieldConsistent
  <2>2. CASE n # 1
    <3>1. PICK w \in Walls : before[w] = CellInFront(1) BY <1>6, <2>2 DEF HadWall
    <3>2. QED BY <3>1, <1>4, ItemTypes, GameAhead, GameCells, GameField DEF BeforeOK
  <2>3. QED BY <2>1, <2>2
<1>11. HistoryInv' /\ direction' = 1 /\ pc' = "idle"
  BY <1>1, ReturnIsGood, BeforeIsKept
<1>12. Game!GameMovePlayer
  BY <1>1, <1>2, <1>3, <1>8, <1>9, <1>10, <1>11 DEF Game!GameMovePlayer, Game!GameReturn
<1>13. QED BY <1>11, <1>12 DEF StepIsGood, Game!GameNext

LEMMA PushWallIsGood ==
  ASSUME IInv, IInv', HistoryInv, PushWall, before' = before
  PROVE  StepIsGood
<1>1. /\ pc = "push" /\ pc' = "push" /\ emptyCell # NewCell
      /\ MoveItem(field[Behind(emptyCell, direction)], emptyCell)
      /\ emptyCell' = Behind(emptyCell, direction)
      /\ UNCHANGED <<result, direction>>
  BY DEF PushWall
<1>2. PICK last \in Nat \ {0}, n \in Nat \ {0} : n <= last /\ IsPushed(last, n)
  BY <1>1 DEF HistoryInv, PushHistory
<1>3. BeforeOK /\ direction \in Directions /\ at \in [Items -> Inner]
  BY DEF HistoryInv, IInv, FieldInv, TypeOK
<1>4. at[Player] = before[Player]
  <2>1. \A k \in n..last - 1 : k \in Nat /\ k # 0 OBVIOUS
  <2>2. \A k \in n..last - 1 : before[Player] # CellInFront(k)
    BY <1>3, <2>1, CellsInFront
  <2>3. QED BY <1>2, <2>2, ItemTypes DEF IsPushed
<1>5. n # 1
  BY <1>1, <1>2, <1>3, <1>4, CellsInFront DEF IsPushed, NewCell
<1>6. PICK m \in Nat \ {0} : n = m + 1
  <2>1. n - 1 \in Nat \ {0} /\ n = (n - 1) + 1 BY <1>5
  <2>2. QED BY <2>1
<1>7. emptyCell = CellInFront(m + 1) /\ emptyCell' = CellInFront(m)
      /\ emptyCell = Neighbor(CellInFront(m), direction)
  BY <1>1, <1>2, <1>3, <1>6, CellsInFront DEF IsPushed
<1>8. PICK w \in Walls : before[w] = CellInFront(m)
  BY <1>2, <1>6 DEF IsPushed, HadWall
<1>9. \A k \in n..last - 1 : CellInFront(k) # CellInFront(m)
  BY <1>3, <1>6, CellsInFront
<1>10. at[w] = CellInFront(m) /\ w \in Items
  BY <1>2, <1>8, <1>9, ItemTypes DEF IsPushed
<1>11. field[Behind(emptyCell, direction)] = w
  BY <1>1, <1>7, <1>10 DEF IInv, FieldInv, FieldConsistent
<1>12. at' = [at EXCEPT ![w] = Neighbor(CellInFront(m), direction)]
  BY <1>1, <1>7, <1>11 DEF MoveItem
<1>13. ASSUME NEW i \in Items
       PROVE  at'[i] = IF \E k \in m..last - 1 : before[i] = CellInFront(k)
                       THEN Neighbor(before[i], direction) ELSE before[i]
  <2>1. m \in m..last - 1 /\ \A k \in m..last - 1 : k = m \/ k \in n..last - 1
    BY <1>2, <1>6
  <2>2. \A k \in n..last - 1 : k \in m..last - 1 BY <1>6
  <2>3. CASE i = w BY <1>3, <1>8, <1>10, <1>12, <2>1, <2>3
  <2>4. CASE i # w
    <3>1. before[i] # CellInFront(m) BY <1>3, <1>8, <1>10, <2>4 DEF BeforeOK
    <3>2. at'[i] = at[i] BY <1>3, <1>12, <2>4
    <3>3. QED BY <1>2, <2>1, <2>2, <3>1, <3>2 DEF IsPushed
  <2>5. QED BY <2>3, <2>4
<1>14. \A k : CellInFront(k)' = CellInFront(k) BY <1>1 DEF CellInFront
<1>15. IsPushed(last, m)'
  BY <1>1, <1>2, <1>7, <1>13, <1>14 DEF IsPushed, HadWall, WasFree
<1>16. m <= last BY <1>2, <1>6
<1>17. HistoryInv'
  BY <1>1, <1>3, <1>15, <1>16 DEF HistoryInv, PushHistory, VampireHistory, BeforeOK
<1>18. QED BY <1>1, <1>17, InnerStep DEF StepIsGood

LEMMA FinishMovePlayerIsGood ==
  ASSUME IInv, IInv', HistoryInv, FinishMovePlayer, before' = at'
  PROVE  StepIsGood
<1>1. /\ pc = "push" /\ emptyCell = NewCell
      /\ MoveItem(Player, NewCell) /\ NoCall /\ result' = result
  BY DEF FinishMovePlayer
<1>2. PICK last \in Nat \ {0}, n \in Nat \ {0} : n <= last /\ IsPushed(last, n)
  BY <1>1 DEF HistoryInv, PushHistory
<1>3. BeforeOK /\ direction \in Directions /\ at \in [Items -> Inner] /\ result = "ok"
  BY <1>1 DEF HistoryInv, IInv, FieldInv, TypeOK, LoopInv
<1>4. at[Player] = before[Player]
  <2>1. \A k \in n..last - 1 : k \in Nat /\ k # 0 OBVIOUS
  <2>2. \A k \in n..last - 1 : before[Player] # CellInFront(k)
    BY <1>3, <2>1, CellsInFront
  <2>3. QED BY <1>2, <2>2, ItemTypes DEF IsPushed
<1>5. n = 1 /\ NewCell = Neighbor(before[Player], direction)
  BY <1>1, <1>2, <1>3, <1>4, CellsInFront DEF IsPushed, NewCell
<1> DEFINE row == {w \in Walls : \E k \in 1..last - 1 : before[w] = CellInFront(k)}
<1>6. \A k \in 1..last - 1 : HadWall(CellInFront(k))
  BY <1>2 DEF IsPushed
<1>7. WasFree(CellInFront(last)) /\ ~HadWall(CellInFront(last))
  BY <1>2, ItemTypes DEF IsPushed, WasFree, HadWall
<1>8. /\ Game!RowOfWalls(direction) = row
      /\ Game!Ahead(direction, Game!Cardinality(Game!RowOfWalls(direction)) + 1)
           = CellInFront(last)
  <2>1. last - 1 + 1 = last OBVIOUS
  <2>2. Game!RowOfWalls(direction) = row /\ Game!Cardinality(row) = last - 1
    BY <1>3, <1>6, <1>7, RowOfWallsIs
  <2> HIDE DEF row
  <2>3. QED BY <2>1, <2>2, GameAhead
<1>9. ~Game!Occupied(CellInFront(last)) BY <1>7, GameCells
<1>10. ASSUME NEW i \in Items
       PROVE  (\E k \in 1..last - 1 : before[i] = CellInFront(k)) <=> i \in row
  BY <1>3, <1>6, ItemTypes DEF HadWall, BeforeOK
<1>11. at' = [at EXCEPT ![Player] = NewCell] BY <1>1 DEF MoveItem
<1>12. at' = [i \in Items |-> IF i \in row \union {Player}
                              THEN Neighbor(before[i], direction) ELSE before[i]]
  <2> HIDE DEF row
  <2>1. ASSUME NEW i \in Items
        PROVE  at'[i] = IF i \in row \union {Player}
                        THEN Neighbor(before[i], direction) ELSE before[i]
    <3>1. at[i] = IF i \in row THEN Neighbor(before[i], direction) ELSE before[i]
      BY <1>2, <1>5, <1>10 DEF IsPushed
    <3>2. QED BY <1>3, <1>5, <1>11, <3>1
  <2>2. QED BY <1>3, <1>11, <2>1
<1>13. Game!ItemsAt(Game!Ahead(direction, 1)) \intersect Game!VampireItems = {}
  <2>1. CASE last = 1
    BY <1>7, <2>1, GameAhead, GameCells, GameField, ItemTypes DEF WasFree
  <2>2. CASE last # 1
    <3>1. PICK w \in Walls : before[w] = CellInFront(1) BY <1>6, <2>2 DEF HadWall
    <3>2. QED BY <3>1, <1>3, ItemTypes, GameAhead, GameCells, GameField DEF BeforeOK
  <2>3. QED BY <2>1, <2>2
<1>14. HistoryInv' /\ direction' = 1 /\ pc' = "idle"
  BY <1>1, ReturnIsGood, BeforeIsKept
<1>15. Game!GameMovePlayer
  <2> HIDE DEF row
  <2>1. before' = [i \in Game!Items |->
                    IF i \in Game!RowOfWalls(direction) \union {Player}
                    THEN Game!Neighbor(before[i], direction) ELSE before[i]]
    BY <1>8, <1>12, GameField
  <2>2. QED
    BY <1>1, <1>3, <1>8, <1>9, <1>13, <1>14, <2>1
    DEF Game!GameMovePlayer, Game!GameReturn
<1>16. QED BY <1>14, <1>15 DEF StepIsGood, Game!GameNext

----------------------------------------------------------------------------
(* moveVampires() *)

LEMMA BeginMoveVampiresIsGood ==
  ASSUME IInv, IInv', HistoryInv, BeginMoveVampires, before' = before
  PROVE  StepIsGood
<1>1. /\ pc = "idle" /\ pc' = "vampires" /\ result = "ok"
      /\ pending' = VampireItems
      /\ UNCHANGED <<at, result, direction, hasSomeVampiresMoved>>
  BY DEF BeginMoveVampires
<1>2. ~hasSomeVampiresMoved' BY <1>1, ItemTypes DEF IInv, LoopInv
<1>3. before' = at' /\ BeforeOK' BY <1>1 DEF HistoryInv, BeforeOK
<1>4. HistoryInv'
  BY <1>1, <1>2, <1>3 DEF HistoryInv, PushHistory, VampireHistory
<1>5. Game!GameBegin BY <1>1 DEF Game!GameBegin
<1>6. QED BY <1>4, <1>5 DEF StepIsGood, Game!GameNext

(* While the vampires move, the caller sees nothing.                       *)
LEMMA VampireStep ==
  ASSUME pc = "vampires", pc' = "vampires", UNCHANGED <<before, result, direction>>
  PROVE  UNCHANGED Game!gameVars
BY DEF Game!gameVars

(* The fields of a vampire that is still to be handled.                    *)
LEMMA PendingVampire ==
  ASSUME IInv, HistoryInv, NEW v \in VampireItems, IsNext(v)
  PROVE  /\ pc = "vampires" /\ v \in pending /\ v \in Items
         /\ at[v] = before[v] /\ at[Player] = before[Player]
         /\ \A dir \in Directions : Neighbor(before[v], dir) \in Cells
         /\ TouchesPlayer(v) <=> WasNextToPlayer(v)
         /\ FreeDirections(v) = {dir \in Directions :
              LET c == Neighbor(before[v], dir) IN
                c \in Inner /\ \A i \in Items : at[i] # c}
<1>1. pc = "vampires" /\ v \in pending BY DEF IsNext
<1>2. at[v] = before[v] /\ at[Player] = before[Player]
  BY <1>1, ItemTypes DEF HistoryInv, VampireHistory
<1>3. FieldInv /\ at[v] \in Inner BY ItemTypes DEF IInv, FieldInv, TypeOK
<1>4. \A dir \in Directions : Neighbor(before[v], dir) \in Cells
  BY <1>2, <1>3, NeighborInCells
<1>5. TouchesPlayer(v) <=> WasNextToPlayer(v)
  <2>1. \A c \in Cells : field[c] = Player <=> c = at[Player]
    BY <1>3, ItemTypes DEF FieldInv, FieldConsistent
  <2>2. QED BY <1>2, <1>4, <2>1 DEF TouchesPlayer, WasNextToPlayer
<1>6. FreeDirections(v) = {dir \in Directions :
         LET c == Neighbor(before[v], dir) IN
           c \in Inner /\ \A i \in Items : at[i] # c}
  BY <1>2, <1>3, <1>4, EmptyCells DEF FreeDirections
<1>7. QED BY <1>1, <1>2, <1>4, <1>5, <1>6, ItemTypes

LEMMA SkipVampireIsGood ==
  ASSUME IInv, IInv', HistoryInv, NEW v \in VampireItems, SkipVampire(v),
         before' = before
  PROVE  StepIsGood
<1>1. /\ IsNext(v) /\ ~TouchesPlayer(v) /\ FreeDirections(v) = {}
      /\ pending' = pending \ {v}
      /\ UNCHANGED <<at, result, pc, direction, hasSomeVampiresMoved>>
  BY DEF SkipVampire
<1>2. pc = "vampires" /\ at[v] = before[v] /\ ~WasNextToPlayer(v)
  BY <1>1, PendingVampire
<1>3. \A dir \in Directions : ~IsFreeStill(Neighbor(before[v], dir))
  BY <1>1, PendingVampire DEF IsFreeStill, WasFree
<1>4. IsHandled(v) BY <1>2, <1>3 DEF IsHandled
<1>5. \A u \in VampireItems \ pending' : IsHandled(u)'
  <2>1. \A u \in VampireItems \ pending' : IsHandled(u)
    BY <1>1, <1>2, <1>4 DEF HistoryInv, VampireHistory
  <2>2. QED
    BY <1>1, <2>1 DEF IsHandled, WasNextToPlayer, IsFreeStill, WasFree
<1>6. HistoryInv'
  <2>1. /\ BeforeOK' /\ PushHistory' BY <1>1, <1>2 DEF HistoryInv, BeforeOK, PushHistory
  <2>2. VampireHistory'
    BY <1>1, <1>2, <1>5, PendingVampire
    DEF HistoryInv, VampireHistory, HadMove, WasFree
  <2>3. QED BY <1>1, <1>2, <2>1, <2>2 DEF HistoryInv
<1>7. QED BY <1>1, <1>2, <1>6, VampireStep DEF StepIsGood

LEMMA MoveVampireIsGood ==
  ASSUME IInv, IInv', HistoryInv, NEW v \in VampireItems, NEW dir \in Directions,
         MoveVampire(v, dir), before' = before
  PROVE  StepIsGood
<1>1. /\ IsNext(v) /\ ~TouchesPlayer(v) /\ dir \in FreeDirections(v)
      /\ at' = [at EXCEPT ![v] = Neighbor(at[v], dir)]
      /\ pending' = pending \ {v} /\ hasSomeVampiresMoved' = TRUE
      /\ UNCHANGED <<result, pc, direction>>
  BY DEF MoveVampire, MoveItem, BestDirection
<1>2. /\ pc = "vampires" /\ v \in Items /\ ~WasNextToPlayer(v)
      /\ at[v] = before[v] /\ at[Player] = before[Player]
  BY <1>1, PendingVampire
<1>3. BeforeOK /\ at \in [Items -> Inner] BY DEF HistoryInv, IInv, FieldInv, TypeOK
<1>4. /\ at'[v] = Neighbor(before[v], dir) /\ at'[v] # before[v]
      /\ \A i \in Items : i # v => at'[i] = at[i]
  BY <1>1, <1>2, <1>3, NeighborInPlane, CellsInPlane DEF BeforeOK
<1>5. \A c : IsFreeStill(c)' => IsFreeStill(c)
  BY <1>2, <1>4 DEF IsFreeStill, WasFree
<1>6. IsHandled(v)'
  <2>1. ASSUME NEW other \in Directions, IsFreeStill(Neighbor(before[v], other))'
        PROVE  SquaredDistance(at'[v], before[Player])
                 <= SquaredDistance(Neighbor(before[v], other), before[Player])
    <3>1. other \in FreeDirections(v)
      BY <1>1, <1>5, <2>1, PendingVampire DEF IsFreeStill, WasFree
    <3>2. MovedToNearestCell BY MoveVampireGoesNearest
    <3>3. QED BY <1>2, <1>4, <3>1, <3>2 DEF MovedToNearestCell
  <2>2. QED BY <1>2, <1>4, <2>1 DEF IsHandled, WasNextToPlayer
<1>7. ASSUME NEW u \in VampireItems \ pending, u # v PROVE IsHandled(u)'
  <2>1. IsHandled(u) /\ at'[u] = at[u] /\ u \in Items
    BY <1>2, <1>4, <1>7, ItemTypes DEF HistoryInv, VampireHistory
  <2>2. QED BY <1>5, <2>1 DEF IsHandled, WasNextToPlayer
<1>8. \E u \in VampireItems : HadMove(u)
  <2>1. CASE hasSomeVampiresMoved BY <1>2, <2>1 DEF HistoryInv, VampireHistory
  <2>2. CASE ~hasSomeVampiresMoved
    <3>1. at = before BY <1>2, <2>2 DEF HistoryInv, VampireHistory
    <3>2. QED BY <1>1, <3>1, PendingVampire DEF HadMove, WasFree
  <2>3. QED BY <2>1, <2>2
<1>9. VampireHistory'
  <2>1. \A i \in Items : i \notin VampireItems \ pending' => at'[i] = before[i]
    BY <1>1, <1>2, <1>4 DEF HistoryInv, VampireHistory
  <2>2. \A u \in VampireItems \ pending' : IsHandled(u)' BY <1>1, <1>6, <1>7
  <2>3. (\E u \in VampireItems : HadMove(u))' BY <1>8 DEF HadMove, WasFree
  <2>4. at' # before BY <1>4
  <2>5. QED BY <1>1, <2>1, <2>2, <2>3, <2>4 DEF VampireHistory
<1>10. HistoryInv'
  BY <1>1, <1>2, <1>3, <1>9 DEF HistoryInv, BeforeOK, PushHistory
<1>11. QED BY <1>1, <1>2, <1>10, VampireStep DEF StepIsGood

(* What the rules say of where the vampires may be when the call returns.  *)
LEMMA VampiresMadeOneStep ==
  ASSUME IInv, HistoryInv, pc = "vampires", before' = at
  PROVE  /\ \A i \in Game!Items \ Game!VampireItems : before'[i] = before[i]
         /\ \A v \in Game!VampireItems :
              \/ before'[v] = before[v]
              \/ \E dir \in Game!Directions : before'[v] = Game!Neighbor(before[v], dir)
         /\ \A i \in Game!Items : before'[i] \in Game!Inner
         /\ \A i, j \in Game!Items : before'[i] = before'[j] => i = j
<1>1. \A i \in Items : i \notin VampireItems \ pending => at[i] = before[i]
  BY DEF HistoryInv, VampireHistory
<1>2. \A v \in VampireItems \ pending : IsHandled(v) BY DEF HistoryInv, VampireHistory
<1>3. \A v \in VampireItems :
        at[v] = before[v] \/ \E dir \in Directions : at[v] = Neighbor(before[v], dir)
  BY <1>1, <1>2, ItemTypes DEF IsHandled
<1>4. /\ \A i \in Items : at[i] \in Inner
      /\ \A i, j \in Items : at[i] = at[j] => i = j
  BY DEF IInv, FieldInv, TypeOK, FieldConsistent
<1>5. QED BY <1>1, <1>3, <1>4, GameField

LEMMA CatchPlayerIsGood ==
  ASSUME IInv, IInv', HistoryInv, NEW v \in VampireItems, CatchPlayer(v),
         before' = at'
  PROVE  StepIsGood
<1>1. IsNext(v) /\ TouchesPlayer(v) /\ result' = "lost" /\ NoCall /\ at' = at
  BY DEF CatchPlayer
<1>2. pc = "vampires" /\ WasNextToPlayer(v) BY <1>1, PendingVampire
<1>3. \E u \in Game!VampireItems : Game!NextToPlayer(u)
  BY <1>2, GameField DEF Game!NextToPlayer, WasNextToPlayer
<1>4. HistoryInv' /\ direction' = 1 /\ pc' = "idle"
  BY <1>1, ReturnIsGood, BeforeIsKept
<1>5. Game!GameMoveVampires
  BY <1>1, <1>2, <1>3, <1>4, VampiresMadeOneStep
  DEF Game!GameMoveVampires, Game!GameReturn
<1>6. QED BY <1>4, <1>5 DEF StepIsGood, Game!GameNext

LEMMA EndMoveVampiresIsGood ==
  ASSUME IInv, IInv', HistoryInv, EndMoveVampires, before' = at'
  PROVE  StepIsGood
<1>1. /\ pc = "vampires" /\ pending = {} /\ NoCall /\ at' = at
      /\ result' = (IF hasSomeVampiresMoved THEN "ok" ELSE "win")
  BY DEF EndMoveVampires
<1>2. \A v \in VampireItems : IsHandled(v)
  BY <1>1 DEF HistoryInv, VampireHistory
<1>3. ~\E v \in Game!VampireItems : Game!NextToPlayer(v)
  BY <1>2, GameField DEF Game!NextToPlayer, IsHandled, WasNextToPlayer
<1>4. \A v \in VampireItems : Game!Blocked(v) <=> ~HadMove(v)
  BY GameField, GameCells DEF Game!Blocked, HadMove
<1>5. hasSomeVampiresMoved => before' # before /\ \E v \in VampireItems : HadMove(v)
  BY <1>1 DEF HistoryInv, VampireHistory
<1>6. ~hasSomeVampiresMoved => before' = before
  BY <1>1 DEF HistoryInv, VampireHistory
<1>7. ~hasSomeVampiresMoved => \A v \in VampireItems : ~HadMove(v)
  BY <1>1, <1>2, <1>6 DEF IsHandled, HadMove, IsFreeStill, WasFree
<1>8. result' = IF \E v \in Game!VampireItems : Game!NextToPlayer(v) THEN "lost"
                ELSE IF \A v \in Game!VampireItems : Game!Blocked(v) THEN "win"
                ELSE "ok"
  BY <1>1, <1>3, <1>4, <1>5, <1>7, GameField
<1>9. \A c : Game!FreeThroughout(c) => IsFreeStill(c)
  BY <1>1, GameField DEF Game!FreeThroughout, IsFreeStill, WasFree
<1>10. \A v \in Game!VampireItems, dir \in Game!Directions :
         Game!FreeThroughout(Game!Neighbor(before[v], dir)) =>
           /\ before'[v] # before[v]
           /\ Game!SquaredDistance(before'[v], before[Player])
                <= Game!SquaredDistance(Game!Neighbor(before[v], dir), before[Player])
  BY <1>1, <1>2, <1>9, GameField DEF IsHandled
<1>11. HistoryInv' /\ direction' = 1 /\ pc' = "idle"
  BY <1>1, ReturnIsGood, BeforeIsKept
<1>12. Game!GameMoveVampires
  <2>1. result' = "win" => before' = before BY <1>1, <1>6
  <2>2. result' = "ok" => before' # before BY <1>1, <1>5
  <2>3. QED
    BY <1>1, <1>8, <1>10, <1>11, <2>1, <2>2, VampiresMadeOneStep
    DEF Game!GameMoveVampires, Game!GameReturn
<1>13. QED BY <1>11, <1>12 DEF StepIsGood, Game!GameNext

----------------------------------------------------------------------------
LEMMA NewGameIsGood ==
  ASSUME IInv, IInv', HistoryInv, NewGame, before' = at'
  PROVE  StepIsGood
<1>1. /\ pc = "idle" /\ pc' = "idle" /\ result # "ok" /\ result' = "ok"
      /\ \E w \in Injection(Walls, WallSpaces) : at' = Placement(w)
      /\ direction' = direction
  BY DEF NewGame, callVars
<1>2. HistoryInv'
  BY <1>1, BeforeIsKept DEF HistoryInv, PushHistory, VampireHistory
<1>3. Game!GameRestart BY <1>1, GamePlacement DEF Game!GameRestart
<1>4. QED BY <1>2, <1>3 DEF StepIsGood, Game!GameNext

LEMMA HistoryStep ==
  ASSUME IInv, IInv', HistoryInv, [HistoryNext]_<<vars, before>>
  PROVE  StepIsGood
<1>1. CASE UNCHANGED <<vars, before>>
  <2>1. UNCHANGED Game!gameVars BY <1>1 DEF Game!gameVars, vars, callVars
  <2>2. HistoryInv'
    BY <1>1
    DEF vars, callVars, HistoryInv, BeforeOK, PushHistory, IsPushed, CellInFront, HadWall,
        WasFree, VampireHistory, IsHandled, WasNextToPlayer, IsFreeStill, HadMove
  <2>3. QED BY <2>1, <2>2 DEF StepIsGood
<1>2. CASE HistoryNext
  <2>1. before' = IF pc' = "idle" THEN at' ELSE before BY <1>2 DEF HistoryNext
  <2>2. CASE MovePlayer
    <3>1. ASSUME NEW dir \in Directions, BeginMovePlayer(dir) PROVE StepIsGood
      <4>1. pc' # "idle" BY <3>1 DEF BeginMovePlayer, ScanFrom
      <4>2. QED BY <2>1, <3>1, <4>1, BeginMovePlayerIsGood
    <3>2. CASE MeetVampire
      BY <2>1, <3>2, MeetVampireIsGood DEF MeetVampire, NoCall
    <3>3. CASE ScanWall
      BY <2>1, <3>3, ScanWallIsGood DEF ScanWall, ScanFrom
    <3>4. CASE PlayerIsBlocked
      BY <2>1, <3>4, PlayerIsBlockedIsGood DEF PlayerIsBlocked, NoCall
    <3>5. CASE PushWall
      BY <2>1, <3>5, PushWallIsGood DEF PushWall
    <3>6. CASE FinishMovePlayer
      BY <2>1, <3>6, FinishMovePlayerIsGood DEF FinishMovePlayer, NoCall
    <3>7. QED BY <2>2, <3>1, <3>2, <3>3, <3>4, <3>5, <3>6 DEF MovePlayer
  <2>3. CASE MoveVampires
    <3>1. CASE BeginMoveVampires
      BY <2>1, <3>1, BeginMoveVampiresIsGood DEF BeginMoveVampires
    <3>2. ASSUME NEW v \in VampireItems, CatchPlayer(v) PROVE StepIsGood
      BY <2>1, <3>2, CatchPlayerIsGood DEF CatchPlayer, NoCall
    <3>3. ASSUME NEW v \in VampireItems, SkipVampire(v) PROVE StepIsGood
      BY <2>1, <3>3, SkipVampireIsGood DEF SkipVampire, IsNext
    <3>4. ASSUME NEW v \in VampireItems, NEW dir \in Directions, MoveVampire(v, dir)
          PROVE  StepIsGood
      BY <2>1, <3>4, MoveVampireIsGood DEF MoveVampire, IsNext
    <3>5. CASE EndMoveVampires
      BY <2>1, <3>5, EndMoveVampiresIsGood DEF EndMoveVampires, NoCall
    <3>6. QED BY <2>3, <3>1, <3>2, <3>3, <3>4, <3>5 DEF MoveVampires
  <2>4. CASE NewGame
    BY <2>1, <2>4, NewGameIsGood DEF NewGame
  <2>5. QED BY <1>2, <2>2, <2>3, <2>4 DEF HistoryNext, Next
<1>3. QED BY <1>1, <1>2

LEMMA HistoryBegins ==
  ASSUME HistoryInit
  PROVE  HistoryInv /\ Game!GameInit
<1>1. IInv BY InitIsConsistent DEF HistoryInit
<1>2. pc = "idle" /\ before = at BY DEF HistoryInit, Init
<1>3. BeforeOK BY <1>1, <1>2 DEF IInv, FieldInv, TypeOK, FieldConsistent, BeforeOK
<1>4. HistoryInv BY <1>2, <1>3 DEF HistoryInv, PushHistory, VampireHistory
<1>5. Game!GameInit
  BY <1>2, GamePlacement DEF HistoryInit, Init, Game!GameInit
<1>6. QED BY <1>4, <1>5

(* Whatever the size of the field and the number of walls and vampires:    *)
(* each call of movePlayer() and moveVampires() is, for its caller, one    *)
(* step of the rules of the game.                                          *)
THEOREM LoopsImplementGame == HistorySpec => ImplementsGame
<1>1. HistorySpec => Spec
  <2>1. HistoryInit => Init BY DEF HistoryInit
  <2>2. [HistoryNext]_<<vars, before>> => [Next]_vars BY DEF HistoryNext
  <2>3. QED BY <2>1, <2>2, PTL DEF HistorySpec, Spec
<1>2. HistoryInit => HistoryInv /\ Game!GameInit BY HistoryBegins
<1>3. IInv /\ IInv' /\ HistoryInv /\ [HistoryNext]_<<vars, before>>
        => HistoryInv' /\ [Game!GameNext]_(Game!gameVars)
  BY HistoryStep DEF StepIsGood
<1>4. QED
  BY <1>1, <1>2, <1>3, Invariance, PTL DEF HistorySpec, ImplementsGame, Game!GameSpec

=============================================================================
