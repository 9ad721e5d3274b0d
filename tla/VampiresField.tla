--------------------------- MODULE VampiresField ---------------------------
(***************************************************************************)
(* What the game of plugin/src/ms/vampires_nx_vms_plugin/vampires.cpp is   *)
(* played on: items, cells, directions, distances, and the placement a     *)
(* game starts from.  No state: Vampires (the class) and VampiresGame (the *)
(* rules it implements) both extend this module.                           *)
(***************************************************************************)
EXTENDS Integers, FiniteSets, Functions

CONSTANTS
  width, height,    (* Size of the field.                                  *)
  vampireCount,     (* Number of vampires.                                 *)
  Walls,            (* The wall items: wallCount of them.                  *)
  Player,           (* The player item.                                    *)
  Border,           (* Contents of a cell that holds a border item.        *)
  Empty             (* Contents of a cell that holds no item: nullptr.     *)

wallCount == Cardinality(Walls)

VampireItems == 0..vampireCount - 1

Items == {Player} \union Walls \union VampireItems

Cells == (0..width - 1) \X (0..height - 1)

Inner == (1..width - 2) \X (1..height - 2)

(* The cells along the inner side of the border, maxVampireCount. *)
MaxVampireCount == 2 * (width - 2) + 2 * (height - 4)

(* The sizes the Engine's settings model lets a user set, and of the       *)
(* constructor's assertions the one the algorithms need.  (It also asserts *)
(* width >= 7 and height >= 7; nothing below needs that.)  The last        *)
(* conjunct is asserted nowhere: every vampire needs a cell of its own.    *)
ASSUME SizeAssumption ==
  /\ width \in Nat /\ height \in Nat
  /\ width >= 5 /\ height >= 5
  /\ vampireCount \in Nat /\ vampireCount >= 1
  /\ IsFiniteSet(Walls)
  /\ wallCount >= 1
  /\ wallCount <= (width - 4) * (height - 4) - 1
  /\ vampireCount <= MaxVampireCount

ASSUME ItemsAssumption ==
  /\ Player # Border /\ Player # Empty /\ Border # Empty
  /\ Walls \intersect {Player, Border, Empty} = {}
  /\ VampireItems \intersect (Walls \union {Player, Border, Empty}) = {}

----------------------------------------------------------------------------
(* Geometry. *)

(* directionToDistance() of each direction, in the order of the enum. *)
Directions == 1..8

DirectionToDistance(dir) ==
  << <<0, -1>>, <<1, -1>>, <<1, 0>>, <<1, 1>>,
     <<0, 1>>, <<-1, 1>>, <<-1, 0>>, <<-1, -1>> >>[dir]

Neighbor(c, dir) ==
  <<c[1] + DirectionToDistance(dir)[1], c[2] + DirectionToDistance(dir)[2]>>

Behind(c, dir) ==
  <<c[1] - DirectionToDistance(dir)[1], c[2] - DirectionToDistance(dir)[2]>>

(* The cell n steps from c. *)
CellAhead(c, dir, n) ==
  <<c[1] + n * DirectionToDistance(dir)[1], c[2] + n * DirectionToDistance(dir)[2]>>

(* The square of the distance, Vampire::d. *)
SquaredDistance(c, p) ==
  (c[1] - p[1]) * (c[1] - p[1]) + (c[2] - p[2]) * (c[2] - p[2])

(* The change of the squared distance when a vampire at c steps by `dir`.  *)
(* `DistanceDeltaWrongSign` is a mutant: a step back counts as one ahead.  *)
DistanceDeltaWrongSign(c, p, dir) ==
  LET d == DirectionToDistance(dir)
      Along(k) == IF d[k] = 0 THEN 0 ELSE 1 + 2 * (c[k] - p[k])
  IN  Along(1) + Along(2)

DistanceDelta(c, p, dir) ==
  LET d == DirectionToDistance(dir)
      Along(k) == CASE d[k] = 0  -> 0
                    [] d[k] = 1  -> 1 + 2 * (c[k] - p[k])
                    [] d[k] = -1 -> 1 - 2 * (c[k] - p[k])
  IN  Along(1) + Along(2)

----------------------------------------------------------------------------
(* The initial placement, initGame(). *)

(* The loop that settles n vampires along `max` cells: `position` and      *)
(* `accumulator`, the integral and the fractional part of where the next   *)
(* vampire goes, before each iteration.                                    *)
Advance(cursor, max, n) ==
  LET position == cursor[1] + (max \div n)
      accumulator == cursor[2] + (max % n)
  IN  IF accumulator >= n THEN <<position + 1, accumulator - n>> ELSE <<position, accumulator>>

Cursor(max, n) ==
  LET cursor[i \in 0..n - 1] == IF i = 0 THEN <<0, 0>> ELSE Advance(cursor[i - 1], max, n)
  IN  cursor

VampirePosition(i) == Cursor(MaxVampireCount, vampireCount)[i][1]

(* The cell at a position: the inner ring, clockwise from its top left     *)
(* cell.                                                                   *)
RingCell(position) ==
  CASE position <= width - 3                -> <<position + 1, 1>>
    [] /\ position > width - 3
       /\ position <= width + height - 6    -> <<width - 2, position - width + 4>>
    [] /\ position > width + height - 6
       /\ position <= 2 * width + height - 9
                             -> <<2 * width + height - 8 - position, height - 2>>
    [] OTHER                 -> <<1, 2 * width + 2 * height - 11 - position>>

PlayerCell == <<width \div 2, height \div 2>>

(* The cells the loop over rand() chooses from. *)
WallSpaces == ((2..width - 3) \X (2..height - 3)) \ {PlayerCell}

(* The coordinates of every item when the walls go to `w`. *)
Placement(w) ==
  [i \in Items |-> CASE i = Player -> PlayerCell
                     [] i \in Walls -> w[i]
                     [] OTHER -> RingCell(VampirePosition(i))]

(* The field that holds every item at its coordinates. *)
FieldOf(coordinates) ==
  [c \in Cells |->
     IF c \notin Inner THEN Border
     ELSE IF \E i \in Items : coordinates[i] = c
          THEN CHOOSE i \in Items : coordinates[i] = c
          ELSE Empty]

=============================================================================
