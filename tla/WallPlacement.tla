---------------------------- MODULE WallPlacement ----------------------------
(***************************************************************************)
(* The end of Vampires::initGame() (vampires.cpp): the walls are settled   *)
(* one by one into the vector of the empty cells, with rand().  Module     *)
(* Vampires takes the outcome, any choice of distinct cells, for granted;  *)
(* here is the loop, with its scaling of rand() and its lazy erase().      *)
(*                                                                         *)
(* The cells are numbered as the vector lists them, row by row.            *)
(***************************************************************************)
EXTENDS Integers, Sequences

CONSTANTS
  SpaceCount,   (* walls.size(): the inner cells but the ring and the      *)
                (* player's.                                               *)
  MaxWallCount, (* Bound: the number of walls.                             *)
  RandMax,      (* RAND_MAX.                                               *)
  IntMax        (* INT_MAX.                                                *)

(* The constructor asserts that the walls have room.  Nothing in the code  *)
(* asserts the last conjunct: where RAND_MAX is 32767, as with the         *)
(* compiler of the platform of socket_reader.cpp, it holds for every field *)
(* of less than 32768 cells.                                               *)
ASSUME SpaceAssumption ==
  /\ SpaceCount \in Nat \ {0} /\ MaxWallCount \in 1..SpaceCount
  /\ RandMax \in Nat \ {0} /\ IntMax \in Nat
  /\ 2 * RandMax * (SpaceCount - 1) + RandMax <= IntMax

VARIABLES
  walls,        (* The vector of cells; its tail past spacesLeft is not    *)
                (* used any more.                                          *)
  spacesLeft,
  wallsLeft,
  settled       (* The cells of the walls created so far.                  *)

wallVars == <<walls, spacesLeft, wallsLeft, settled>>

Spaces == 1..SpaceCount

WallTypeOK ==
  /\ walls \in Seq(Spaces)
  /\ spacesLeft \in 0..SpaceCount
  /\ wallsLeft \in 0..MaxWallCount
  /\ settled \in Seq(Spaces)

WallInit ==
  /\ walls = [i \in Spaces |-> i]
  /\ spacesLeft = SpaceCount
  /\ wallsLeft \in 1..MaxWallCount
  /\ settled = <<>>

(* rand() scaled to an index; the vector of the code begins at 0.          *)
WallIndex(r) ==
  1 + (2 * r * (spacesLeft - 1) + RandMax) \div (2 * RandMax)

Erase(s, i) == [k \in 1..Len(s) - 1 |-> IF k < i THEN s[k] ELSE s[k + 1]]

(* One iteration.  A mutant, `SettleAndKeep`, forgets to erase the cell.   *)
SettleAndKeep(r) ==
  /\ wallsLeft # 0
  /\ settled' = Append(settled, walls[WallIndex(r)])
  /\ UNCHANGED walls
  /\ wallsLeft' = wallsLeft - 1
  /\ spacesLeft' = spacesLeft - 1

SettleWall(r) ==
  /\ wallsLeft # 0
  /\ settled' = Append(settled, walls[WallIndex(r)])
  /\ walls' = IF WallIndex(r) # spacesLeft THEN Erase(walls, WallIndex(r))
                                           ELSE walls
  /\ wallsLeft' = wallsLeft - 1
  /\ spacesLeft' = spacesLeft - 1

WallNext == \E r \in 0..RandMax : SettleWall(r)

WallSpec == WallInit /\ [][WallNext]_wallVars

----------------------------------------------------------------------------
(* No two walls are put into one cell, whatever rand() returns, although   *)
(* the cell taken last stays in the vector when it was the last one.       *)
WallsApart ==
  \A i, j \in 1..Len(settled) : settled[i] = settled[j] => i = j

(* The strengthening: the cells that are left are distinct and not taken.  *)
FreeCells ==
  /\ spacesLeft <= Len(walls) /\ wallsLeft <= spacesLeft
  /\ \A i, j \in 1..spacesLeft : walls[i] = walls[j] => i = j
  /\ \A i \in 1..spacesLeft, j \in 1..Len(settled) : walls[i] # settled[j]

=============================================================================
