---------------------------- MODULE VampiresGame ----------------------------
(***************************************************************************)
(* The rules of the game, each call one step: what movePlayer() and        *)
(* moveVampires() of vampires.cpp promise to their caller, with neither    *)
(* the field nor the loops.  Vampires is shown to implement it.            *)
(***************************************************************************)
EXTENDS VampiresField

VARIABLES
  at,         (* The cell of every item.                           *)
  result,     (* What the last call returned.                      *)
  turn,       (* The call that runs: "none", "player", "vampires". *)
  direction   (* The argument of movePlayer().                     *)

gameVars == <<at, result, turn, direction>>

ItemsAt(c) == {i \in Items : at[i] = c}

Occupied(c) == c \notin Inner \/ ItemsAt(c) # {}

Ahead(dir, n) == CellAhead(at[Player], dir, n)

(* The row of walls right ahead of the player, as far as it has no gap. *)
RowOfWalls(dir) ==
  {w \in Walls : \E n \in 1..wallCount :
     /\ at[w] = Ahead(dir, n)
     /\ \A k \in 1..n : ItemsAt(Ahead(dir, k)) \intersect Walls # {}}

GameInit ==
  /\ \E w \in Injection(Walls, WallSpaces) : at = Placement(w)
  /\ result = "ok"
  /\ turn = "none" /\ direction = 1

GameBegin ==
  /\ turn = "none" /\ result = "ok"
  /\ \/ turn' = "player" /\ direction' \in Directions
     \/ turn' = "vampires" /\ UNCHANGED direction
  /\ UNCHANGED <<at, result>>

GameReturn == turn' = "none" /\ direction' = 1

(* The player walks into a vampire; or the player and the row of walls     *)
(* ahead move by one cell; or, when the cell behind the row is taken,      *)
(* nobody moves.                                                           *)
GameMovePlayer ==
  LET row == RowOfWalls(direction)
      rowEnd == Ahead(direction, Cardinality(row) + 1)
  IN  /\ turn = "player" /\ GameReturn
      /\ IF ItemsAt(Ahead(direction, 1)) \intersect VampireItems # {}
         THEN result' = "lost" /\ at' = at
         ELSE /\ result' = "ok"
              /\ at' = IF Occupied(rowEnd) THEN at
                       ELSE [i \in Items |-> IF i \in row \union {Player}
                                             THEN Neighbor(at[i], direction)
                                             ELSE at[i]]

NextToPlayer(v) == \E dir \in Directions : Neighbor(at[v], dir) = at[Player]

Blocked(v) == \A dir \in Directions : Occupied(Neighbor(at[v], dir))

(* A cell that was free before the call and is free after it was free all  *)
(* through it: nobody moves twice.                                         *)
FreeThroughout(c) == c \in Inner /\ \A i \in Items : at[i] # c /\ at'[i] # c

(* Every vampire makes at most one step, to a free cell.  The call returns *)
(* "lost" when a vampire was next to the player, whatever the order they   *)
(* move in; "win" when nobody could move; otherwise a vampire that could   *)
(* move did, to the cell nearest to the player.                            *)
GameMoveVampires ==
  /\ turn = "vampires" /\ GameReturn
  /\ \A i \in Items \ VampireItems : at'[i] = at[i]
  /\ \A v \in VampireItems :
       at'[v] = at[v] \/ \E dir \in Directions : at'[v] = Neighbor(at[v], dir)
  /\ \A i \in Items : at'[i] \in Inner
  /\ \A i, j \in Items : at'[i] = at'[j] => i = j
  /\ result' = IF \E v \in VampireItems : NextToPlayer(v) THEN "lost"
               ELSE IF \A v \in VampireItems : Blocked(v) THEN "win"
               ELSE "ok"
  /\ (result' = "win") => (at' = at)
  /\ (result' = "ok") =>
       /\ at' # at
       /\ \A v \in VampireItems, dir \in Directions :
            FreeThroughout(Neighbor(at[v], dir)) =>
              /\ at'[v] # at[v]
              /\ SquaredDistance(at'[v], at[Player])
                   <= SquaredDistance(Neighbor(at[v], dir), at[Player])

GameRestart ==
  /\ turn = "none" /\ result # "ok"
  /\ \E w \in Injection(Walls, WallSpaces) : at' = Placement(w)
  /\ result' = "ok"
  /\ UNCHANGED <<turn, direction>>

GameNext == GameBegin \/ GameMovePlayer \/ GameMoveVampires \/ GameRestart

GameSpec == GameInit /\ [][GameNext]_gameVars

=============================================================================
