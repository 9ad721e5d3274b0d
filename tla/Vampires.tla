------------------------------ MODULE Vampires ------------------------------
(***************************************************************************)
(* The game itself: class Vampires of plugin/src/ms/vampires_nx_vms_plugin *)
(* (vampires.h, vampires.cpp).                                             *)
(*                                                                         *)
(* The class keeps every position twice: the cell of an item in m_field,   *)
(* and the coordinates inside the item (Item::m_x, Item::m_y).  The two    *)
(* are `field` and `at` here, and moveItem() is the only operation that    *)
(* writes both.  The loops of movePlayer() and moveVampires() are modelled *)
(* one iteration a step: `pc` says which loop runs, and nothing else can   *)
(* happen until it has returned, as in the code, where the DeviceAgent     *)
(* calls the game from one thread.                                         *)
(***************************************************************************)
EXTENDS VampiresField

VARIABLES
  field,                  (* m_field: what each cell holds.                *)
  at,                     (* Item::m_x, m_y: where each item says it is.   *)
  result,                 (* What the last call returned.                  *)
  pc,                     (* The loop that runs: "idle" between calls.     *)
  direction,              (* movePlayer(): the argument.                   *)
  emptyCell,              (* movePlayer(): emptyX, emptyY.                 *)
  pending,                (* moveVampires(): the rest of m_vampires.       *)
  hasSomeVampiresMoved    (* moveVampires(): the local.                    *)

callVars == <<direction, emptyCell, pending, hasSomeVampiresMoved>>

vars == <<field, at, result, pc, callVars>>

NewCell == Neighbor(at[Player], direction)

(* Between calls the locals have no value; fix one. *)
NoCall ==
  /\ pc' = "idle"
  /\ direction' = 1 /\ emptyCell' = PlayerCell
  /\ pending' = {} /\ hasSomeVampiresMoved' = FALSE

TypeOK ==
  /\ field \in [Cells -> Items \union {Border, Empty}]
  /\ at \in [Items -> Inner]
  /\ result \in {"ok", "lost", "win"}
  /\ pc \in {"idle", "scan", "push", "vampires"}
  /\ direction \in Directions
  /\ emptyCell \in Cells
  /\ pending \in SUBSET VampireItems
  /\ hasSomeVampiresMoved \in BOOLEAN

Init ==
  /\ \E w \in Injection(Walls, WallSpaces) : at = Placement(w)
  /\ field = FieldOf(at)
  /\ result = "ok"
  /\ pc = "idle"
  /\ direction = 1 /\ emptyCell = PlayerCell
  /\ pending = {} /\ hasSomeVampiresMoved = FALSE

(* The caller, DeviceAgent::performPlayerLost() and performPlayerWon(),    *)
(* replaces the game with a new one.                                       *)
NewGame ==
  /\ pc = "idle"
  /\ result \in {"lost", "win"}
  /\ \E w \in Injection(Walls, WallSpaces) : at' = Placement(w)
  /\ field' = FieldOf(at')
  /\ result' = "ok"
  /\ UNCHANGED <<pc, callVars>>

(* moveItem(): swap the two cells, then update the item.                   *)
(* `MoveItemKeepingCoordinates` is a mutant: the item is not told.         *)
MoveItemKeepingCoordinates(item, c) ==
  /\ field' = [field EXCEPT ![at[item]] = field[c], ![c] = field[at[item]]]
  /\ at' = at

MoveItem(item, c) ==
  /\ field' = [field EXCEPT ![at[item]] = field[c], ![c] = field[at[item]]]
  /\ at' = [at EXCEPT ![item] = c]

----------------------------------------------------------------------------
(* movePlayer(). *)

(* The loop that looks for the cell to be occupied has reached c.          *)
(* `ScanFromUnchecked` is a mutant: whatever ends the row is pushed into.  *)
ScanFromUnchecked(c) ==
  /\ emptyCell' = c
  /\ pc' = IF field[c] \notin Walls THEN "push" ELSE "scan"

ScanFrom(c) ==
  /\ emptyCell' = c
  /\ pc' = IF field[c] = Empty THEN "push" ELSE "scan"

BeginMovePlayer(dir) ==
  /\ pc = "idle" /\ result = "ok"
  /\ direction' = dir
  /\ ScanFrom(Neighbor(at[Player], dir))
  /\ UNCHANGED <<field, at, result, pending, hasSomeVampiresMoved>>

(* The player walks into a vampire. *)
MeetVampire ==
  /\ pc = "scan"
  /\ emptyCell = NewCell /\ field[NewCell] \in VampireItems
  /\ result' = "lost"
  /\ NoCall
  /\ UNCHANGED <<field, at>>

(* Skip a wall of the row. *)
ScanWall ==
  /\ pc = "scan"
  /\ field[emptyCell] \in Walls
  /\ ScanFrom(Neighbor(emptyCell, direction))
  /\ UNCHANGED <<field, at, result, direction, pending, hasSomeVampiresMoved>>

(* Unable to move: the cell after the walls, if any, is not empty. *)
PlayerIsBlocked ==
  /\ pc = "scan"
  /\ field[emptyCell] \notin Walls
  /\ ~(emptyCell = NewCell /\ field[NewCell] \in VampireItems)
  /\ NoCall
  /\ UNCHANGED <<field, at, result>>

(* Push the last wall of the row that is not pushed yet. *)
PushWall ==
  /\ pc = "push"
  /\ emptyCell # NewCell
  /\ MoveItem(field[Behind(emptyCell, direction)], emptyCell)
  /\ emptyCell' = Behind(emptyCell, direction)
  /\ UNCHANGED <<result, pc, direction, pending, hasSomeVampiresMoved>>

FinishMovePlayer ==
  /\ pc = "push"
  /\ emptyCell = NewCell
  /\ MoveItem(Player, NewCell)
  /\ NoCall
  /\ UNCHANGED result

MovePlayer ==
  \/ \E dir \in Directions : BeginMovePlayer(dir)
  \/ MeetVampire
  \/ ScanWall
  \/ PlayerIsBlocked
  \/ PushWall
  \/ FinishMovePlayer

----------------------------------------------------------------------------
(* moveVampires(). *)

BeginMoveVampires ==
  /\ pc = "idle" /\ result = "ok"
  /\ pc' = "vampires"
  /\ pending' = VampireItems
  /\ UNCHANGED <<field, at, result, direction, emptyCell, hasSomeVampiresMoved>>

(* The sort puts the farthest vampire first, in any order among equals     *)
(* (std::sort is not stable).  A pending vampire has not moved since the   *)
(* distances were calculated, nor has the player.                          *)
IsNext(v) ==
  /\ pc = "vampires"
  /\ v \in pending
  /\ \A u \in pending :
       SquaredDistance(at[u], at[Player]) <= SquaredDistance(at[v], at[Player])

(* `TouchesPlayerOrthogonally` is a mutant: it misses the diagonals.       *)
TouchesPlayerOrthogonally(v) ==
  \E dir \in {1, 3, 5, 7} : field[Neighbor(at[v], dir)] = Player

TouchesPlayer(v) == \E dir \in Directions : field[Neighbor(at[v], dir)] = Player

FreeDirections(v) == {dir \in Directions : field[Neighbor(at[v], dir)] = Empty}

(* The loop over the directions meets the player and returns at once. *)
CatchPlayer(v) ==
  /\ IsNext(v)
  /\ TouchesPlayer(v)
  /\ result' = "lost"
  /\ NoCall
  /\ UNCHANGED <<field, at>>

(* There is no move for this vampire: skip it. *)
SkipVampire(v) ==
  /\ IsNext(v)
  /\ ~TouchesPlayer(v)
  /\ FreeDirections(v) = {}
  /\ pending' = pending \ {v}
  /\ UNCHANGED <<field, at, result, pc, direction, emptyCell, hasSomeVampiresMoved>>

(* The first of the free directions that bring it closest to the player. *)
BestDirection(v, dir) ==
  /\ dir \in FreeDirections(v)
  /\ \A other \in FreeDirections(v) :
       LET dd == DistanceDelta(at[v], at[Player], dir)
           otherDd == DistanceDelta(at[v], at[Player], other)
       IN  dd < otherDd \/ (dd = otherDd /\ dir <= other)

(* `MoveVampireForgetfully` is a mutant: hasSomeVampiresMoved stays false. *)
MoveVampireForgetfully(v, dir) ==
  /\ IsNext(v)
  /\ ~TouchesPlayer(v)
  /\ BestDirection(v, dir)
  /\ MoveItem(v, Neighbor(at[v], dir))
  /\ pending' = pending \ {v}
  /\ UNCHANGED <<result, pc, direction, emptyCell, hasSomeVampiresMoved>>

MoveVampire(v, dir) ==
  /\ IsNext(v)
  /\ ~TouchesPlayer(v)
  /\ BestDirection(v, dir)
  /\ MoveItem(v, Neighbor(at[v], dir))
  /\ pending' = pending \ {v}
  /\ hasSomeVampiresMoved' = TRUE
  /\ UNCHANGED <<result, pc, direction, emptyCell>>

EndMoveVampires ==
  /\ pc = "vampires"
  /\ pending = {}
  /\ result' = IF hasSomeVampiresMoved THEN "ok" ELSE "win"
  /\ NoCall
  /\ UNCHANGED <<field, at>>

MoveVampires ==
  \/ BeginMoveVampires
  \/ \E v \in VampireItems :
       \/ CatchPlayer(v)
       \/ SkipVampire(v)
       \/ \E dir \in Directions : MoveVampire(v, dir)
  \/ EndMoveVampires

Next == MovePlayer \/ MoveVampires \/ NewGame

Spec == Init /\ [][Next]_vars

----------------------------------------------------------------------------
(* Properties. *)

(* The assertion of moveItem(), "Check the field consistency": the field   *)
(* and the coordinates kept in the items never disagree, in the middle of  *)
(* a push included, so no item is lost, doubled or drawn in a wrong cell.  *)
FieldConsistent ==
  /\ \A i \in Items : field[at[i]] = i
  /\ \A c \in Cells : field[c] \in Items => at[field[c]] = c

(* "The loop is safe because of the border": no push ever takes a cell of  *)
(* the border, so every loop over a row of walls meets it at the latest.   *)
BorderIntact == \A c \in Cells : field[c] = Border <=> c \notin Inner

(* The other assertion of moveItem(), "The field cell must be empty": the  *)
(* walls are pushed starting with the last one, so a pushed wall and then  *)
(* the player always enter a free cell.                                    *)
PushesIntoEmptyCell ==
  (pc = "push") =>
    /\ field[emptyCell] = Empty
    /\ (emptyCell # NewCell) => field[Behind(emptyCell, direction)] \in Walls

(* What the player is told is true of the field: the game is lost only     *)
(* when a vampire stands next to the player, and won only when no vampire  *)
(* can move and none can reach the player.                                 *)
HonestResult ==
  /\ (result = "lost") => \E v \in VampireItems : TouchesPlayer(v)
  /\ (result = "win") =>
       \A v \in VampireItems : ~TouchesPlayer(v) /\ FreeDirections(v) = {}

(* "Each vampire moves to come closer to the player": no free cell was     *)
(* closer to the player, in true distance, than the one a vampire took.    *)
MovedToNearestCell ==
  \A v \in VampireItems : at'[v] # at[v] /\ pc = "vampires" =>
    \A dir \in FreeDirections(v) :
      SquaredDistance(at'[v], at[Player])
        <= SquaredDistance(Neighbor(at[v], dir), at[Player])

StepsToNearestCell == [][MovedToNearestCell]_vars

(* The comment on the sort, "Sort Vampires by the distance to the player,  *)
(* the closest first": no vampire that still has to move is closer than    *)
(* the one that moves.                                                     *)
ClosestMovesFirst ==
  [][\A v \in pending : pc' = "vampires" /\ v \notin pending' =>
       \A u \in pending :
         SquaredDistance(at[v], at[Player]) <= SquaredDistance(at[u], at[Player])]_vars

=============================================================================
