--------------------------- MODULE MotionMetadata ---------------------------
(***************************************************************************)
(* The stub plugin's motion_metadata/device_agent.cpp: the grid of motion  *)
(* that comes with a frame is covered with areas of a size of the settings,*)
(* and each area with motion becomes an object.                            *)
(*                                                                         *)
(* The areas of a packet are scanned one by one.  The calls of the Server  *)
(* do not overlap (i_device_agent.h), so that the settings, although they  *)
(* are atomics and are read anew for each area, stay during a packet.      *)
(***************************************************************************)
EXTENDS Integers, Sequences, FiniteSets

CONSTANTS
  CellCounts,   (* The numbers of motion cells of a packet, both ways.     *)
  AreaSizes,    (* The sizes of an area the settings model allows: the     *)
                (* code divides by them.                                   *)
  MaxAreaIds    (* Bound: the track ids ever created.                      *)

ASSUME MotionAssumption ==
  /\ CellCounts \subseteq (Nat \ {0}) \X (Nat \ {0})
  /\ AreaSizes \subseteq (Nat \ {0}) \X (Nat \ {0}) /\ AreaSizes # {}
  /\ MaxAreaIds \in Nat

VARIABLES
  areaSize,     (* objectWidthInMotionCells, objectHeightInMotionCells.    *)
  areaIds,      (* m_objectTrackIdForObjectCells.                          *)
  areaIdCount,  (* How many track ids there have been.                     *)
  motion,       (* The packet: its cell counts and the cells with motion.  *)
  grid,         (* objectColumnCount, objectRowCount.                      *)
  area,         (* The number of the next area; idle when past the grid.   *)
  areasShown,   (* The objects of the packet: the areas with their ids.    *)
  sizeStayed    (* History: the settings stayed since the packet came.     *)

motionVars ==
  <<areaSize, areaIds, areaIdCount, motion, grid, area, areasShown, sizeStayed>>

AreaCount == grid[1] * grid[2]
IsIdle == area = AreaCount

MotionTypeOK ==
  /\ areaSize \in AreaSizes
  /\ Len(areaIds) \in Nat /\ \A i \in DOMAIN areaIds : areaIds[i] \in 1..areaIdCount
  /\ areaIdCount \in 0..MaxAreaIds
  /\ area \in 0..AreaCount

MotionInit ==
  /\ areaSize \in AreaSizes
  /\ areaIds = <<>> /\ areaIdCount = 0
  /\ motion = [counts |-> <<1, 1>>, cells |-> {}]
  /\ grid = <<0, 0>> /\ area = 0 /\ areasShown = {} /\ sizeStayed = TRUE

(* settingsReceived()                                                      *)
MotionSettingsReceived(size) ==
  /\ IsIdle /\ size # areaSize
  /\ areaSize' = size
  /\ sizeStayed' = FALSE
  /\ UNCHANGED <<areaIds, areaIdCount, motion, grid, area, areasShown>>

----------------------------------------------------------------------------
(* processFrameMotion(). *)

AtLeastOne(n) == IF n < 1 THEN 1 ELSE n

(* A packet: the ids are created anew if the number of areas changes.      *)
PacketComes(counts, cells) ==
  LET columns == AtLeastOne(counts[1] \div areaSize[1])
      rows == AtLeastOne(counts[2] \div areaSize[2])
      isRenewed == Len(areaIds) # columns * rows
  IN /\ IsIdle
     /\ motion' = [counts |-> counts, cells |-> cells]
     /\ grid' = <<columns, rows>>
     /\ area' = 0 /\ areasShown' = {} /\ sizeStayed' = TRUE
     /\ IF isRenewed
          THEN /\ areaIdCount + columns * rows <= MaxAreaIds
               /\ areaIds' = [i \in 1..columns * rows |-> areaIdCount + i]
               /\ areaIdCount' = areaIdCount + columns * rows
          ELSE UNCHANGED <<areaIds, areaIdCount>>
     /\ UNCHANGED areaSize

LesserOf(a, b) == IF a < b THEN a ELSE b

(* hasMotionUnderObject(); columns and rows begin at 0.  A mutant,         *)
(* `HasMotionWithBorder`, takes the borders of the areas for theirs.       *)
HasMotionWithBorder(column, row) ==
  \E x \in column * areaSize[1] .. LesserOf((column + 1) * areaSize[1], motion.counts[1] - 1),
     y \in row * areaSize[2] .. LesserOf((row + 1) * areaSize[2], motion.counts[2] - 1) :
    <<x, y>> \in motion.cells

HasMotionUnderObject(column, row) ==
  \E x \in column * areaSize[1] .. LesserOf((column + 1) * areaSize[1], motion.counts[1]) - 1,
     y \in row * areaSize[2] .. LesserOf((row + 1) * areaSize[2], motion.counts[2]) - 1 :
    <<x, y>> \in motion.cells

(* The next area, down the columns.                                        *)
ScanArea ==
  LET column == area \div grid[2]
      row == area % grid[2]
  IN /\ ~IsIdle
     /\ areasShown' = areasShown \union
          IF HasMotionUnderObject(column, row)
            THEN {[at |-> <<column, row>>, id |-> areaIds[column * grid[2] + row + 1]]}
            ELSE {}
     /\ area' = area + 1
     /\ UNCHANGED <<areaSize, areaIds, areaIdCount, motion, grid, sizeStayed>>

MotionNext ==
  \/ \E size \in AreaSizes : MotionSettingsReceived(size)
  \/ \E counts \in CellCounts :
       \E cells \in SUBSET ((0..counts[1] - 1) \X (0..counts[2] - 1)) :
         PacketComes(counts, cells)
  \/ ScanArea

MotionSpec == MotionInit /\ [][MotionNext]_motionVars

----------------------------------------------------------------------------
(* The areas in which a cell with motion lies, by the cell's own place; a  *)
(* cell past the last whole area belongs to none, unless it is the only    *)
(* one.                                                                    *)
AreasWithMotion ==
  {<<c[1] \div areaSize[1], c[2] \div areaSize[2]>> : c \in motion.cells}
    \intersect ((0..grid[1] - 1) \X (0..grid[2] - 1))

(* When a packet is done, an object stands on each area with motion and    *)
(* nowhere else, however the grid is divided; and the objects of different *)
(* areas are different tracks, although the ids are renewed only when the  *)
(* number of areas changes, not when their shape does.                     *)
MotionIsShown ==
  /\ IsIdle /\ sizeStayed => {o.at : o \in areasShown} = AreasWithMotion
  /\ \A o, p \in areasShown : (o.at = p.at) <=> (o.id = p.id)

=============================================================================
