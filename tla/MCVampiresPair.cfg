\* Two vampires get in each other's way.
CONSTANTS
  width = 6
  height = 6
  vampireCount = 2
  Walls = {w1}
  Player = Player
  Border = Border
  Empty = Empty
SPECIFICATION HistorySpec
INVARIANTS
  TypeOK
  BorderIntact
PROPERTIES
  StepsToNearestCell
  ImplementsGame
