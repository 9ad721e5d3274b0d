\* The order in which the vampires move.
CONSTANTS
  width = 6
  height = 6
  vampireCount = 2
  Walls = {w1}
  Player = Player
  Border = Border
  Empty = Empty
SPECIFICATION HistorySpec
PROPERTIES
  ClosestMovesFirst
