\* Three walls can shut the vampire in a corner, and a row of walls can be pushed.
CONSTANTS
  width = 6
  height = 6
  vampireCount = 1
  Walls = {w1, w2, w3}
  Player = Player
  Border = Border
  Empty = Empty
SPECIFICATION HistorySpec
SYMMETRY WallSymmetry
INVARIANTS
  FieldConsistent
  PushesIntoEmptyCell
  HonestResult
