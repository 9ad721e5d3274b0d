\* The Server replaces the reader while a player is connected.
CONSTANTS
  Handles = {h1, h2}
  NoFd = NoFd
  MaxConnections = 1
  Keys = {up}
  MaxInbox = 1
  DirectionKeys = {up}
  speed = 2
  FramePeriod = 2
  MaxReaders = 2
SPECIFICATION Spec
CHECK_DEADLOCK FALSE
INVARIANTS
  ConnectedPlayerControls
