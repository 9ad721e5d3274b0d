\* A player whose connection breaks.
CONSTANTS
  Handles = {h1, h2}
  NoFd = NoFd
  MaxConnections = 1
  Keys = {up}
  MaxInbox = 1
  DirectionKeys = {up}
  speed = 2
  FramePeriod = 2
  MaxReaders = 1
SPECIFICATION FairSpec
CHECK_DEADLOCK FALSE
PROPERTIES
  PlayerCanReconnect
