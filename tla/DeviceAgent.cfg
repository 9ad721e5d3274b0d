\* Two players, keys pressed twice, the socket reopened, the reader replaced, frames refused.
\* The process may end.
CONSTANTS
  Handles = {h1, h2}
  NoFd = NoFd
  MaxConnections = 2
  Keys = {up, other}
  MaxInbox = 2
  DirectionKeys = {up}
  speed = 2
  FramePeriod = 2
  MaxReaders = 2
SPECIFICATION FairSpec
CHECK_DEADLOCK FALSE
INVARIANTS
  OneSource
  NoKeyOutlivesItsConnection
PROPERTIES
  ServedUntilGone
  NextPlayerIsServed
