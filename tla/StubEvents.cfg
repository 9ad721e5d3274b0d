\* Generation is stopped and started, by settings and by lists of types, and the agent is destroyed.
CONSTANTS
  Threads = {t1}
  thread = t1
  Server = Server
  Nobody = Nobody
  Handlers = {h1, h2}
  NoHandler = NoHandler
  MaxPackets = 0
SPECIFICATION FairSpec
\* The agent is destroyed in the end.
CHECK_DEADLOCK FALSE
INVARIANTS
  KeysAreConsistent
PROPERTIES
  NeededEventsCome
