\* The Server sends an empty list of types.
CONSTANTS
  Threads = {t1}
  thread = t1
  Server = Server
  Nobody = Nobody
  Handlers = {h1}
  NoHandler = NoHandler
  MaxPackets = 0
SPECIFICATION Spec
CHECK_DEADLOCK FALSE
PROPERTIES
  EmptyListStops
