\* Settings, handlers and frames come, and it is destroyed at any moment.
CONSTANTS
  Threads = {t1}
  thread = t1
  Server = Server
  Nobody = Nobody
  Handlers = {h1, h2}
  NoHandler = NoHandler
  MaxPackets = 0
  PackSize = 3
SPECIFICATION FairSpec
\* The thread and its owner end.
CHECK_DEADLOCK FALSE
INVARIANTS
  NoUseAfterDestruction
PROPERTIES
  StopIsPrompt
  SettingTakesEffect
