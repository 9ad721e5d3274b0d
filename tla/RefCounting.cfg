SPECIFICATION RefFairSpec
CONSTANTS
  a = a
  b = b
  x = x
  y = y
  local1 = local1
  local2 = local2
  local3 = local3
  Null = Null
  Threads <- MCThreads
  Objects <- MCObjects
  Locals <- MCLocals
  Home <- MCHome
INVARIANTS CounterIsOwners NoUseAfterDelete
PROPERTIES ImplementsOwnership UnownedIsDeleted
CHECK_DEADLOCK FALSE
