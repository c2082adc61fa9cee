SPECIFICATION Spec
CONSTANTS
  w1 = w1
  w2 = w2
  ask1 = ask1
  ask2 = ask2
  halt = halt
  Ping = Ping
  Signal = Signal
  Query <- OneQuery
  WakeLock <- Two
  Stopper <- None
  Backlog = 2
  MaxSignals = 1
  AttachMayFail = TRUE
  ShutdownMayFail = TRUE
  MayBeReplaced = TRUE
SYMMETRY WakeLocksAlike
INVARIANTS WakeLocksMatchHolders HoldersAreInterrupted
\* The process exits.
CHECK_DEADLOCK FALSE
