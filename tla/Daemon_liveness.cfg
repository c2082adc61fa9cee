SPECIFICATION FairSpec
CONSTANTS
  w1 = w1
  w2 = w2
  ask1 = ask1
  ask2 = ask2
  halt = halt
  Ping = Ping
  Signal = Signal
  Query <- None
  WakeLock <- One
  Stopper <- MCStopper
  Backlog = 1
  MaxSignals = 1
  AttachMayFail = TRUE
  ShutdownMayFail = TRUE
  MayBeReplaced = TRUE
PROPERTIES StopEndsDaemon WaitsEnd WakeLocksEnd
\* The process exits.
CHECK_DEADLOCK FALSE
