SPECIFICATION FairSpec
CONSTANTS
  x = x
  tty = tty
  wake = wake
  X11 = {x}
  TTY = {tty}
  WakeLock = {wake}
  Thresholds = {1, 2}
  Cases <- MCCases
  MayReattach = FALSE
  MaxLag = 1
  MaxEvents = 1
INVARIANTS IdleIsKnown TimerIsInTime
PROPERTY IdleIsNoticed
