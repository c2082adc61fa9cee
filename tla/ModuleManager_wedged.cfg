SPECIFICATION FairSpec
CONSTANTS
  server = server
  busClient = busClient
  sender = sender
  fade = fade
  fastFade = fastFade
  session = session
  i3lock = i3lock
  lock = lock
  xset60 = xset60
  xset300 = xset300
  Lock = lock
  Core = {server}
  Session <- MCSession
  Plain <- SmallPlain
  Launcher <- FailLauncher
  PerSession <- FailPerSession
  Requires <- SmallRequires
  Config <- SmallConfig
  Reconfigurable = {}
  Misfit <- FailMisfit
  MayFailStart <- FailPerSession
  MayFailStop <- FailPerSession
  ConfigMayRaise = TRUE
  MaxFailures = 1
  MaxFlips = 0
INVARIANTS UpToDateAndNested NoReentrantStop
PROPERTIES UpdatesEnd LeavesLive
