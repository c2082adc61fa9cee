SPECIFICATION Spec
CONSTANTS
  server = server
  busClient = busClient
  sender = sender
  fade = fade
  fastFade = fastFade
  session = session
  i3lock = i3lock
  lock = lock
  xset60 = xset60
  xset300 = xset300
  Lock = lock
  Core = {server}
  Session <- MCSession
  Plain <- FailPlain
  Launcher <- FailLauncher
  PerSession <- FailPerSession
  Requires <- FailRequires
  Config <- FailConfig
  Reconfigurable = {}
  Misfit = {}
  MayFailStart = {}
  MayFailStop = {}
  ConfigMayRaise = TRUE
  MaxFailures = 1
  MaxFlips = 0
PROPERTY LockHolds
