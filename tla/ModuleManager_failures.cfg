SPECIFICATION Spec
CONSTANTS
  server = server
  busClient = busClient
  sender = sender
  fade = fade
  fastFade = fastFade
  session = session
  i3lock = i3lock
  lock = lock
  xset60 = xset60
  xset300 = xset300
  Lock = lock
  Core = {server}
  Session <- MCSession
  Plain <- FailPlain
  Launcher <- FailLauncher
  PerSession <- FailPerSession
  Requires <- FailRequires
  Config <- FailConfig
  Reconfigurable = {}
  Misfit = {}
  MayFailStart <- FailMayFailStart
  MayFailStop <- FailMayFailStop
  ConfigMayRaise = FALSE
  MaxFailures = 2
  MaxFlips = 0
INVARIANTS TypeOK EffectsAreTracked NoReentrantStop
  CleanTaskSucceeds
PROPERTY LockHolds
