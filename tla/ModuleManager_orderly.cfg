SPECIFICATION Spec
CONSTANTS
  server = server
  busClient = busClient
  sender = sender
  fade = fade
  fastFade = fastFade
  session = session
  i3lock = i3lock
  lock = lock
  xset60 = xset60
  xset300 = xset300
  Lock = lock
  Core = {server}
  Session <- MCSession
  Plain <- MCPlain
  Launcher <- MCLauncher
  PerSession <- MCPerSession
  Requires <- MCRequires
  Config <- MCConfig
  Reconfigurable <- MCReconfigurable
  Misfit = {}
  MayFailStart = {}
  MayFailStop = {}
  ConfigMayRaise = FALSE
  MaxFailures = 0
  MaxFlips = 1
INVARIANTS UpToDateAndNested LaunchersLaunch ListIsOrdered
PROPERTY LockHolds
