SPECIFICATION FairSpec
CONSTANTS
  a = a
  b = b
  Client = {a, b}
  MaxConns = 3
  MaxBreaks = 1
  MaxStops = 1
INVARIANTS RegistryInv 
PROPERTY Rejoins
\* Connections are bounded.
CHECK_DEADLOCK FALSE
