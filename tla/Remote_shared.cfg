SPECIFICATION FairSpec
CONSTANTS
  a = a
  b = b
  Node = {a, b}
  MaxInput = 1
  MaxMoves = 4
  MaxCalm = 5
INVARIANTS  IdleIsShared LocksAgree
 
\* Moves are bounded: after the last one, all may stay quiet.
CHECK_DEADLOCK FALSE
