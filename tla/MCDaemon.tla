------------------------------ MODULE MCDaemon ------------------------------
(***************************************************************************)
(* Small instances of Daemon.  Wake lock clients are interchangeable.      *)
(***************************************************************************)
EXTENDS Daemon, TLC

CONSTANTS w1, w2, ask1, ask2, halt

None == {}
One == {w1}
Two == {w1, w2}
OneQuery == {ask1}
TwoQueries == {ask1, ask2}
MCStopper == {halt}

WakeLocksAlike == Permutations(WakeLock)
=============================================================================
