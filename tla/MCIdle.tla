-------------------------------- MODULE MCIdle --------------------------------
(***************************************************************************)
(* Small instances of Idle: sessions of each kind, one or two thresholds.  *)
(***************************************************************************)
EXTENDS Idle
CONSTANTS x, tty, wake

MCCases == {<<{x}, {1, 2}, FALSE>>,
            <<{x, tty}, {1}, FALSE>>,
            <<{x}, {1}, TRUE>>,
            <<{tty, wake}, {1}, TRUE>>}
=============================================================================
