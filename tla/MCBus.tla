-------------------------------- MODULE MCBus --------------------------------
(***************************************************************************)
(* Small instances of Bus.                                                 *)
(***************************************************************************)
EXTENDS Bus
CONSTANTS a, b
=============================================================================
