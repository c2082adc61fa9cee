------------------------------- MODULE MCRemote -------------------------------
(***************************************************************************)
(* Small instances of Remote.                                              *)
(***************************************************************************)
EXTENDS Remote
CONSTANTS a, b
=============================================================================
