------------------------------- MODULE MCChild -------------------------------
(***************************************************************************)
(* Small instances of Child.                                               *)
(***************************************************************************)
EXTENDS Child
=============================================================================
