------------------------------ MODULE MCLogind ------------------------------
(***************************************************************************)
(* Logind has no parameter but switches and bounds, which the cfgs set.    *)
(***************************************************************************)
EXTENDS Logind
=============================================================================
