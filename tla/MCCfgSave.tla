------------------------------ MODULE MCCfgSave ------------------------------
(***************************************************************************)
(* Instances of module CfgSave for TLC.  Nothing is claimed after a clash  *)
(* or a torn file, so that the behaviours end there.                       *)
(***************************************************************************)
EXTENDS CfgSave

Claimed == ~clash /\ ~torn
=============================================================================
