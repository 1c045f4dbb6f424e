-------------------------- MODULE MCDynamicRender --------------------------
(***************************************************************************)
(* An instance of DynamicRender for TLC.  Five rows in chunks of two give  *)
(* three chunks, the last one shorter.                                     *)
(***************************************************************************)
EXTENDS DynamicRender

AnyFault == FaultKinds
=============================================================================
