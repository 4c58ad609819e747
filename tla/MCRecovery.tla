----------------------------- MODULE MCRecovery -----------------------------
(***************************************************************************)
(* Recovery with bounds from the configuration.  A connection is added to  *)
(* a descriptor or the backlog at most once per start and fault, so the    *)
(* descriptors never run out.                                              *)
(***************************************************************************)
EXTENDS Recovery
=============================================================================
