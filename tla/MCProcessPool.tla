---------------------------- MODULE MCProcessPool ----------------------------
(***************************************************************************)
(* Model-checking instances of ProcessPool.                                *)
(***************************************************************************)
EXTENDS ProcessPool, TLC

=============================================================================
