------------------------------ MODULE MCPushBuf -----------------------------
(***************************************************************************)
(* Values for the model checker.                                           *)
(***************************************************************************)
EXTENDS PushBuf, TLC

Symmetry == Permutations(Muxers)
=============================================================================
