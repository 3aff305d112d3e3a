----------------------------- MODULE MCSpTsMuxer ----------------------------
(***************************************************************************)
(* Values for the model checker.                                           *)
(***************************************************************************)
EXTENDS SpTsMuxer

OneOfEach == [k \in Kinds |-> 1]
=============================================================================
