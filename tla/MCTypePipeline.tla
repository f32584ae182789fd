--------------------------- MODULE MCTypePipeline ---------------------------
(***************************************************************************)
(* TypePipeline for TLC.                                                   *)
(***************************************************************************)
EXTENDS TypePipeline

MCId == Request \X (1..PerRequest)

RequestSymmetry == Permutations(Request)

=============================================================================
