---------------------------- MODULE MCCudaStage1 ----------------------------
(***************************************************************************)
(* Stage 1 with two tokens that nothing tells apart.                       *)
(***************************************************************************)
EXTENDS CudaStage1, TLC

TokenSymmetry == Permutations(Tokens)
=============================================================================
