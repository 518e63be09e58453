---------------------------- MODULE MCModelPull ----------------------------
(* Two pulls of two models.                                                *)
EXTENDS ModelPull, TLC

CONSTANTS p1, p2, llama, qwen

TwoModels == p1 :> llama @@ p2 :> qwen
=============================================================================
