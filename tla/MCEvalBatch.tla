----------------------------- MODULE MCEvalBatch ------------------------------
(* Two batches of two manifests with two arms. *)
EXTENDS EvalBatch
===============================================================================
