-------------------------- MODULE MCInferenceRouter --------------------------
(***************************************************************************)
(* An instance of InferenceRouter for TLC: one request for the model, one  *)
(* for a backend that is not registered at first, one for the default.     *)
(***************************************************************************)
EXTENDS InferenceRouter, TLC

CONSTANTS q1, q2, q3

Mixed == q1 :> "llama.cpp" @@ q2 :> "vllm" @@ q3 :> None
=============================================================================
