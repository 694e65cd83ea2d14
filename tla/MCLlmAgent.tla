----------------------------- MODULE MCLlmAgent -----------------------------
(* Instances of LlmAgent for TLC. *)
EXTENDS LlmAgent, TLC

(* No input distinguishes the contexts. *)
Interchangeable == Permutations(Contexts)
=============================================================================
