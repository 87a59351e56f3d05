---------------------------- MODULE MCPromptRegistry ---------------------------
(* Three administrators and up to four versions of one prompt.              *)
EXTENDS PromptRegistry, TLC

CONSTANTS a1, a2, a3

Interchange == Permutations({a1, a2, a3})
================================================================================
