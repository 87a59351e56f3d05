----------------------------- MODULE MCGatewayCall -----------------------------
(* Two handlers serve completions and embeddings of one user around       *)
(* midnight, with the three routes of AiTask.CHAT.                         *)
EXTENDS GatewayCall

CONSTANTS c1, c2
================================================================================
