------------------------------ MODULE MCKnowledgeBase ------------------------------
(***************************************************************************)
(* Two versions, blank or of three pieces (one flushed, one split, the     *)
(* rest); two administrators, one search.                                  *)
(***************************************************************************)
EXTENDS KnowledgeBase, TLC

CONSTANTS d1, d2, a1, a2, r1

Texts ==
    {[paras |-> <<>>, ends |-> {}],
     [paras |-> <<<<0, 5>>, <<6, 17>>>>, ends |-> {2, 8, 12}]}

KbSymmetry == Permutations(Docs) \cup Permutations(Admins)
================================================================================
