------------------------------ MODULE MCRefundDay ------------------------------
(***************************************************************************)
(* Two refund cards of one user, confirmed by two handlers around          *)
(* midnight: the daily counter, the anomaly flag, and the two rows of a    *)
(* refund.                                                                 *)
(***************************************************************************)
EXTENDS ConfirmCommit, TLC

CONSTANTS s1, s2, refund1, refund2, r1, r2, u1

MCOwner  == (s1 :> u1) @@ (s2 :> u1)
MCKindOf == (refund1 :> "refund_queue") @@ (refund2 :> "refund_queue")
Interchange == Permutations({r1, r2}) \cup Permutations({refund1, refund2})
                 \cup Permutations({s1, s2})
================================================================================
