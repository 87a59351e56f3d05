----------------------------- MODULE MCConfirmRace -----------------------------
(***************************************************************************)
(* Two handlers race on the cards of one tool call id: a booking and a     *)
(* refund, in either order, with overwriting, expiry, faults and late      *)
(* backend answers.                                                        *)
(***************************************************************************)
EXTENDS ConfirmCommit, TLC

CONSTANTS s1, book, refund, r1, r2, u1

MCOwner  == s1 :> u1
MCKindOf == (book :> "core") @@ (refund :> "refund_queue")
HandlerSymmetry == Permutations({r1, r2})
================================================================================
