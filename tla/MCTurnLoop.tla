------------------------------- MODULE MCTurnLoop ------------------------------
(***************************************************************************)
(* A turn of a passenger, with two amounts of money, three hops and up to *)
(* two tool calls in a completion.                                         *)
(***************************************************************************)
EXTENDS TurnLoop

CONSTANTS m1, m2
================================================================================
