---------------------------------- MODULE MCSurge ----------------------------------
(***************************************************************************)
(* One hexagon, calm, busy or crowded, two administrators; a cap of 1.9    *)
(* between two steps of 0.2, in units of 0.1.                              *)
(***************************************************************************)
EXTENDS Surge

CONSTANTS h1, a1, a2

Forecasts == [{h1} -> {1, 2, 3}]
================================================================================
