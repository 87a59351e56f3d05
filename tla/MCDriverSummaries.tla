--------------------------- MODULE MCDriverSummaries ---------------------------
(***************************************************************************)
(* One driver, two languages, two ticks, an administrator and a reader.    *)
(***************************************************************************)
EXTENDS DriverSummaries

CONSTANTS d1, t1, t2, a1, v1
================================================================================
