---------------------------- MODULE MCReviewIngest -----------------------------
(***************************************************************************)
(* Two rides of one driver with two passengers; two equal texts about the  *)
(* driver are a bombing, one passenger is abused, the other gets neither   *)
(* words nor stars.                                                        *)
(***************************************************************************)
EXTENDS ReviewIngest

CONSTANTS r1, r2

Written == [k \in Keys |-> IF k[2] = "driver" THEN "late" ELSE IF k[1] = r1 THEN "abuse" ELSE ""]
Unmarked == {<<r2, "rider">>}
AboutDriver == [k \in Keys |-> IF k[2] = "driver" THEN "driver" ELSE k[1]]
================================================================================
