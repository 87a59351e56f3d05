----------------------------- MODULE MCFxRates ------------------------------
(***************************************************************************)
(* The pivot DZD and two quotes: 203 minor units are halved into a tie,    *)
(* and DOWN may cut a unit off when they are converted into themselves.    *)
(***************************************************************************)
EXTENDS FxRates, TLC

CONSTANTS r1, r2, p1

Provider ==
    [q \in {"EUR", "XOF"} |->
        IF q = "EUR" THEN [t \in 1..2 |-> IF t = 1 THEN <<1, 2>> ELSE <<1, 4>>]
                     ELSE [t \in 1..2 |-> IF t = 1 THEN <<5, 2>> ELSE <<3, 1>>]]
AsSent == <<"EUR", "XOF">>
RefreshSymmetry == Permutations(Refreshers)
Config(e, r) == [exponent |-> e, rule |-> r]
Seed == [c \in Currencies |->
            IF c = "XOF" THEN Config(0, "HALF_UP")
            ELSE IF c = "EUR" THEN Config(2, "HALF_EVEN") ELSE Config(2, "DOWN")]
Settable == {Seed[c] : c \in Currencies} \cup {Config(1, "other")}
================================================================================
