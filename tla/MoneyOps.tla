-------------------------------- MODULE MoneyOps --------------------------------
(***************************************************************************)
(* packages/ai-shared/src/money/money.ts: amounts are integers in minor    *)
(* units, factors and rates are fractions n/d with d > 0.  The doubles that *)
(* a conversion divides and multiplies may slip off the exact product.     *)
(***************************************************************************)
EXTENDS Integers

\* "other" is any string that is none of these: the configuration accepts it.
Rules == {"HALF_EVEN", "HALF_UP", "DOWN", "other"}
Magnitude(n) == IF n < 0 THEN -n ELSE n
Sign(n) == IF n < 0 THEN -1 ELSE IF n = 0 THEN 0 ELSE 1

\* Math.round(n/d) is the floor of n/d + 1/2.
MathRound(n, d) == (2 * n + d) \div (2 * d)

HalfEven(n, d) ==
    LET floor == n \div d
        rest == 2 * (n - d * floor)
    IN  IF rest < d \/ (rest = d /\ floor % 2 = 0) THEN floor ELSE floor + 1

HalfUp(n, d) == Sign(n) * MathRound(Magnitude(n), d)
Truncated(n, d) == Sign(n) * (Magnitude(n) \div d)

RoundMinor(n, d, rule) ==
    CASE rule = "DOWN" -> Truncated(n, d)
      [] rule = "HALF_UP" -> HalfUp(n, d)
      [] rule = "HALF_EVEN" -> HalfEven(n, d)
      [] rule = "other" -> MathRound(n, d)

\* What rounding may make of n/d when doubles computed it: exact, or off by less than any
\* distance that tells n/d from a whole or half unit, so that only these are decided
\* otherwise: 203 at 0.5 is 101.49999999999999, and 29 at 1 is 28.999999999999996.
Rounded(n, d, rule) == {RoundMinor(4 * n + slip, 4 * d, rule) : slip \in -1..1}

\* From minor units of one currency to those of another, at n/d major units each.
\* (Mutated: the exponents are swapped.)
ConvertSwapped(amount, n, d, from, to, rule) == Rounded(amount * n * 10^from, d * 10^to, rule)
Convert(amount, n, d, from, to, rule) == Rounded(amount * n * 10^to, d * 10^from, rule)

-----------------------------------------------------------------------------
(* What rounding is to achieve, stated without an algorithm.                *)

Nearest(r, n, d) == Magnitude(2 * (n - r * d)) <= d
Tie(r, n, d) == Magnitude(2 * (n - r * d)) = d
RoundsWell(r, n, d, rule) ==
    CASE rule = "DOWN" -> /\ Magnitude(r) * d <= Magnitude(n)
                          /\ Magnitude(n) < (Magnitude(r) + 1) * d
                          /\ r = 0 \/ Sign(r) = Sign(n)
      [] rule = "HALF_UP" -> /\ Nearest(r, n, d)
                             /\ Tie(r, n, d) => Magnitude(r) * d > Magnitude(n)
      [] rule = "HALF_EVEN" -> /\ Nearest(r, n, d)
                               /\ Tie(r, n, d) => r % 2 = 0
      [] rule = "other" -> /\ Nearest(r, n, d)
                           /\ Tie(r, n, d) => r * d > n

\* What is left of it after a slip: a half goes either way, and DOWN, which never gives
\* more than there is, may cost a whole unit.
RoundsClosely(r, n, d, rule) ==
    IF rule = "DOWN"
    THEN /\ Magnitude(r) * d <= Magnitude(n)
         /\ Magnitude(n) <= (Magnitude(r) + 1) * d
         /\ r = 0 \/ Sign(r) = Sign(n)
    ELSE Nearest(r, n, d)
KeepsAmount(r, amount, rule) ==
    r = amount \/ (rule = "DOWN" /\ Magnitude(r) = Magnitude(amount) - 1)

================================================================================
