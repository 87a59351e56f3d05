------------------------------- MODULE MoneyProofs -------------------------------
(***************************************************************************)
(* Proofs about rounding, for all amounts and fractions, and about the two *)
(* components that round: exchange rates and conversions, for any          *)
(* currencies, rates and refreshers, and surge multipliers, for any        *)
(* hexagons, demand, administrators and parameters of the computation.     *)
(***************************************************************************)
EXTENDS FxRates, Surge, FiniteSetTheorems, WellFoundedInduction, TLAPS

-----------------------------------------------------------------------------
(* Rounding.                                                                *)

\* The quotient and the rest that Math.floor leaves.
LEMMA Division ==
  ASSUME NEW n \in Int, NEW d \in Int, d > 0
  PROVE  /\ n \div d \in Int
         /\ d * (n \div d) <= n
         /\ n < d * (n \div d) + d
  OBVIOUS

\* Math.round() is nearest, and a half goes up (money.ts:79).
LEMMA RoundIsNearest ==
  ASSUME NEW n \in Int, NEW d \in Int, d > 0
  PROVE  /\ MathRound(n, d) \in Int
         /\ 2 * (d * MathRound(n, d)) <= 2 * n + d
         /\ 2 * n + d < 2 * (d * MathRound(n, d)) + 2 * d
<1>1. 2 * n + d \in Int /\ 2 * d \in Int /\ 2 * d > 0
  OBVIOUS
<1>2. /\ MathRound(n, d) \in Int
      /\ (2 * d) * MathRound(n, d) <= 2 * n + d
      /\ 2 * n + d < (2 * d) * MathRound(n, d) + 2 * d
  BY <1>1, Division DEF MathRound
<1>3. (2 * d) * MathRound(n, d) = 2 * (d * MathRound(n, d))
  BY <1>2
<1> QED BY <1>2, <1>3

\* HALF_UP rounds to the nearest and a half away from zero (money.ts:78-79).
LEMMA HalfUpRoundsWell ==
  ASSUME NEW n \in Int, NEW d \in Int, d > 0
  PROVE  HalfUp(n, d) \in Int /\ RoundsWell(HalfUp(n, d), n, d, "HALF_UP")
<1> DEFINE m == Magnitude(n)
           k == MathRound(m, d)
           p == d * k
<1>1. m \in Int /\ m >= 0 /\ (n = m \/ n = -m)
  BY DEF Magnitude
<1>2. k \in Int /\ p \in Int /\ 2 * p <= 2 * m + d /\ 2 * m + d < 2 * p + 2 * d
  <2> HIDE DEF m
  <2>1. /\ MathRound(m, d) \in Int
        /\ 2 * (d * MathRound(m, d)) <= 2 * m + d
        /\ 2 * m + d < 2 * (d * MathRound(m, d)) + 2 * d
    BY <1>1, RoundIsNearest
  <2>2. d * MathRound(m, d) \in Int
    BY <2>1
  <2> QED BY <2>1, <2>2
<1>3. k >= 0
  <2> SUFFICES ASSUME k <= -1 PROVE FALSE
    BY <1>2
  <2>1. d * k <= -d
    BY <1>2
  <2> QED BY <1>1, <1>2, <2>1
<1>4. CASE n = 0
  <2>1. m = 0 /\ HalfUp(n, d) = 0
    BY <1>2, <1>4 DEF HalfUp, Sign, Magnitude
  <2> QED BY <1>4, <2>1 DEF RoundsWell, Nearest, Tie, Magnitude
<1>5. CASE n > 0
  <2>1. HalfUp(n, d) = k /\ m = n
    BY <1>2, <1>5 DEF HalfUp, Sign, Magnitude
  <2>2. k * d = p
    BY <1>2
  <2>3. Nearest(k, n, d)
    BY <1>1, <1>2, <2>1, <2>2 DEF Nearest, Magnitude
  <2>4. Tie(k, n, d) => Magnitude(k) * d > Magnitude(n)
    BY <1>1, <1>2, <1>3, <2>1, <2>2 DEF Tie, Magnitude
  <2> QED BY <1>2, <2>1, <2>3, <2>4 DEF RoundsWell
<1>6. CASE n < 0
  <2>1. HalfUp(n, d) = -k /\ m = -n
    BY <1>2, <1>6 DEF HalfUp, Sign, Magnitude
  <2>2. k * d = p /\ (-k) * d = -p
    BY <1>2
  <2>3. Nearest(-k, n, d)
    BY <1>1, <1>2, <2>1, <2>2 DEF Nearest, Magnitude
  <2>4. Magnitude(-k) = k
    BY <1>2, <1>3 DEF Magnitude
  <2>5. Tie(-k, n, d) => Magnitude(-k) * d > Magnitude(n)
    BY <1>1, <1>2, <2>1, <2>2, <2>4 DEF Tie, Magnitude
  <2> QED BY <1>2, <2>1, <2>3, <2>5 DEF RoundsWell
<1> QED BY <1>4, <1>5, <1>6

\* HALF_EVEN rounds to the nearest and a half to the even neighbour (money.ts:80-86).
LEMMA HalfEvenRoundsWell ==
  ASSUME NEW n \in Int, NEW d \in Int, d > 0
  PROVE  HalfEven(n, d) \in Int /\ RoundsWell(HalfEven(n, d), n, d, "HALF_EVEN")
<1> DEFINE f == n \div d
           p == d * f
           rest == 2 * (n - p)
<1>1. f \in Int /\ p \in Int /\ p <= n /\ n < p + d
  BY Division
<1>2. f * d = p /\ (f + 1) * d = p + d
  BY <1>1
<1> HIDE DEF p
<1>3. CASE rest < d \/ (rest = d /\ f % 2 = 0)
  <2>1. HalfEven(n, d) = f
    BY <1>3 DEF HalfEven, p
  <2>2. Nearest(f, n, d)
    BY <1>1, <1>2, <1>3 DEF Nearest, Magnitude
  <2>3. Tie(f, n, d) => f % 2 = 0
    BY <1>1, <1>2, <1>3 DEF Tie, Magnitude
  <2> QED BY <1>1, <2>1, <2>2, <2>3 DEF RoundsWell
<1>4. CASE ~ (rest < d \/ (rest = d /\ f % 2 = 0))
  <2>1. HalfEven(n, d) = f + 1
    BY <1>4 DEF HalfEven, p
  <2>2. Nearest(f + 1, n, d)
    BY <1>1, <1>2, <1>4 DEF Nearest, Magnitude
  <2>3. Tie(f + 1, n, d) => rest = d
    BY <1>1, <1>2, <1>4 DEF Tie, Magnitude
  <2>4. f % 2 # 0 => (f + 1) % 2 = 0
    BY <1>1
  <2> QED BY <1>1, <1>4, <2>1, <2>2, <2>3, <2>4 DEF RoundsWell
<1> QED BY <1>3, <1>4

\* DOWN cuts towards zero (money.ts:76-77).
LEMMA TruncatedRoundsWell ==
  ASSUME NEW n \in Int, NEW d \in Int, d > 0
  PROVE  Truncated(n, d) \in Int /\ RoundsWell(Truncated(n, d), n, d, "DOWN")
<1> DEFINE m == Magnitude(n)
           k == m \div d
           p == d * k
<1>1. m \in Int /\ m >= 0
  BY DEF Magnitude
<1>2. k \in Int /\ p \in Int /\ p <= m /\ m < p + d
  BY <1>1, Division
<1>3. k >= 0
  <2> SUFFICES ASSUME k <= -1 PROVE FALSE
    BY <1>2
  <2>1. d * k <= -d
    BY <1>2
  <2> QED BY <1>1, <1>2, <2>1
<1>4. Truncated(n, d) = Sign(n) * k
  BY DEF Truncated
<1>5. k * d = p /\ (k + 1) * d = p + d
  BY <1>2
<1> DEFINE r == Truncated(n, d)
<1>6. r \in Int /\ Magnitude(r) = k /\ (r = 0 \/ Sign(r) = Sign(n))
  <2> HIDE DEF k
  <2>1. CASE n = 0
    <3>1. m = 0 /\ d * k <= 0
      BY <1>2, <2>1 DEF Magnitude
    <3>2. k = 0
      BY <1>2, <1>3, <3>1
    <3> QED BY <1>4, <2>1, <3>2 DEF Sign, Magnitude
  <2>2. CASE n > 0
    BY <1>2, <1>3, <1>4, <2>2 DEF Sign, Magnitude
  <2>3. CASE n < 0
    BY <1>2, <1>3, <1>4, <2>3 DEF Sign, Magnitude
  <2> QED BY <2>1, <2>2, <2>3
<1> QED BY <1>1, <1>2, <1>5, <1>6 DEF RoundsWell

\* The default branch rounds to the nearest, and a half up (money.ts:87-88).
LEMMA MathRoundRoundsWell ==
  ASSUME NEW n \in Int, NEW d \in Int, d > 0
  PROVE  MathRound(n, d) \in Int /\ RoundsWell(MathRound(n, d), n, d, "other")
<1> DEFINE k == MathRound(n, d)
           p == d * k
<1>1. k \in Int /\ p \in Int /\ 2 * p <= 2 * n + d /\ 2 * n + d < 2 * p + 2 * d
  <2>1. /\ MathRound(n, d) \in Int
        /\ 2 * (d * MathRound(n, d)) <= 2 * n + d
        /\ 2 * n + d < 2 * (d * MathRound(n, d)) + 2 * d
    BY RoundIsNearest
  <2>2. d * MathRound(n, d) \in Int
    BY <2>1
  <2> QED BY <2>1, <2>2
<1> HIDE DEF k
<1>2. k * d = p
  BY <1>1
<1>3. Nearest(k, n, d)
  BY <1>1, <1>2 DEF Nearest, Magnitude
<1>4. Tie(k, n, d) => k * d > n
  BY <1>1, <1>2 DEF Tie, Magnitude
<1> QED BY <1>1, <1>3, <1>4 DEF RoundsWell, k

\* However a value falls between two minor units, roundMinor() rounds it as its rule
\* says, for amounts of either sign (money.ts:74-90).
THEOREM RoundingIsRight ==
  ASSUME NEW n \in Int, NEW d \in Int, d > 0, NEW rule \in Rules
  PROVE  RoundsWell(RoundMinor(n, d, rule), n, d, rule)
BY HalfUpRoundsWell, HalfEvenRoundsWell, TruncatedRoundsWell, MathRoundRoundsWell
   DEF RoundMinor, Rules

-----------------------------------------------------------------------------
(* The cache and the store.                                                 *)

Store == <<time, cache, stored, refresh, overlapped>>

LEMMA OrderFacts ==
  /\ Cardinality(Quotes) \in Nat
  /\ DOMAIN Order = 1..Cardinality(Quotes)
  /\ \A i \in DOMAIN Order : Order[i] \in Quotes
  /\ \A q \in Quotes : \E i \in DOMAIN Order : Order[i] = q
  /\ MaxTime \in Nat \ {0}
BY FxAssumption, FS_CardinalityType

LEMMA TimeBound == MaxTime \in Nat \ {0} /\ 0 \in 0..MaxTime /\ 0 \in Int
BY OrderFacts

LEMMA InitFx == Init => FxInv
<1> SUFFICES ASSUME Init PROVE FxInv
  OBVIOUS
<1>0. /\ time = 1 /\ cache = [q \in Quotes |-> 0] /\ stored = [q \in Quotes |-> {}]
      /\ step = [r \in Refreshers |-> "idle"] /\ snap = [r \in Refreshers |-> 0]
      /\ next = [r \in Refreshers |-> 1]
  BY DEF Init
<1>1. StoreTypeOK
  BY <1>0, OrderFacts DEF StoreTypeOK, Times
<1>2. TimeInv
  <2>1. \A q \in Quotes : cache[q] = 0 /\ stored[q] = {}
    BY <1>0
  <2>2. \A r \in Refreshers : snap[r] = 0
    BY <1>0
  <2> QED BY <1>0, <2>1, <2>2 DEF TimeInv
<1>3. RefreshInv
  BY <1>0 DEF RefreshInv
<1>4. CacheNotBehind /\ SnapInv
  BY <1>0 DEF CacheNotBehind, SnapInv
<1> QED BY <1>1, <1>2, <1>3, <1>4 DEF FxInv

\* Steps that leave Redis, MongoDB's rates and the refreshes alone.
LEMMA StoreUnchanged ==
  ASSUME FxInv, UNCHANGED Store PROVE FxInv'
BY DEF FxInv, Store, refresh, StoreTypeOK, TimeInv, SnapInv, RefreshInv, CacheNotBehind

LEMMA PublishFx == ASSUME FxInv, Publish PROVE FxInv'
<1>1. /\ time \in Times /\ time' = time + 1 /\ time' \in Times
      /\ UNCHANGED <<cache, stored, step, snap, next, overlapped>>
  BY OrderFacts DEF FxInv, StoreTypeOK, Publish, Times, refresh
<1>2. StoreTypeOK'
  BY <1>1 DEF FxInv, StoreTypeOK
<1>3. TimeInv'
  BY <1>1, OrderFacts DEF FxInv, StoreTypeOK, TimeInv, Times
<1>4. RefreshInv' /\ CacheNotBehind' /\ SnapInv'
  BY <1>1 DEF FxInv, RefreshInv, CacheNotBehind, SnapInv
<1> QED BY <1>2, <1>3, <1>4 DEF FxInv

LEMMA ExpireFx == ASSUME FxInv, NEW q \in Quotes, Expire(q) PROVE FxInv'
<1>1. /\ cache' = [cache EXCEPT ![q] = 0] /\ cache \in [Quotes -> 0..MaxTime]
      /\ UNCHANGED <<time, stored, step, snap, next, overlapped>>
  BY DEF FxInv, StoreTypeOK, Expire, refresh
<1>2. StoreTypeOK'
  BY <1>1, OrderFacts DEF FxInv, StoreTypeOK
<1>3. TimeInv'
  BY <1>1, OrderFacts DEF FxInv, StoreTypeOK, TimeInv, Times
<1>4. RefreshInv'
  BY <1>1, OrderFacts DEF FxInv, RefreshInv
<1>5. CacheNotBehind' /\ SnapInv'
  BY <1>1 DEF FxInv, CacheNotBehind, SnapInv
<1> QED BY <1>2, <1>3, <1>4, <1>5 DEF FxInv

LEMMA StartFx == ASSUME FxInv, NEW r \in Refreshers, StartRefresh(r) PROVE FxInv'
<1>1. /\ step[r] = "idle" /\ step' = [step EXCEPT ![r] = "fetch"]
      /\ step \in [Refreshers -> {"idle", "fetch", "cache"}]
      /\ UNCHANGED <<time, cache, stored, snap, next>>
  BY DEF FxInv, StoreTypeOK, StartRefresh
<1>2. ~ overlapped' => ~ overlapped /\ \A o \in Refreshers : step[o] = "idle"
  BY DEF StartRefresh
<1>3. StoreTypeOK' /\ TimeInv'
  BY <1>1 DEF FxInv, StoreTypeOK, TimeInv
<1>4. RefreshInv'
  BY <1>1, <1>2 DEF RefreshInv
<1>5. CacheNotBehind' /\ SnapInv'
  BY <1>1, <1>2 DEF FxInv, CacheNotBehind, SnapInv
<1> QED BY <1>3, <1>4, <1>5 DEF FxInv

\* What is fetched is the newest there is.
LEMMA FetchFx == ASSUME FxInv, NEW r \in Refreshers, Fetch(r) PROVE FxInv'
<1>1. /\ step[r] = "fetch" /\ step' = [step EXCEPT ![r] = "cache"]
      /\ snap' = [snap EXCEPT ![r] = time] /\ next' = [next EXCEPT ![r] = 1]
      /\ step \in [Refreshers -> {"idle", "fetch", "cache"}]
      /\ snap \in [Refreshers -> 0..MaxTime] /\ time \in Times
      /\ next \in [Refreshers -> 1..(Cardinality(Quotes) + 1)]
      /\ UNCHANGED <<time, cache, stored, overlapped>>
  BY DEF FxInv, StoreTypeOK, Fetch
<1>2. StoreTypeOK'
  BY <1>1, OrderFacts DEF FxInv, StoreTypeOK, Times
<1>3. TimeInv'
  BY <1>1, OrderFacts DEF FxInv, TimeInv, Times
<1>4. RefreshInv'
  BY <1>1, OrderFacts DEF FxInv, TimeInv, RefreshInv
<1>5. CacheNotBehind' /\ SnapInv'
  BY <1>1 DEF FxInv, CacheNotBehind, SnapInv
<1> QED BY <1>2, <1>3, <1>4, <1>5 DEF FxInv

LEMMA CacheOneFx == ASSUME FxInv, NEW r \in Refreshers, CacheOne(r) PROVE FxInv'
<1> DEFINE q == Order[next[r]]
<1>1. /\ step[r] = "cache" /\ next[r] \in DOMAIN Order
      /\ cache' = [cache EXCEPT ![q] = snap[r]] /\ next' = [next EXCEPT ![r] = next[r] + 1]
      /\ cache \in [Quotes -> 0..MaxTime] /\ snap \in [Refreshers -> 0..MaxTime]
      /\ next \in [Refreshers -> 1..(Cardinality(Quotes) + 1)]
      /\ UNCHANGED <<time, stored, step, snap, overlapped>>
  BY DEF FxInv, StoreTypeOK, CacheOne
<1>2. q \in Quotes /\ next[r] + 1 \in 1..(Cardinality(Quotes) + 1)
  BY <1>1, OrderFacts
<1>3. StoreTypeOK'
  BY <1>1, <1>2 DEF FxInv, StoreTypeOK
<1>4. TimeInv' /\ SnapInv'
  BY <1>1, <1>2 DEF FxInv, TimeInv, SnapInv
<1>5. RefreshInv'
  <2> SUFFICES ASSUME ~ overlapped', NEW s \in Refreshers
               PROVE  /\ step'[s] # "idle" => \A o \in Refreshers \ {s} : step'[o] = "idle"
                      /\ step'[s] = "cache" =>
                           /\ \A u \in Quotes : \A t \in stored'[u] : t <= snap'[s]
                           /\ \A i \in DOMAIN Order : i < next'[s] => cache'[Order[i]] \in {0, snap'[s]}
    BY DEF RefreshInv
  <2>1. s # r => step[s] = "idle"
    BY <1>1 DEF FxInv, RefreshInv
  <2>2. CASE s = r
    <3>1. \A i \in DOMAIN Order : i < next[r] + 1 => i < next[r] \/ i = next[r]
      BY <1>1, OrderFacts
    <3>2. \A i \in DOMAIN Order : i < next[r] => cache[Order[i]] \in {0, snap[r]}
      BY <1>1 DEF FxInv, RefreshInv
    <3>3. \A i \in DOMAIN Order : cache'[Order[i]] = IF Order[i] = q THEN snap[r] ELSE cache[Order[i]]
      BY <1>1, OrderFacts
    <3>4. \A i \in DOMAIN Order : i < next'[r] => cache'[Order[i]] \in {0, snap'[r]}
      BY <1>1, <3>1, <3>2, <3>3
    <3> QED BY <1>1, <2>2, <3>4 DEF FxInv, RefreshInv
  <2> QED BY <1>1, <2>1, <2>2
<1>6. CacheNotBehind'
  BY <1>1, <1>2 DEF FxInv, RefreshInv, CacheNotBehind
<1> QED BY <1>3, <1>4, <1>5, <1>6 DEF FxInv

\* The end of a refresh, with the rates of the quotes in S stored.
LEMMA EndFx ==
  ASSUME FxInv, NEW r \in Refreshers, NEW S \in SUBSET Quotes, EndRefresh(r),
         step[r] # "idle", S # {} => AllCached(r),
         stored' = [q \in Quotes |-> IF q \in S THEN stored[q] \cup {snap[r]} ELSE stored[q]],
         UNCHANGED <<time, cache, overlapped>>,
         S # {} => snap[r] \in Times
  PROVE  FxInv'
<1>1. /\ step' = [step EXCEPT ![r] = "idle"] /\ snap' = [snap EXCEPT ![r] = 0]
      /\ next' = [next EXCEPT ![r] = 1]
      /\ step \in [Refreshers -> {"idle", "fetch", "cache"}]
      /\ next \in [Refreshers -> 1..(Cardinality(Quotes) + 1)]
      /\ snap \in [Refreshers -> 0..MaxTime] /\ time \in Times
      /\ stored \in [Quotes -> SUBSET Times]
  BY DEF FxInv, StoreTypeOK, EndRefresh
<1>2. \A q \in Quotes : \A t \in stored'[q] : t \in stored[q] \/ (S # {} /\ t = snap[r])
  OBVIOUS
<1>3. StoreTypeOK'
  BY <1>1, OrderFacts DEF FxInv, StoreTypeOK
<1>4. TimeInv'
  BY <1>1, <1>2, OrderFacts DEF FxInv, TimeInv, Times
<1>5. RefreshInv' /\ SnapInv'
  BY <1>1 DEF FxInv, RefreshInv, SnapInv
<1>6. CacheNotBehind'
  <2> SUFFICES ASSUME ~ overlapped', NEW q \in Quotes, cache'[q] # 0, NEW t \in stored'[q]
               PROVE  t <= cache'[q]
    BY DEF CacheNotBehind
  <2>1. CASE t \in stored[q]
    BY <2>1 DEF FxInv, CacheNotBehind
  <2>2. CASE S # {} /\ t = snap[r]
    <3>1. step[r] = "cache" /\ \A i \in DOMAIN Order : i < next[r]
      BY <1>1, <2>2, OrderFacts DEF AllCached
    <3>2. PICK i \in DOMAIN Order : Order[i] = q
      BY OrderFacts
    <3>3. cache[q] \in {0, snap[r]}
      BY <3>1, <3>2 DEF FxInv, RefreshInv
    <3> QED BY <1>1, <2>2, <3>3
  <2> QED BY <1>2, <2>1, <2>2
<1> QED BY <1>3, <1>4, <1>5, <1>6 DEF FxInv

LEMMA StepFx == FxInv /\ [Next]_vars => FxInv'
<1> SUFFICES ASSUME FxInv, [Next]_vars PROVE FxInv'
  OBVIOUS
<1>1. CASE Publish
  BY <1>1, PublishFx
<1>2. CASE \E q \in Quotes : Expire(q)
  BY <1>2, ExpireFx
<1>3. CASE \E c \in Currencies : Upsert(c)
  BY <1>3, StoreUnchanged DEF Upsert, Store
<1>4. ASSUME NEW r \in Refreshers, StartRefresh(r) \/ Fetch(r) \/ CacheOne(r) PROVE FxInv'
  BY <1>4, StartFx, FetchFx, CacheOneFx
<1>5. ASSUME NEW r \in Refreshers, InsertAll(r) PROVE FxInv'
  <2>1. AllCached(r) /\ step[r] # "idle" /\ snap[r] \in Times
    BY <1>5 DEF InsertAll, AllCached, FxInv, SnapInv
  <2>2. stored' = [q \in Quotes |-> IF q \in Quotes THEN stored[q] \cup {snap[r]} ELSE stored[q]]
    BY <1>5 DEF InsertAll
  <2> QED BY <1>5, <2>1, <2>2, EndFx DEF InsertAll
<1>6. ASSUME NEW r \in Refreshers, RefreshFails(r) PROVE FxInv'
  <2>1. PICK S \in SUBSET Quotes :
          /\ S # {} => AllCached(r)
          /\ stored' = [q \in Quotes |-> IF q \in S THEN stored[q] \cup {snap[r]} ELSE stored[q]]
    BY <1>6 DEF RefreshFails
  <2>2. S # {} => snap[r] \in Times
    BY <2>1 DEF AllCached, FxInv, SnapInv
  <2> QED BY <1>6, <2>1, <2>2, EndFx DEF RefreshFails
<1>7. ASSUME NEW p \in Requests, Ask(p) \/ Serve(p) PROVE FxInv'
  <2>1. UNCHANGED Store
    BY <1>7 DEF Store, Ask, Serve, ReadFrom, ReadTo, ReadCache, ReadStore, ReadLeg, ReadCross
  <2> QED BY <2>1, StoreUnchanged
<1>8. CASE UNCHANGED vars
  BY <1>8, StoreUnchanged DEF vars, Store
<1> QED BY <1>1, <1>2, <1>3, <1>4, <1>5, <1>6, <1>7, <1>8 DEF Next, Refresh

\* The invariant of the refreshes, for any currencies, refreshers and faults: rates
\* cached one by one and stored together keep step (fx.service.ts:32-66).
THEOREM RefreshesKeepStep == Spec => []FxInv
BY InitFx, StepFx, PTL DEF Spec

\* The cache is never behind the store unless two refreshes overlapped
\* (fx.service.ts:41-63).
THEOREM CacheIsNotBehind == Spec => []CacheNotBehind
<1>1. FxInv => CacheNotBehind
  BY DEF FxInv
<1> QED BY <1>1, RefreshesKeepStep, PTL

-----------------------------------------------------------------------------
(* Conversions: the latest of a finite set of times, and the arithmetic.    *)

LEMMA LeastElement ==
  ASSUME NEW T \in SUBSET Nat, T # {}
  PROVE  \E x \in T : \A y \in T : x <= y
<1> DEFINE R == OpToRel(<, Nat)
<1>1. IsWellFoundedOn(R, Nat)
  BY NatLessThanWellFounded
<1>2. \A x, y \in Nat : <<x, y>> \in R <=> x < y
  BY DEF OpToRel
<1> HIDE DEF R
<1>3. PICK x \in T : \A y \in T : ~ (<<y, x>> \in R)
  BY <1>1, WFMin
<1>4. \A y \in T : ~ (y < x)
  BY <1>2, <1>3
<1>5. \A y \in T : x <= y
  BY <1>4
<1> QED BY <1>5

\* The greatest time is the one with the least distance to MaxTime.
LEMMA GreatestTime ==
  ASSUME NEW S \in SUBSET Times, S # {}
  PROVE  \E t \in S : \A u \in S : u <= t
<1> DEFINE T == {n \in Nat : \E t \in S : n = MaxTime - t}
<1>1. \A t \in S : t \in Int /\ MaxTime - t \in T
  BY OrderFacts DEF Times
<1>2. T \in SUBSET Nat /\ T # {}
  BY <1>1
<1>3. PICK n \in T : \A m \in T : n <= m
  <2> HIDE DEF T
  <2> QED BY <1>2, LeastElement
<1>4. PICK t \in S : n = MaxTime - t
  BY <1>3
<1>5. \A u \in S : MaxTime - t <= MaxTime - u
  BY <1>1, <1>3, <1>4
<1>6. \A u \in S : u <= t
  BY <1>1, <1>5, OrderFacts
<1> QED BY <1>4, <1>6

\* findOne().sort({ rateTimestamp: -1 }) answers the newest snapshot (fx.service.ts:89-92).
NewestOf(S) == IF S = {} THEN 0 ELSE CHOOSE t \in S : \A u \in S : u <= t

LEMMA NewestOfFacts ==
  ASSUME NEW S \in SUBSET Times
  PROVE  /\ NewestOf(S) \in 0..MaxTime
         /\ S # {} => NewestOf(S) \in S /\ NewestOf(S) \in Times
         /\ \A t \in S : t <= NewestOf(S)
         /\ NewestOf(S) = 0 <=> S = {}
<1>1. CASE S = {}
  BY <1>1, OrderFacts DEF NewestOf
<1>2. CASE S # {}
  <2>1. \E t \in S : \A u \in S : u <= t
    BY <1>2, GreatestTime
  <2>2. NewestOf(S) \in S /\ \A u \in S : u <= NewestOf(S)
    BY <1>2, <2>1 DEF NewestOf
  <2>3. NewestOf(S) \in 1..MaxTime
    BY <2>2 DEF Times
  <2> QED BY <1>2, <2>2, <2>3, OrderFacts DEF Times
<1> QED BY <1>1, <1>2

LEMMA LatestFacts ==
  ASSUME StoreTypeOK, NEW q \in Quotes
  PROVE  /\ Latest(q) \in 0..MaxTime
         /\ stored[q] # {} => Latest(q) \in stored[q] /\ Latest(q) \in Times
         /\ \A t \in stored[q] : t <= Latest(q)
         /\ Latest(q) = 0 <=> stored[q] = {}
<1>1. stored[q] \in SUBSET Times
  BY DEF StoreTypeOK
<1>2. Latest(q) = NewestOf(stored[q])
  BY DEF Latest, NewestOf
<1> QED BY <1>1, <1>2, NewestOfFacts

\* Stored rates stay: insertMany() is the only write (fx.service.ts:63).
StoreGrows == \A q \in Quotes : stored[q] \subseteq stored'[q]

\* The newest rate of a leg in a given store, so that two stores can be compared.
NewestLeg(c, store) == IF c = Pivot THEN 0 ELSE NewestOf(store[c])

LEMMA LatestGrows ==
  ASSUME StoreTypeOK, StoreTypeOK', StoreGrows, NEW c \in Currencies
  PROVE  NewestLeg(c, stored) <= NewestLeg(c, stored')
<1>1. CASE c = Pivot
  BY <1>1 DEF NewestLeg
<1>2. CASE c # Pivot
  <2>1. c \in Quotes
    BY <1>2 DEF Currencies
  <2>2. stored[c] \in SUBSET Times /\ stored'[c] \in SUBSET Times /\ stored[c] \subseteq stored'[c]
    BY <2>1 DEF StoreTypeOK, StoreGrows
  <2>3. NewestOf(stored[c]) <= NewestOf(stored'[c])
    BY <2>2, NewestOfFacts, OrderFacts
  <2> QED BY <1>2, <2>3 DEF NewestLeg
<1> QED BY <1>1, <1>2

LEMMA LegFacts ==
  ASSUME StoreTypeOK, NEW c \in Currencies
  PROVE  /\ NewestLeg(c, stored) \in 0..MaxTime
         /\ LatestLeg(c) = NewestLeg(c, stored)
<1>1. LatestLeg(c) = NewestLeg(c, stored)
  BY DEF LatestLeg, NewestLeg, Latest, NewestOf
<1>2. LatestLeg(c) \in 0..MaxTime
  BY LatestFacts, OrderFacts DEF LatestLeg, Currencies
<1> QED BY <1>1, <1>2

LEMMA ExponentFacts ==
  /\ 0 \in Exponents
  /\ \A c \in Configs : c.exponent \in Exponents /\ c.rule \in Rules
  /\ Configs \subseteq [exponent : Exponents, rule : Rules]
  /\ \A e \in Exponents : 10^e \in Nat \ {0}
BY FxAssumption, PowersOfTen DEF Exponents

LEMMA Products ==
  ASSUME NEW m \in Nat \ {0}, NEW n \in Nat \ {0}
  PROVE  m * n \in Nat \ {0}
OBVIOUS

LEMMA RoundMinorIsInt ==
  ASSUME NEW n \in Int, NEW d \in Int, d > 0, NEW rule \in Rules
  PROVE  RoundMinor(n, d, rule) \in Int
BY HalfUpRoundsWell, HalfEvenRoundsWell, TruncatedRoundsWell, MathRoundRoundsWell
   DEF RoundMinor, Rules

\* A slip of the doubles leaves the nearest whole number nearest.
LEMMA SlipStaysNearest ==
  ASSUME NEW n \in Int, NEW d \in Int, d > 0, NEW slip \in -1..1, NEW r \in Int,
         Nearest(r, 4 * n + slip, 4 * d)
  PROVE  Nearest(r, n, d)
<1> DEFINE q == r * d
<1>1. q \in Int /\ r * (4 * d) = 4 * q
  OBVIOUS
<1>2. Magnitude(2 * (4 * n + slip - 4 * q)) <= 4 * d
  BY <1>1 DEF Nearest
<1> HIDE DEF q
<1>3. 2 * (n - q) <= d /\ -(2 * (n - q)) <= d
  BY <1>1, <1>2 DEF Magnitude
<1>4. Magnitude(2 * (n - q)) <= d
  BY <1>3 DEF Magnitude
<1> QED BY <1>4 DEF Nearest, q

\* Nor does it make DOWN give more than there is, or less by two.
LEMMA SlipCostsOne ==
  ASSUME NEW n \in Int, NEW d \in Int, d > 0, NEW slip \in -1..1, NEW r \in Int,
         RoundsWell(r, 4 * n + slip, 4 * d, "DOWN")
  PROVE  RoundsClosely(r, n, d, "DOWN")
<1> DEFINE M == Magnitude(r)
           q == M * d
           N == Magnitude(n)
           S == Magnitude(4 * n + slip)
<1>1. M \in Nat /\ N \in Nat /\ S \in Nat /\ (M = 0 <=> r = 0)
  BY DEF Magnitude
<1>2. S <= 4 * N + 1 /\ 4 * N - 1 <= S
  BY DEF Magnitude
<1>3. q \in Int /\ M * (4 * d) = 4 * q /\ (M + 1) * (4 * d) = 4 * q + 4 * d /\ (M + 1) * d = q + d
  BY <1>1
<1>4. M * (4 * d) <= S /\ S < (M + 1) * (4 * d) /\ (r = 0 \/ Sign(r) = Sign(4 * n + slip))
  BY DEF RoundsWell
<1>5. M >= 1 => q >= d
  BY <1>1
<1>6. S >= 4 => Sign(4 * n + slip) = Sign(n)
  BY DEF Magnitude, Sign
<1> HIDE DEF M, q, N, S
<1>7. q <= N /\ N <= q + d
  BY <1>1, <1>2, <1>3, <1>4
<1>8. r = 0 \/ S >= 4
  BY <1>1, <1>3, <1>4, <1>5
<1>9. r = 0 \/ Sign(r) = Sign(n)
  BY <1>4, <1>6, <1>8
<1> QED BY <1>3, <1>7, <1>9 DEF RoundsClosely, M, q, N

\* A conversion is close to the exact product (money.ts:103-117).
LEMMA ConvertIsClose ==
  ASSUME NEW a \in Int, NEW n \in Nat \ {0}, NEW d \in Nat \ {0},
         NEW e \in Exponents, NEW f \in Exponents, NEW rule \in Rules,
         NEW r \in Convert(a, n, d, e, f, rule)
  PROVE  r \in Int /\ RoundsClosely(r, a * n * 10^f, d * 10^e, rule)
<1>1. 10^e \in Nat \ {0} /\ 10^f \in Nat \ {0}
  BY ExponentFacts
<1> DEFINE up == 10^f
           down == 10^e
           x == a * n * up
           y == d * down
<1> HIDE DEF up, down
<1>2. up \in Nat \ {0} /\ down \in Nat \ {0}
  BY <1>1 DEF up, down
<1>3. x \in Int /\ y \in Int /\ y > 0
  BY <1>2, Products
<1>4. PICK slip \in -1..1 : r = RoundMinor(4 * x + slip, 4 * y, rule)
  BY DEF Convert, Rounded, up, down
<1> HIDE DEF x, y
<1>5. 4 * x + slip \in Int /\ 4 * y \in Int /\ 4 * y > 0
  BY <1>3
<1>6. r \in Int /\ RoundsWell(r, 4 * x + slip, 4 * y, rule)
  BY <1>4, <1>5, RoundMinorIsInt, RoundingIsRight
<1>7. RoundsClosely(r, x, y, rule)
  <2>1. CASE rule = "DOWN"
    BY <1>3, <1>6, <2>1, SlipCostsOne
  <2>2. CASE rule # "DOWN"
    <3>1. Nearest(r, 4 * x + slip, 4 * y)
      BY <1>6, <2>2 DEF RoundsWell, Rules
    <3>2. Nearest(r, x, y)
      BY <1>3, <1>6, <3>1, SlipStaysNearest
    <3> QED BY <2>2, <3>2 DEF RoundsClosely
  <2> QED BY <2>1, <2>2
<1> QED BY <1>6, <1>7 DEF x, y, up, down

\* As near to a as a conversion without a rate leaves it is a alone and, under DOWN, the
\* number before it.
LEMMA OnlyItself ==
  ASSUME NEW r \in Int, NEW a \in Int, NEW u \in Nat \ {0}, NEW rule \in Rules,
         RoundsClosely(r, a * u, u, rule)
  PROVE  KeepsAmount(r, a, rule)
<1>1. \A x \in Int : x >= 1 => x * u >= u
  OBVIOUS
<1>2. a * u \in Int /\ r * u \in Int /\ (a - r) * u = a * u - r * u /\ (r - a) * u = r * u - a * u
  OBVIOUS
<1>3. CASE rule # "DOWN"
  <2>1. Magnitude(2 * (a * u - r * u)) <= u
    BY <1>3 DEF RoundsClosely, Nearest
  <2>2. 2 * (a * u - r * u) <= u /\ 2 * (r * u - a * u) <= u
    BY <1>2, <2>1 DEF Magnitude
  <2>3. ~ (a - r >= 1)
    BY <1>1, <1>2, <2>2
  <2>4. ~ (r - a >= 1)
    BY <1>1, <1>2, <2>2
  <2>5. r = a
    BY <2>3, <2>4
  <2> QED BY <2>5 DEF KeepsAmount
<1>4. CASE rule = "DOWN"
  <2> DEFINE A == Magnitude(a)
             M == Magnitude(r)
  <2>1. A \in Nat /\ M \in Nat /\ Magnitude(a * u) = A * u
    <3>1. CASE a >= 0
      BY <3>1 DEF Magnitude
    <3>2. CASE a < 0
      BY <3>2 DEF Magnitude
    <3> QED BY <3>1, <3>2 DEF Magnitude
  <2>2. M * u <= A * u /\ A * u <= (M + 1) * u
    BY <1>4, <2>1 DEF RoundsClosely
  <2>3. r = 0 \/ Sign(r) = Sign(a * u)
    BY <1>4 DEF RoundsClosely
  <2> HIDE DEF A, M
  <2>4. /\ (M - A) * u = M * u - A * u
        /\ (A - (M + 1)) * u = A * u - (M + 1) * u
        /\ M * u \in Int /\ A * u \in Int /\ (M + 1) * u \in Int
    BY <2>1
  <2>6. ~ (M - A >= 1)
    BY <1>1, <2>1, <2>2, <2>4
  <2>7. ~ (A - (M + 1) >= 1)
    BY <1>1, <2>1, <2>2, <2>4
  <2>8. A = M \/ M = A - 1
    BY <2>1, <2>6, <2>7
  <2>9. Sign(a * u) = Sign(a)
    BY DEF Sign
  <2>10. A = M => r = a
    BY <2>3, <2>9 DEF A, M, Magnitude, Sign
  <2> QED BY <1>4, <2>8, <2>10 DEF KeepsAmount, A, M
<1> QED BY <1>3, <1>4

-----------------------------------------------------------------------------
(* Conversions, one at a time: what ConversionInv says of each.             *)

IsKnown(p) ==
  known[p].from <= LatestLeg(ask[p].from) /\ known[p].to <= LatestLeg(ask[p].to)
OnPath(p) ==
  /\ pc[p] # "idle" => answer[p].kind = "none"
  /\ pc[p] \in {"cache", "store", "leg", "cross"} => ask[p].from # ask[p].to
  /\ pc[p] \in {"leg", "cross"} => Crossable(p)
  /\ pc[p] = "cross" => got[p].leg >= known[p].from
IsSeeded(p) == upserts = 0 /\ pc[p] = "to" => got[p].from = SEED[ask[p].from].exponent
IsCurrent(p) ==
  /\ answer[p].kind = "direct" /\ ~ overlapped => answer[p].stamp >= known[p].to
  /\ answer[p].kind = "cross" => answer[p].stamp >= known[p].to /\ got[p].leg >= known[p].from
IsUnknown(p) ==
  answer[p].kind = "not found" =>
      ask[p].to = Pivot \/ known[p].to = 0 \/ (ask[p].from # Pivot /\ known[p].from = 0)
IsClose(p) ==
  /\ answer[p].kind \in {"identity", "direct", "cross"} =>
        RoundsClosely(answer[p].amount, ExactFraction(p)[1], ExactFraction(p)[2], got[p].to.rule)
  /\ answer[p].kind = "identity" /\ upserts = 0 =>
        KeepsAmount(answer[p].amount, ask[p].amount, got[p].to.rule)

RequestInv(p) == IsKnown(p) /\ OnPath(p) /\ IsSeeded(p) /\ IsCurrent(p) /\ IsUnknown(p) /\ IsClose(p)
StillSeed == upserts = 0 => config = SEED

LEMMA PartsOfConversionInv ==
  ConversionInv <=> ConversionTypeOK /\ StillSeed /\ \A p \in Requests : RequestInv(p)
BY DEF ConversionInv, KnownInv, PathInv, SeedInv, NoOldRate, NotFoundIsUnknown, ConvertedClosely,
       IsKnown, OnPath, IsSeeded, IsCurrent, IsUnknown, IsClose, RequestInv, StillSeed

LEMMA PartsOfConversionInvNext ==
  ConversionInv' <=> ConversionTypeOK' /\ StillSeed' /\ \A p \in Requests : RequestInv(p)'
BY DEF ConversionInv, KnownInv, PathInv, SeedInv, NoOldRate, NotFoundIsUnknown, ConvertedClosely,
       IsKnown, OnPath, IsSeeded, IsCurrent, IsUnknown, IsClose, RequestInv, StillSeed

LEMMA InitConversion == Init => ConversionInv
<1> SUFFICES ASSUME Init PROVE ConversionInv
  OBVIOUS
<1>1. /\ config = SEED /\ upserts = 0
      /\ pc = [p \in Requests |-> "idle"] /\ ask = [p \in Requests |-> NoAsk]
      /\ got = [p \in Requests |-> NothingRead] /\ answer = [p \in Requests |-> NoAnswer]
      /\ known = [p \in Requests |-> [from |-> 0, to |-> 0]]
  BY DEF Init
<1>2. ConversionTypeOK
  <2>1. NoAsk \in [from : Currencies, to : Currencies, amount : Amounts \cup {0}]
    BY DEF NoAsk, Currencies
  <2>2. NothingRead \in [from : Exponents, to : [exponent : Exponents, rule : Rules], leg : 0..MaxTime]
    BY OrderFacts, ExponentFacts DEF NothingRead, Rules
  <2>3. NoAnswer \in [kind : {"none", "identity", "direct", "cross", "not found"},
                      amount : Int, stamp : 0..MaxTime]
    BY OrderFacts DEF NoAnswer
  <2>4. [from |-> 0, to |-> 0] \in [from : 0..MaxTime, to : 0..MaxTime]
    BY OrderFacts
  <2> QED BY <1>1, <2>1, <2>2, <2>3, <2>4, FxAssumption DEF ConversionTypeOK
<1>3. \A p \in Requests : RequestInv(p)
  <2> SUFFICES ASSUME NEW p \in Requests PROVE RequestInv(p)
    OBVIOUS
  <2>1. /\ pc[p] = "idle" /\ ask[p].from = Pivot /\ ask[p].to = Pivot /\ answer[p].kind = "none"
        /\ known[p].from = 0 /\ known[p].to = 0
    BY <1>1 DEF NoAsk, NoAnswer
  <2> QED BY <2>1 DEF RequestInv, IsKnown, OnPath, IsSeeded, IsCurrent, IsUnknown, IsClose, LatestLeg
<1> QED BY <1>1, <1>2, <1>3, PartsOfConversionInv DEF StillSeed

\* What other actors do keeps what holds of a conversion: rates are only added.
SameRequest(p) ==
  /\ pc'[p] = pc[p] /\ ask'[p] = ask[p] /\ got'[p] = got[p]
  /\ answer'[p] = answer[p] /\ known'[p] = known[p]

LEMMA Bystander ==
  ASSUME StoreTypeOK, StoreTypeOK', StoreGrows, ConversionTypeOK,
         NEW p \in Requests, RequestInv(p), SameRequest(p),
         overlapped => overlapped', upserts' = 0 => upserts = 0
  PROVE  RequestInv(p)'
<1>1. IsKnown(p)'
  <2>1. /\ ask[p].from \in Currencies /\ ask[p].to \in Currencies
        /\ known[p].from \in 0..MaxTime /\ known[p].to \in 0..MaxTime
    BY DEF ConversionTypeOK
  <2>2. \A c \in Currencies : /\ NewestLeg(c, stored) <= NewestLeg(c, stored')
                              /\ NewestLeg(c, stored) \in Int /\ NewestLeg(c, stored') \in Int
    <3>1. \A S \in SUBSET Times : NewestOf(S) \in Int
      BY NewestOfFacts
    <3>2. \A c \in Currencies : NewestLeg(c, stored) \in Int /\ NewestLeg(c, stored') \in Int
      BY <3>1 DEF NewestLeg, Currencies, StoreTypeOK
    <3> QED BY <3>2, LatestGrows
  <2>3. /\ known[p].from <= NewestLeg(ask[p].from, stored)
        /\ known[p].to <= NewestLeg(ask[p].to, stored)
    BY DEF RequestInv, IsKnown, LatestLeg, NewestLeg, Latest, NewestOf
  <2>4. /\ known'[p].from <= NewestLeg(ask'[p].from, stored')
        /\ known'[p].to <= NewestLeg(ask'[p].to, stored')
    BY <2>1, <2>2, <2>3 DEF SameRequest
  <2> QED BY <2>4 DEF IsKnown, LatestLeg, NewestLeg, Latest, NewestOf
<1>2. OnPath(p)' /\ IsUnknown(p)'
  BY DEF RequestInv, OnPath, IsUnknown, SameRequest, Crossable
<1>3. IsSeeded(p)' /\ IsCurrent(p)'
  BY DEF RequestInv, IsSeeded, IsCurrent, SameRequest
<1>4. IsClose(p)'
  BY DEF RequestInv, IsClose, ExactFraction, SameRequest
<1> QED BY <1>1, <1>2, <1>3, <1>4 DEF RequestInv

\* A step of the provider, of Redis, of a refresh or of an administrator.
LEMMA OthersStep ==
  ASSUME FxInv, FxInv', ConversionInv, StoreGrows, UNCHANGED conversion,
         overlapped => overlapped', upserts' = 0 => upserts = 0,
         upserts' \in Nat, config' \in [Currencies -> Configs], StillSeed'
  PROVE  ConversionInv'
<1>1. StoreTypeOK /\ StoreTypeOK'
  BY DEF FxInv
<1>2. ConversionTypeOK /\ \A p \in Requests : RequestInv(p)
  BY PartsOfConversionInv
<1>3. ConversionTypeOK'
  BY <1>2 DEF ConversionTypeOK, conversion
<1>4. \A p \in Requests : SameRequest(p)
  BY DEF SameRequest, conversion
<1>5. \A p \in Requests : RequestInv(p)'
  BY <1>1, <1>2, <1>4, Bystander
<1> QED BY <1>3, <1>5, PartsOfConversionInvNext

\* What a conversion has read, and the kinds of answer.
Reading == [from : Exponents, to : [exponent : Exponents, rule : Rules], leg : 0..MaxTime]
Kinds == {"identity", "direct", "cross", "not found"}

\* A step of one conversion: the store, the rules and the other conversions stay.
Elsewhere == <<Store, config, upserts>>

LEMMA OneStep ==
  ASSUME FxInv, FxInv', ConversionInv, UNCHANGED Elsewhere, NEW p \in Requests,
         \A q \in Requests \ {p} : SameRequest(q),
         ConversionTypeOK', RequestInv(p)'
  PROVE  ConversionInv'
<1>1. StoreTypeOK /\ StoreTypeOK' /\ StoreGrows /\ (overlapped => overlapped')
      /\ (upserts' = 0 => upserts = 0)
  BY DEF FxInv, StoreGrows, Elsewhere, Store
<1>2. ConversionTypeOK /\ StillSeed /\ \A q \in Requests : RequestInv(q)
  BY PartsOfConversionInv
<1>3. StillSeed'
  BY <1>2 DEF StillSeed, Elsewhere
<1>4. ASSUME NEW q \in Requests PROVE RequestInv(q)'
  <2>1. CASE q = p
    BY <2>1
  <2>2. CASE q # p
    <3>1. SameRequest(q)
      BY <2>2
    <3> QED BY <1>1, <1>2, <3>1, Bystander
  <2> QED BY <2>1, <2>2
<1> QED BY <1>3, <1>4, PartsOfConversionInvNext

\* What holds of a conversion under way, unfolded.
LEMMA RequestFacts ==
  ASSUME FxInv, ConversionInv, NEW p \in Requests
  PROVE  /\ RequestInv(p)
         /\ config \in [Currencies -> Configs]
         /\ ask[p].from \in Currencies /\ ask[p].to \in Currencies /\ ask[p].amount \in Int
         /\ got[p].from \in Exponents /\ got[p].leg \in 0..MaxTime
         /\ got[p].to.exponent \in Exponents /\ got[p].to.rule \in Rules
         /\ known[p].from \in 0..MaxTime /\ known[p].to \in 0..MaxTime
         /\ upserts = 0 => config = SEED
<1>1. ConversionTypeOK /\ StillSeed /\ RequestInv(p)
  BY PartsOfConversionInv
<1>2. /\ ask[p] \in [from : Currencies, to : Currencies, amount : Amounts \cup {0}]
      /\ got[p] \in [from : Exponents, to : [exponent : Exponents, rule : Rules], leg : 0..MaxTime]
      /\ known[p] \in [from : 0..MaxTime, to : 0..MaxTime]
      /\ config \in [Currencies -> Configs]
  BY <1>1 DEF ConversionTypeOK
<1>3. Amounts \cup {0} \subseteq Int
  BY FxAssumption
<1> QED BY <1>1, <1>2, <1>3 DEF StillSeed

\* A new request records what is stored.
LEMMA AskStep ==
  ASSUME FxInv, FxInv', ConversionInv, NEW p \in Requests, Ask(p)
  PROVE  ConversionInv'
<1>1. PICK a \in Asks :
        /\ ask' = [ask EXCEPT ![p] = a]
        /\ known' = [known EXCEPT ![p] = [from |-> LatestLeg(a.from), to |-> LatestLeg(a.to)]]
  BY DEF Ask
<1>2. /\ pc' = [pc EXCEPT ![p] = "from"] /\ answer' = [answer EXCEPT ![p] = NoAnswer]
      /\ got' = [got EXCEPT ![p] = NothingRead] /\ UNCHANGED Elsewhere
  BY DEF Ask, Elsewhere, Store
<1>3. ConversionTypeOK /\ StoreTypeOK
  BY DEF ConversionInv, FxInv
<1>4. a.from \in Currencies /\ a.to \in Currencies /\ a.amount \in Amounts
  BY DEF Asks
<1>5. /\ LatestLeg(a.from) \in 0..MaxTime /\ LatestLeg(a.to) \in 0..MaxTime
      /\ LatestLeg(a.from) = NewestLeg(a.from, stored)
      /\ LatestLeg(a.to) = NewestLeg(a.to, stored)
  BY <1>3, <1>4, LegFacts
<1>6. ConversionTypeOK'
  <2>1. a \in [from : Currencies, to : Currencies, amount : Amounts \cup {0}]
    BY DEF Asks
  <2>2. NothingRead \in [from : Exponents, to : [exponent : Exponents, rule : Rules], leg : 0..MaxTime]
    BY OrderFacts, ExponentFacts DEF NothingRead, Rules
  <2>3. NoAnswer \in [kind : {"none", "identity", "direct", "cross", "not found"},
                      amount : Int, stamp : 0..MaxTime]
    BY OrderFacts DEF NoAnswer
  <2> QED BY <1>1, <1>2, <1>3, <1>5, <2>1, <2>2, <2>3 DEF ConversionTypeOK, Elsewhere
<1>7. \A q \in Requests \ {p} : SameRequest(q)
  BY <1>1, <1>2, <1>3 DEF SameRequest, ConversionTypeOK
<1>8. /\ pc'[p] = "from" /\ answer'[p].kind = "none"
      /\ ask'[p] = a /\ known'[p].from = LatestLeg(a.from) /\ known'[p].to = LatestLeg(a.to)
  BY <1>1, <1>2, <1>3 DEF ConversionTypeOK, NoAnswer
<1>9. IsKnown(p)'
  <2>1. /\ known'[p].from <= NewestLeg(ask'[p].from, stored')
        /\ known'[p].to <= NewestLeg(ask'[p].to, stored')
    BY <1>2, <1>5, <1>8 DEF Elsewhere, Store
  <2> QED BY <2>1 DEF IsKnown, LatestLeg, NewestLeg, Latest, NewestOf
<1>10. RequestInv(p)'
  BY <1>8, <1>9 DEF RequestInv, OnPath, IsSeeded, IsCurrent, IsUnknown, IsClose
<1> QED BY <1>2, <1>6, <1>7, <1>10, OneStep

\* A read that does not answer: the amount, the pair and what was known stay.
LEMMA ReadFromStep ==
  ASSUME FxInv, FxInv', ConversionInv, NEW p \in Requests, ReadFrom(p)
  PROVE  ConversionInv'
<1>1. /\ pc[p] = "from" /\ pc' = [pc EXCEPT ![p] = "to"]
      /\ got' = [got EXCEPT ![p].from = config[ask[p].from].exponent]
      /\ UNCHANGED <<ask, answer, known>> /\ UNCHANGED Elsewhere
  BY DEF ReadFrom, Elsewhere, Store
<1>2. ConversionTypeOK
  BY DEF ConversionInv
<1>3. config[ask[p].from].exponent \in Exponents
  BY RequestFacts, ExponentFacts
<1>4. ConversionTypeOK'
  <2> DEFINE g == [got[p] EXCEPT !.from = config[ask[p].from].exponent]
  <2>1. got[p] \in Reading
    BY <1>2 DEF ConversionTypeOK, Reading
  <2>2. g \in Reading /\ got' = [got EXCEPT ![p] = g]
    BY <1>1, <1>3, <2>1 DEF Reading
  <2> HIDE DEF g
  <2>3. got' \in [Requests -> Reading]
    BY <1>2, <2>2 DEF ConversionTypeOK, Reading
  <2>4. pc' \in [Requests -> {"idle", "from", "to", "cache", "store", "leg", "cross"}]
    BY <1>1, <1>2 DEF ConversionTypeOK
  <2> QED BY <1>1, <1>2, <2>3, <2>4, Zenon DEF ConversionTypeOK, Elsewhere, Reading
<1>5. \A q \in Requests \ {p} : SameRequest(q)
  BY <1>1, <1>2 DEF SameRequest, ConversionTypeOK
<1>6. pc'[p] = "to" /\ got'[p].from = config[ask[p].from].exponent
  BY <1>1, <1>2 DEF ConversionTypeOK
<1>7. IsKnown(p)'
  BY <1>1, RequestFacts DEF RequestInv, IsKnown, LatestLeg, Latest, Elsewhere, Store
<1>8. answer'[p].kind = "none"
  BY <1>1, RequestFacts DEF RequestInv, OnPath
<1>9. IsSeeded(p)'
  BY <1>1, <1>6, RequestFacts DEF IsSeeded, Elsewhere
<1>10. RequestInv(p)'
  BY <1>6, <1>7, <1>8, <1>9 DEF RequestInv, OnPath, IsCurrent, IsUnknown, IsClose
<1> QED BY <1>1, <1>4, <1>5, <1>10, OneStep

\* The step that answers: what is left to show is that the answer is right.
LEMMA AnswerStep ==
  ASSUME FxInv, FxInv', ConversionInv, UNCHANGED Elsewhere, UNCHANGED <<ask, known>>,
         NEW p \in Requests, NEW g \in Reading, got' = [got EXCEPT ![p] = g],
         NEW kind \in Kinds, NEW amount \in Int, NEW stamp \in 0..MaxTime,
         Answer(p, kind, amount, stamp),
         IsCurrent(p)', IsUnknown(p)', IsClose(p)'
  PROVE  ConversionInv'
<1>1. ConversionTypeOK
  BY DEF ConversionInv
<1>2. /\ answer' = [answer EXCEPT ![p] = [kind |-> kind, amount |-> amount, stamp |-> stamp]]
      /\ pc' = [pc EXCEPT ![p] = "idle"]
  BY DEF Answer
<1>3. ConversionTypeOK'
  <2>1. [kind |-> kind, amount |-> amount, stamp |-> stamp] \in
           [kind : {"none", "identity", "direct", "cross", "not found"}, amount : Int, stamp : 0..MaxTime]
    BY DEF Kinds
  <2> QED BY <1>1, <1>2, <2>1 DEF ConversionTypeOK, Elsewhere, Reading
<1>4. \A q \in Requests \ {p} : SameRequest(q)
  BY <1>1, <1>2 DEF SameRequest, ConversionTypeOK
<1>5. pc'[p] = "idle"
  BY <1>1, <1>2 DEF ConversionTypeOK
<1>6. IsKnown(p)'
  BY RequestFacts DEF RequestInv, IsKnown, LatestLeg, Latest, Elsewhere, Store
<1>7. RequestInv(p)'
  BY <1>5, <1>6 DEF RequestInv, OnPath, IsSeeded
<1> QED BY <1>3, <1>4, <1>7, OneStep

\* The step that only moves on.
LEMMA MoveStep ==
  ASSUME FxInv, FxInv', ConversionInv, UNCHANGED Elsewhere, UNCHANGED <<ask, known, answer>>,
         NEW p \in Requests, NEW g \in Reading, got' = [got EXCEPT ![p] = g],
         NEW where \in {"cache", "store", "leg", "cross"}, pc' = [pc EXCEPT ![p] = where],
         pc[p] # "idle", ask[p].from # ask[p].to,
         where \in {"leg", "cross"} => Crossable(p),
         where = "cross" => g.leg >= known[p].from
  PROVE  ConversionInv'
<1>1. ConversionTypeOK
  BY DEF ConversionInv
<1>2. ConversionTypeOK'
  BY <1>1 DEF ConversionTypeOK, Elsewhere, Reading
<1>3. \A q \in Requests \ {p} : SameRequest(q)
  BY <1>1 DEF SameRequest, ConversionTypeOK
<1>4. pc'[p] = where /\ got'[p] = g
  BY <1>1 DEF ConversionTypeOK
<1>5. answer'[p].kind = "none"
  BY RequestFacts DEF RequestInv, OnPath
<1>6. IsKnown(p)'
  BY RequestFacts DEF RequestInv, IsKnown, LatestLeg, Latest, Elsewhere, Store
<1>7. OnPath(p)'
  BY <1>4, <1>5 DEF OnPath, Crossable
<1>8. RequestInv(p)'
  BY <1>4, <1>5, <1>6, <1>7 DEF RequestInv, IsSeeded, IsCurrent, IsUnknown, IsClose
<1> QED BY <1>2, <1>3, <1>8, OneStep

\* The second configuration; a currency into itself is answered with its own amount,
\* but for a unit, if no configuration was changed (fx.service.ts:73-84).
LEMMA ReadToStep ==
  ASSUME FxInv, FxInv', ConversionInv, NEW p \in Requests, ReadTo(p)
  PROVE  ConversionInv'
<1> DEFINE c == config[ask[p].to]
           g == [got[p] EXCEPT !.to = c]
           R == Convert(ask[p].amount, 1, 1, got[p].from, c.exponent, c.rule)
<1>1. /\ pc[p] = "to" /\ got' = [got EXCEPT ![p].to = c]
      /\ UNCHANGED <<ask, known>> /\ UNCHANGED Elsewhere
  BY DEF ReadTo, Elsewhere, Store
<1>2. ConversionTypeOK /\ got[p] \in Reading
  BY DEF ConversionInv, ConversionTypeOK, Reading
<1>3. c \in Configs /\ c \in [exponent : Exponents, rule : Rules]
  BY RequestFacts, ExponentFacts
<1>4. g \in Reading /\ got' = [got EXCEPT ![p] = g]
  BY <1>1, <1>2, <1>3 DEF Reading
<1>5. got'[p] = g /\ g.from = got[p].from /\ g.to = c
  BY <1>2, <1>4 DEF ConversionTypeOK, Reading
<1>5a. got'[p].to.exponent = c.exponent /\ got'[p].to.rule = c.rule /\ got'[p].from = got[p].from
  <2> HIDE DEF c, g
  <2> QED BY <1>5
<1>6. ASSUME ask[p].from = ask[p].to, NEW r \in R, Answer(p, "identity", r, time)
      PROVE  ConversionInv'
  <2>1. /\ r \in Int
        /\ RoundsClosely(r, ask[p].amount * 1 * 10^c.exponent, 1 * 10^got[p].from, c.rule)
    <3>1. 1 \in Nat \ {0} /\ c.exponent \in Exponents /\ c.rule \in Rules
      BY <1>3
    <3> QED BY <3>1, RequestFacts, ConvertIsClose
  <2>2. time \in 0..MaxTime
    BY OrderFacts DEF FxInv, StoreTypeOK, Times
  <2>3. answer'[p] = [kind |-> "identity", amount |-> r, stamp |-> time]
    BY <1>2, <1>6 DEF Answer, ConversionTypeOK
  <2>3a. answer'[p].kind = "identity" /\ answer'[p].amount = r
    BY <2>3
  <2>4. IsCurrent(p)' /\ IsUnknown(p)'
    BY <2>3a DEF IsCurrent, IsUnknown
  <2>5. /\ ExactFraction(p)'[1] = ask[p].amount * 1 * 1 * 10^c.exponent
        /\ ExactFraction(p)'[2] = 1 * 1 * 10^got[p].from
    <3>1. /\ ask' = ask /\ ask[p].from = ask[p].to /\ answer'[p].kind = "identity"
          /\ got'[p].to.exponent = c.exponent /\ got'[p].from = got[p].from
      BY <1>1, <1>5a, <1>6, <2>3a
    <3> HIDE DEF c, g
    <3> QED BY <3>1, Zenon DEF ExactFraction
  <2>6. upserts' = 0 => KeepsAmount(r, ask[p].amount, c.rule)
    <3> SUFFICES ASSUME upserts = 0 PROVE KeepsAmount(r, ask[p].amount, c.rule)
      BY <1>1 DEF Elsewhere
    <3>1. got[p].from = c.exponent
      BY <1>1, <1>6, RequestFacts DEF RequestInv, IsSeeded
    <3> DEFINE u == 10^c.exponent
    <3>2. u \in Nat \ {0}
      BY <1>3, ExponentFacts
    <3>3. RoundsClosely(r, ask[p].amount * 1 * u, 1 * u, c.rule)
      BY <2>1, <3>1
    <3> HIDE DEF u
    <3>4. ask[p].amount * 1 * u = ask[p].amount * u /\ 1 * u = u
      BY <3>2, RequestFacts
    <3> QED BY <1>3, <2>1, <3>2, <3>3, <3>4, RequestFacts, OnlyItself
  <2>7. IsClose(p)'
    <3>1. RoundsClosely(r, ExactFraction(p)'[1], ExactFraction(p)'[2], c.rule)
      <4> DEFINE u == 10^c.exponent
                 d == 10^got[p].from
      <4>1. u \in Nat \ {0} /\ d \in Nat \ {0}
        BY <1>3, RequestFacts, ExponentFacts
      <4> HIDE DEF u, d
      <4>2. ask[p].amount * 1 * u = ask[p].amount * 1 * 1 * u /\ 1 * d = 1 * 1 * d
        BY <4>1, RequestFacts
      <4> QED BY <2>1, <2>5, <4>2 DEF u, d
    <3> HIDE DEF c, g
    <3> QED BY <1>1, <1>5a, <2>3a, <2>6, <3>1 DEF IsClose
  <2> HIDE DEF g
  <2> QED BY <1>1, <1>4, <1>6, <2>1, <2>2, <2>4, <2>7, AnswerStep DEF Kinds
<1>7. CASE ask[p].from # ask[p].to /\ pc' = [pc EXCEPT ![p] = "cache"] /\ UNCHANGED answer
  <2> HIDE DEF g
  <2> QED BY <1>1, <1>4, <1>7, MoveStep
<1> QED BY <1>6, <1>7 DEF ReadTo

\* An answer at a rate n/d that was read: the fraction is the one rounded.
LEMMA RateFacts ==
  ASSUME NEW q \in Quotes, NEW t \in Times
  PROVE  RateAt[q][t][1] \in Nat \ {0} /\ RateAt[q][t][2] \in Nat \ {0}
BY FxAssumption

\* A pair that starts at the pivot is answered at one snapshot, cached or stored
\* (fx.service.ts:86-107).
LEMMA DirectStep ==
  ASSUME FxInv, FxInv', ConversionInv, UNCHANGED Elsewhere, UNCHANGED <<ask, known, got>>,
         NEW p \in Requests, NEW t \in Times, Direct(p, t),
         ask[p].from = Pivot, ask[p].from # ask[p].to,
         ~ overlapped => t >= known[p].to
  PROVE  ConversionInv'
<1> DEFINE n == RateAt[ask[p].to][t][1]
           d == RateAt[ask[p].to][t][2]
           u == 10^got[p].to.exponent
           v == 10^got[p].from
<1>1. ConversionTypeOK /\ got[p] \in Reading /\ got' = [got EXCEPT ![p] = got[p]]
  BY DEF ConversionInv, ConversionTypeOK, Reading
<1>2. ask[p].to \in Quotes
  BY RequestFacts DEF Currencies
<1>3. n \in Nat \ {0} /\ d \in Nat \ {0}
  BY <1>2, RateFacts
<1>4. u \in Nat \ {0} /\ v \in Nat \ {0}
  BY RequestFacts, ExponentFacts
<1>5. PICK r \in Convert(ask[p].amount, n, d, got[p].from, got[p].to.exponent, got[p].to.rule) :
        Answer(p, "direct", r, t)
  BY DEF Direct, Converted
<1>6. r \in Int /\ RoundsClosely(r, ask[p].amount * n * u, d * v, got[p].to.rule)
  <2> HIDE DEF n, d
  <2> QED BY <1>3, RequestFacts, ConvertIsClose DEF u, v
<1>7. /\ ExactFraction(p)'[1] = ask[p].amount * n * 1 * u
      /\ ExactFraction(p)'[2] = d * 1 * v
  <2>1. answer'[p].kind = "direct" /\ answer'[p].stamp = t
    BY <1>1, <1>5 DEF Answer, ConversionTypeOK
  <2>2. ask[p].to # Pivot /\ ask' = ask /\ got' = got
    OBVIOUS
  <2> QED BY <2>1, <2>2, Zenon DEF ExactFraction
<1>8. answer'[p].kind = "direct" /\ answer'[p].stamp = t /\ answer'[p].amount = r
  BY <1>1, <1>5 DEF Answer, ConversionTypeOK
<1> HIDE DEF n, d, u, v
<1>9. ask[p].amount * n * 1 * u = ask[p].amount * n * u /\ d * 1 * v = d * v
  BY <1>3, <1>4, RequestFacts
<1>10. IsClose(p)'
  <2>1. RoundsClosely(r, ExactFraction(p)'[1], ExactFraction(p)'[2], got[p].to.rule)
    BY <1>6, <1>7, <1>9
  <2> QED BY <1>8, <2>1 DEF IsClose
<1>11. IsCurrent(p)' /\ IsUnknown(p)'
  BY <1>8 DEF IsCurrent, IsUnknown, Elsewhere, Store
<1>12. t \in 0..MaxTime
  BY OrderFacts DEF Times
<1> QED BY <1>1, <1>5, <1>6, <1>10, <1>11, <1>12, AnswerStep DEF Kinds

\* "Not found", with nothing new read.
LEMMA NotFoundStep ==
  ASSUME FxInv, FxInv', ConversionInv, UNCHANGED Elsewhere, UNCHANGED <<ask, known, got>>,
         NEW p \in Requests, Answer(p, "not found", 0, 0),
         \/ ask[p].to = Pivot
         \/ known[p].to = 0
         \/ ask[p].from # Pivot /\ known[p].from = 0
  PROVE  ConversionInv'
<1>1. ConversionTypeOK /\ got[p] \in Reading /\ got' = [got EXCEPT ![p] = got[p]]
  BY DEF ConversionInv, ConversionTypeOK, Reading
<1>2. answer'[p].kind = "not found"
  BY <1>1 DEF Answer, ConversionTypeOK
<1>3. IsCurrent(p)' /\ IsUnknown(p)' /\ IsClose(p)'
  BY <1>2 DEF IsCurrent, IsUnknown, IsClose
<1>4. 0 \in Int /\ 0 \in 0..MaxTime
  BY TimeBound
<1>5. "not found" \in Kinds
  BY DEF Kinds
<1> QED BY <1>1, <1>3, <1>4, <1>5, AnswerStep

\* The cached copy is never behind the store while refreshes do not overlap.
LEMMA ReadCacheStep ==
  ASSUME FxInv, FxInv', ConversionInv, NEW p \in Requests, ReadCache(p)
  PROVE  ConversionInv'
<1>1. /\ pc[p] = "cache" /\ UNCHANGED <<ask, known, got>> /\ UNCHANGED Elsewhere
  BY DEF ReadCache, Elsewhere, Store
<1>2. ask[p].from # ask[p].to
  BY <1>1, RequestFacts DEF RequestInv, OnPath
<1>3. ConversionTypeOK /\ got[p] \in Reading /\ got' = [got EXCEPT ![p] = got[p]]
  BY <1>1 DEF ConversionInv, ConversionTypeOK, Reading
<1>4. CASE ask[p].from = Pivot /\ cache[ask[p].to] # 0 /\ Direct(p, cache[ask[p].to])
  <2> DEFINE t == cache[ask[p].to]
  <2>1. ask[p].to \in Quotes
    BY <1>2, <1>4, RequestFacts DEF Currencies
  <2>2. t \in Times
    BY <1>4, <2>1, OrderFacts DEF FxInv, StoreTypeOK, Times
  <2>3. StoreTypeOK /\ RequestInv(p) /\ known[p].to \in 0..MaxTime
    BY RequestFacts DEF FxInv
  <2>4. known[p].to <= Latest(ask[p].to)
    BY <2>1, <2>3, FxAssumption DEF RequestInv, IsKnown, LatestLeg
  <2>5. ~ overlapped => t >= known[p].to
    <3> SUFFICES ASSUME ~ overlapped PROVE t >= known[p].to
      OBVIOUS
    <3>1. \A s \in stored[ask[p].to] : s <= t
      BY <1>4, <2>1 DEF FxInv, CacheNotBehind
    <3>2. CASE stored[ask[p].to] = {}
      BY <2>1, <2>2, <2>3, <2>4, <3>2, LatestFacts, OrderFacts DEF Times
    <3>3. CASE stored[ask[p].to] # {}
      <4>1. Latest(ask[p].to) \in stored[ask[p].to] /\ Latest(ask[p].to) \in Times
        BY <2>1, <2>3, <3>3, LatestFacts
      <4>2. Latest(ask[p].to) <= t
        BY <3>1, <4>1
      <4> HIDE DEF t
      <4> QED BY <2>2, <2>3, <2>4, <4>1, <4>2, OrderFacts DEF Times
    <3> QED BY <3>2, <3>3
  <2> HIDE DEF t
  <2> QED BY <1>1, <1>2, <1>4, <2>2, <2>5, DirectStep DEF t
<1>5. CASE pc' = [pc EXCEPT ![p] = "store"] /\ UNCHANGED answer
  BY <1>1, <1>2, <1>3, <1>5, MoveStep
<1> QED BY <1>4, <1>5 DEF ReadCache

\* The store answers with the newest snapshot; what is not found was not stored when
\* the conversion came.
LEMMA ReadStoreStep ==
  ASSUME FxInv, FxInv', ConversionInv, NEW p \in Requests, ReadStore(p)
  PROVE  ConversionInv'
<1> DEFINE found == ask[p].from = Pivot /\ stored[ask[p].to] # {}
<1>1. /\ pc[p] = "store" /\ UNCHANGED <<ask, known, got>> /\ UNCHANGED Elsewhere
  BY DEF ReadStore, Elsewhere, Store
<1>2. /\ ask[p].from # ask[p].to /\ StoreTypeOK /\ RequestInv(p)
      /\ known[p].to \in 0..MaxTime
  BY <1>1, RequestFacts DEF RequestInv, OnPath, FxInv
<1>3. ConversionTypeOK /\ got[p] \in Reading /\ got' = [got EXCEPT ![p] = got[p]]
  BY <1>1 DEF ConversionInv, ConversionTypeOK, Reading
<1>4. ask[p].to # Pivot => ask[p].to \in Quotes /\ known[p].to <= Latest(ask[p].to)
  BY <1>2, RequestFacts DEF Currencies, RequestInv, IsKnown, LatestLeg
<1>5. CASE found /\ Direct(p, Latest(ask[p].to))
  <2> DEFINE t == Latest(ask[p].to)
  <2>1. ask[p].to \in Quotes /\ known[p].to <= t
    BY <1>2, <1>4, <1>5
  <2>2. t \in Times
    BY <1>2, <1>5, <2>1, LatestFacts
  <2> HIDE DEF t
  <2>3. t >= known[p].to
    BY <1>2, <2>1, <2>2, OrderFacts DEF Times
  <2> QED BY <1>1, <1>2, <1>5, <2>2, <2>3, DirectStep DEF t
<1>6. CASE ~ found /\ ~ Crossable(p) /\ Answer(p, "not found", 0, 0)
  <2>1. ask[p].to = Pivot \/ known[p].to = 0
    <3> SUFFICES ASSUME ask[p].to # Pivot PROVE known[p].to = 0
      OBVIOUS
    <3>1. stored[ask[p].to] = {}
      BY <1>6 DEF Crossable
    <3>2. Latest(ask[p].to) = 0
      BY <1>2, <1>4, <3>1, LatestFacts
    <3> QED BY <1>2, <1>4, <3>2, OrderFacts
  <2> QED BY <1>1, <1>6, <2>1, NotFoundStep
<1>7. CASE Crossable(p) /\ pc' = [pc EXCEPT ![p] = "leg"] /\ UNCHANGED answer
  BY <1>1, <1>2, <1>3, <1>7, MoveStep
<1> QED BY <1>5, <1>6, <1>7 DEF ReadStore

\* The first leg (fx.service.ts:120-123).
LEMMA ReadLegStep ==
  ASSUME FxInv, FxInv', ConversionInv, NEW p \in Requests, ReadLeg(p)
  PROVE  ConversionInv'
<1> DEFINE u == Latest(ask[p].from)
           g == [got[p] EXCEPT !.leg = u]
<1>1. /\ pc[p] = "leg" /\ got' = [got EXCEPT ![p].leg = u] /\ pc' = [pc EXCEPT ![p] = "cross"]
      /\ UNCHANGED <<ask, known, answer>> /\ UNCHANGED Elsewhere
  BY DEF ReadLeg, Elsewhere, Store
<1>2. /\ ask[p].from # ask[p].to /\ Crossable(p) /\ StoreTypeOK /\ RequestInv(p)
      /\ known[p].from \in 0..MaxTime
  BY <1>1, RequestFacts DEF RequestInv, OnPath, FxInv
<1>3. ConversionTypeOK /\ got[p] \in Reading
  BY DEF ConversionInv, ConversionTypeOK, Reading
<1>4. ask[p].from \in Quotes
  BY <1>2, RequestFacts DEF Currencies, Crossable
<1>5. u \in 0..MaxTime /\ known[p].from <= u
  BY <1>2, <1>4, FxAssumption, LatestFacts DEF RequestInv, IsKnown, LatestLeg
<1> HIDE DEF u
<1>6. g \in Reading /\ g.leg = u /\ got' = [got EXCEPT ![p] = g]
  BY <1>1, <1>3, <1>5 DEF Reading
<1>7. g.leg >= known[p].from
  BY <1>2, <1>5, <1>6, OrderFacts
<1> HIDE DEF g
<1> QED BY <1>1, <1>2, <1>6, <1>7, MoveStep

\* The second leg, and the answer at both (fx.service.ts:124-137).
LEMMA ReadCrossStep ==
  ASSUME FxInv, FxInv', ConversionInv, NEW p \in Requests, ReadCross(p)
  PROVE  ConversionInv'
<1> DEFINE t == Latest(ask[p].to)
           s == got[p].leg
           n == RateAt[ask[p].to][t][1]
           d == RateAt[ask[p].to][t][2]
           m == RateAt[ask[p].from][s][1]
           k == RateAt[ask[p].from][s][2]
           R == Convert(ask[p].amount, n * k, d * m, got[p].from, got[p].to.exponent, got[p].to.rule)
           u == 10^got[p].to.exponent
           v == 10^got[p].from
<1>1. /\ pc[p] = "cross" /\ UNCHANGED <<ask, known, got>> /\ UNCHANGED Elsewhere
  BY DEF ReadCross, Elsewhere, Store
<1>2. /\ ask[p].from # ask[p].to /\ Crossable(p) /\ StoreTypeOK /\ RequestInv(p)
      /\ known[p].from \in 0..MaxTime /\ known[p].to \in 0..MaxTime
      /\ s \in 0..MaxTime /\ s >= known[p].from
  BY <1>1, RequestFacts DEF RequestInv, OnPath, FxInv
<1>3. ConversionTypeOK /\ got[p] \in Reading /\ got' = [got EXCEPT ![p] = got[p]]
  BY <1>1 DEF ConversionInv, ConversionTypeOK, Reading
<1>4. ask[p].from \in Quotes /\ ask[p].to \in Quotes /\ ask[p].to # Pivot /\ ask[p].from # Pivot
  BY <1>2, RequestFacts DEF Currencies, Crossable
<1>5. t \in 0..MaxTime /\ known[p].to <= t
  BY <1>2, <1>4, FxAssumption, LatestFacts DEF RequestInv, IsKnown, LatestLeg
<1>5a. t = 0 \/ s = 0 => known[p].to = 0 \/ known[p].from = 0
  <2> HIDE DEF t
  <2> QED BY <1>2, <1>5, TimeBound
<1>6. CASE (t = 0 \/ s = 0) /\ Answer(p, "not found", 0, 0)
  BY <1>1, <1>4, <1>5a, <1>6, NotFoundStep
<1>7. ASSUME t # 0, s # 0, NEW r \in R, Answer(p, "cross", r, t) PROVE ConversionInv'
  <2>1. t \in Times /\ s \in Times
    <3> HIDE DEF t
    <3> QED BY <1>2, <1>5, <1>7, OrderFacts DEF Times
  <2>2. n \in Nat \ {0} /\ d \in Nat \ {0} /\ m \in Nat \ {0} /\ k \in Nat \ {0}
    <3> HIDE DEF t
    <3> QED BY <1>4, <2>1, RateFacts
  <2>3. u \in Nat \ {0} /\ v \in Nat \ {0}
    BY RequestFacts, ExponentFacts
  <2>4. n * k \in Nat \ {0} /\ d * m \in Nat \ {0}
    <3> HIDE DEF n, d, m, k
    <3> QED BY <2>2, Products
  <2>5. /\ r \in Int
        /\ RoundsClosely(r, ask[p].amount * (n * k) * u, (d * m) * v, got[p].to.rule)
    <3> DEFINE a == n * k
               b == d * m
    <3> HIDE DEF a, b
    <3>1. a \in Nat \ {0} /\ b \in Nat \ {0}
      BY <2>4 DEF a, b
    <3>2. r \in Convert(ask[p].amount, a, b, got[p].from, got[p].to.exponent, got[p].to.rule)
      BY DEF a, b
    <3>3. r \in Int /\ RoundsClosely(r, ask[p].amount * a * u, b * v, got[p].to.rule)
      BY <3>1, <3>2, RequestFacts, ConvertIsClose DEF u, v
    <3> QED BY <3>3 DEF a, b
  <2>6. answer'[p].kind = "cross" /\ answer'[p].stamp = t /\ answer'[p].amount = r
    <3> HIDE DEF t, R
    <3> QED BY <1>3, <1>7 DEF Answer, ConversionTypeOK
  <2>7. /\ ExactFraction(p)'[1] = ask[p].amount * n * k * u
        /\ ExactFraction(p)'[2] = d * m * v
    <3>1. answer'[p].kind = "cross" /\ answer'[p].stamp = t
      BY <2>6
    <3>2. ask' = ask /\ got' = got
      BY <1>1
    <3> HIDE DEF t
    <3> QED BY <1>2, <1>4, <3>1, <3>2, Zenon DEF ExactFraction
  <2> HIDE DEF n, d, m, k, R, u, v, t, s
  <2>8. ask[p].amount * n * k * u = ask[p].amount * (n * k) * u /\ d * m * v = (d * m) * v
    BY <2>2, <2>3, RequestFacts
  <2>9. IsClose(p)'
    <3>1. RoundsClosely(r, ExactFraction(p)'[1], ExactFraction(p)'[2], got[p].to.rule)
      BY <2>5, <2>7, <2>8
    <3> QED BY <1>1, <2>6, <3>1 DEF IsClose
  <2>10. IsCurrent(p)' /\ IsUnknown(p)'
    <3>1. t >= known[p].to
      BY <1>2, <1>5, OrderFacts
    <3> QED BY <1>1, <1>2, <2>6, <3>1 DEF IsCurrent, IsUnknown, s
  <2> QED BY <1>1, <1>3, <1>5, <1>7, <2>5, <2>9, <2>10, AnswerStep DEF Kinds
<1>8. Converted(p, n * k, d * m) = R
  BY DEF Converted
<1> QED BY <1>1, <1>6, <1>7, <1>8 DEF ReadCross

LEMMA StepConversion == FxInv /\ ConversionInv /\ [Next]_vars => ConversionInv'
<1> SUFFICES ASSUME FxInv, ConversionInv, [Next]_vars PROVE ConversionInv'
  OBVIOUS
<1>1. FxInv'
  BY StepFx
<1>2. StoreTypeOK /\ ConversionTypeOK /\ StillSeed /\ upserts \in Nat
  BY PartsOfConversionInv DEF FxInv, ConversionTypeOK
<1>3. ASSUME Publish \/ (\E q \in Quotes : Expire(q)) \/ UNCHANGED vars PROVE ConversionInv'
  <2>1. UNCHANGED <<stored, config, conversion, upserts, overlapped>>
    BY <1>3 DEF Publish, Expire, vars
  <2> QED BY <1>1, <1>2, <2>1, OthersStep DEF StoreGrows, ConversionTypeOK, StillSeed
<1>4. ASSUME NEW c \in Currencies, Upsert(c) PROVE ConversionInv'
  <2>1. UNCHANGED <<stored, conversion, overlapped>> /\ upserts' = upserts + 1
    BY <1>4 DEF Upsert
  <2>2. config' \in [Currencies -> Configs]
    BY <1>2, <1>4 DEF Upsert, ConversionTypeOK
  <2>3. upserts' \in Nat /\ upserts' # 0
    BY <1>2, <2>1
  <2> QED BY <1>1, <2>1, <2>2, <2>3, OthersStep DEF StoreGrows, StillSeed
<1>5. ASSUME NEW r \in Refreshers, StartRefresh(r) \/ Refresh(r) \/ RefreshFails(r)
      PROVE  ConversionInv'
  <2>1. UNCHANGED <<config, conversion, upserts>> /\ (overlapped => overlapped')
    <3>1. CASE StartRefresh(r)
      BY <3>1 DEF StartRefresh
    <3>2. CASE Refresh(r)
      BY <3>2 DEF Refresh, Fetch, InsertAll, CacheOne
    <3>3. CASE RefreshFails(r)
      BY <3>3 DEF RefreshFails
    <3> QED BY <1>5, <3>1, <3>2, <3>3
  <2>2. StoreGrows
    <3>1. CASE StartRefresh(r) \/ Fetch(r) \/ CacheOne(r)
      BY <3>1 DEF StoreGrows, StartRefresh, Fetch, CacheOne
    <3>2. CASE InsertAll(r)
      BY <3>2 DEF StoreGrows, InsertAll
    <3>3. CASE RefreshFails(r)
      BY <3>3 DEF StoreGrows, RefreshFails
    <3> QED BY <1>5, <3>1, <3>2, <3>3 DEF Refresh
  <2> QED BY <1>1, <1>2, <2>1, <2>2, OthersStep DEF ConversionTypeOK, StillSeed
<1>6. ASSUME NEW p \in Requests, Ask(p) \/ Serve(p) PROVE ConversionInv'
  BY <1>1, <1>6, AskStep, ReadFromStep, ReadToStep, ReadCacheStep, ReadStoreStep, ReadLegStep,
     ReadCrossStep DEF Serve
<1> QED BY <1>3, <1>4, <1>5, <1>6 DEF Next

\* What holds of conversions, for any currencies, rates, amounts and configurations and
\* however refreshes and changes of rules fall between their reads (fx.service.ts:70-138).
THEOREM ConversionInvariant == Spec => []ConversionInv
<1>1. Init => FxInv /\ ConversionInv
  BY InitFx, InitConversion
<1>2. FxInv /\ ConversionInv /\ [Next]_vars => (FxInv /\ ConversionInv)'
  BY StepFx, StepConversion
<1> QED BY <1>1, <1>2, PTL DEF Spec

\* No conversion is made at a rate older than what was stored when it came
\* (fx.service.ts:86-107).
THEOREM RatesAreCurrent == Spec => []NoOldRate
<1>1. ConversionInv => NoOldRate
  BY DEF ConversionInv
<1> QED BY <1>1, ConversionInvariant, PTL

\* A rate that was stored when the conversion came is found (fx.service.ts:89-138).
THEOREM NotFoundMeansUnknown == Spec => []NotFoundIsUnknown
<1>1. ConversionInv => NotFoundIsUnknown
  BY DEF ConversionInv
<1> QED BY <1>1, ConversionInvariant, PTL

\* Every amount answered is the conversion at the rates and configurations read, to the
\* nearest unit, or down by less than two (money.ts:74-117, convert.service.ts:33-43).
THEOREM ConversionsAreClose == Spec => []ConvertedClosely
<1>1. ConversionInv => ConvertedClosely
  BY DEF ConversionInv
<1> QED BY <1>1, ConversionInvariant, PTL

-----------------------------------------------------------------------------
(* Surge: the arithmetic of a multiplier.                                   *)

LEMMA SurgeFacts ==
  /\ One \in Nat \ {0} /\ Step \in Nat \ {0} /\ MaxChange \in Nat \ {0} /\ Den \in Nat \ {0}
  /\ Cap \in Nat /\ One <= Cap /\ Num \in 0..Den /\ Dwell \in Nat
  /\ Demands \subseteq [Predicted -> Nat] /\ Manuals \subseteq Int /\ Predicted \subseteq Hexes
  /\ None \notin Manuals /\ None \notin Hexes /\ None \notin States /\ None \notin Rows
BY SurgeAssumption

LEMMA Cancel ==
  ASSUME NEW d \in Nat \ {0}, NEW x \in Int, NEW y \in Int, d * x <= d * y
  PROVE  x <= y
<1> SUFFICES ASSUME x - y >= 1 PROVE FALSE
  OBVIOUS
<1>1. d * (x - y) >= d
  OBVIOUS
<1>2. d * (x - y) = d * x - d * y /\ d * x \in Int /\ d * y \in Int
  OBVIOUS
<1> QED BY <1>1, <1>2

LEMMA HalfEvenIsNear ==
  ASSUME NEW n \in Int, NEW d \in Nat \ {0}
  PROVE  /\ HalfEven(n, d) \in Int
         /\ 2 * (n - HalfEven(n, d) * d) <= d
         /\ 2 * (HalfEven(n, d) * d - n) <= d
<1> DEFINE k == HalfEven(n, d)
<1>1. k \in Int /\ Nearest(k, n, d)
  BY HalfEvenRoundsWell DEF RoundsWell
<1>2. k * d \in Int
  BY <1>1
<1> HIDE DEF k
<1>3. 2 * (n - k * d) <= d /\ 2 * (k * d - n) <= d
  BY <1>1, <1>2 DEF Nearest, Magnitude
<1> QED BY <1>1, <1>3 DEF k

\* round_to_step() moves a value by half a step at most (surge_engine.py:55-56).
LEMMA RoundToStepIsNear ==
  ASSUME NEW n \in Int, NEW d \in Nat \ {0}
  PROVE  /\ RoundToStep(n, d) \in Int
         /\ 2 * n <= 2 * (d * RoundToStep(n, d)) + d * Step
         /\ 2 * (d * RoundToStep(n, d)) <= 2 * n + d * Step
<1> DEFINE e == d * Step
           k == HalfEven(n, e)
<1>1. e \in Nat \ {0}
  BY SurgeFacts, Products
<1>2. k \in Int /\ 2 * (n - k * e) <= e /\ 2 * (k * e - n) <= e
  <2> HIDE DEF e
  <2> QED BY <1>1, HalfEvenIsNear
<1>3. RoundToStep(n, d) = Step * k
  BY DEF RoundToStep
<1> HIDE DEF k
<1>4. k * e = d * (Step * k) /\ Step * k \in Int /\ k * e \in Int
  BY <1>2, SurgeFacts
<1> HIDE DEF e
<1>5. 2 * n <= 2 * (k * e) + e /\ 2 * (k * e) <= 2 * n + e
  BY <1>1, <1>2, <1>4
<1> QED BY <1>3, <1>4, <1>5 DEF e

\* The anti-shock limit and the rounding together.
LEMMA LimitedIsNear ==
  ASSUME NEW n \in Int, NEW old \in Int,
         Den * (old - MaxChange) <= n, n <= Den * (old + MaxChange)
  PROVE  RoundToStep(n, Den) \in Int /\ Near(RoundToStep(n, Den), old)
<1> DEFINE r == RoundToStep(n, Den)
<1>1. /\ r \in Int
      /\ 2 * n <= 2 * (Den * r) + Den * Step
      /\ 2 * (Den * r) <= 2 * n + Den * Step
  BY SurgeFacts, RoundToStepIsNear
<1> HIDE DEF r
<1>2. /\ Den * (2 * (r - old)) = 2 * (Den * r) - 2 * (Den * old)
      /\ Den * (2 * (old - r)) = 2 * (Den * old) - 2 * (Den * r)
      /\ Den * (2 * MaxChange + Step) = 2 * (Den * MaxChange) + Den * Step
      /\ Den * (old - MaxChange) = Den * old - Den * MaxChange
      /\ Den * (old + MaxChange) = Den * old + Den * MaxChange
      /\ Den * r \in Int /\ Den * old \in Int /\ Den * MaxChange \in Int /\ Den * Step \in Int
  BY <1>1, SurgeFacts
<1>3. /\ Den * (2 * (r - old)) <= Den * (2 * MaxChange + Step)
      /\ Den * (2 * (old - r)) <= Den * (2 * MaxChange + Step)
  BY <1>1, <1>2
<1>4. 2 * (r - old) <= 2 * MaxChange + Step /\ 2 * (old - r) <= 2 * MaxChange + Step
  <2>1. 2 * (r - old) \in Int /\ 2 * (old - r) \in Int /\ 2 * MaxChange + Step \in Int
    BY <1>1, SurgeFacts
  <2> QED BY <1>3, <2>1, SurgeFacts, Cancel
<1>5. Near(r, old)
  BY <1>1, <1>4, SurgeFacts DEF Near, Magnitude
<1> QED BY <1>1, <1>5 DEF r

LEMMA ClampFacts ==
  ASSUME NEW x \in Int, NEW low \in Int, NEW high \in Int, low <= high
  PROVE  /\ Clamp(x, low, high) \in low..high
         /\ Clamp(x, low, high) \in Int
BY DEF Clamp

\* Cutting to the range takes no multiplier further from one that is within the cap.
LEMMA ClampStaysNear ==
  ASSUME NEW x \in Int, NEW old \in Int, Near(x, old), WithinCap(old)
  PROVE  Near(Clamp(x, One, Cap), old)
BY SurgeFacts DEF Near, Magnitude, WithinCap, Clamp

LEMMA InRangeIsWithinCap ==
  ASSUME NEW x \in One..Cap
  PROVE  x \in Int /\ WithinCap(x)
BY SurgeFacts DEF WithinCap

LEMMA RawIsInt ==
  ASSUME NEW predicted \in Nat, NEW drivers \in Nat
  PROVE  Raw(predicted, drivers) \in Int
<1> DEFINE supply == IF drivers < 1 THEN 1 ELSE drivers
           q == (One * (predicted - supply)) \div (2 * supply)
<1>1. supply \in Nat \ {0}
  OBVIOUS
<1> HIDE DEF supply
<1>2. One * (predicted - supply) \in Int /\ 2 * supply \in Int /\ 2 * supply > 0
  BY <1>1, SurgeFacts
<1>3. q \in Int
  BY <1>2, Division
<1> HIDE DEF q
<1>4. Raw(predicted, drivers) = IF predicted <= supply THEN One ELSE Clamp(One + q, One, Cap)
  BY DEF Raw, supply, q
<1>5. One + q \in Int
  BY <1>3, SurgeFacts
<1> QED BY <1>4, <1>5, SurgeFacts DEF Clamp

\* What is known of a decision, from the copy in Redis it starts from (surge_engine.py:70-134).
Decisions == [mult : Int, ewma : Int, age : 0..Dwell, reason : Reasons]
GoodDecision(d, prior) ==
  /\ d \in Decisions
  /\ WithinCap(d.mult)
  /\ d.reason = "computed" => d.mult \in One..Cap
  /\ prior # None /\ d.reason \notin Overridden => Near(d.mult, prior.mult)

LEMMA PublishedIsGood ==
  ASSUME NEW mult \in Int, NEW ewma \in Int, NEW prior \in States \cup {None}, NEW reason \in Reasons,
         WithinCap(mult), reason = "computed" => mult \in One..Cap,
         prior # None /\ reason \notin Overridden => Near(mult, prior.mult)
  PROVE  GoodDecision(Published(mult, ewma, prior, reason), prior)
<1> DEFINE d == Published(mult, ewma, prior, reason)
<1>1. prior # None => prior.age \in 0..Dwell
  BY DEF States
<1>2. (IF prior = None \/ mult # prior.mult THEN 0 ELSE prior.age) \in 0..Dwell
  BY <1>1, SurgeFacts
<1>3. d \in Decisions /\ d.mult = mult /\ d.reason = reason
  BY <1>2 DEF Published, Decisions
<1> HIDE DEF d
<1>4. GoodDecision(d, prior)
  BY <1>3 DEF GoodDecision
<1> QED BY <1>4 DEF d

LEMMA DecideIsGood ==
  ASSUME NEW saw \in [kill : BOOLEAN, manual : Manuals \cup {None}, drivers : Nat],
         NEW raw \in Int, NEW prior \in States \cup {None},
         prior # None => WithinCap(prior.mult)
  PROVE  GoodDecision(Decide(saw, raw, prior), prior)
<1> DEFINE s == Smoothed(raw, prior)
           n == Limited(s, prior)
           f == Final(n)
           c == Clamp(saw.manual, One, Cap)
<1>1. prior # None => prior.mult \in Int /\ prior.ewma \in Int
  BY DEF States
<1>2. s \in Int
  <2>1. (IF prior = None THEN One ELSE prior.ewma) \in Int
    BY <1>1, SurgeFacts
  <2>2. Num \in Int /\ Den - Num \in Int
    BY SurgeFacts
  <2>3. Num * raw \in Int
    BY <2>2
  <2>4. \A x \in Int : (Den - Num) * x \in Int
    BY <2>2
  <2> QED BY <2>1, <2>3, <2>4 DEF Smoothed
<1> HIDE DEF s
<1>3. /\ n \in Int
      /\ prior # None => /\ Den * (prior.mult - MaxChange) <= n
                         /\ n <= Den * (prior.mult + MaxChange)
  <2>1. CASE prior = None
    BY <1>2, <2>1 DEF Limited
  <2>2. CASE prior # None
    <3> DEFINE low == Den * (prior.mult - MaxChange)
               high == Den * (prior.mult + MaxChange)
    <3>1. low \in Int /\ high \in Int /\ low <= high
      <4>1. /\ low = Den * prior.mult - Den * MaxChange
            /\ high = Den * prior.mult + Den * MaxChange
            /\ Den * prior.mult \in Int /\ Den * MaxChange \in Nat
        BY <1>1, <2>2, SurgeFacts
      <4> QED BY <4>1
    <3>2. n = Clamp(s, low, high)
      BY <2>2 DEF Limited
    <3> HIDE DEF low, high, n
    <3>3. n \in low..high /\ n \in Int
      BY <1>2, <3>1, <3>2, ClampFacts
    <3> QED BY <3>1, <3>3 DEF low, high
  <2> QED BY <2>1, <2>2
<1> HIDE DEF n
<1>4. /\ RoundToStep(n, Den) \in Int
      /\ prior # None => Near(RoundToStep(n, Den), prior.mult)
  BY <1>1, <1>3, SurgeFacts, RoundToStepIsNear, LimitedIsNear
<1>5. f \in One..Cap /\ (prior # None => Near(f, prior.mult))
  <2> DEFINE r == RoundToStep(n, Den)
  <2>1. f = Clamp(r, One, Cap)
    BY DEF Final
  <2>2. r \in Int /\ (prior # None => Near(r, prior.mult))
    BY <1>4
  <2> HIDE DEF r, f
  <2>3. f \in One..Cap
    BY <2>1, <2>2, SurgeFacts, ClampFacts
  <2>4. prior # None => Near(f, prior.mult)
    BY <1>1, <2>1, <2>2, ClampStaysNear
  <2> QED BY <2>3, <2>4
<1> HIDE DEF f
<1>6. HalfEven(n, Den) \in Int
  BY <1>3, SurgeFacts, HalfEvenIsNear
<1>7. CASE Reason(saw) = "kill_switch"
  <2>1. Decide(saw, raw, prior) = Published(One, One, prior, "kill_switch")
    BY <1>7 DEF Decide
  <2>2. One \in One..Cap /\ One \in Int /\ WithinCap(One)
    BY SurgeFacts, InRangeIsWithinCap
  <2>3. "kill_switch" \in Reasons /\ "kill_switch" \in Overridden
    BY DEF Reasons, Overridden
  <2> QED BY <2>1, <2>2, <2>3, PublishedIsGood
<1>8. CASE Reason(saw) = "manual_override"
  <2>1. Decide(saw, raw, prior) = Published(RoundToStep(c, 1), c, prior, "manual_override")
    BY <1>8 DEF Decide
  <2>2. saw.manual \in Int
    BY <1>8, SurgeFacts DEF Reason
  <2>3. c \in One..Cap /\ c \in Int
    <3> DEFINE m == saw.manual
    <3>1. m \in Int
      BY <2>2
    <3> HIDE DEF m
    <3>2. Clamp(m, One, Cap) \in One..Cap /\ Clamp(m, One, Cap) \in Int
      <4>1. One \in Int /\ Cap \in Int /\ One <= Cap
        BY SurgeFacts
      <4> QED BY <3>1, <4>1, ClampFacts
    <3> QED BY <3>2 DEF m
  <2> HIDE DEF c
  <2>4. /\ RoundToStep(c, 1) \in Int
        /\ 2 * c <= 2 * (1 * RoundToStep(c, 1)) + 1 * Step
        /\ 2 * (1 * RoundToStep(c, 1)) <= 2 * c + 1 * Step
    BY <2>3, RoundToStepIsNear
  <2>5. WithinCap(RoundToStep(c, 1))
    BY <2>3, <2>4, SurgeFacts DEF WithinCap
  <2>6. "manual_override" \in Reasons /\ "manual_override" \in Overridden
    BY DEF Reasons, Overridden
  <2> QED BY <2>1, <2>3, <2>4, <2>5, <2>6, PublishedIsGood
<1>9. CASE Reason(saw) = "computed"
  <2>1. CASE Held(f, prior)
    <3>1. Decide(saw, raw, prior) = Published(prior.mult, HalfEven(n, Den), prior, "dwell_hold")
      BY <1>9, <2>1 DEF Decide, n, s, f
    <3>2. prior # None /\ WithinCap(prior.mult) /\ prior.mult \in Int
      BY <1>1, <2>1 DEF Held
    <3>3. Near(prior.mult, prior.mult)
      BY <3>2, SurgeFacts DEF Near, Magnitude
    <3>4. "dwell_hold" \in Reasons
      BY DEF Reasons
    <3> QED BY <1>6, <3>1, <3>2, <3>3, <3>4, PublishedIsGood
  <2>2. CASE ~ Held(f, prior)
    <3>1. Decide(saw, raw, prior) = Published(f, HalfEven(n, Den), prior, "computed")
      BY <1>9, <2>2 DEF Decide, n, s, f
    <3>2. "computed" \in Reasons
      BY DEF Reasons
    <3>3. f \in Int /\ WithinCap(f)
      BY <1>5, InRangeIsWithinCap
    <3> QED BY <1>5, <1>6, <3>1, <3>2, <3>3, PublishedIsGood
  <2> QED BY <2>1, <2>2
<1> QED BY <1>7, <1>8, <1>9 DEF Reason

-----------------------------------------------------------------------------
(* Surge: the cycle, the two stores and the administrators.                 *)

LEMMA RecordIsSome ==
  /\ \A s \in States : s # None
  /\ \A r \in Rows : r # None
BY SurgeFacts

LEMMA SurgeInitInv == SurgeInit => SurgeInv
<1> SUFFICES ASSUME SurgeInit PROVE SurgeInv
  OBVIOUS
<1> USE DEF SurgeInit
<1>1. NoDoc \in Docs /\ NoCall \in Calls
  <2>1. NoDoc \in Docs
    BY DEF NoDoc, Docs
  <2> QED BY <2>1 DEF NoCall, Calls
<1>2. NoDecision \in [mult : Int, ewma : Int, age : 0..Dwell, reason : Reasons]
  BY SurgeFacts DEF NoDecision, Reasons
<1>3. NothingSeen \in [kill : BOOLEAN, manual : Manuals \cup {None}, drivers : Nat]
  BY DEF NothingSeen
<1>4. TypeOK
  BY <1>1, <1>2, <1>3 DEF TypeOK
<1>5. CapHolds
  BY DEF CapHolds
<1>6. DecisionInv
  BY DEF DecisionInv
<1>7. KillsKept /\ CallInv
  BY DEF KillsKept, CallInv, NoCall
<1> QED BY <1>4, <1>5, <1>6, <1>7 DEF SurgeInv

\* What the stores and the decision say only of multipliers.
StoreVars == <<hot, row, phase, hex, decision, missed>>

LEMMA StoresStay ==
  ASSUME CapHolds, DecisionInv, UNCHANGED StoreVars PROVE CapHolds' /\ DecisionInv'
BY DEF CapHolds, DecisionInv, StoreVars

LEMMA AdminsStay ==
  ASSUME KillsKept, CallInv, UNCHANGED <<doc, call, raced, acked>> PROVE KillsKept' /\ CallInv'
BY DEF KillsKept, CallInv

\* Administrators and the expiry of their document.
LEMMA AdminReadsStep == ASSUME SurgeInv, NEW a \in Admins, AdminReads(a) PROVE SurgeInv'
<1>1. PICK h \in Hexes \cup {None}, m \in Manuals \cup {None} :
        call' = [call EXCEPT ![a] = [at |-> "write", hex |-> h, multiplier |-> m, read |-> doc]]
  BY DEF AdminReads
<1>2. TypeOK /\ call[a].at = "idle"
  BY DEF SurgeInv, AdminReads
<1>3. [at |-> "write", hex |-> h, multiplier |-> m, read |-> doc] \in Calls
  BY <1>2 DEF TypeOK, Calls
<1>4. TypeOK'
  BY <1>1, <1>2, <1>3 DEF TypeOK, AdminReads, cycle
<1>5. CapHolds' /\ DecisionInv'
  BY StoresStay DEF SurgeInv, AdminReads, cycle, StoreVars
<1>6. KillsKept'
  BY DEF SurgeInv, KillsKept, AdminReads
<1>7. CallInv'
  <2> SUFFICES ASSUME ~ raced' PROVE CallInv'
    BY DEF CallInv
  <2>1. ~ raced /\ \A b \in Admins : call[b].at = "idle"
    BY DEF AdminReads
  <2>2. acked \subseteq doc.hexes /\ acked' = acked
    BY <2>1 DEF SurgeInv, KillsKept, AdminReads
  <2>3. \A b \in Admins : b # a => call'[b].at = "idle"
    BY <1>1, <1>2, <2>1 DEF TypeOK
  <2>4. call'[a].read = doc
    BY <1>1, <1>2 DEF TypeOK
  <2> QED BY <2>2, <2>3, <2>4 DEF CallInv
<1> QED BY <1>4, <1>5, <1>6, <1>7 DEF SurgeInv

LEMMA ChangedIsDoc ==
  ASSUME NEW c \in Calls
  PROVE  /\ Changed(c) \in Docs
         /\ c.read.hexes \subseteq Changed(c).hexes
         /\ c.hex # None /\ c.multiplier = None => c.hex \in Changed(c).hexes
<1>1. c.read \in Docs /\ c.hex \in Hexes \cup {None} /\ c.multiplier \in Manuals \cup {None}
  BY DEF Calls
<1> DEFINE d == c.read
<1>2. /\ d.all \in BOOLEAN /\ d.hexes \in SUBSET Hexes /\ d.manual \in [Hexes -> Manuals \cup {None}]
      /\ d = [all |-> d.all, hexes |-> d.hexes, manual |-> d.manual]
  BY <1>1 DEF Docs
<1>3. CASE c.hex = None
  BY <1>1, <1>3 DEF Changed, Docs
<1>4. CASE c.hex # None /\ c.multiplier = None
  BY <1>1, <1>4 DEF Changed, Docs
<1>5. CASE c.hex # None /\ c.multiplier # None
  <2>1. Changed(c) = [d EXCEPT !.manual = [d.manual EXCEPT ![c.hex] = c.multiplier]]
    BY <1>5 DEF Changed
  <2>2. [d.manual EXCEPT ![c.hex] = c.multiplier] \in [Hexes -> Manuals \cup {None}]
    BY <1>1, <1>2
  <2> QED BY <1>1, <1>2, <1>5, <2>1, <2>2 DEF Docs
<1> QED BY <1>3, <1>4, <1>5

LEMMA AdminWritesStep == ASSUME SurgeInv, NEW a \in Admins, AdminWrites(a) PROVE SurgeInv'
<1> DEFINE c == call[a]
<1>1. /\ TypeOK /\ c \in Calls /\ c.at = "write" /\ doc' = Changed(c)
      /\ call' = [call EXCEPT ![a] = NoCall]
      /\ acked' = IF c.hex # None /\ c.multiplier = None THEN acked \cup {c.hex} ELSE acked
      /\ UNCHANGED <<demand, requests, raced, hot, row, cycle, shifts, failures, missed>>
  BY DEF SurgeInv, AdminWrites, TypeOK
<1> HIDE DEF c
<1>2. /\ doc' \in Docs /\ c.read.hexes \subseteq doc'.hexes
      /\ c.hex # None /\ c.multiplier = None => c.hex \in doc'.hexes /\ c.hex \in Hexes
  BY <1>1, ChangedIsDoc DEF Calls
<1>3. NoCall \in Calls
  BY DEF NoCall, Calls, NoDoc, Docs
<1>4. TypeOK'
  <2>1. acked' \subseteq Hexes
    BY <1>1, <1>2 DEF TypeOK
  <2>2. call' \in [Admins -> Calls]
    BY <1>1, <1>3 DEF TypeOK
  <2> QED BY <1>1, <1>2, <2>1, <2>2 DEF TypeOK, cycle
<1>5. CapHolds' /\ DecisionInv'
  BY <1>1, StoresStay DEF SurgeInv, cycle, StoreVars
<1>6. ~ raced => /\ \A b \in Admins \ {a} : call[b].at = "idle"
                 /\ acked \subseteq c.read.hexes
  BY <1>1 DEF SurgeInv, CallInv, c
<1>7. KillsKept'
  BY <1>1, <1>2, <1>6 DEF KillsKept
<1>8. CallInv'
  <2>1. ~ raced => \A b \in Admins : call'[b].at = "idle"
    BY <1>1, <1>6 DEF TypeOK, NoCall
  <2> QED BY <1>1, <2>1 DEF CallInv
<1> QED BY <1>4, <1>5, <1>7, <1>8 DEF SurgeInv

LEMMA AdminFailsStep == ASSUME SurgeInv, NEW a \in Admins, AdminFails(a) PROVE SurgeInv'
<1>1. /\ TypeOK /\ call' = [call EXCEPT ![a] = NoCall]
      /\ UNCHANGED <<demand, doc, requests, raced, acked, hot, row, cycle, shifts, missed>>
  BY DEF SurgeInv, AdminFails
<1>2. NoCall \in Calls /\ NoCall.at = "idle"
  BY DEF NoCall, Calls, NoDoc, Docs
<1>3. TypeOK'
  BY <1>1, <1>2 DEF TypeOK, cycle
<1>4. CapHolds' /\ DecisionInv'
  BY <1>1, StoresStay DEF SurgeInv, cycle, StoreVars
<1>5. KillsKept' /\ CallInv'
  BY <1>1, <1>2 DEF SurgeInv, KillsKept, CallInv, TypeOK
<1> QED BY <1>3, <1>4, <1>5 DEF SurgeInv

LEMMA ExpireDocStep == ASSUME SurgeInv, ExpireDoc PROVE SurgeInv'
<1>1. NoDoc \in Docs
  BY DEF NoDoc, Docs
<1>2. TypeOK'
  BY <1>1 DEF SurgeInv, TypeOK, ExpireDoc, cycle
<1>3. CapHolds' /\ DecisionInv'
  BY StoresStay DEF SurgeInv, ExpireDoc, cycle, StoreVars
<1>4. KillsKept' /\ CallInv'
  BY DEF SurgeInv, KillsKept, CallInv, ExpireDoc
<1> QED BY <1>2, <1>3, <1>4 DEF SurgeInv

\* The predictions, the clock and the reads of the cycle.
LEMMA PredictStep == ASSUME SurgeInv, Predict PROVE SurgeInv'
<1>1. TypeOK'
  BY DEF SurgeInv, TypeOK, Predict, admin, cycle
<1>2. CapHolds' /\ DecisionInv'
  BY StoresStay DEF SurgeInv, Predict, cycle, StoreVars
<1>3. KillsKept' /\ CallInv'
  BY AdminsStay DEF SurgeInv, Predict, admin
<1> QED BY <1>1, <1>2, <1>3 DEF SurgeInv

\* Time changes neither a multiplier nor its moving average.
LEMMA OlderFacts ==
  /\ \A s \in States : Older(s) \in States /\ Older(s).mult = s.mult
  /\ \A d \in Decisions : /\ Older(d) \in Decisions
                          /\ Older(d).mult = d.mult /\ Older(d).reason = d.reason
BY SurgeFacts DEF Older, States, Decisions

LEMMA TickStep == ASSUME SurgeInv, Tick PROVE SurgeInv'
<1>1. /\ hot' = [h \in Hexes |-> IF hot[h] = None THEN None ELSE Older(hot[h])]
      /\ decision' = IF phase = "set" THEN Older(decision) ELSE decision
      /\ UNCHANGED <<demand, admin, row, phase, left, hex, seen, shifts, failures, missed>>
  BY DEF Tick
<1>2. /\ TypeOK /\ hot \in [Hexes -> States \cup {None}] /\ decision \in Decisions
  BY DEF SurgeInv, TypeOK, Decisions
<1>3. \A h \in Hexes : /\ hot'[h] \in States \cup {None}
                       /\ hot'[h] = None <=> hot[h] = None
                       /\ hot[h] # None => hot'[h].mult = hot[h].mult
  BY <1>1, <1>2, OlderFacts, RecordIsSome
<1>4. /\ decision' \in Decisions /\ decision'.mult = decision.mult
      /\ decision'.reason = decision.reason
  BY <1>1, <1>2, OlderFacts
<1>5. TypeOK'
  <2>1. hot' \in [Hexes -> States \cup {None}]
    BY <1>1, <1>3
  <2>2. decision' \in [mult : Int, ewma : Int, age : 0..Dwell, reason : Reasons]
    BY <1>4 DEF Decisions
  <2> QED BY <1>1, <1>2, <2>1, <2>2 DEF TypeOK, admin
<1>6. CapHolds'
  BY <1>1, <1>3 DEF SurgeInv, CapHolds
<1>7. DecisionInv'
  <2>1. phase \in {"set", "insert"} => hex \in Hexes
    BY <1>2, SurgeFacts DEF TypeOK
  <2> QED BY <1>1, <1>2, <1>3, <1>4, <2>1 DEF SurgeInv, DecisionInv, TypeOK
<1>8. KillsKept' /\ CallInv'
  BY <1>1, AdminsStay DEF SurgeInv, admin
<1> QED BY <1>5, <1>6, <1>7, <1>8 DEF SurgeInv

LEMMA StartCycleStep == ASSUME SurgeInv, StartCycle PROVE SurgeInv'
<1>1. TypeOK'
  BY DEF SurgeInv, TypeOK, StartCycle, admin
<1>2. CapHolds' /\ DecisionInv'
  BY DEF SurgeInv, CapHolds, DecisionInv, StartCycle
<1>3. KillsKept' /\ CallInv'
  BY AdminsStay DEF SurgeInv, StartCycle, admin
<1> QED BY <1>1, <1>2, <1>3 DEF SurgeInv

LEMMA EndCycleStep == ASSUME SurgeInv, EndCycle PROVE SurgeInv'
<1>1. TypeOK'
  BY DEF SurgeInv, TypeOK, EndCycle, admin
<1>2. CapHolds' /\ DecisionInv'
  BY DEF SurgeInv, CapHolds, DecisionInv, EndCycle
<1>3. KillsKept' /\ CallInv'
  BY AdminsStay DEF SurgeInv, EndCycle, admin
<1> QED BY <1>1, <1>2, <1>3 DEF SurgeInv

LEMMA ReadOverridesStep == ASSUME SurgeInv, ReadOverrides PROVE SurgeInv'
<1>1. PICK h \in left :
        /\ hex' = h
        /\ left' = left \ {h}
        /\ seen' = [kill |-> Killed(h), manual |-> doc.manual[h], drivers |-> 0]
  BY DEF ReadOverrides
<1>2. /\ phase = "next" /\ phase' = "drivers"
      /\ UNCHANGED <<demand, admin, hot, row, decision, shifts, failures, missed>>
  BY DEF ReadOverrides
<1>3. TypeOK /\ h \in Predicted /\ h \in Hexes
  BY SurgeFacts DEF SurgeInv, TypeOK
<1>4. doc.manual[h] \in Manuals \cup {None} /\ Killed(h) \in BOOLEAN
  BY <1>3 DEF TypeOK, Docs, Killed
<1>5. TypeOK'
  BY <1>1, <1>2, <1>3, <1>4 DEF TypeOK, admin
<1>6. CapHolds' /\ DecisionInv'
  BY <1>2 DEF SurgeInv, CapHolds, DecisionInv
<1>7. KillsKept' /\ CallInv'
  BY <1>2, AdminsStay DEF SurgeInv, admin
<1> QED BY <1>5, <1>6, <1>7 DEF SurgeInv

LEMMA CountDriversStep == ASSUME SurgeInv, CountDrivers PROVE SurgeInv'
<1>1. /\ phase = "drivers" /\ phase' = "prior" /\ TypeOK /\ hex \in Predicted
      /\ UNCHANGED <<demand, admin, hot, row, left, hex, decision, shifts, failures, missed>>
  BY DEF SurgeInv, TypeOK, CountDrivers
<1>2. Counted \in Nat
  BY DEF Counted
<1>3. seen' \in [kill : BOOLEAN, manual : Manuals \cup {None}, drivers : Nat]
  BY <1>1, <1>2 DEF TypeOK, CountDrivers
<1>4. TypeOK'
  BY <1>1, <1>3 DEF TypeOK, admin
<1>5. CapHolds' /\ DecisionInv'
  BY <1>1 DEF SurgeInv, CapHolds, DecisionInv
<1>6. KillsKept' /\ CallInv'
  BY <1>1, AdminsStay DEF SurgeInv, admin
<1> QED BY <1>4, <1>5, <1>6 DEF SurgeInv

\* A decision is good for the copy in Redis it was made from.
LEMMA ReadPriorStep == ASSUME SurgeInv, ReadPrior PROVE SurgeInv'
<1>1. /\ phase = "prior" /\ phase' = "set" /\ TypeOK /\ hex \in Predicted /\ hex \in Hexes
      /\ decision' = Decide(seen, Raw(demand[hex], seen.drivers), hot[hex])
      /\ UNCHANGED <<demand, admin, hot, row, left, hex, seen, shifts, failures, missed>>
  BY SurgeFacts DEF SurgeInv, TypeOK, ReadPrior
<1>2. /\ demand[hex] \in Nat /\ seen.drivers \in Nat
      /\ seen \in [kill : BOOLEAN, manual : Manuals \cup {None}, drivers : Nat]
      /\ hot[hex] \in States \cup {None}
      /\ hot[hex] # None => WithinCap(hot[hex].mult)
  BY <1>1, SurgeFacts DEF TypeOK, SurgeInv, CapHolds
<1>3. Raw(demand[hex], seen.drivers) \in Int
  BY <1>2, RawIsInt
<1>4. GoodDecision(decision', hot[hex])
  BY <1>1, <1>2, <1>3, DecideIsGood
<1>5. TypeOK'
  BY <1>1, <1>4 DEF TypeOK, admin, GoodDecision, Decisions
<1>6. CapHolds' /\ DecisionInv'
  BY <1>1, <1>4 DEF SurgeInv, CapHolds, DecisionInv, GoodDecision
<1>7. KillsKept' /\ CallInv'
  BY <1>1, AdminsStay DEF SurgeInv, admin
<1> QED BY <1>5, <1>6, <1>7 DEF SurgeInv

\* Redis receives the decision first.
LEMMA StoredFacts ==
  ASSUME TypeOK, phase = "set"
  PROVE  /\ Stored \in [Hexes -> States \cup {None}]
         /\ hex \in Predicted /\ hex \in Hexes
         /\ Stored[hex] # None /\ Stored[hex].mult = decision.mult
         /\ \A h \in Hexes \ {hex} : Stored[h] = hot[h]
<1> DEFINE s == [mult |-> decision.mult, ewma |-> decision.ewma, age |-> decision.age]
<1>1. s \in States /\ s # None /\ s.mult = decision.mult
  BY RecordIsSome DEF TypeOK, States
<1>2. hex \in Predicted /\ hex \in Hexes
  BY SurgeFacts DEF TypeOK
<1>3. Stored = [hot EXCEPT ![hex] = s]
  BY DEF Stored
<1> HIDE DEF s
<1> QED BY <1>1, <1>2, <1>3 DEF TypeOK

LEMMA SetStateStep == ASSUME SurgeInv, SetState PROVE SurgeInv'
<1>1. /\ phase = "set" /\ phase' = "insert" /\ hot' = Stored /\ TypeOK
      /\ UNCHANGED <<demand, admin, row, left, hex, seen, decision, shifts, failures, missed>>
  BY DEF SurgeInv, SetState
<1>2. /\ hot' \in [Hexes -> States \cup {None}]
      /\ hex \in Predicted /\ hex \in Hexes
      /\ hot'[hex] # None /\ hot'[hex].mult = decision.mult
      /\ \A h \in Hexes \ {hex} : hot'[h] = hot[h]
  BY <1>1, StoredFacts
<1>3. TypeOK'
  BY <1>1, <1>2 DEF TypeOK, admin
<1>4. CapHolds'
  <2>1. WithinCap(decision.mult)
    BY <1>1 DEF SurgeInv, DecisionInv
  <2> QED BY <1>1, <1>2, <2>1 DEF SurgeInv, CapHolds
<1>5. DecisionInv'
  <2>1. row[hex] # None /\ hex \notin missed /\ decision.reason \notin Overridden =>
          Near(decision.mult, row[hex].mult)
    BY <1>1, <1>2 DEF SurgeInv, DecisionInv
  <2>2. \A h \in Hexes \ missed : h # hex => /\ row[h] = None <=> hot'[h] = None
                                             /\ row[h] # None => row[h].mult = hot'[h].mult
    BY <1>1, <1>2 DEF SurgeInv, DecisionInv
  <2>3. /\ WithinCap(decision.mult)
        /\ decision.reason = "computed" => decision.mult \in One..Cap
    BY <1>1 DEF SurgeInv, DecisionInv
  <2> QED BY <1>1, <1>2, <2>1, <2>2, <2>3 DEF DecisionInv
<1>6. KillsKept' /\ CallInv'
  BY <1>1, AdminsStay DEF SurgeInv, admin
<1> QED BY <1>3, <1>4, <1>5, <1>6 DEF SurgeInv

\* What InsertRow and a failure leave of the cycle.
LEMMA RestIsTyped ==
  /\ NoDecision \in [mult : Int, ewma : Int, age : 0..Dwell, reason : Reasons]
  /\ NothingSeen \in [kill : BOOLEAN, manual : Manuals \cup {None}, drivers : Nat]
BY SurgeFacts DEF NoDecision, NothingSeen, Reasons

LEMMA InsertRowStep == ASSUME SurgeInv, InsertRow PROVE SurgeInv'
<1> DEFINE r == [mult |-> decision.mult, reason |-> decision.reason]
<1>1. /\ phase = "insert" /\ phase' = "next" /\ TypeOK /\ hex' = None
      /\ row' = [row EXCEPT ![hex] = r] /\ missed' = missed \ {hex}
      /\ seen' = NothingSeen /\ decision' = NoDecision
      /\ UNCHANGED <<demand, admin, hot, left, shifts, failures>>
  BY DEF SurgeInv, InsertRow
<1>2. /\ r \in Rows /\ r # None /\ r.mult = decision.mult /\ r.reason = decision.reason
      /\ hex \in Predicted /\ hex \in Hexes
  BY <1>1, RecordIsSome, SurgeFacts DEF TypeOK, Rows
<1> HIDE DEF r
<1>3. /\ row' \in [Hexes -> Rows \cup {None}] /\ row'[hex] = r
      /\ \A h \in Hexes \ {hex} : row'[h] = row[h]
  BY <1>1, <1>2 DEF TypeOK
<1>4. TypeOK'
  BY <1>1, <1>3, RestIsTyped DEF TypeOK, admin
<1>5. CapHolds'
  BY <1>1, <1>2, <1>3 DEF SurgeInv, CapHolds, DecisionInv
<1>6. DecisionInv'
  <2>1. hot[hex] # None /\ hot[hex].mult = decision.mult
    BY <1>1 DEF SurgeInv, DecisionInv
  <2>2. \A h \in Hexes \ missed : h # hex => /\ row[h] = None <=> hot[h] = None
                                             /\ row[h] # None => row[h].mult = hot[h].mult
    BY <1>1 DEF SurgeInv, DecisionInv
  <2> QED BY <1>1, <1>2, <1>3, <2>1, <2>2 DEF DecisionInv
<1>7. KillsKept' /\ CallInv'
  BY <1>1, AdminsStay DEF SurgeInv, admin
<1> QED BY <1>4, <1>5, <1>6, <1>7 DEF SurgeInv

\* A row that is lost is remembered as missed.
LEMMA CycleFailsStep == ASSUME SurgeInv, CycleFails PROVE SurgeInv'
<1>1. /\ phase # "idle" /\ phase' = "idle" /\ left' = {} /\ hex' = None /\ TypeOK
      /\ seen' = NothingSeen /\ decision' = NoDecision
      /\ UNCHANGED <<demand, admin, row, shifts>>
  BY DEF SurgeInv, CycleFails
<1>2. KillsKept' /\ CallInv'
  BY <1>1, AdminsStay DEF SurgeInv, admin
<1>3. CASE UNCHANGED hot /\ missed' = IF phase = "insert" THEN missed \cup {hex} ELSE missed
  <2>1. missed' \subseteq Predicted
    BY <1>1, <1>3 DEF TypeOK
  <2>2. TypeOK'
    BY <1>1, <1>3, <2>1, RestIsTyped DEF TypeOK, admin
  <2>3. CapHolds'
    BY <1>1, <1>3 DEF SurgeInv, CapHolds
  <2>4. DecisionInv'
    BY <1>1, <1>3 DEF SurgeInv, DecisionInv
  <2> QED BY <1>2, <2>2, <2>3, <2>4 DEF SurgeInv
<1>4. CASE phase = "set" /\ hot' = Stored /\ missed' = missed \cup {hex}
  <2>1. /\ hot' \in [Hexes -> States \cup {None}]
        /\ hex \in Predicted /\ hex \in Hexes
        /\ hot'[hex] # None /\ hot'[hex].mult = decision.mult
        /\ \A h \in Hexes \ {hex} : hot'[h] = hot[h]
    BY <1>1, <1>4, StoredFacts
  <2>2. TypeOK'
    BY <1>1, <1>4, <2>1, RestIsTyped DEF TypeOK, admin
  <2>3. CapHolds'
    BY <1>1, <1>4, <2>1 DEF SurgeInv, CapHolds, DecisionInv
  <2>4. DecisionInv'
    BY <1>1, <1>4, <2>1 DEF SurgeInv, DecisionInv
  <2> QED BY <1>2, <2>2, <2>3, <2>4 DEF SurgeInv
<1> QED BY <1>3, <1>4 DEF CycleFails

LEMMA SurgeStep == SurgeInv /\ [SurgeNext]_surgeVars => SurgeInv'
<1> SUFFICES ASSUME SurgeInv, [SurgeNext]_surgeVars PROVE SurgeInv'
  OBVIOUS
<1>1. CASE UNCHANGED surgeVars
  <2>1. TypeOK'
    BY <1>1 DEF SurgeInv, TypeOK, surgeVars, admin, cycle
  <2>2. CapHolds' /\ DecisionInv'
    BY <1>1, StoresStay DEF SurgeInv, surgeVars, cycle, StoreVars
  <2>3. KillsKept' /\ CallInv'
    BY <1>1, AdminsStay DEF SurgeInv, surgeVars, admin
  <2> QED BY <2>1, <2>2, <2>3 DEF SurgeInv
<1>2. CASE PredictCycle
  BY <1>2, StartCycleStep, ReadOverridesStep, CountDriversStep, ReadPriorStep, SetStateStep,
     InsertRowStep, EndCycleStep DEF PredictCycle
<1>3. ASSUME NEW a \in Admins, AdminReads(a) \/ AdminWrites(a) \/ AdminFails(a) PROVE SurgeInv'
  BY <1>3, AdminReadsStep, AdminWritesStep, AdminFailsStep
<1> QED BY <1>1, <1>2, <1>3, PredictStep, TickStep, ExpireDocStep, CycleFailsStep DEF SurgeNext

\* Caps, the agreement of Redis and MongoDB and confirmed kills, for any hexagons, demand,
\* administrators and parameters (surge_engine.py:70-134, surge_service.py:53-102).
THEOREM SurgeInvariant == SurgeSpec => []SurgeInv
BY SurgeInitInv, SurgeStep, PTL DEF SurgeSpec

\* What is shown moves by the anti-shock limit and half a step at most
\* (surge_engine.py:113-118, surge_service.py:75-87).
THEOREM ShownStepsAreBounded == SurgeSpec => ShownStepBounded
<1> DEFINE Bounded ==
      \A h \in Hexes :
        row'[h] # row[h] /\ row[h] # None /\ h \notin missed /\ row'[h].reason \notin Overridden =>
           Near(row'[h].mult, row[h].mult)
<1>1. SurgeInv /\ [SurgeNext]_surgeVars => [Bounded]_surgeVars
  <2> SUFFICES ASSUME SurgeInv, SurgeNext PROVE Bounded
    OBVIOUS
  <2>1. CASE UNCHANGED row
    BY <2>1
  <2>2. CASE InsertRow
    <3>1. /\ phase = "insert" /\ TypeOK /\ hex \in Hexes
          /\ row' = [row EXCEPT ![hex] = [mult |-> decision.mult, reason |-> decision.reason]]
      BY <2>2, SurgeFacts DEF InsertRow, SurgeInv, TypeOK
    <3>2. /\ row'[hex].mult = decision.mult /\ row'[hex].reason = decision.reason
          /\ \A h \in Hexes \ {hex} : row'[h] = row[h]
      BY <3>1 DEF TypeOK
    <3>3. row[hex] # None /\ hex \notin missed /\ decision.reason \notin Overridden =>
            Near(decision.mult, row[hex].mult)
      BY <3>1 DEF SurgeInv, DecisionInv
    <3> QED BY <3>2, <3>3
  <2>3. InsertRow \/ UNCHANGED row
    BY DEF SurgeNext, Predict, Tick, ExpireDoc, AdminReads, AdminWrites, AdminFails, PredictCycle,
       StartCycle, ReadOverrides, CountDrivers, ReadPrior, SetState, EndCycle, CycleFails
  <2> QED BY <2>1, <2>2, <2>3
<1> HIDE DEF Bounded
<1>2. SurgeSpec => [][Bounded]_surgeVars
  BY <1>1, SurgeInvariant, PTL DEF SurgeSpec
<1> QED BY <1>2 DEF ShownStepBounded, Bounded

================================================================================
