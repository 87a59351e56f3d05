--------------------------------- MODULE FxRates ---------------------------------
(***************************************************************************)
(* currency-service: rates of a pivot currency are fetched from a provider,*)
(* cached in Redis one by one and stored in MongoDB together; conversions  *)
(* read two currency configurations and a rate, crossed through the pivot  *)
(* if need be (fx.service.ts, fx.scheduler.ts, convert.service.ts,         *)
(* currencies.service.ts, reporting.service.ts).                           *)
(***************************************************************************)
EXTENDS MoneyOps, FiniteSets

CONSTANTS
    Quotes, Pivot,  \* currencies; FX_BASE_CURRENCY
    Order,          \* the quotes in the order of the provider's answer
    MaxTime,        \* bound: timestamps of the provider are 1..MaxTime
    RateAt,         \* the provider's rates: [Quotes -> [1..MaxTime -> <<n, d>>]]
    SEED,           \* configuration each currency starts with
    Configs,        \* configurations an administrator may set: exponent and rule
    Amounts,        \* bound: amounts converted
    Refreshers,     \* refreshes under way: on boot, by cron, by an administrator
    Requests,       \* conversions under way
    MaxFaults,      \* bound: rejected awaits
    MaxUpserts      \* bound: changes of a currency's configuration

Currencies == Quotes \cup {Pivot}
Times == 1..MaxTime

ASSUME FxAssumption ==
    /\ Pivot \notin Quotes /\ IsFiniteSet(Quotes)
    /\ Order \in [1..Cardinality(Quotes) -> Quotes]
    /\ Quotes = {Order[i] : i \in DOMAIN Order}
    /\ MaxTime \in Nat \ {0}
    /\ \A q \in Quotes, t \in Times :
          RateAt[q][t][1] \in Nat \ {0} /\ RateAt[q][t][2] \in Nat \ {0}
    /\ Configs \subseteq [exponent : Nat, rule : Rules]
    /\ SEED \in [Currencies -> Configs]
    /\ Amounts \subseteq Int /\ Amounts # {}
    /\ MaxFaults \in Nat /\ MaxUpserts \in Nat

\* A major unit is a whole number of minor units.
Exponents == {0} \cup {c.exponent : c \in Configs}
ASSUME PowersOfTen == \A e \in Exponents : 10^e \in Nat \ {0}

VARIABLES
    time,        \* the provider's latest timestamp
    cache,       \* Redis: timestamp of fx:<pivot>:<quote>, 0 if absent
    stored,      \* fx_rates: timestamps stored for each quote
    config,      \* currencies: minorUnitExponent and roundingRule
    step,        \* refreshers: the await each one is at
    snap,        \* refreshers: timestamp of the rates fetched
    next,        \* refreshers: position of the next quote to cache
    pc,          \* conversions: the await each one is at
    ask,         \* conversions: what is converted
    got,         \* conversions: what was read so far
    answer,      \* conversions: the last answer
    faults, upserts,
    overlapped,  \* history: whether two refreshes were ever under way together
    known        \* history: the legs' latest stored timestamps when a conversion came

refresh == <<step, snap, next>>
conversion == <<pc, ask, got, answer, known>>
vars == <<time, cache, stored, config, refresh, conversion, faults, upserts, overlapped>>

\* findOne().sort({ rateTimestamp: -1 }), 0 if there is none.  (Mutated: the oldest.)
OldestOf(q) == IF stored[q] = {} THEN 0 ELSE CHOOSE t \in stored[q] : \A u \in stored[q] : t <= u
Latest(q) == IF stored[q] = {} THEN 0 ELSE CHOOSE t \in stored[q] : \A u \in stored[q] : u <= t

LatestLeg(c) == IF c = Pivot THEN 0 ELSE Latest(c)

NoAsk == [from |-> Pivot, to |-> Pivot, amount |-> 0]
Asks == [from : Currencies, to : Currencies, amount : Amounts]
NothingRead == [from |-> 0, to |-> [exponent |-> 0, rule |-> "DOWN"], leg |-> 0]
NoAnswer == [kind |-> "none", amount |-> 0, stamp |-> 0]

Init ==
    /\ time = 1
    /\ cache = [q \in Quotes |-> 0]
    /\ stored = [q \in Quotes |-> {}]
    /\ config = SEED
    /\ step = [r \in Refreshers |-> "idle"]
    /\ snap = [r \in Refreshers |-> 0]
    /\ next = [r \in Refreshers |-> 1]
    /\ pc = [p \in Requests |-> "idle"]
    /\ ask = [p \in Requests |-> NoAsk]
    /\ got = [p \in Requests |-> NothingRead]
    /\ answer = [p \in Requests |-> NoAnswer]
    /\ faults = 0
    /\ upserts = 0
    /\ overlapped = FALSE
    /\ known = [p \in Requests |-> [from |-> 0, to |-> 0]]

-----------------------------------------------------------------------------
(* The provider, the TTL, an administrator's upsert().                      *)

Publish ==
    /\ time < MaxTime
    /\ time' = time + 1
    /\ UNCHANGED <<cache, stored, config, refresh, conversion, faults, upserts, overlapped>>

Expire(q) ==
    /\ cache[q] # 0
    /\ cache' = [cache EXCEPT ![q] = 0]
    /\ UNCHANGED <<time, stored, config, refresh, conversion, faults, upserts, overlapped>>

Upsert(c) ==
    /\ upserts < MaxUpserts
    /\ upserts' = upserts + 1
    /\ \E f \in Configs \ {config[c]} : config' = [config EXCEPT ![c] = f]
    /\ UNCHANGED <<time, cache, stored, refresh, conversion, faults, overlapped>>

-----------------------------------------------------------------------------
(* refreshAll(): nothing keeps two of them apart.                           *)

StartRefresh(r) ==
    /\ step[r] = "idle"
    /\ step' = [step EXCEPT ![r] = "fetch"]
    /\ overlapped' = (overlapped \/ \E o \in Refreshers : step[o] # "idle")
    /\ UNCHANGED <<time, cache, stored, config, snap, next, conversion, faults, upserts>>

Fetch(r) ==
    /\ step[r] = "fetch"
    /\ snap' = [snap EXCEPT ![r] = time]
    /\ next' = [next EXCEPT ![r] = 1]
    /\ step' = [step EXCEPT ![r] = "cache"]
    /\ UNCHANGED <<time, cache, stored, config, conversion, faults, upserts, overlapped>>

CacheOne(r) ==
    /\ step[r] = "cache"
    /\ next[r] \in DOMAIN Order
    /\ cache' = [cache EXCEPT ![Order[next[r]]] = snap[r]]
    /\ next' = [next EXCEPT ![r] = @ + 1]
    /\ UNCHANGED <<time, stored, config, step, snap, conversion, faults, upserts, overlapped>>

\* insertMany() comes after the last SET.  (Mutated: it does not wait for them.)
AnyTime(r) == step[r] = "cache"
AllCached(r) == step[r] = "cache" /\ next[r] \notin DOMAIN Order

EndRefresh(r) ==
    /\ step' = [step EXCEPT ![r] = "idle"]
    /\ snap' = [snap EXCEPT ![r] = 0]
    /\ next' = [next EXCEPT ![r] = 1]

InsertAll(r) ==
    /\ AllCached(r)
    /\ stored' = [q \in Quotes |-> stored[q] \cup {snap[r]}]
    /\ EndRefresh(r)
    /\ UNCHANGED <<time, cache, config, conversion, faults, upserts, overlapped>>

\* An await rejects: what was cached or inserted stays (insertMany may stop part way).
RefreshFails(r) ==
    /\ step[r] # "idle"
    /\ faults < MaxFaults
    /\ faults' = faults + 1
    /\ \E S \in SUBSET Quotes :
         /\ S # {} => AllCached(r)
         /\ stored' = [q \in Quotes |-> IF q \in S THEN stored[q] \cup {snap[r]} ELSE stored[q]]
    /\ EndRefresh(r)
    /\ UNCHANGED <<time, cache, config, conversion, upserts, overlapped>>

-----------------------------------------------------------------------------
(* convert(): two configurations, then getRate().                           *)

Ask(p) ==
    /\ pc[p] = "idle"
    /\ \E a \in Asks :
         /\ ask' = [ask EXCEPT ![p] = a]
         /\ known' = [known EXCEPT ![p] = [from |-> LatestLeg(a.from), to |-> LatestLeg(a.to)]]
    /\ pc' = [pc EXCEPT ![p] = "from"]
    /\ answer' = [answer EXCEPT ![p] = NoAnswer]
    /\ got' = [got EXCEPT ![p] = NothingRead]
    /\ UNCHANGED <<time, cache, stored, config, refresh, faults, upserts, overlapped>>

Answer(p, kind, amount, stamp) ==
    /\ answer' = [answer EXCEPT ![p] = [kind |-> kind, amount |-> amount, stamp |-> stamp]]
    /\ pc' = [pc EXCEPT ![p] = "idle"]

\* What a conversion at a rate n/d may give.
Converted(p, n, d) ==
    Convert(ask[p].amount, n, d, got[p].from, got[p].to.exponent, got[p].to.rule)

ReadFrom(p) ==
    /\ pc[p] = "from"
    /\ got' = [got EXCEPT ![p].from = config[ask[p].from].exponent]
    /\ pc' = [pc EXCEPT ![p] = "to"]
    /\ UNCHANGED <<time, cache, stored, config, refresh, ask, answer, known, faults, upserts, overlapped>>

\* A currency into itself has the rate 1 and needs no store.
ReadTo(p) ==
    /\ pc[p] = "to"
    /\ got' = [got EXCEPT ![p].to = config[ask[p].to]]
    /\ \/ /\ ask[p].from = ask[p].to
          /\ \E amount \in Convert(ask[p].amount, 1, 1, got[p].from,
                                   config[ask[p].to].exponent, config[ask[p].to].rule) :
                Answer(p, "identity", amount, time)
       \/ /\ ask[p].from # ask[p].to
          /\ pc' = [pc EXCEPT ![p] = "cache"]
          /\ UNCHANGED answer
    /\ UNCHANGED <<time, cache, stored, config, refresh, ask, known, faults, upserts, overlapped>>

Direct(p, t) ==
    LET rate == RateAt[ask[p].to][t]
    IN  \E amount \in Converted(p, rate[1], rate[2]) : Answer(p, "direct", amount, t)

\* Only pairs that start at the pivot are ever cached or stored.
ReadCache(p) ==
    /\ pc[p] = "cache"
    /\ LET hit == ask[p].from = Pivot /\ cache[ask[p].to] # 0
       IN  \/ /\ hit
              /\ Direct(p, cache[ask[p].to])
           \/ /\ ~ hit
              /\ pc' = [pc EXCEPT ![p] = "store"]
              /\ UNCHANGED answer
    /\ UNCHANGED <<time, cache, stored, config, refresh, ask, got, known, faults, upserts, overlapped>>

\* A pair is crossed only if the pivot is neither of its currencies.  (Mutated: and
\* a leg is still cached.)
StillCached(p) == ask[p].from # Pivot /\ ask[p].to # Pivot /\ cache[ask[p].from] # 0
Crossable(p) == ask[p].from # Pivot /\ ask[p].to # Pivot

ReadStore(p) ==
    /\ pc[p] = "store"
    /\ LET found == ask[p].from = Pivot /\ stored[ask[p].to] # {}
       IN  \/ /\ found
              /\ Direct(p, Latest(ask[p].to))
           \/ /\ ~ found /\ ~ Crossable(p)
              /\ Answer(p, "not found", 0, 0)
           \/ /\ ~ found /\ Crossable(p)
              /\ pc' = [pc EXCEPT ![p] = "leg"]
              /\ UNCHANGED answer
    /\ UNCHANGED <<time, cache, stored, config, refresh, ask, got, known, faults, upserts, overlapped>>

\* tryCrossRate(): two reads, each of the latest snapshot of its leg.
ReadLeg(p) ==
    /\ pc[p] = "leg"
    /\ got' = [got EXCEPT ![p].leg = Latest(ask[p].from)]
    /\ pc' = [pc EXCEPT ![p] = "cross"]
    /\ UNCHANGED <<time, cache, stored, config, refresh, ask, answer, known, faults, upserts, overlapped>>

ReadCross(p) ==
    /\ pc[p] = "cross"
    /\ LET t == Latest(ask[p].to)
           u == got[p].leg
       IN  \/ /\ t = 0 \/ u = 0
              /\ Answer(p, "not found", 0, 0)
           \/ /\ t # 0 /\ u # 0
              /\ LET over == RateAt[ask[p].to][t]
                     under == RateAt[ask[p].from][u]
                 IN  \E amount \in Converted(p, over[1] * under[2], over[2] * under[1]) :
                        Answer(p, "cross", amount, t)
    /\ UNCHANGED <<time, cache, stored, config, refresh, ask, got, known, faults, upserts, overlapped>>

-----------------------------------------------------------------------------
Refresh(r) == Fetch(r) \/ InsertAll(r) \/ CacheOne(r)
Serve(p) ==
    ReadFrom(p) \/ ReadTo(p) \/ ReadCache(p) \/ ReadStore(p) \/ ReadLeg(p) \/ ReadCross(p)

Next ==
    \/ Publish
    \/ \E q \in Quotes : Expire(q)
    \/ \E c \in Currencies : Upsert(c)
    \/ \E r \in Refreshers : StartRefresh(r) \/ Refresh(r) \/ RefreshFails(r)
    \/ \E p \in Requests : Ask(p) \/ Serve(p)

Spec == Init /\ [][Next]_vars

-----------------------------------------------------------------------------
(* Properties.                                                              *)

\* While refreshes do not overlap, the cache is never behind the store, whichever
\* SET or insert of a refresh failed (fx.service.ts:41-63).
CacheNotBehind ==
    ~ overlapped => \A q \in Quotes : cache[q] # 0 => \A t \in stored[q] : t <= cache[q]

\* What makes it inductive: a refresh under way is alone, its rates are the newest,
\* and what it has cached is either its own or expired.
StoreTypeOK ==
    /\ time \in Times
    /\ cache \in [Quotes -> 0..MaxTime]
    /\ stored \in [Quotes -> SUBSET Times]
    /\ step \in [Refreshers -> {"idle", "fetch", "cache"}]
    /\ snap \in [Refreshers -> 0..MaxTime]
    /\ next \in [Refreshers -> 1..(Cardinality(Quotes) + 1)]
TimeInv ==
    /\ \A q \in Quotes : cache[q] <= time /\ \A t \in stored[q] : t <= time
    /\ \A r \in Refreshers : snap[r] <= time
RefreshInv ==
    ~ overlapped => \A r \in Refreshers :
        /\ step[r] # "idle" => \A o \in Refreshers \ {r} : step[o] = "idle"
        /\ step[r] = "cache" =>
              /\ \A q \in Quotes : \A t \in stored[q] : t <= snap[r]
              /\ \A i \in DOMAIN Order : i < next[r] => cache[Order[i]] \in {0, snap[r]}
SnapInv == \A r \in Refreshers : step[r] = "cache" => snap[r] \in Times
FxInv == StoreTypeOK /\ TimeInv /\ SnapInv /\ RefreshInv /\ CacheNotBehind

\* Hence a conversion is never made at a rate older than what was stored when it was
\* asked for; crossed rates read the store and are current in both legs even so.
NoOldRate ==
    \A p \in Requests :
        /\ answer[p].kind = "direct" /\ ~ overlapped => answer[p].stamp >= known[p].to
        /\ answer[p].kind = "cross" =>
              answer[p].stamp >= known[p].to /\ got[p].leg >= known[p].from

\* "Not found" is answered only for a conversion into the pivot, which is never
\* derived, or if a leg was not stored when the conversion came.
NotFoundIsUnknown ==
    \A p \in Requests :
        answer[p].kind = "not found" =>
            \/ ask[p].to = Pivot
            \/ known[p].to = 0
            \/ ask[p].from # Pivot /\ known[p].from = 0

\* The amount answered is the conversion at the very rates and configurations read, each
\* factor applied once and in its place, rounded by the rule of the target currency as
\* closely as doubles allow: to the nearest, a half either way, or down by less than two
\* units and never up; a currency into itself keeps its amount, but for one unit under
\* DOWN, unless its configuration changed meanwhile (money.ts:74-117,
\* convert.service.ts:33-43).
ExactFraction(p) ==
    LET a == ask[p]
        up == IF a.to = Pivot \/ a.from = a.to THEN <<1, 1>> ELSE RateAt[a.to][answer[p].stamp]
        down == IF answer[p].kind # "cross" THEN <<1, 1>> ELSE RateAt[a.from][got[p].leg]
    IN  <<a.amount * up[1] * down[2] * 10^got[p].to.exponent, up[2] * down[1] * 10^got[p].from>>
ConvertedClosely ==
    \A p \in Requests :
        /\ answer[p].kind \in {"identity", "direct", "cross"} =>
              RoundsClosely(answer[p].amount, ExactFraction(p)[1], ExactFraction(p)[2], got[p].to.rule)
        /\ answer[p].kind = "identity" /\ upserts = 0 =>
              KeepsAmount(answer[p].amount, ask[p].amount, got[p].to.rule)

\* What makes these three inductive: stored rates stay, so a leg is never older than it
\* was when the conversion came; the path taken fits the pair; an answer, once given,
\* keeps what it was computed from.
ConversionTypeOK ==
    /\ config \in [Currencies -> Configs]
    /\ upserts \in Nat
    /\ pc \in [Requests -> {"idle", "from", "to", "cache", "store", "leg", "cross"}]
    /\ ask \in [Requests -> [from : Currencies, to : Currencies, amount : Amounts \cup {0}]]
    /\ got \in [Requests -> [from : Exponents, to : [exponent : Exponents, rule : Rules],
                            leg : 0..MaxTime]]
    /\ answer \in [Requests -> [kind : {"none", "identity", "direct", "cross", "not found"},
                               amount : Int, stamp : 0..MaxTime]]
    /\ known \in [Requests -> [from : 0..MaxTime, to : 0..MaxTime]]
KnownInv ==
    \A p \in Requests :
        known[p].from <= LatestLeg(ask[p].from) /\ known[p].to <= LatestLeg(ask[p].to)
PathInv ==
    \A p \in Requests :
        /\ pc[p] # "idle" => answer[p].kind = "none"
        /\ pc[p] \in {"cache", "store", "leg", "cross"} => ask[p].from # ask[p].to
        /\ pc[p] \in {"leg", "cross"} => Crossable(p)
        /\ pc[p] = "cross" => got[p].leg >= known[p].from
SeedInv ==
    upserts = 0 =>
        /\ config = SEED
        /\ \A p \in Requests : pc[p] = "to" => got[p].from = SEED[ask[p].from].exponent
ConversionInv ==
    /\ ConversionTypeOK /\ KnownInv /\ PathInv /\ SeedInv
    /\ NoOldRate /\ NotFoundIsUnknown /\ ConvertedClosely

================================================================================
