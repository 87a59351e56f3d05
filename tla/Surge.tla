---------------------------------- MODULE Surge ----------------------------------
(***************************************************************************)
(* demand-service, advisory surge: the predict cycle computes a multiplier *)
(* for each hexagon from its predicted demand, a count of its drivers that *)
(* is always zero, the override document of administrators and the previous*)
(* multiplier, and publishes it to Redis (read back by the next cycle) and *)
(* to MongoDB (read by riders and drivers).  surge_engine.py,              *)
(* surge_service.py, scheduler.py, predictor.py.                           *)
(* Multipliers are integers; One stands for 1.0 and the unit is the digit  *)
(* to which smoothed values are stored (One = 1000 in the code).           *)
(***************************************************************************)
EXTENDS MoneyOps, FiniteSets

CONSTANTS
    Hexes,
    Predicted,      \* the hexes that have predictions
    Admins,         \* POST /admin/surge/override handlers
    One, Step, MaxChange, Cap,  \* 1.0, SURGE_STEP, SURGE_MAX_STEP_CHANGE, MAX_SURGE
    Num, Den,       \* SURGE_EWMA_ALPHA = Num / Den
    Dwell,          \* SURGE_MIN_DWELL_SECONDS, in ticks
    Demands,        \* what may be predicted: [Predicted -> Nat]
    Manuals,        \* multipliers an administrator may set
    None,
    MaxShifts,      \* bound: changes of a prediction
    MaxRequests,    \* bound: requests of administrators
    MaxFailures     \* bound: rejected awaits and crashes

Overridden == {"kill_switch", "manual_override"}
Reasons == {"computed", "dwell_hold"} \cup Overridden
States == [mult : Int, ewma : Int, age : 0..Dwell]
Rows == [mult : Int, reason : Reasons]

ASSUME SurgeAssumption ==
    /\ Predicted \subseteq Hexes
    /\ {One, Step, MaxChange, Den} \subseteq Nat \ {0}
    /\ Cap \in Nat /\ One <= Cap
    /\ Num \in 0..Den
    /\ Dwell \in Nat
    /\ Demands \subseteq [Predicted -> Nat]
    /\ Manuals \subseteq Int /\ None \notin Manuals \cup Hexes \cup States \cup Rows
    /\ MaxShifts \in Nat /\ MaxRequests \in Nat /\ MaxFailures \in Nat

VARIABLES
    demand,     \* MongoDB demand_predictions: the latest of each hex
    doc,        \* Redis surge_override:<city>
    call,       \* administrators: the request each one serves
    hot,        \* Redis surge_state:<city>:<hex>, without TTL
    row,        \* MongoDB surge_state: the last row of each hex
    phase,      \* predict cycle: the await it is at
    left,       \* predict cycle: hexes still to compute
    hex,        \* predict cycle: the hex being computed
    seen,       \* predict cycle: its override and its drivers, as read
    decision,   \* predict cycle: the decision made
    shifts, requests, failures,
    raced,      \* history: whether two administrators' requests ever overlapped
    acked,      \* history: kills confirmed to an administrator since the document expired
    missed      \* history: hexes of which a decision reached Redis but no row since

cycle == <<phase, left, hex, seen, decision>>
admin == <<doc, call, requests, raced, acked>>
surgeVars == <<demand, admin, hot, row, cycle, shifts, failures, missed>>

NoDoc == [all |-> FALSE, hexes |-> {}, manual |-> [h \in Hexes |-> None]]
Docs == [all : BOOLEAN, hexes : SUBSET Hexes, manual : [Hexes -> Manuals \cup {None}]]
NoCall == [at |-> "idle", hex |-> None, multiplier |-> None, read |-> NoDoc]
NothingSeen == [kill |-> FALSE, manual |-> None, drivers |-> 0]
NoDecision == [mult |-> One, ewma |-> One, age |-> 0, reason |-> "computed"]

SurgeInit ==
    /\ demand \in Demands
    /\ doc = NoDoc
    /\ call = [a \in Admins |-> NoCall]
    /\ hot = [h \in Hexes |-> None]
    /\ row = [h \in Hexes |-> None]
    /\ phase = "idle" /\ left = {} /\ hex = None
    /\ seen = NothingSeen /\ decision = NoDecision
    /\ shifts = 0 /\ requests = 0 /\ failures = 0
    /\ raced = FALSE /\ acked = {} /\ missed = {}

-----------------------------------------------------------------------------
(* compute_surge().                                                         *)

Clamp(x, low, high) == IF x < low THEN low ELSE IF x > high THEN high ELSE x

\* round_to_step() of n/d.
RoundToStep(n, d) == Step * HalfEven(n, d * Step)

\* ratio_to_multiplier(), cut to the unit, under the hard cap.
Raw(predicted, drivers) ==
    LET supply == IF drivers < 1 THEN 1 ELSE drivers
    IN  IF predicted <= supply THEN One
        ELSE Clamp(One + (One * (predicted - supply)) \div (2 * supply), One, Cap)

\* The moving average times Den, and the anti-shock limit.  (Mutated: no limit.)
Smoothed(raw, prior) == Num * raw + (Den - Num) * (IF prior = None THEN One ELSE prior.ewma)
Unlimited(n, prior) == n
Limited(n, prior) ==
    IF prior = None THEN n
    ELSE Clamp(n, Den * (prior.mult - MaxChange), Den * (prior.mult + MaxChange))

\* (Mutated: the last clamp is left out.)
Unclamped(n) == RoundToStep(n, Den)
Final(n) == Clamp(RoundToStep(n, Den), One, Cap)

\* A multiplier that changed too recently is held.  (Mutated: for ever.)
HeldForEver(final, prior) == prior # None /\ final # prior.mult /\ prior.age <= Dwell
Held(final, prior) == prior # None /\ final # prior.mult /\ prior.age < Dwell

\* An override wins over the computation, and a kill over a multiplier.  (Mutated:
\* the multiplier wins.)
ManualFirst(saw) ==
    IF saw.manual # None THEN "manual_override" ELSE IF saw.kill THEN "kill_switch" ELSE "computed"
Reason(saw) ==
    IF saw.kill THEN "kill_switch" ELSE IF saw.manual # None THEN "manual_override" ELSE "computed"

\* What is published: multiplier, moving average and time since the last change.
Published(mult, ewma, prior, reason) ==
    [mult |-> mult, ewma |-> ewma, reason |-> reason,
     age |-> IF prior = None \/ mult # prior.mult THEN 0 ELSE prior.age]

Decide(saw, raw, prior) ==
    LET n == Limited(Smoothed(raw, prior), prior)
        final == Final(n)
        capped == Clamp(saw.manual, One, Cap)
    IN  CASE Reason(saw) = "kill_switch" -> Published(One, One, prior, "kill_switch")
          [] Reason(saw) = "manual_override" ->
                Published(RoundToStep(capped, 1), capped, prior, "manual_override")
          [] Reason(saw) = "computed" ->
                IF Held(final, prior)
                THEN Published(prior.mult, HalfEven(n, Den), prior, "dwell_hold")
                ELSE Published(final, HalfEven(n, Den), prior, "computed")

-----------------------------------------------------------------------------
(* What happens around the cycle.                                           *)

\* Predictor().run(), before the cycle computes its first multiplier.
Predict ==
    /\ phase = "idle"
    /\ shifts < MaxShifts
    /\ shifts' = shifts + 1
    /\ \E d \in Demands \ {demand} : demand' = d
    /\ UNCHANGED <<admin, hot, row, cycle, failures, missed>>

Older(state) == [state EXCEPT !.age = IF @ < Dwell THEN @ + 1 ELSE Dwell]
Tick ==
    /\ hot' = [h \in Hexes |-> IF hot[h] = None THEN None ELSE Older(hot[h])]
    /\ decision' = IF phase = "set" THEN Older(decision) ELSE decision
    /\ UNCHANGED <<demand, admin, row, phase, left, hex, seen, shifts, failures, missed>>

\* One TTL for the whole document, set anew by every request.
ExpireDoc ==
    /\ doc # NoDoc
    /\ doc' = NoDoc
    /\ acked' = {}
    /\ UNCHANGED <<demand, call, requests, raced, hot, row, cycle, shifts, failures, missed>>

-----------------------------------------------------------------------------
(* set_override(): the document is read, changed and written back.          *)

AdminReads(a) ==
    /\ call[a].at = "idle"
    /\ requests < MaxRequests
    /\ requests' = requests + 1
    /\ \E h \in Hexes \cup {None}, m \in Manuals \cup {None} :
          call' = [call EXCEPT ![a] = [at |-> "write", hex |-> h, multiplier |-> m, read |-> doc]]
    /\ raced' = (raced \/ \E b \in Admins : call[b].at # "idle")
    /\ UNCHANGED <<demand, doc, acked, hot, row, cycle, shifts, failures, missed>>

\* A multiplier for a hex leaves its kill in the document.
Changed(c) ==
    IF c.hex = None THEN [c.read EXCEPT !.all = (c.multiplier = None)]
    ELSE IF c.multiplier = None THEN [c.read EXCEPT !.hexes = @ \cup {c.hex}]
    ELSE [c.read EXCEPT !.manual[c.hex] = c.multiplier]

\* (If the document expires between the read and the write, its content comes back.)
AdminWrites(a) ==
    /\ call[a].at = "write"
    /\ doc' = Changed(call[a])
    /\ acked' = IF call[a].hex # None /\ call[a].multiplier = None
                THEN acked \cup {call[a].hex} ELSE acked
    /\ call' = [call EXCEPT ![a] = NoCall]
    /\ UNCHANGED <<demand, requests, raced, hot, row, cycle, shifts, failures, missed>>

AdminFails(a) ==
    /\ call[a].at = "write"
    /\ failures < MaxFailures
    /\ failures' = failures + 1
    /\ call' = [call EXCEPT ![a] = NoCall]
    /\ UNCHANGED <<demand, doc, requests, raced, acked, hot, row, cycle, shifts, missed>>

-----------------------------------------------------------------------------
(* The predict cycle, of which the scheduler runs one at a time.            *)

StartCycle ==
    /\ phase = "idle"
    /\ phase' = "next"
    /\ left' = Predicted
    /\ UNCHANGED <<demand, admin, hot, row, hex, seen, decision, shifts, failures, missed>>

Killed(h) == doc.all \/ h \in doc.hexes

\* compute_for_hex(): the override document.
ReadOverrides ==
    /\ phase = "next"
    /\ \E h \in left :
         /\ hex' = h
         /\ left' = left \ {h}
         /\ seen' = [kill |-> Killed(h), manual |-> doc.manual[h], drivers |-> 0]
    /\ phase' = "drivers"
    /\ UNCHANGED <<demand, admin, hot, row, decision, shifts, failures, missed>>

\* MongoDB refuses $near in count_documents(), at every call, and what is refused is
\* counted as zero.
Counted == 0
CountDrivers ==
    /\ phase = "drivers"
    /\ seen' = [seen EXCEPT !.drivers = Counted]
    /\ phase' = "prior"
    /\ UNCHANGED <<demand, admin, hot, row, left, hex, decision, shifts, failures, missed>>

ReadPrior ==
    /\ phase = "prior"
    /\ decision' = Decide(seen, Raw(demand[hex], seen.drivers), hot[hex])
    /\ phase' = "set"
    /\ UNCHANGED <<demand, admin, hot, row, left, hex, seen, shifts, failures, missed>>

Stored == [hot EXCEPT ![hex] = [mult |-> decision.mult, ewma |-> decision.ewma, age |-> decision.age]]

SetState ==
    /\ phase = "set"
    /\ hot' = Stored
    /\ phase' = "insert"
    /\ UNCHANGED <<demand, admin, row, left, hex, seen, decision, shifts, failures, missed>>

InsertRow ==
    /\ phase = "insert"
    /\ row' = [row EXCEPT ![hex] = [mult |-> decision.mult, reason |-> decision.reason]]
    /\ missed' = missed \ {hex}
    /\ phase' = "next" /\ hex' = None
    /\ seen' = NothingSeen /\ decision' = NoDecision
    /\ UNCHANGED <<demand, admin, hot, left, shifts, failures>>

EndCycle ==
    /\ phase = "next"
    /\ left = {}
    /\ phase' = "idle"
    /\ UNCHANGED <<demand, admin, hot, row, left, hex, seen, decision, shifts, failures, missed>>

\* An exception, or the process stops: the rest of the cycle is given up.  A SET that
\* was not answered may have been executed.
CycleFails ==
    /\ phase # "idle"
    /\ failures < MaxFailures
    /\ failures' = failures + 1
    /\ \/ /\ UNCHANGED hot
          /\ missed' = IF phase = "insert" THEN missed \cup {hex} ELSE missed
       \/ /\ phase = "set"
          /\ hot' = Stored
          /\ missed' = missed \cup {hex}
    /\ phase' = "idle" /\ left' = {} /\ hex' = None
    /\ seen' = NothingSeen /\ decision' = NoDecision
    /\ UNCHANGED <<demand, admin, row, shifts>>

-----------------------------------------------------------------------------
PredictCycle ==
    \/ StartCycle \/ ReadOverrides \/ CountDrivers \/ ReadPrior
    \/ SetState \/ InsertRow \/ EndCycle

SurgeNext ==
    \/ Predict \/ Tick \/ ExpireDoc
    \/ \E a \in Admins : AdminReads(a) \/ AdminWrites(a) \/ AdminFails(a)
    \/ PredictCycle \/ CycleFails

SurgeSpec == SurgeInit /\ [][SurgeNext]_surgeVars

\* The interval job runs for ever, awaits settle and time passes.
FairSpec == SurgeSpec /\ WF_surgeVars(PredictCycle) /\ WF_surgeVars(Tick)

-----------------------------------------------------------------------------
(* Properties.                                                              *)

Calls == [at : {"idle", "write"}, hex : Hexes \cup {None}, multiplier : Manuals \cup {None}, read : Docs]
TypeOK ==
    /\ demand \in Demands
    /\ doc \in Docs
    /\ call \in [Admins -> Calls]
    /\ hot \in [Hexes -> States \cup {None}]
    /\ row \in [Hexes -> Rows \cup {None}]
    /\ phase \in {"idle", "next", "drivers", "prior", "set", "insert"}
    /\ left \subseteq Predicted
    /\ phase \in {"drivers", "prior", "set", "insert"} => hex \in Predicted
    /\ seen \in [kill : BOOLEAN, manual : Manuals \cup {None}, drivers : Nat]
    /\ decision \in [mult : Int, ewma : Int, age : 0..Dwell, reason : Reasons]
    /\ acked \subseteq Hexes /\ missed \subseteq Predicted

\* Never below 1.0 nor above the cap: exactly for what is computed, to half a step
\* for what an administrator sets, which is capped before it is rounded
\* (surge_engine.py:97-99, 120).
WithinCap(mult) == 2 * One - Step <= 2 * mult /\ 2 * mult <= 2 * Cap + Step
CapHolds ==
    \A h \in Hexes :
        /\ hot[h] # None => WithinCap(hot[h].mult)
        /\ row[h] # None => /\ WithinCap(row[h].mult)
                            /\ row[h].reason = "computed" => row[h].mult \in One..Cap

\* One decision moves a multiplier by the anti-shock limit and half a step at most.
Near(new, old) == 2 * Magnitude(new - old) <= 2 * MaxChange + Step

\* Where a decision under way comes from, and that the two stores agree.
DecisionInv ==
    /\ phase \in {"set", "insert"} =>
          /\ WithinCap(decision.mult)
          /\ decision.reason = "computed" => decision.mult \in One..Cap
    /\ phase = "set" /\ hot[hex] # None /\ decision.reason \notin Overridden =>
          Near(decision.mult, hot[hex].mult)
    /\ phase = "insert" => hot[hex] # None /\ hot[hex].mult = decision.mult
    /\ phase = "insert" /\ row[hex] # None /\ hex \notin missed /\ decision.reason \notin Overridden =>
          Near(decision.mult, row[hex].mult)
    /\ \A h \in Hexes \ missed :
          ~ (phase = "insert" /\ hex = h) => (row[h] = None <=> hot[h] = None)
    /\ \A h \in Hexes \ missed :
          row[h] # None /\ ~ (phase = "insert" /\ hex = h) => row[h].mult = hot[h].mult

\* A kill that was confirmed stays in force until the document expires, unless two
\* requests of administrators overlapped: the later write then undoes the earlier
\* (surge_service.py:92-102).
KillsKept == ~ raced => acked \subseteq doc.hexes
CallInv ==
    ~ raced => \A a \in Admins :
        call[a].at = "write" => /\ \A b \in Admins \ {a} : call[b].at = "idle"
                                /\ acked \subseteq call[a].read.hexes
SurgeInv == TypeOK /\ CapHolds /\ DecisionInv /\ KillsKept /\ CallInv

\* What riders are shown moves by no more than the anti-shock limit from one row to
\* the next, although each decision starts from the copy in Redis: unless an
\* administrator sets it, or a row was lost (surge_engine.py:113-118,
\* surge_service.py:75-87).
ShownStepBounded ==
    [][\A h \in Hexes :
         row'[h] # row[h] /\ row[h] # None /\ h \notin missed /\ row'[h].reason \notin Overridden =>
            Near(row'[h].mult, row[h].mult)]_surgeVars

\* A kill that stays in force brings the multiplier shown to 1.0, whatever decision
\* was under way and whatever multiplier was set (surge_service.py:62-64).
KillTakesEffect ==
    \A h \in Predicted : []<>(Killed(h) => row[h] # None /\ row[h].mult = One)

\* Once predictions, requests and faults stop and the overrides have expired, smoothing,
\* limit, dwell and rounding let the multiplier settle at the value of the demand alone:
\* the drivers near it are never counted (surge_service.py:36-51, surge_engine.py:106-127).
Close(mult, raw) == 2 * Magnitude(mult - raw) <= Step + 2
Settles ==
    <>[](doc = NoDoc) =>
    <>[](\A h \in Predicted :
            row[h] # None /\ Close(row[h].mult, Raw(demand[h], 0)))

================================================================================
