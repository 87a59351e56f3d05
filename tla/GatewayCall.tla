------------------------------ MODULE GatewayCall ------------------------------
(***************************************************************************)
(* The completions and embeddings of one user in ai-gateway: budget check, *)
(* providers, call log and token counter (ai.service.ts,                   *)
(* budget.service.ts, llm-router.service.ts).  Concurrent requests share   *)
(* the Redis counter of the day and nothing else.                          *)
(***************************************************************************)
EXTENDS Integers, FiniteSets

CONSTANTS
    Calls,      \* concurrent POST /ai/complete and POST /ai/embed handlers
    Limit,      \* DAILY_TOKEN_BUDGET_PER_USER
    MaxUse,     \* most tokens one request uses: a completion, or the texts of an embedding
    Chain,      \* routes of a task: the primary and its fallbacks
    LastDay,    \* bound: the calendar days explored are 0..LastDay
    MaxStarts,  \* bound: requests explored
    MaxResends  \* bound: commands sent to Redis again

ASSUME BudgetAssumption ==
    /\ IsFiniteSet(Calls)
    /\ Limit \in Nat \ {0}
    /\ MaxUse \in Nat \ {0}
    /\ Chain \in Nat \ {0}
    /\ LastDay \in Nat
    /\ MaxStarts \in Nat
    /\ MaxResends \in Nat

VARIABLES
    pc,        \* handlers: the await each one is at
    kind,      \* handlers: what the request asks for
    hop,       \* handlers: the route being tried
    usage,     \* handlers: tokens of the provider's answer
    used,      \* Redis: the counter budget:<user>:<day>
    logged,    \* MongoDB: tokens in the user's ai_call_logs
    day,       \* the calendar day (UTC)
    started,   \* requests so far
    resent     \* INCRBYs that ran twice so far

vars == <<pc, kind, hop, usage, used, logged, day, started, resent>>

Days == 0..LastDay

Kinds == {"completion", "embedding"}

Init ==
    /\ pc = [c \in Calls |-> "idle"]
    /\ kind = [c \in Calls |-> "completion"]
    /\ hop = [c \in Calls |-> 1]
    /\ usage = [c \in Calls |-> 0]
    /\ used = [d \in Days |-> 0]
    /\ logged = 0
    /\ day = 0
    /\ started = 0
    /\ resent = 0

Goto(c, p) == pc' = [pc EXCEPT ![c] = p]

\* The request is answered: nothing of the handler remains.
Finish(c) ==
    /\ Goto(c, "idle")
    /\ kind' = [kind EXCEPT ![c] = "completion"]
    /\ hop' = [hop EXCEPT ![c] = 1]
    /\ usage' = [usage EXCEPT ![c] = 0]

-----------------------------------------------------------------------------
Arrive(c) ==
    /\ pc[c] = "idle"
    /\ started < MaxStarts
    /\ started' = started + 1
    /\ \E k \in Kinds : kind' = [kind EXCEPT ![c] = k]
    /\ Goto(c, "check")
    /\ UNCHANGED <<hop, usage, used, logged, day, resent>>

\* used >= limit.  (Mutated: off by one.)
WellOver(n) == n > Limit
OverBudget(n) == n >= Limit

\* assertWithinBudget() reads the counter of the day it runs on.
CheckBudget(c) ==
    /\ pc[c] = "check"
    /\ \/ OverBudget(used[day]) /\ Finish(c)
       \/ ~ OverBudget(used[day]) /\ Goto(c, "call") /\ UNCHANGED <<kind, hop, usage>>
    /\ UNCHANGED <<used, logged, day, started, resent>>

\* A provider answers; the attempts before it are not counted, and an answer without a
\* count of tokens counts as none.
ProviderAnswers(c) ==
    /\ pc[c] = "call"
    /\ \E n \in 0..MaxUse : usage' = [usage EXCEPT ![c] = n]
    /\ Goto(c, "log")
    /\ UNCHANGED <<kind, hop, used, logged, day, started, resent>>

\* The route after one that failed.  (Mutated: the first one again before the last.)
StartOver(n) == IF n + 1 < Chain THEN n + 1 ELSE 1
NextRoute(n) == n + 1

\* Whether the loop over the chain goes on: embeddings have one provider.
MoreRoutes(c) == kind[c] = "completion" /\ hop[c] < Chain

\* complete() logs what is thrown with no tokens and throws it again, embed() has no
\* handler for it.
Throw(c) ==
    \/ kind[c] = "completion" /\ Goto(c, "logError") /\ UNCHANGED <<kind, hop, usage>>
    \/ kind[c] = "embedding" /\ Finish(c)

\* An error, a timeout of the breaker, or an open breaker: the next route, if any.
ProviderFails(c) ==
    /\ pc[c] = "call"
    /\ \/ /\ MoreRoutes(c)
          /\ hop' = [hop EXCEPT ![c] = NextRoute(@)]
          /\ UNCHANGED <<pc, kind, usage>>
       \/ ~ MoreRoutes(c) /\ Throw(c)
    /\ UNCHANGED <<used, logged, day, started, resent>>

\* Where the tokens go from the provider's answer.  (Mutated: they are charged
\* and never logged.)
AddNothing(n) == logged
AddToLog(n) == logged + n

LogCall(c) ==
    /\ pc[c] = "log"
    /\ logged' = AddToLog(usage[c])
    /\ Goto(c, "consume")
    /\ UNCHANGED <<kind, hop, usage, used, day, started, resent>>

\* consume(): INCRBY on the key of the day it is sent on.
Charge(c, times) == used' = [used EXCEPT ![day] = @ + times * usage[c]]

\* If the total is what the request used the counter is taken for new, and the TTL is
\* set, which ends after the day.
Counted(c, times) ==
    /\ pc[c] = "consume"
    /\ Charge(c, times)
    /\ IF used[day] + times * usage[c] = usage[c]
       THEN Goto(c, "expire") /\ UNCHANGED <<kind, hop, usage>>
       ELSE Finish(c)
    /\ UNCHANGED <<logged, day, started>>

Consume(c) == Counted(c, 1) /\ UNCHANGED resent

\* The reply to INCRBY is lost and ioredis sends it again: it counts twice.
ConsumeResent(c) ==
    /\ resent < MaxResends
    /\ Counted(c, 2)
    /\ resent' = resent + 1

Expire(c) ==
    /\ pc[c] = "expire"
    /\ Finish(c)
    /\ UNCHANGED <<used, logged, day, started, resent>>

\* MongoDB or Redis rejects a write after the provider answered, applied or not.
Reject(c) ==
    /\ \/ pc[c] \in {"log", "consume", "expire"} /\ UNCHANGED <<logged, used>>
       \/ pc[c] = "log" /\ logged' = AddToLog(usage[c]) /\ UNCHANGED used
       \/ pc[c] = "consume" /\ Charge(c, 1) /\ UNCHANGED logged
    /\ Throw(c)
    /\ UNCHANGED <<day, started, resent>>

LogError(c) ==
    /\ pc[c] = "logError"
    /\ Finish(c)
    /\ UNCHANGED <<used, logged, day, started, resent>>

\* The process stops, or the first or the last await rejects.
Abort(c) ==
    /\ pc[c] # "idle"
    /\ Finish(c)
    /\ UNCHANGED <<used, logged, day, started, resent>>

NextDay ==
    /\ day < LastDay
    /\ day' = day + 1
    /\ UNCHANGED <<pc, kind, hop, usage, used, logged, started, resent>>

-----------------------------------------------------------------------------
Step(c) ==
    \/ CheckBudget(c) \/ ProviderAnswers(c) \/ ProviderFails(c)
    \/ LogCall(c) \/ Consume(c) \/ ConsumeResent(c) \/ Expire(c)
    \/ Reject(c) \/ LogError(c)

Next ==
    \/ \E c \in Calls : Arrive(c) \/ Step(c) \/ Abort(c)
    \/ NextDay

Spec == Init /\ [][Next]_vars

\* Completions time out (CB_TIMEOUT_MS), a fetch of embeddings after what Node allows it,
\* and the drivers of MongoDB and Redis give up.
FairSpec == Spec /\ \A c \in Calls : WF_vars(Step(c))

-----------------------------------------------------------------------------
(* Properties.                                                              *)

TypeOK ==
    /\ pc \in [Calls -> {"idle", "check", "call", "log", "consume", "expire", "logError"}]
    /\ kind \in [Calls -> Kinds]
    /\ hop \in [Calls -> 1..Chain]
    /\ usage \in [Calls -> 0..MaxUse]
    /\ used \in [Days -> Nat]
    /\ logged \in Nat
    /\ day \in Days
    /\ started \in 0..MaxStarts
    /\ resent \in 0..MaxResends

\* The check and the charge are apart, in time and in the day they count for, so
\* completions and embeddings that were let through together overrun the budget; they
\* overrun it by what they use, and what was counted twice, and no more
\* (budget.service.ts:28-44, charged by ai.service.ts:89 and ai.service.ts:135).
OverrunBounded ==
    \A d \in Days : used[d] < Limit + (Cardinality(Calls) + resent) * MaxUse

\* What makes it inductive: every request that was let through, and is not charged yet,
\* may still add what a request uses at most to the counter of the current day.
Uncharged == {c \in Calls : pc[c] \in {"call", "log", "consume"}}
BudgetInv ==
    /\ TypeOK
    /\ OverrunBounded
    /\ \A d \in Days : d > day => used[d] = 0
    /\ used[day] + MaxUse * Cardinality(Uncharged)
            < Limit + (Cardinality(Calls) + resent) * MaxUse

\* Tokens are charged to the user only if they are in the log that explains them,
\* but for commands that ran twice (ai.service.ts:73-92, ai.service.ts:124-135).
Charged[d \in Days] == used[d] + (IF d = 0 THEN 0 ELSE Charged[d - 1])
ChargedIsLogged == Charged[LastDay] <= logged + resent * MaxUse

\* What makes it inductive: the tokens of the requests that are logged and not charged
\* yet, told apart by request and number, are in the log as well.
Owed == {t \in Calls \X (1..MaxUse) : pc[t[1]] = "consume" /\ t[2] <= usage[t[1]]}
LogInv ==
    /\ TypeOK
    /\ Charged[LastDay] + Cardinality(Owed) <= logged + resent * MaxUse

\* Every request that is accepted is answered.
CallAnswered == \A c \in Calls : pc[c] # "idle" ~> pc[c] = "idle"

================================================================================
