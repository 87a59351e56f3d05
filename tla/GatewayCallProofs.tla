---------------------------- MODULE GatewayCallProofs ----------------------------
(***************************************************************************)
(* Proofs about the token budget: BudgetInv is an inductive invariant of   *)
(* GatewayCall, for any number of concurrent requests, any budget, chain   *)
(* of routes and bounds.                                                   *)
(***************************************************************************)
EXTENDS GatewayCall, FiniteSetTheorems, WellFoundedInduction, TLAPS

USE BudgetAssumption

-----------------------------------------------------------------------------
(* The requests that are not charged yet.                                   *)

\* They are as many as there are handlers, at most (ai.service.ts:56-92).
LEMMA UnchargedFinite ==
    /\ IsFiniteSet(Uncharged) /\ Cardinality(Uncharged) \in Nat
    /\ Cardinality(Calls) \in Nat /\ Cardinality(Uncharged) <= Cardinality(Calls)
<1>1. Uncharged \subseteq Calls
  BY DEF Uncharged
<1> QED
  BY <1>1, FS_Subset, FS_CardinalityType

\* The same of the next state.
LEMMA UnchargedFiniteNext ==
    /\ IsFiniteSet(Uncharged') /\ Cardinality(Uncharged') \in Nat
    /\ Cardinality(Uncharged') <= Cardinality(Calls)
<1>1. Uncharged' \subseteq Calls
  BY DEF Uncharged
<1> QED
  BY <1>1, FS_Subset, FS_CardinalityType

\* A handler that leaves the three awaits makes them one fewer, and no other step makes
\* them more (ai.service.ts:60-92).
LEMMA UnchargedShrinks ==
    ASSUME Uncharged' \subseteq Uncharged
    PROVE  Cardinality(Uncharged') <= Cardinality(Uncharged)
BY UnchargedFinite, FS_Subset

LEMMA UnchargedLeft ==
    ASSUME NEW c \in Uncharged, Uncharged' = Uncharged \ {c}
    PROVE  Cardinality(Uncharged') + 1 = Cardinality(Uncharged)
<1>1. Cardinality(Uncharged') = Cardinality(Uncharged) - 1
  BY UnchargedFinite, FS_RemoveElement
<1> QED
  BY <1>1, UnchargedFinite

\* What may be counted twice leaves more room (budget.service.ts:36-39).
LEMMA MoreRoom ==
    ASSUME NEW n \in Nat, NEW r \in Nat, NEW s \in Nat, s >= r
    PROVE  (n + r) * MaxUse <= (n + s) * MaxUse
<1>1. PICK k \in Nat : s = r + k
  <2>1. s - r \in Nat /\ s = r + (s - r)
    OBVIOUS
  <2> QED
    BY <2>1
<1>2. (n + s) * MaxUse = (n + r) * MaxUse + k * MaxUse
  BY <1>1
<1>3. k * MaxUse \in Nat /\ (n + r) * MaxUse \in Nat
  OBVIOUS
<1> QED
  BY <1>2, <1>3

\* A step that adds to the counter no more than the request that leaves could use, and
\* what runs twice, keeps the budget (budget.service.ts:38-44).
LEMMA BudgetKept ==
    ASSUME BudgetInv, TypeOK', day' = day, resent' >= resent,
           NEW u \in Nat, used' = [used EXCEPT ![day] = @ + u],
           u + MaxUse * Cardinality(Uncharged')
               <= MaxUse * Cardinality(Uncharged) + MaxUse * (resent' - resent)
    PROVE  BudgetInv'
<1> DEFINE n == Cardinality(Calls)
           k == Cardinality(Uncharged)
           m == Cardinality(Uncharged')
<1>1. n \in Nat /\ k \in Nat /\ m \in Nat
  BY UnchargedFinite, UnchargedFiniteNext
<1>2. /\ day \in Days /\ used \in [Days -> Nat] /\ used' \in [Days -> Nat]
      /\ resent \in Nat /\ resent' \in Nat /\ Days \subseteq Nat
  <2>1. Days \subseteq Nat
    BY DEF Days
  <2>2. day \in Days /\ used \in [Days -> Nat] /\ resent \in 0..MaxResends
    BY DEF BudgetInv, TypeOK
  <2>3. used' \in [Days -> Nat] /\ resent' \in 0..MaxResends
    BY DEF TypeOK
  <2>4. 0..MaxResends \subseteq Nat
    OBVIOUS
  <2> QED
    BY <2>1, <2>2, <2>3, <2>4
<1>3. /\ used[day] + MaxUse * k < Limit + (n + resent) * MaxUse
      /\ \A d \in Days : used[d] < Limit + (n + resent) * MaxUse
      /\ u + MaxUse * m <= MaxUse * k + MaxUse * (resent' - resent)
  BY DEF BudgetInv, OverrunBounded
<1>4. used'[day] = used[day] + u /\ \A d \in Days \ {day} : used'[d] = used[d]
  BY <1>2
<1> HIDE DEF n, k, m
<1>5. used'[day] + MaxUse * m < Limit + (n + resent') * MaxUse
  <2>1. (n + resent') * MaxUse = (n + resent) * MaxUse + MaxUse * (resent' - resent)
    BY <1>1, <1>2
  <2>2. /\ MaxUse * m \in Int /\ MaxUse * k \in Int /\ MaxUse * (resent' - resent) \in Int
        /\ (n + resent) * MaxUse \in Int
    BY <1>1, <1>2
  <2> QED
    BY <1>2, <1>3, <1>4, <2>1, <2>2
<1>6. MaxUse * m >= 0
  BY <1>1
<1>7. (n + resent) * MaxUse <= (n + resent') * MaxUse
  BY <1>1, <1>2, MoreRoom
<1>8. \A d \in Days : used'[d] < Limit + (n + resent') * MaxUse
  <2> SUFFICES ASSUME NEW d \in Days PROVE used'[d] < Limit + (n + resent') * MaxUse
    OBVIOUS
  <2>1. /\ (n + resent) * MaxUse \in Int /\ (n + resent') * MaxUse \in Int
        /\ MaxUse * m \in Int /\ used[d] \in Int /\ used'[d] \in Int
    BY <1>1, <1>2
  <2> QED
    BY <1>3, <1>4, <1>5, <1>6, <1>7, <2>1
<1>9. \A d \in Days : d > day' => used'[d] = 0
  BY <1>2, <1>4 DEF BudgetInv
<1> QED
  BY <1>5, <1>8, <1>9 DEF BudgetInv, OverrunBounded, n, m

\* A step that touches neither the counter nor the awaits of a charge.
LEMMA BudgetUntouched ==
    ASSUME BudgetInv, TypeOK', UNCHANGED <<day, used, resent>>, Uncharged' \subseteq Uncharged
    PROVE  BudgetInv'
<1>1. used' = [used EXCEPT ![day] = @ + 0]
  BY DEF BudgetInv, TypeOK, Days
<1>2. Cardinality(Uncharged') <= Cardinality(Uncharged)
  BY UnchargedShrinks
<1>3. Cardinality(Uncharged') \in Nat /\ Cardinality(Uncharged) \in Nat /\ resent \in Nat
  BY UnchargedFinite, UnchargedFiniteNext DEF BudgetInv, TypeOK
<1>4. MaxUse * Cardinality(Uncharged') <= MaxUse * Cardinality(Uncharged)
  BY <1>2, <1>3
<1>5. 0 + MaxUse * Cardinality(Uncharged')
          <= MaxUse * Cardinality(Uncharged) + MaxUse * (resent' - resent)
  <2>1. resent' - resent = 0 /\ MaxUse * 0 = 0
    BY <1>3
  <2>2. MaxUse * Cardinality(Uncharged') \in Int /\ MaxUse * Cardinality(Uncharged) \in Int
    BY <1>3
  <2> QED
    BY <1>4, <2>1, <2>2
<1>6. resent' >= resent
  BY <1>3
<1> QED
  BY <1>1, <1>5, <1>6, BudgetKept

-----------------------------------------------------------------------------
(* Type correctness.                                                        *)

\* The initial state has the right types.
LEMMA InitTypeOK == Init => TypeOK
<1> SUFFICES ASSUME Init PROVE TypeOK
  OBVIOUS
<1> QED
  BY DEF Init, TypeOK, Days, Kinds

\* The end of a handler keeps the types (ai.service.ts:92-105).
LEMMA FinishTypeOK ==
    ASSUME TypeOK, NEW c \in Calls, Finish(c)
    PROVE  /\ pc' \in [Calls -> {"idle", "check", "call", "log", "consume", "expire", "logError"}]
           /\ kind' \in [Calls -> Kinds]
           /\ hop' \in [Calls -> 1..Chain]
           /\ usage' \in [Calls -> 0..MaxUse]
           /\ pc' = [pc EXCEPT ![c] = "idle"]
BY DEF TypeOK, Finish, Goto, Kinds

\* So does an exception, which the completions log first (ai.service.ts:94-108).
LEMMA ThrowTypeOK ==
    ASSUME TypeOK, NEW c \in Calls, Throw(c)
    PROVE  /\ pc' \in [Calls -> {"idle", "check", "call", "log", "consume", "expire", "logError"}]
           /\ kind' \in [Calls -> Kinds]
           /\ hop' \in [Calls -> 1..Chain]
           /\ usage' \in [Calls -> 0..MaxUse]
           /\ pc'[c] \in {"idle", "logError"}
           /\ \A b \in Calls \ {c} : pc'[b] = pc[b] /\ usage'[b] = usage[b]
<1>1. CASE Finish(c)
  BY <1>1, FinishTypeOK DEF Finish, TypeOK
<1>2. CASE Goto(c, "logError") /\ UNCHANGED <<kind, hop, usage>>
  BY <1>2 DEF Goto, TypeOK
<1> QED
  BY <1>1, <1>2 DEF Throw

\* A charge of at most twice the tokens of a call (budget.service.ts:38-44).
LEMMA ChargeTypeOK ==
    ASSUME TypeOK, NEW c \in Calls, NEW times \in Nat, Charge(c, times)
    PROVE  used' \in [Days -> Nat] /\ times * usage[c] \in Nat
<1>1. usage[c] \in Nat /\ times * usage[c] \in Nat
  BY DEF TypeOK
<1> DEFINE u == times * usage[c]
<1>2. used' = [used EXCEPT ![day] = @ + u] /\ u \in Nat
  BY <1>1 DEF Charge
<1> HIDE DEF u
<1>3. used' \in [Days -> Nat]
  BY <1>2 DEF TypeOK
<1> QED
  BY <1>1, <1>3

\* Every step keeps the types.
LEMMA NextTypeOK == TypeOK /\ [Next]_vars => TypeOK'
<1> SUFFICES ASSUME TypeOK, [Next]_vars PROVE TypeOK'
  OBVIOUS
<1>1. ASSUME NEW c \in Calls, Arrive(c) PROVE TypeOK'
  BY <1>1 DEF Arrive, Goto, TypeOK
<1>2. ASSUME NEW c \in Calls, CheckBudget(c) PROVE TypeOK'
  <2>1. CASE Finish(c)
    BY <1>2, <2>1, FinishTypeOK DEF CheckBudget, TypeOK
  <2>2. CASE Goto(c, "call") /\ UNCHANGED <<kind, hop, usage>>
    BY <1>2, <2>2 DEF CheckBudget, Goto, TypeOK
  <2> QED
    BY <1>2, <2>1, <2>2 DEF CheckBudget
<1>3. ASSUME NEW c \in Calls, ProviderAnswers(c) PROVE TypeOK'
  BY <1>3 DEF ProviderAnswers, Goto, TypeOK
<1>4. ASSUME NEW c \in Calls, ProviderFails(c) PROVE TypeOK'
  <2>1. CASE MoreRoutes(c)
    BY <1>4, <2>1 DEF ProviderFails, MoreRoutes, NextRoute, TypeOK
  <2>2. CASE ~ MoreRoutes(c)
    BY <1>4, <2>2, ThrowTypeOK DEF ProviderFails, TypeOK
  <2> QED
    BY <2>1, <2>2
<1>5. ASSUME NEW c \in Calls, LogCall(c) PROVE TypeOK'
  BY <1>5 DEF LogCall, AddToLog, Goto, TypeOK
<1>6. ASSUME NEW c \in Calls, NEW times \in 1..2, Counted(c, times),
             resent' \in 0..MaxResends
      PROVE  TypeOK'
  <2>1. used' \in [Days -> Nat]
    BY <1>6, ChargeTypeOK DEF Counted
  <2>2. CASE Finish(c)
    BY <1>6, <2>1, <2>2, FinishTypeOK DEF Counted, TypeOK
  <2>3. CASE Goto(c, "expire") /\ UNCHANGED <<kind, hop, usage>>
    BY <1>6, <2>1, <2>3 DEF Counted, Goto, TypeOK
  <2> QED
    BY <1>6, <2>2, <2>3 DEF Counted
<1>7. ASSUME NEW c \in Calls, Consume(c) \/ ConsumeResent(c) PROVE TypeOK'
  <2>1. resent' \in 0..MaxResends
    BY <1>7 DEF Consume, ConsumeResent, TypeOK
  <2> QED
    BY <1>6, <1>7, <2>1 DEF Consume, ConsumeResent
<1>8. ASSUME NEW c \in Calls, Expire(c) PROVE TypeOK'
  BY <1>8, FinishTypeOK DEF Expire, TypeOK
<1>9. ASSUME NEW c \in Calls, Reject(c) PROVE TypeOK'
  <2>1. used' \in [Days -> Nat]
    BY <1>9, ChargeTypeOK DEF Reject, TypeOK
  <2>2. logged' \in Nat /\ Throw(c)
    BY <1>9 DEF Reject, AddToLog, TypeOK
  <2> QED
    BY <1>9, <2>1, <2>2, ThrowTypeOK DEF Reject, TypeOK
<1>10. ASSUME NEW c \in Calls, LogError(c) PROVE TypeOK'
  BY <1>10, FinishTypeOK DEF LogError, TypeOK
<1>11. ASSUME NEW c \in Calls, Abort(c) PROVE TypeOK'
  BY <1>11, FinishTypeOK DEF Abort, TypeOK
<1>12. ASSUME NextDay PROVE TypeOK'
  BY <1>12 DEF NextDay, TypeOK, Days
<1>13. CASE UNCHANGED vars
  BY <1>13 DEF vars, TypeOK
<1> QED
  BY <1>1, <1>2, <1>3, <1>4, <1>5, <1>7, <1>8, <1>9, <1>10, <1>11, <1>12, <1>13
     DEF Next, Step

-----------------------------------------------------------------------------
(* The budget.                                                              *)

\* Nothing is used at first.
LEMMA InitBudgetInv == Init => BudgetInv
<1> SUFFICES ASSUME Init PROVE BudgetInv
  OBVIOUS
<1>1. TypeOK
  BY InitTypeOK
<1>2. Uncharged = {}
  BY DEF Init, Uncharged
<1>3. Cardinality(Uncharged) = 0
  BY <1>2, FS_EmptySet
<1>4. Cardinality(Calls) \in Nat
  BY UnchargedFinite
<1>5. (Cardinality(Calls) + 0) * MaxUse >= 0 /\ MaxUse * 0 = 0
  BY <1>4
<1>6. resent = 0 /\ day \in Days /\ \A d \in Days : used[d] = 0
  BY DEF Init, Days
<1> QED
  BY <1>1, <1>3, <1>4, <1>5, <1>6 DEF BudgetInv, OverrunBounded

\* A request that is let through finds room, however many others were
\* (budget.service.ts:28-36).
LEMMA CheckKeepsBudget ==
    ASSUME BudgetInv, NEW c \in Calls, CheckBudget(c), TypeOK'
    PROVE  BudgetInv'
<1>1. CASE Finish(c)
  <2>1. Uncharged' \subseteq Uncharged
    BY <1>1 DEF Finish, Goto, Uncharged, BudgetInv, TypeOK
  <2> QED
    BY <2>1, BudgetUntouched DEF CheckBudget
<1>2. CASE ~ OverBudget(used[day]) /\ UNCHANGED <<used, day, resent>>
  <2> DEFINE n == Cardinality(Calls)
             m == Cardinality(Uncharged')
  <2>1. n \in Nat /\ m \in Nat /\ m <= n /\ resent \in Nat
    BY UnchargedFinite, UnchargedFiniteNext DEF BudgetInv, TypeOK
  <2>2. used[day] < Limit /\ used[day] \in Nat
    BY <1>2 DEF OverBudget, BudgetInv, TypeOK
  <2> HIDE DEF n, m
  <2>3. MaxUse * m <= (n + resent) * MaxUse
    <3>1. m <= n + resent
      BY <2>1
    <3>2. MaxUse * m <= MaxUse * (n + resent)
      BY <2>1, <3>1
    <3> QED
      BY <2>1, <3>2
  <2>4. used[day] + MaxUse * m < Limit + (n + resent) * MaxUse
    <3>1. MaxUse * m \in Int /\ (n + resent) * MaxUse \in Int
      BY <2>1
    <3> QED
      BY <2>2, <2>3, <3>1
  <2> QED
    BY <1>2, <2>4 DEF BudgetInv, OverrunBounded, n, m
<1> QED
  BY <1>1, <1>2 DEF CheckBudget

\* A charge is made by a request that leaves the awaits of a charge
\* (budget.service.ts:38-44).
LEMMA ChargeKeepsBudget ==
    ASSUME BudgetInv, TypeOK', NEW c \in Calls, pc[c] = "consume",
           pc'[c] \in {"expire", "idle", "logError"}, \A b \in Calls \ {c} : pc'[b] = pc[b],
           day' = day,
           \/ Charge(c, 1) /\ resent' = resent
           \/ Charge(c, 2) /\ resent' = resent + 1
    PROVE  BudgetInv'
<1>1. Uncharged' = Uncharged \ {c} /\ c \in Uncharged
  BY DEF Uncharged
<1> DEFINE k == Cardinality(Uncharged)
           m == Cardinality(Uncharged')
<1>2. m + 1 = k /\ m \in Nat /\ k \in Nat
  BY <1>1, UnchargedLeft, UnchargedFinite, UnchargedFiniteNext
<1>3. usage[c] \in 0..MaxUse /\ resent \in Nat
  BY DEF BudgetInv, TypeOK
<1> HIDE DEF k, m
<1>4. MaxUse * k = MaxUse * m + MaxUse /\ MaxUse * m \in Int
  BY <1>2
<1>5. CASE Charge(c, 1) /\ resent' = resent
  <2>1. used' = [used EXCEPT ![day] = @ + usage[c]]
    <3>1. 1 * usage[c] = usage[c]
      BY <1>3
    <3> QED
      BY <1>5, <3>1 DEF Charge
  <2>2. MaxUse * (resent' - resent) = 0
    BY <1>3, <1>5
  <2>3. usage[c] + MaxUse * m <= MaxUse * k + MaxUse * (resent' - resent)
    BY <1>3, <1>4, <2>2
  <2> QED
    <3>1. usage[c] \in Nat /\ resent' >= resent
      BY <1>3, <1>5
    <3> QED
      BY <2>1, <2>3, <3>1, BudgetKept DEF k, m
<1>6. CASE Charge(c, 2) /\ resent' = resent + 1
  <2>1. used' = [used EXCEPT ![day] = @ + 2 * usage[c]] /\ 2 * usage[c] \in Nat
    BY <1>3, <1>6 DEF Charge
  <2>2. MaxUse * (resent' - resent) = MaxUse
    BY <1>3, <1>6
  <2>3. 2 * usage[c] + MaxUse * m <= MaxUse * k + MaxUse * (resent' - resent)
    BY <1>3, <1>4, <2>2
  <2>4. resent' >= resent
    BY <1>3, <1>6
  <2> QED
    BY <2>1, <2>3, <2>4, BudgetKept DEF k, m
<1> QED
  BY <1>5, <1>6

\* On a new day the counter starts again, and every request that was let through the day
\* before may still be charged to it (budget.service.ts:22-26).
LEMMA NextDayKeepsBudget ==
    ASSUME BudgetInv, NextDay, TypeOK'
    PROVE  BudgetInv'
<1> DEFINE n == Cardinality(Calls)
           m == Cardinality(Uncharged')
<1>1. n \in Nat /\ m \in Nat /\ m <= n /\ resent \in Nat
  BY UnchargedFinite, UnchargedFiniteNext DEF BudgetInv, TypeOK
<1>2. day' \in Days /\ day' > day /\ UNCHANGED <<used, resent>> /\ Days \subseteq Nat
  BY DEF NextDay, BudgetInv, TypeOK, Days
<1>3. used'[day'] = 0
  BY <1>2 DEF BudgetInv
<1> HIDE DEF n, m
<1>4. MaxUse * m <= (n + resent) * MaxUse
  <2>1. m <= n + resent
    BY <1>1
  <2>2. MaxUse * m <= MaxUse * (n + resent)
    BY <1>1, <2>1
  <2> QED
    BY <1>1, <2>2
<1>5. used'[day'] + MaxUse * m < Limit + (n + resent') * MaxUse
  <2>1. MaxUse * m \in Int /\ (n + resent) * MaxUse \in Int
    BY <1>1
  <2> QED
    BY <1>2, <1>3, <1>4, <2>1
<1>6. \A d \in Days : d > day' => used'[d] = 0
  BY <1>2 DEF BudgetInv, TypeOK
<1> QED
  BY <1>2, <1>5, <1>6 DEF BudgetInv, OverrunBounded, n, m

\* Every step keeps the budget.
LEMMA NextBudgetInv == BudgetInv /\ [Next]_vars => BudgetInv'
<1> SUFFICES ASSUME BudgetInv, [Next]_vars PROVE BudgetInv'
  OBVIOUS
<1>0. TypeOK'
  BY NextTypeOK DEF BudgetInv
<1>1. ASSUME NEW c \in Calls, CheckBudget(c) PROVE BudgetInv'
  BY <1>0, <1>1, CheckKeepsBudget
<1>2. ASSUME NEW c \in Calls, Consume(c) PROVE BudgetInv'
  <2>1. pc'[c] \in {"expire", "idle"} /\ \A b \in Calls \ {c} : pc'[b] = pc[b]
    BY <1>2 DEF Consume, Counted, Finish, Goto, BudgetInv, TypeOK
  <2> QED
    BY <1>0, <1>2, <2>1, ChargeKeepsBudget DEF Consume, Counted
<1>3. ASSUME NEW c \in Calls, ConsumeResent(c) PROVE BudgetInv'
  <2>1. pc'[c] \in {"expire", "idle"} /\ \A b \in Calls \ {c} : pc'[b] = pc[b]
    BY <1>3 DEF ConsumeResent, Counted, Finish, Goto, BudgetInv, TypeOK
  <2> QED
    BY <1>0, <1>3, <2>1, ChargeKeepsBudget DEF ConsumeResent, Counted
<1>4. ASSUME NEW c \in Calls, Reject(c) PROVE BudgetInv'
  <2>1. pc'[c] \in {"idle", "logError"} /\ \A b \in Calls \ {c} : pc'[b] = pc[b]
    BY <1>4, ThrowTypeOK DEF Reject, BudgetInv
  <2>2. CASE used' = used
    <3>1. Uncharged' \subseteq Uncharged
      BY <2>1 DEF Uncharged
    <3> QED
      BY <1>0, <1>4, <2>2, <3>1, BudgetUntouched DEF Reject
  <2>3. CASE pc[c] = "consume" /\ Charge(c, 1)
    BY <1>0, <1>4, <2>1, <2>3, ChargeKeepsBudget DEF Reject
  <2> QED
    BY <1>4, <2>2, <2>3 DEF Reject
<1>5. ASSUME NextDay PROVE BudgetInv'
  BY <1>0, <1>5, NextDayKeepsBudget
<1>6. ASSUME NEW c \in Calls,
             \/ Arrive(c) \/ ProviderAnswers(c) \/ ProviderFails(c) \/ LogCall(c)
             \/ Expire(c) \/ LogError(c) \/ Abort(c)
      PROVE  BudgetInv'
  <2>1. UNCHANGED <<day, used, resent>>
    BY <1>6 DEF Arrive, ProviderAnswers, ProviderFails, LogCall, Expire, LogError, Abort
  <2>2. Uncharged' \subseteq Uncharged
    BY <1>6 DEF Arrive, ProviderAnswers, ProviderFails, Throw, LogCall, Expire, LogError, Abort,
       Finish, Goto, Uncharged, BudgetInv, TypeOK
  <2> QED
    BY <1>0, <2>1, <2>2, BudgetUntouched
<1>7. CASE UNCHANGED vars
  <2>1. UNCHANGED <<day, used, resent>> /\ Uncharged' \subseteq Uncharged
    BY <1>7 DEF vars, Uncharged
  <2> QED
    BY <1>0, <2>1, BudgetUntouched
<1> QED
  BY <1>1, <1>2, <1>3, <1>4, <1>5, <1>6, <1>7 DEF Next, Step

-----------------------------------------------------------------------------
(* The sum of the counters.  The provers take no theorem about an operator, so  *)
(* an induction over days is an argument about the least day it fails for.      *)

\* A set of numbers has a least one.
LEMMA LeastElement ==
    ASSUME NEW T \in SUBSET Nat, T # {}
    PROVE  \E x \in T : \A y \in T : x <= y
<1> DEFINE R == OpToRel(<, Nat)
<1>1. IsWellFoundedOn(R, Nat)
  BY NatLessThanWellFounded
<1>2. \A x, y \in Nat : <<x, y>> \in R <=> x < y
  BY DEF OpToRel
<1> HIDE DEF R
<1>3. PICK x \in T : \A y \in T : ~ (<<y, x>> \in R)
  BY <1>1, WFMin
<1>4. \A y \in T : ~ (y < x)
  BY <1>2, <1>3
<1>5. \A y \in T : x <= y
  BY <1>4
<1> QED
  BY <1>5

\* g adds up u until the day n.
AddsUp(g, u, n) == g = [d \in 0..n |-> u[d] + (IF d = 0 THEN 0 ELSE g[d - 1])]

\* There is such a sum for every n.
LEMMA SumExists ==
    ASSUME NEW u, NEW last \in Nat
    PROVE  \E g : AddsUp(g, u, last)
<1> DEFINE T == {n \in Nat : ~ \E g : AddsUp(g, u, n)}
<1>1. SUFFICES ASSUME T # {} PROVE FALSE
  OBVIOUS
<1>2. PICK n \in T : \A y \in T : n <= y
  BY <1>1, LeastElement
<1>3. CASE n = 0
  <2> DEFINE g == [d \in 0..0 |-> u[d] + 0]
  <2>1. \A d \in 0..0 : d = 0
    OBVIOUS
  <2>2. g = [d \in 0..0 |-> u[d] + (IF d = 0 THEN 0 ELSE g[d - 1])]
    BY <2>1
  <2> HIDE DEF g
  <2> QED
    BY <1>2, <1>3, <2>2 DEF AddsUp
<1>4. CASE n # 0
  <2>1. n - 1 \in Nat /\ n - 1 \notin T
    BY <1>2, <1>4
  <2>2. PICK g : AddsUp(g, u, n - 1)
    BY <2>1
  <2> DEFINE h == [d \in 0..n |-> IF d = n THEN u[n] + g[n - 1] ELSE g[d]]
  <2>3. \A d \in 0..n : h[d] = u[d] + (IF d = 0 THEN 0 ELSE h[d - 1])
    <3> SUFFICES ASSUME NEW d \in 0..n
                 PROVE  h[d] = u[d] + (IF d = 0 THEN 0 ELSE h[d - 1])
      OBVIOUS
    <3>1. CASE d = n
      BY <1>2, <1>4, <3>1
    <3>2. CASE d # n
      BY <1>2, <1>4, <2>2, <3>2 DEF AddsUp
    <3> QED
      BY <3>1, <3>2
  <2>4. h = [d \in 0..n |-> u[d] + (IF d = 0 THEN 0 ELSE h[d - 1])]
    BY <2>3
  <2> HIDE DEF h
  <2> QED
    BY <1>2, <2>4 DEF AddsUp
<1> QED
  BY <1>3, <1>4

\* Charged is that sum of the counters, now and in the next state.
LEMMA ChargedAddsUp == AddsUp(Charged, used, LastDay) /\ AddsUp(Charged', used', LastDay)
<1>1. AddsUp(Charged, used, LastDay)
  <2>1. \E g : AddsUp(g, used, LastDay)
    BY SumExists
  <2> QED
    BY <2>1 DEF Charged, AddsUp, Days
<1>2. AddsUp(Charged', used', LastDay)
  <2>1. \E g : AddsUp(g, used', LastDay)
    BY SumExists
  <2> QED
    BY <2>1 DEF Charged, AddsUp, Days
<1> QED
  BY <1>1, <1>2

\* A sum of numbers is a number.
LEMMA SumType ==
    ASSUME NEW last \in Nat, NEW u \in [0..last -> Nat], NEW g, AddsUp(g, u, last)
    PROVE  \A d \in 0..last : g[d] \in Nat
<1> DEFINE T == {d \in 0..last : g[d] \notin Nat}
<1>1. SUFFICES ASSUME T # {} PROVE FALSE
  OBVIOUS
<1>2. PICK n \in T : \A y \in T : n <= y
  <2>1. T \in SUBSET Nat
    OBVIOUS
  <2> HIDE DEF T
  <2> QED
    BY <1>1, <2>1, LeastElement
<1>3. u[n] \in Nat /\ g[n] = u[n] + (IF n = 0 THEN 0 ELSE g[n - 1])
  BY <1>2 DEF AddsUp
<1>4. CASE n = 0
  BY <1>2, <1>3, <1>4
<1>5. CASE n # 0
  <2>1. n - 1 \in 0..last /\ n - 1 \notin T
    BY <1>2, <1>5
  <2> QED
    BY <1>2, <1>3, <1>5, <2>1
<1> QED
  BY <1>4, <1>5

\* v is u with x added to one day.
AddedOn(v, u, day0, x, last) ==
    \A d \in 0..last : v[d] = u[d] + (IF d = day0 THEN x ELSE 0)

\* What is added to one day is added to the sums from that day on.
LEMMA SumGrows ==
    ASSUME NEW last \in Nat, NEW u \in [0..last -> Nat], NEW v, NEW day0 \in 0..last,
           NEW x \in Nat, AddedOn(v, u, day0, x, last),
           NEW g, AddsUp(g, u, last), NEW h, AddsUp(h, v, last)
    PROVE  h[last] = g[last] + x
<1> DEFINE Extra(d) == IF d < day0 THEN 0 ELSE x
           T == {d \in 0..last : h[d] # g[d] + Extra(d)}
<1>1. SUFFICES ASSUME T # {} PROVE FALSE
  BY DEF Extra
<1>2. PICK n \in T : \A y \in T : n <= y
  <2>1. T \in SUBSET Nat
    OBVIOUS
  <2> HIDE DEF T
  <2> QED
    BY <1>1, <2>1, LeastElement
<1>3. /\ g[n] = u[n] + (IF n = 0 THEN 0 ELSE g[n - 1])
      /\ h[n] = v[n] + (IF n = 0 THEN 0 ELSE h[n - 1])
      /\ v[n] = IF n = day0 THEN u[n] + x ELSE u[n]
      /\ u[n] \in Nat /\ n \in Nat
  BY <1>2 DEF AddsUp, AddedOn
<1>4. CASE n = 0
  BY <1>2, <1>3, <1>4
<1>5. CASE n # 0
  <2>1. n - 1 \in 0..last /\ n - 1 \notin T /\ n - 1 < n
    BY <1>2, <1>5
  <2>2. h[n - 1] = g[n - 1] + Extra(n - 1)
    BY <2>1
  <2>3. g[n - 1] \in Nat
    BY <2>1, SumType
  <2>4. h[n] = g[n] + Extra(n)
    <3>1. CASE n < day0
      BY <1>3, <1>5, <2>2, <2>3, <3>1
    <3>2. CASE n = day0
      BY <1>3, <1>5, <2>2, <2>3, <3>2
    <3>3. CASE n > day0
      BY <1>3, <1>5, <2>2, <2>3, <3>3
    <3> QED
      BY <1>3, <3>1, <3>2, <3>3
  <2> QED
    BY <1>2, <2>4
<1> QED
  BY <1>4, <1>5

\* If nothing is added the sum stays.
LEMMA SumStays ==
    ASSUME NEW last \in Nat, NEW u \in [0..last -> Nat],
           NEW g, AddsUp(g, u, last), NEW h, AddsUp(h, u, last)
    PROVE  h[last] = g[last]
<1>1. AddedOn(u, u, 0, 0, last)
  BY DEF AddedOn
<1>2. 0 \in 0..last /\ g[last] \in Nat
  BY SumType
<1>3. h[last] = g[last] + 0
  BY <1>1, <1>2, SumGrows
<1> QED
  BY <1>2, <1>3

-----------------------------------------------------------------------------
(* The tokens that are logged and not charged.                              *)

\* As many pairs as tokens come with one request.
LEMMA CountTokens ==
    ASSUME NEW S, IsFiniteSet(S), NEW c, NEW u \in Nat, S \cap ({c} \X (1..u)) = {}
    PROVE  Cardinality(S \cup ({c} \X (1..u))) = Cardinality(S) + u
<1>1. IsFiniteSet({c}) /\ Cardinality({c}) = 1
  BY FS_Singleton
<1>2. IsFiniteSet(1..u) /\ Cardinality(1..u) = u
  BY FS_Interval
<1>3. IsFiniteSet({c} \X (1..u)) /\ Cardinality({c} \X (1..u)) = 1 * u
  BY <1>1, <1>2, FS_Product, ZenonT(30)
<1>4. Cardinality(S) \in Nat
  BY FS_CardinalityType
<1> DEFINE T == {c} \X (1..u)
<1>5. S \cap T = {} /\ Cardinality(T) = u /\ IsFiniteSet(T)
  BY <1>3
<1> HIDE DEF T
<1>6. Cardinality(S \cup T) = Cardinality(S) + Cardinality(T) - Cardinality(S \cap T)
  BY <1>5, FS_Union
<1>7. Cardinality(S \cap T) = 0
  BY <1>5, FS_EmptySet
<1>8. Cardinality(S \cup T) = Cardinality(S) + u
  BY <1>4, <1>5, <1>6, <1>7
<1> QED
  BY <1>8 DEF T

\* They are finitely many.
LEMMA OwedFinite ==
    /\ IsFiniteSet(Owed) /\ Cardinality(Owed) \in Nat
    /\ IsFiniteSet(Owed') /\ Cardinality(Owed') \in Nat
<1>1. IsFiniteSet(1..MaxUse)
  BY FS_Interval
<1>2. IsFiniteSet(Calls \X (1..MaxUse))
  BY <1>1, FS_Product
<1>3. Owed \subseteq Calls \X (1..MaxUse) /\ Owed' \subseteq Calls \X (1..MaxUse)
  BY DEF Owed
<1> QED
  BY <1>2, <1>3, FS_Subset, FS_CardinalityType

\* A request that is charged, rejected or aborted takes its tokens out
\* (ai.service.ts:88-105).
LEMMA OwedLeft ==
    ASSUME TypeOK, NEW c \in Calls, pc[c] = "consume", pc'[c] # "consume",
           \A b \in Calls \ {c} : pc'[b] = pc[b] /\ usage'[b] = usage[b]
    PROVE  Cardinality(Owed) = Cardinality(Owed') + usage[c]
<1>1. usage[c] \in 0..MaxUse
  BY DEF TypeOK
<1>2. Owed' \cap ({c} \X (1..usage[c])) = {}
  BY DEF Owed
<1>3. Owed = Owed' \cup ({c} \X (1..usage[c]))
  BY <1>1 DEF Owed
<1>4. Cardinality(Owed' \cup ({c} \X (1..usage[c]))) = Cardinality(Owed') + usage[c]
  <2>1. usage[c] \in Nat /\ IsFiniteSet(Owed')
    BY <1>1, OwedFinite
  <2> QED
    BY <1>2, <2>1, CountTokens
<1> QED
  BY <1>3, <1>4

\* A request that is logged brings its tokens in (ai.service.ts:73-88).
LEMMA OwedLogged ==
    ASSUME TypeOK, NEW c \in Calls, pc[c] = "log", pc'[c] = "consume", usage' = usage,
           \A b \in Calls \ {c} : pc'[b] = pc[b]
    PROVE  Cardinality(Owed') = Cardinality(Owed) + usage[c]
<1>1. usage[c] \in 0..MaxUse
  BY DEF TypeOK
<1>2. Owed \cap ({c} \X (1..usage[c])) = {}
  BY DEF Owed
<1>3. Owed' = Owed \cup ({c} \X (1..usage[c]))
  BY <1>1 DEF Owed
<1>4. Cardinality(Owed \cup ({c} \X (1..usage[c]))) = Cardinality(Owed) + usage[c]
  <2>1. usage[c] \in Nat /\ IsFiniteSet(Owed)
    BY <1>1, OwedFinite
  <2> QED
    BY <1>2, <2>1, CountTokens
<1> QED
  BY <1>3, <1>4

-----------------------------------------------------------------------------
(* The log.                                                                 *)

\* The sum of the counters is a number, now and in the next state.
LEMMA ChargedType ==
    ASSUME TypeOK, TypeOK'
    PROVE  Charged[LastDay] \in Nat /\ Charged'[LastDay] \in Nat
<1>1. used \in [0..LastDay -> Nat] /\ used' \in [0..LastDay -> Nat] /\ LastDay \in 0..LastDay
  BY DEF TypeOK, Days
<1> QED
  BY <1>1, ChargedAddsUp, SumType

\* A charge adds its tokens to the sum of all days (budget.service.ts:38-44).
LEMMA ChargedGrows ==
    ASSUME TypeOK, NEW x \in Nat, used' = [used EXCEPT ![day] = @ + x]
    PROVE  Charged'[LastDay] = Charged[LastDay] + x
<1>1. used \in [0..LastDay -> Nat] /\ day \in 0..LastDay
  BY DEF TypeOK, Days
<1>2. AddedOn(used', used, day, x, LastDay)
  BY <1>1 DEF AddedOn
<1> QED
  BY <1>1, <1>2, ChargedAddsUp, SumGrows

LEMMA ChargedStays ==
    ASSUME TypeOK, used' = used
    PROVE  Charged'[LastDay] = Charged[LastDay]
<1>1. used \in [0..LastDay -> Nat]
  BY DEF TypeOK, Days
<1>2. AddsUp(Charged', used, LastDay)
  BY ChargedAddsUp
<1> QED
  BY <1>1, <1>2, ChargedAddsUp, SumStays

\* Nothing is charged or logged at first.
LEMMA InitLogInv == Init => LogInv
<1> SUFFICES ASSUME Init PROVE LogInv
  OBVIOUS
<1>1. TypeOK
  BY InitTypeOK
<1>2. Owed = {} /\ Cardinality({}) = 0
  BY FS_EmptySet DEF Init, Owed
<1>3. Charged[LastDay] = 0
  <2> DEFINE g == [d \in 0..LastDay |-> 0]
  <2>1. AddsUp(g, used, LastDay)
    BY DEF AddsUp, Init, Days
  <2>2. used \in [0..LastDay -> Nat]
    BY <1>1 DEF TypeOK, Days
  <2>3. g[LastDay] = 0
    OBVIOUS
  <2> HIDE DEF g
  <2> QED
    BY <2>1, <2>2, <2>3, ChargedAddsUp, SumStays
<1>4. logged = 0 /\ resent = 0
  BY DEF Init
<1> QED
  BY <1>1, <1>2, <1>3, <1>4 DEF LogInv

\* A step that neither logs, charges nor moves a request to or from its charge.
LEMMA LogUntouched ==
    ASSUME LogInv, TypeOK', UNCHANGED <<used, resent>>, logged' >= logged, Owed' = Owed
    PROVE  LogInv'
<1>1. Charged'[LastDay] = Charged[LastDay]
  BY ChargedStays DEF LogInv
<1>2. /\ Charged[LastDay] \in Nat /\ Cardinality(Owed) \in Nat
      /\ logged \in Nat /\ logged' \in Nat /\ resent * MaxUse \in Nat
  BY ChargedType, OwedFinite DEF LogInv, TypeOK
<1>3. Charged[LastDay] + Cardinality(Owed) <= logged + resent * MaxUse
  BY DEF LogInv
<1>4. Charged'[LastDay] + Cardinality(Owed') <= logged' + resent' * MaxUse
  BY <1>1, <1>2, <1>3
<1> QED
  BY <1>4 DEF LogInv

\* A request that leaves its charge, charged once, twice or not at all
\* (budget.service.ts:38-44).
LEMMA LeaveKeepsLog ==
    ASSUME LogInv, TypeOK', NEW c \in Calls, pc[c] = "consume", pc'[c] # "consume",
           \A b \in Calls \ {c} : pc'[b] = pc[b] /\ usage'[b] = usage[b],
           logged' = logged,
           \/ used' = used /\ resent' = resent
           \/ Charge(c, 1) /\ resent' = resent
           \/ Charge(c, 2) /\ resent' = resent + 1
    PROVE  LogInv'
<1> DEFINE u == usage[c]
           s == Charged[LastDay]
           t == Charged'[LastDay]
           k == Cardinality(Owed)
           m == Cardinality(Owed')
<1>1. TypeOK /\ u \in 0..MaxUse /\ resent \in Nat /\ logged \in Nat
  BY DEF LogInv, TypeOK
<1>2. k = m + u /\ m \in Nat /\ k \in Nat
  BY <1>1, OwedLeft, OwedFinite
<1>3. s \in Nat /\ t \in Nat
  BY <1>1, ChargedType
<1>4. s + k <= logged + resent * MaxUse /\ resent * MaxUse \in Nat
  BY <1>1 DEF LogInv
<1>5. \/ t = s /\ resent' = resent
      \/ t = s + u /\ resent' = resent
      \/ t = s + 2 * u /\ resent' = resent + 1
  <2>1. 1 * u = u /\ u \in Nat /\ 2 * u \in Nat
    BY <1>1
  <2> HIDE DEF u
  <2>2. CASE used' = used /\ resent' = resent
    BY <1>1, <2>2, ChargedStays
  <2>3. CASE Charge(c, 1) /\ resent' = resent
    <3>1. used' = [used EXCEPT ![day] = @ + u]
      BY <2>1, <2>3 DEF Charge, u
    <3> QED
      BY <1>1, <2>1, <2>3, <3>1, ChargedGrows
  <2>4. CASE Charge(c, 2) /\ resent' = resent + 1
    <3> DEFINE x == 2 * u
    <3>1. used' = [used EXCEPT ![day] = @ + x] /\ x \in Nat
      BY <2>1, <2>4 DEF Charge, u
    <3> HIDE DEF x
    <3>2. t = s + x
      BY <1>1, <3>1, ChargedGrows
    <3> QED
      BY <2>4, <3>2 DEF x
  <2> QED
    BY <2>2, <2>3, <2>4
<1>6. (resent + 1) * MaxUse = resent * MaxUse + MaxUse
  BY <1>1
<1> HIDE DEF u, s, t, k, m
<1>7. t + m <= logged + resent' * MaxUse
  BY <1>1, <1>2, <1>3, <1>4, <1>5, <1>6
<1> QED
  BY <1>7 DEF LogInv, t, m

\* The request is logged before it may be charged (ai.service.ts:73-88).
LEMMA LogCallKeepsLog ==
    ASSUME LogInv, TypeOK', NEW c \in Calls, LogCall(c)
    PROVE  LogInv'
<1>1. TypeOK /\ usage[c] \in Nat /\ logged \in Nat /\ resent * MaxUse \in Nat
  BY DEF LogInv, TypeOK
<1>2. pc'[c] = "consume" /\ \A b \in Calls \ {c} : pc'[b] = pc[b]
  BY <1>1 DEF LogCall, Goto, TypeOK
<1>3. Cardinality(Owed') = Cardinality(Owed) + usage[c]
  BY <1>1, <1>2, OwedLogged DEF LogCall
<1>4. Charged'[LastDay] = Charged[LastDay]
  BY <1>1, ChargedStays DEF LogCall
<1>5. logged' = logged + usage[c] /\ resent' = resent
  BY DEF LogCall, AddToLog
<1>6. /\ Charged[LastDay] \in Nat /\ Cardinality(Owed) \in Nat
      /\ Charged[LastDay] + Cardinality(Owed) <= logged + resent * MaxUse
  BY <1>1, ChargedType, OwedFinite DEF LogInv
<1>7. Charged'[LastDay] + Cardinality(Owed') <= logged' + resent' * MaxUse
  BY <1>1, <1>3, <1>4, <1>5, <1>6
<1> QED
  BY <1>7 DEF LogInv

\* Every step keeps the charges within the log.
LEMMA NextLogInv == LogInv /\ [Next]_vars => LogInv'
<1> SUFFICES ASSUME LogInv, [Next]_vars PROVE LogInv'
  OBVIOUS
<1>0. TypeOK /\ TypeOK'
  BY NextTypeOK DEF LogInv
<1>1. ASSUME NEW c \in Calls, LogCall(c) PROVE LogInv'
  BY <1>0, <1>1, LogCallKeepsLog
<1>2. ASSUME NEW c \in Calls, Consume(c) \/ ConsumeResent(c) PROVE LogInv'
  <2>1. /\ pc[c] = "consume" /\ pc'[c] # "consume" /\ logged' = logged
        /\ \A b \in Calls \ {c} : pc'[b] = pc[b] /\ usage'[b] = usage[b]
    BY <1>0, <1>2 DEF Consume, ConsumeResent, Counted, Finish, Goto, TypeOK
  <2>2. \/ Charge(c, 1) /\ resent' = resent
        \/ Charge(c, 2) /\ resent' = resent + 1
    BY <1>2 DEF Consume, ConsumeResent, Counted
  <2> QED
    BY <1>0, <2>1, <2>2, LeaveKeepsLog
<1>3. ASSUME NEW c \in Calls, Reject(c) \/ Abort(c) PROVE LogInv'
  <2>1. /\ pc'[c] # "consume"
        /\ \A b \in Calls \ {c} : pc'[b] = pc[b] /\ usage'[b] = usage[b]
    <3>1. CASE Reject(c)
      BY <1>0, <3>1, ThrowTypeOK DEF Reject
    <3>2. CASE Abort(c)
      BY <1>0, <3>2 DEF Abort, Finish, Goto, TypeOK
    <3> QED
      BY <1>3, <3>1, <3>2
  <2>2. CASE pc[c] = "consume"
    <3>1. logged' = logged /\ resent' = resent
      BY <1>3, <2>2 DEF Reject, Abort
    <3>2. used' = used \/ Charge(c, 1)
      BY <1>3, <2>2 DEF Reject, Abort
    <3> QED
      BY <1>0, <2>1, <2>2, <3>1, <3>2, LeaveKeepsLog
  <2>3. CASE pc[c] # "consume"
    <3>1. Owed' = Owed
      BY <2>1, <2>3 DEF Owed
    <3>2. UNCHANGED <<used, resent>> /\ logged' >= logged
      BY <1>0, <1>3, <2>3 DEF Reject, Abort, AddToLog, TypeOK
    <3> QED
      BY <1>0, <3>1, <3>2, LogUntouched
  <2> QED
    BY <2>2, <2>3
<1>4. ASSUME NEW c \in Calls,
             \/ Arrive(c) \/ CheckBudget(c) \/ ProviderAnswers(c) \/ ProviderFails(c)
             \/ Expire(c) \/ LogError(c)
      PROVE  LogInv'
  <2>1. UNCHANGED <<used, resent, logged>>
    BY <1>4 DEF Arrive, CheckBudget, ProviderAnswers, ProviderFails, Expire, LogError
  <2>2. /\ pc[c] # "consume" /\ pc'[c] # "consume"
        /\ \A b \in Calls \ {c} : pc'[b] = pc[b] /\ usage'[b] = usage[b]
    BY <1>0, <1>4 DEF Arrive, CheckBudget, ProviderAnswers, ProviderFails, Expire, LogError,
       Throw, Finish, Goto, TypeOK
  <2>3. Owed' = Owed
    BY <2>2 DEF Owed
  <2>4. logged' >= logged
    BY <1>0, <2>1 DEF TypeOK
  <2> QED
    BY <1>0, <2>1, <2>3, <2>4, LogUntouched
<1>5. ASSUME NextDay \/ UNCHANGED vars PROVE LogInv'
  <2>1. UNCHANGED <<used, resent, logged, pc, usage>>
    BY <1>5 DEF NextDay, vars
  <2>2. Owed' = Owed /\ logged' >= logged
    BY <1>0, <2>1 DEF Owed, TypeOK
  <2> QED
    BY <1>0, <2>1, <2>2, LogUntouched
<1> QED
  BY <1>1, <1>2, <1>3, <1>4, <1>5 DEF Next, Step

-----------------------------------------------------------------------------
(* The theorems.                                                            *)

\* The inductive invariant of the budget.
THEOREM BudgetInvariant == Spec => []BudgetInv
BY InitBudgetInv, NextBudgetInv, PTL DEF Spec

\* However many completions and embeddings race, and whatever is sent twice, the tokens
\* of a user in a day exceed the budget by no more than the requests under way can use
\* (budget.service.ts:28-44).
THEOREM OverrunIsBounded == Spec => []OverrunBounded
<1>1. BudgetInv => OverrunBounded
  BY DEF BudgetInv
<1> QED
  BY BudgetInvariant, <1>1, PTL

\* The inductive invariant of the charges.
THEOREM LogInvariant == Spec => []LogInv
BY InitLogInv, NextLogInv, PTL DEF Spec

\* Whatever is rejected, aborted or charged after midnight, the tokens charged over all
\* days are in the log that explains them, but for what ran twice
\* (ai.service.ts:73-92).
THEOREM ChargesAreLogged == Spec => []ChargedIsLogged
<1>1. LogInv => ChargedIsLogged
  <2> SUFFICES ASSUME LogInv PROVE ChargedIsLogged
    OBVIOUS
  <2>1. used \in [0..LastDay -> Nat] /\ LastDay \in 0..LastDay
    BY DEF LogInv, TypeOK, Days
  <2>2. Charged[LastDay] \in Nat
    BY <2>1, ChargedAddsUp, SumType
  <2>3. Cardinality(Owed) \in Nat /\ logged \in Nat /\ resent * MaxUse \in Nat
    BY OwedFinite DEF LogInv, TypeOK
  <2> QED
    BY <2>2, <2>3 DEF LogInv, ChargedIsLogged
<1> QED
  BY LogInvariant, <1>1, PTL

================================================================================
