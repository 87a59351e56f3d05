----------------------------- MODULE ConfirmCommit -----------------------------
(***************************************************************************)
(* The confirmation gate of chat-orchestrator: action cards saved in       *)
(* Redis, any number of POST /confirm handlers working on them at the same *)
(* time, and the deferred commit they run (confirmation.store.ts,          *)
(* OrchestratorService.confirm, ToolExecutorService.commit).               *)
(*                                                                         *)
(* A handler is a process of its own: Node interleaves the handlers of     *)
(* concurrent requests at every `await`, and instances of the service      *)
(* share Redis and MongoDB.  Every await on Redis, MongoDB or the core     *)
(* backend is one action here.                                             *)
(*                                                                         *)
(* Time is counted in ticks.  A TTL is the number of ticks a Redis key has *)
(* left, 0 when the key is absent.                                         *)
(***************************************************************************)
EXTENDS Naturals, FiniteSets

CONSTANTS
    Slots,         \* Redis keys confirm:<sessionId>:<toolCallId>
    Actions,       \* pending actions, named by their fresh idempotencyKey
    Requests,      \* concurrent POST /confirm handlers
    Users,         \* chat users
    Owner,         \* Owner[s]: the user whose session the slot belongs to
    KindOf,        \* KindOf[a]: PendingAction.commit.type
    NoSlot,        \* the slot of an idle handler
    NoAction,      \* absence of an action
    ConfirmTtl,    \* CONFIRM_TTL_SECONDS
    IdemTtl,       \* lifetime of an idem:<key> guard, 600 s in the code
    MaxLatency,    \* longest time a handler spends between its GET and SET NX
    AnomalyAfter,  \* refunds a day that are not flagged, 3 in the code
    LastDay        \* bound: the calendar days explored are 0..LastDay

ASSUME CardAssumption ==
    /\ Owner \in [Slots -> Users]
    /\ KindOf \in [Actions -> {"core", "refund_queue"}]
    /\ NoAction \notin Actions
    /\ NoSlot \notin Slots

\* The only timing assumption: a handler reaches its SET NX before a guard that
\* was set after its GET can expire.
ASSUME TtlAssumption ==
    /\ ConfirmTtl \in Nat \ {0}
    /\ IdemTtl \in Nat
    /\ MaxLatency \in Nat
    /\ MaxLatency < IdemTtl

ASSUME CountAssumption == AnomalyAfter \in Nat /\ LastDay \in Nat

VARIABLES
    pending,   \* Redis: the action each slot holds
    ttl,       \* Redis: ticks left to each slot
    guard,     \* Redis: ticks left to the guard idem:<a>
    counter,   \* Redis: the value of refund:<user>:<day>
    core,      \* core backend: what became of the commit call of a
    tickets,   \* MongoDB: refund tickets created for a
    refunds,   \* MongoDB: refund_requests rows
    told,      \* the answers users got about a
    flagged,   \* refunds whose logged result carries anomaly: true
    pc,        \* handlers: the await each one is at
    ask,       \* handlers: slot and decision of the request
    holds,     \* handlers: the action read from Redis
    age,       \* handlers: ticks since the GET, until the SET NX
    stamp,     \* handlers: the day and the count a refund commit works with
    day,       \* the calendar day (UTC)
    issued,    \* history: actions that were ever saved on a card
    taken,     \* history: times take() returned a, by decision
    commits,   \* history: times commit() got past the guard of a
    done,      \* history: times the effect of a was executed
    lost       \* history: actions a fault made a handler drop

redisVars   == <<pending, ttl, guard, counter>>
storeVars   == <<tickets, refunds, told, flagged>>
handlerVars == <<pc, ask, holds, age, stamp>>
historyVars == <<issued, taken, commits, done, lost>>
vars == <<redisVars, core, storeVars, handlerVars, day, historyVars>>

PC == {"idle", "get", "del", "guard", "core", "await",
       "count", "expire", "ticket", "queue", "decline", "log"}

Decisions == {"accept", "decline"}
Answers   == {"declined", "conflict", "failed", "committed"}
Days      == 0..LastDay
NoAsk     == [slot |-> NoSlot, decision |-> "decline"]
Asks      == [slot: Slots, decision: Decisions] \cup {NoAsk}
NoStamp   == [day |-> 0, count |-> 0]
Stamps    == [day: Days, count: Nat]

Init ==
    /\ pending = [s \in Slots |-> NoAction]
    /\ ttl = [s \in Slots |-> 0]
    /\ guard = [a \in Actions |-> 0]
    /\ counter = [k \in Users \X Days |-> 0]
    /\ core = [a \in Actions |-> "none"]
    /\ tickets = [a \in Actions |-> 0]
    /\ refunds = {}
    /\ told = [a \in Actions |-> {}]
    /\ flagged = {}
    /\ pc = [r \in Requests |-> "idle"]
    /\ ask = [r \in Requests |-> NoAsk]
    /\ holds = [r \in Requests |-> NoAction]
    /\ age = [r \in Requests |-> 0]
    /\ stamp = [r \in Requests |-> NoStamp]
    /\ day = 0
    /\ issued = {}
    /\ taken = [a \in Actions |-> [d \in Decisions |-> 0]]
    /\ commits = [a \in Actions |-> 0]
    /\ done = [a \in Actions |-> 0]
    /\ lost = {}

-----------------------------------------------------------------------------
(* Handler bookkeeping.                                                     *)

\* The handler awaits its next call.
Goto(r, p) ==
    /\ pc' = [pc EXCEPT ![r] = p]
    /\ UNCHANGED <<ask, holds, age, stamp>>

\* The request is answered (or dies): nothing of the handler remains.
Finish(r) ==
    /\ pc' = [pc EXCEPT ![r] = "idle"]
    /\ ask' = [ask EXCEPT ![r] = NoAsk]
    /\ holds' = [holds EXCEPT ![r] = NoAction]
    /\ age' = [age EXCEPT ![r] = 0]
    /\ stamp' = [stamp EXCEPT ![r] = NoStamp]

Tell(r, answer) == told' = [told EXCEPT ![holds[r]] = @ \cup {answer}]

\* The user on whose behalf the handler runs: sessions.get() checked the owner.
UserOf(r) == Owner[ask[r].slot]

-----------------------------------------------------------------------------
(* A card is offered: the tool loop saves the pending action under the      *)
(* model's tool call id.  The idempotency key is a fresh uuid; the tool     *)
(* call id is the model's, and SET overwrites what the slot held.           *)

OfferCard(s, a) ==
    /\ a \notin issued
    /\ pending' = [pending EXCEPT ![s] = a]
    /\ ttl' = [ttl EXCEPT ![s] = ConfirmTtl]
    /\ issued' = issued \cup {a}
    /\ UNCHANGED <<guard, counter, core, storeVars, handlerVars, day,
                   taken, commits, done, lost>>

-----------------------------------------------------------------------------
(* POST /confirm.                                                           *)

Arrive(r, s, d) ==
    /\ pc[r] = "idle"
    /\ pc' = [pc EXCEPT ![r] = "get"]
    /\ ask' = [ask EXCEPT ![r] = [slot |-> s, decision |-> d]]
    /\ UNCHANGED <<redisVars, core, storeVars, holds, age, stamp, day, historyVars>>

\* take(), first await: GET.  An absent key is answered NOT_FOUND.
ReadPending(r) ==
    /\ pc[r] = "get"
    /\ \/ /\ pending[ask[r].slot] = NoAction
          /\ Finish(r)
       \/ /\ pending[ask[r].slot] # NoAction
          /\ pc' = [pc EXCEPT ![r] = "del"]
          /\ holds' = [holds EXCEPT ![r] = pending[ask[r].slot]]
          /\ UNCHANGED <<ask, age, stamp>>
    /\ UNCHANGED <<redisVars, core, storeVars, day, historyVars>>

\* What DEL leaves in the slot.  (Mutated: the key is left to its TTL.)
KeptKey(s) == pending[s]
DeletedKey(s) == NoAction

\* Where the decision leads.  (Mutated: the decision is not looked at.)
AfterTakeIgnoring(d) == "guard"
AfterTake(d) == IF d = "accept" THEN "guard" ELSE "decline"

\* take(), second await: DEL, whatever the slot holds by now.
DeletePending(r) ==
    LET s == ask[r].slot
        d == ask[r].decision IN
    /\ pc[r] = "del"
    /\ pending' = [pending EXCEPT ![s] = DeletedKey(s)]
    /\ ttl' = [ttl EXCEPT ![s] = IF DeletedKey(s) = NoAction THEN 0 ELSE @]
    /\ taken' = [taken EXCEPT ![holds[r]][d] = @ + 1]
    /\ Goto(r, AfterTake(d))
    /\ UNCHANGED <<guard, counter, core, storeVars, day, issued, commits, done, lost>>

AnswerDecline(r) ==
    /\ pc[r] = "decline"
    /\ Tell(r, "declined")
    /\ Finish(r)
    /\ UNCHANGED <<redisVars, core, tickets, refunds, flagged, day, historyVars>>

-----------------------------------------------------------------------------
(* commit(): SET idem:<key> NX EX, then the core call or the refund queue.  *)

\* Redis executes SET NX atomically.  (Mutated: a SET without NX; a guard that
\* turns every accept away once two of them have taken the card.)
GuardAlways(a) == TRUE
GuardSoleTaker(a) == guard[a] = 0 /\ taken[a]["accept"] <= 1
GuardFree(a) == guard[a] = 0

\* commit() dispatches on the commit type.
FirstStep(a) == IF KindOf[a] = "refund_queue" THEN "count" ELSE "core"

SetGuard(r) ==
    LET a == holds[r] IN
    /\ pc[r] = "guard"
    /\ GuardFree(a)
    /\ guard' = [guard EXCEPT ![a] = IdemTtl]
    /\ commits' = [commits EXCEPT ![a] = @ + 1]
    /\ pc' = [pc EXCEPT ![r] = FirstStep(a)]
    /\ age' = [age EXCEPT ![r] = 0]
    /\ UNCHANGED <<pending, ttl, counter, core, storeVars, ask, holds, stamp, day,
                   issued, taken, done, lost>>

\* The guard exists: CONFLICT.
AnswerConflict(r) ==
    /\ pc[r] = "guard"
    /\ ~ GuardFree(holds[r])
    /\ Tell(r, "conflict")
    /\ Finish(r)
    /\ UNCHANGED <<redisVars, core, tickets, refunds, flagged, day, historyVars>>

\* The reply to SET NX is lost with the connection and the client sends the
\* command again: the second SET NX finds the guard of the first.
GuardResent(r) ==
    LET a == holds[r] IN
    /\ pc[r] = "guard"
    /\ GuardFree(a)
    /\ guard' = [guard EXCEPT ![a] = IdemTtl]
    /\ lost' = lost \cup {a}
    /\ Tell(r, "conflict")
    /\ Finish(r)
    /\ UNCHANGED <<pending, ttl, counter, core, tickets, refunds, flagged, day,
                   issued, taken, commits, done>>

-----------------------------------------------------------------------------
(* The commit of a booking or a cancellation: one POST, never repeated.     *)

CoreSend(r) ==
    /\ pc[r] = "core"
    /\ core' = [core EXCEPT ![holds[r]] = "sent"]
    /\ Goto(r, "await")
    /\ UNCHANGED <<redisVars, storeVars, day, historyVars>>

\* The backend executes or refuses the call, now or long after the caller has
\* stopped waiting.
BackendExecutes(a) ==
    /\ core[a] = "sent"
    /\ core' = [core EXCEPT ![a] = "executed"]
    /\ done' = [done EXCEPT ![a] = @ + 1]
    /\ UNCHANGED <<redisVars, storeVars, handlerVars, day, issued, taken, commits, lost>>

BackendRefuses(a) ==
    /\ core[a] = "sent"
    /\ core' = [core EXCEPT ![a] = "refused"]
    /\ UNCHANGED <<redisVars, storeVars, handlerVars, day, historyVars>>

\* res.ok.  (Mutated: a call without an answer counts as accepted.)
NotRefused(a) == core[a] # "refused"
ReplyOk(a) == core[a] = "executed"

CoreReply(r) ==
    /\ pc[r] = "await"
    /\ ReplyOk(holds[r])
    /\ Goto(r, "log")
    /\ UNCHANGED <<redisVars, core, storeVars, day, historyVars>>

\* An error status, or the call or its reply is lost: the client reports 503 and
\* commit() throws.  The guard stays.
CoreFails(r) ==
    /\ pc[r] = "await"
    /\ Tell(r, "failed")
    /\ Finish(r)
    /\ UNCHANGED <<redisVars, core, tickets, refunds, flagged, day, historyVars>>

-----------------------------------------------------------------------------
(* commitRefund(): INCR, EXPIRE for the first of the day, ticket, refund.   *)

\* The day key is computed in the same turn of the event loop as the INCR.
CountRefundBy(r, n) ==
    LET k == <<UserOf(r), day>> IN
    /\ pc[r] = "count"
    /\ counter' = [counter EXCEPT ![k] = @ + n]
    /\ stamp' = [stamp EXCEPT ![r] = [day |-> day, count |-> counter[k] + n]]
    /\ pc' = [pc EXCEPT ![r] = IF counter[k] + n = 1 THEN "expire" ELSE "ticket"]
    /\ UNCHANGED <<pending, ttl, guard, core, storeVars, ask, holds, age, day, historyVars>>

CountRefund(r) == CountRefundBy(r, 1)

\* INCR sent again after a lost reply: it counts twice.
CountResent(r) == CountRefundBy(r, 2)

\* The TTL of the counter (24 h) ends after its day: no later INCR uses the key.
ExpireCounter(r) ==
    /\ pc[r] = "expire"
    /\ Goto(r, "ticket")
    /\ UNCHANGED <<redisVars, core, storeVars, day, historyVars>>

\* (Mutated: the refund row is written without its ticket.)
NoTicket(a) == tickets[a]
OneMoreTicket(a) == tickets[a] + 1

CreateTicket(r) ==
    /\ pc[r] = "ticket"
    /\ tickets' = [tickets EXCEPT ![holds[r]] = OneMoreTicket(holds[r])]
    /\ Goto(r, "queue")
    /\ UNCHANGED <<redisVars, core, refunds, told, flagged, day, historyVars>>

QueueRefund(r) ==
    LET a == holds[r] IN
    /\ pc[r] = "queue"
    /\ refunds' = refunds \cup {[action |-> a, user |-> UserOf(r), day |-> stamp[r].day]}
    /\ done' = [done EXCEPT ![a] = @ + 1]
    /\ Goto(r, "log")
    /\ UNCHANGED <<redisVars, core, tickets, told, flagged, day, issued, taken, commits, lost>>

\* anomaly: count > 3.  (Mutated: off by one.)
AnomalyLate(n) == n > AnomalyAfter + 1
Anomaly(n) == n > AnomalyAfter

\* The result of the commit is written to the transcript and returned.
LogCommit(r) ==
    /\ pc[r] = "log"
    /\ Tell(r, "committed")
    /\ flagged' = IF KindOf[holds[r]] = "refund_queue" /\ Anomaly(stamp[r].count)
                  THEN flagged \cup {holds[r]} ELSE flagged
    /\ Finish(r)
    /\ UNCHANGED <<redisVars, core, tickets, refunds, day, historyVars>>

-----------------------------------------------------------------------------
(* Faults and time.                                                         *)

\* The process stops, or an await rejects (Redis, MongoDB): the request ends
\* with no answer or a 500, and what it did so far stays.
Abort(r) ==
    /\ pc[r] # "idle"
    /\ lost' = lost \cup ({holds[r]} \ {NoAction})
    /\ Finish(r)
    /\ UNCHANGED <<redisVars, core, storeVars, day, issued, taken, commits, done>>

BeforeGuard(r) == pc[r] \in {"del", "guard"}

\* A key whose TTL reaches 0 is gone.
Tick ==
    /\ \A r \in Requests : BeforeGuard(r) => age[r] < MaxLatency
    /\ ttl' = [s \in Slots |-> IF ttl[s] = 0 THEN 0 ELSE ttl[s] - 1]
    /\ pending' = [s \in Slots |-> IF ttl[s] \in {0, 1} THEN NoAction ELSE pending[s]]
    /\ guard' = [a \in Actions |-> IF guard[a] = 0 THEN 0 ELSE guard[a] - 1]
    /\ age' = [r \in Requests |-> IF BeforeGuard(r) THEN age[r] + 1 ELSE age[r]]
    /\ UNCHANGED <<counter, core, storeVars, pc, ask, holds, stamp, day, historyVars>>

NextDay ==
    /\ day < LastDay
    /\ day' = day + 1
    /\ UNCHANGED <<redisVars, core, storeVars, handlerVars, historyVars>>

-----------------------------------------------------------------------------
\* The steps a running handler takes by itself.
Step(r) ==
    \/ ReadPending(r) \/ DeletePending(r) \/ AnswerDecline(r)
    \/ SetGuard(r) \/ AnswerConflict(r)
    \/ CoreSend(r) \/ CoreReply(r) \/ CoreFails(r)
    \/ CountRefund(r) \/ ExpireCounter(r)
    \/ CreateTicket(r) \/ QueueRefund(r) \/ LogCommit(r)

Fault(r) == GuardResent(r) \/ CountResent(r) \/ Abort(r)

Next ==
    \/ \E s \in Slots, a \in Actions : OfferCard(s, a)
    \/ \E r \in Requests, s \in Slots, d \in Decisions : Arrive(r, s, d)
    \/ \E r \in Requests : Step(r)
    \/ \E r \in Requests : Fault(r)
    \/ \E a \in Actions : BackendExecutes(a) \/ BackendRefuses(a)
    \/ Tick
    \/ NextDay

Spec == Init /\ [][Next]_vars

\* The event loop runs every handler whose await has settled, and every await
\* settles: Redis gives up after maxRetriesPerRequest, fetch and MongoDB time out.
FairSpec == Spec /\ \A r \in Requests : WF_vars(Step(r))

-----------------------------------------------------------------------------
(* Properties.                                                              *)

\* The state stays in its types; ages and TTLs stay in range.
TypeOK ==
    /\ pending \in [Slots -> Actions \cup {NoAction}]
    /\ ttl \in [Slots -> 0..ConfirmTtl]
    /\ guard \in [Actions -> 0..IdemTtl]
    /\ counter \in [Users \X Days -> Nat]
    /\ core \in [Actions -> {"none", "sent", "executed", "refused"}]
    /\ tickets \in [Actions -> Nat]
    /\ refunds \subseteq [action: Actions, user: Users, day: Days]
    /\ told \in [Actions -> SUBSET Answers]
    /\ flagged \subseteq Actions
    /\ pc \in [Requests -> PC]
    /\ ask \in [Requests -> Asks]
    /\ holds \in [Requests -> Actions \cup {NoAction}]
    /\ age \in [Requests -> 0..MaxLatency]
    /\ stamp \in [Requests -> Stamps]
    /\ day \in Days
    /\ issued \subseteq Actions
    /\ taken \in [Actions -> [Decisions -> Nat]]
    /\ commits \in [Actions -> Nat]
    /\ done \in [Actions -> Nat]
    /\ lost \subseteq Actions

\* However confirms race, are repeated or die half-way, the effect of a card is
\* executed at most once: commit() with its SET NX guard
\* (tool-executor.service.ts:263-271, "duplicate action protection").
AtMostOnce == \A a \in Actions : done[a] <= 1

\* No booking, cancellation or refund happens unless some handler that obtained
\* the card was an accept (AI_PLATFORM_PHASE2.md: "never execute without an
\* explicit /confirm").
EffectNeedsAccept == \A a \in Actions : done[a] > 0 => taken[a]["accept"] > 0

\* A user who is told that the action was committed was told the truth, and a
\* committed refund reached the admin with both its rows.
CommittedIsDone ==
    \A a \in Actions :
        "committed" \in told[a] =>
            /\ done[a] = 1
            /\ KindOf[a] = "refund_queue" =>
                  tickets[a] > 0 /\ \E row \in refunds : row.action = a

\* Every refund row in the admin's queue has the ticket it points to.
RefundHasTicket == \A row \in refunds : tickets[row.action] > 0

\* The refunds of a user that were counted for a day, and those of them whose result
\* reached the transcript.
RowsOf(u, d) == {row \in refunds : row.user = u /\ row.day = d}
Reported(u, d) == {row \in RowsOf(u, d) : "committed" \in told[row.action]}
OnItsWay(a, stages) == \E r \in Requests : holds[r] = a /\ pc[r] \in stages

\* The anomaly flag is no field of the row: it goes with the result that the handler
\* logs after refunds.create().  Of the refunds of a user in a day whose result was
\* logged, at most AnomalyAfter escape the flag, however their commits interleave; a
\* queued refund whose result was not logged bears no flag whatever its count, but then
\* its handler is still to log it or a fault dropped it; and such a refund has still
\* been counted, so it brings the next ones nearer to the flag
\* (tool-executor.service.ts:291-315, orchestrator.service.ts:259-266).
UnflaggedBounded ==
    \A u \in Users, d \in Days :
        /\ Cardinality({row \in Reported(u, d) : row.action \notin flagged}) <= AnomalyAfter
        /\ \A row \in RowsOf(u, d) \ Reported(u, d) :
              row.action \in lost \/ OnItsWay(row.action, {"log"})
        /\ Cardinality(RowsOf(u, d)) <= counter[<<u, d>>]

\* Once anybody has been answered about a card, or its commit has begun, no
\* handler can obtain it any more: replaying a confirm finds nothing.
ObtainOnlyFresh ==
    [][\A r \in Requests :
        (holds[r] = NoAction /\ holds'[r] # NoAction) =>
            told[holds'[r]] = {} /\ commits[holds'[r]] = 0]_vars

Settled(a) == done[a] > 0 \/ "failed" \in told[a] \/ a \in lost

\* Racing accepts never all lose: if one of them obtained the action then the
\* effect is executed or the user is told it failed, unless a fault dropped it.
AcceptResolves ==
    \A a \in Actions :
        []<>(taken[a]["accept"] > 0 => Settled(a))

\* What confirmation.store.ts:41 says of take(): "single-use - prevents
\* replay/double-confirm".
SingleUse == \A a \in Actions : taken[a]["accept"] + taken[a]["decline"] <= 1

-----------------------------------------------------------------------------
(* The inductive invariant behind the safety properties.                    *)

PastGuard == {"core", "await", "count", "expire", "ticket", "queue", "log"}

\* A handler holds an action from its GET on, and only acts on what it was asked.
HandlerInv ==
    \A r \in Requests :
        /\ pc[r] \in {"idle", "get"} <=> holds[r] = NoAction
        /\ holds[r] \in issued \cup {NoAction}
        /\ pc[r] # "idle" => ask[r].slot \in Slots
        /\ pc[r] \in PastGuard \cup {"guard"} => taken[holds[r]]["accept"] > 0
        /\ pc[r] \in {"core", "await"} => KindOf[holds[r]] = "core"
        /\ pc[r] \in {"count", "expire", "ticket", "queue"} =>
              KindOf[holds[r]] = "refund_queue"

\* An action still in Redis has not been decided: the handlers that read it have
\* not deleted it yet.
PendingInv ==
    \A s \in Slots : pending[s] # NoAction =>
        /\ pending[s] \in issued
        /\ told[pending[s]] = {}
        /\ commits[pending[s]] = 0
        /\ \A t \in Slots : pending[t] = pending[s] => t = s
        /\ \A r \in Requests : holds[r] = pending[s] =>
              pc[r] = "del" /\ ask[r].slot = s

FreshInv == \A a \in Actions \ issued : told[a] = {} /\ commits[a] = 0

\* While a handler that read the action before the commit can still reach its
\* SET NX, the guard of that commit has not expired.
GuardInv ==
    /\ \A a \in Actions : commits[a] <= 1
    /\ \A r \in Requests :
          (BeforeGuard(r) /\ commits[holds[r]] > 0) =>
              guard[holds[r]] + age[r] >= IdemTtl

\* At most one handler is past the guard of an action.
WinnerInv ==
    \A r \in Requests : pc[r] \in PastGuard =>
        /\ commits[holds[r]] = 1
        /\ \A q \in Requests :
              (pc[q] \in PastGuard /\ holds[q] = holds[r]) => q = r

\* What each step of the commit has left behind.
EffectInv ==
    /\ \A a \in Actions :
          /\ core[a] # "none" => commits[a] = 1 /\ KindOf[a] = "core"
          /\ core[a] # "none" => taken[a]["accept"] > 0
          /\ done[a] <= 1
          /\ done[a] > 0 => commits[a] = 1 /\ taken[a]["accept"] > 0
          /\ KindOf[a] = "core" /\ core[a] # "executed" => done[a] = 0
    /\ \A r \in Requests :
          /\ pc[r] = "core" => core[holds[r]] = "none"
          /\ pc[r] = "await" => core[holds[r]] # "none"
          /\ pc[r] = "await" /\ core[holds[r]] = "executed" => done[holds[r]] = 1
          /\ pc[r] \in {"count", "expire", "ticket", "queue"} => done[holds[r]] = 0
          /\ pc[r] = "queue" => tickets[holds[r]] > 0
          /\ pc[r] = "log" => /\ done[holds[r]] = 1
                              /\ KindOf[holds[r]] = "refund_queue" =>
                                   /\ tickets[holds[r]] > 0
                                   /\ \E row \in refunds : row.action = holds[r]

\* The parts together are inductive: they hold initially and no step breaks them
\* (the proofs are in ConfirmCommitProofs).
CommitInv ==
    /\ TypeOK
    /\ HandlerInv
    /\ PendingInv
    /\ FreshInv
    /\ GuardInv
    /\ WinnerInv
    /\ EffectInv
    /\ CommittedIsDone
    /\ RefundHasTicket

\* A refund has one row, with the user and the day it was counted for; its result is
\* logged, or will be unless a fault drops it.
RowInv ==
    /\ \A row \in refunds : KindOf[row.action] = "refund_queue" /\ done[row.action] > 0
    /\ \A row \in refunds :
          \/ "committed" \in told[row.action]
          \/ row.action \in lost
          \/ OnItsWay(row.action, {"log"})
    /\ \A row, other \in refunds : row.action = other.action => row = other
    /\ \A r \in Requests : pc[r] = "log" =>
          \A row \in refunds : row.action = holds[r] =>
              row.user = UserOf(r) /\ row.day = stamp[r].day

\* The commit of a refund, from its INCR to its answer.
Counted(r) ==
    /\ pc[r] \in {"expire", "ticket", "queue", "log"}
    /\ KindOf[holds[r]] = "refund_queue"

\* The refunds of a user and a day that escaped the flag, or will.
EscapedBy(u, d, a) ==
    \/ /\ "committed" \in told[a]
       /\ a \notin flagged
       /\ \E row \in refunds : row.action = a /\ row.user = u /\ row.day = d
    \/ \E r \in Requests :
          /\ Counted(r)
          /\ holds[r] = a
          /\ UserOf(r) = u
          /\ stamp[r].day = d
          /\ stamp[r].count <= AnomalyAfter
Escaped(u, d) == {a \in Actions : EscapedBy(u, d, a)}

\* All that were counted for a user and a day, queued already or not yet.
CountedBy(u, d, a) ==
    \/ \E row \in refunds : row.action = a /\ row.user = u /\ row.day = d
    \/ \E r \in Requests :
          /\ Counted(r)
          /\ holds[r] = a
          /\ UserOf(r) = u
          /\ stamp[r].day = d
CountedFor(u, d) == {a \in Actions : CountedBy(u, d, a)}

\* INCR hands out a number once: each that was counted raised the counter, and each that
\* escapes was counted within the threshold.
DayInv ==
    \A u \in Users, d \in Days :
        /\ IsFiniteSet(CountedFor(u, d))
        /\ Cardinality(CountedFor(u, d)) <= counter[<<u, d>>]
        /\ IsFiniteSet(Escaped(u, d))
        /\ Cardinality(Escaped(u, d)) <= counter[<<u, d>>]
        /\ Cardinality(Escaped(u, d)) <= AnomalyAfter

\* An action that a commit got past the guard of was executed, failed, was dropped by a
\* fault, or is still being committed.
SettleInv ==
    \A a \in Actions : guard[a] > 0 \/ commits[a] > 0 => Settled(a) \/ OnItsWay(a, PastGuard)

\* Racing accepts never all lose: as long as an action that one of them obtained was
\* neither executed, nor reported as failed, nor dropped by a fault, some handler is
\* still working on it (tool-executor.service.ts:263-300).
AcceptSettles ==
    \A a \in Actions :
        taken[a]["accept"] > 0 => Settled(a) \/ OnItsWay(a, PastGuard \cup {"guard"})

\* Everything a run of the gate keeps.
GateInv == CommitInv /\ SettleInv /\ AcceptSettles

\* The invariant behind UnflaggedBounded.
RefundInv == CommitInv /\ RowInv /\ DayInv

-----------------------------------------------------------------------------
\* The gate implements the ledger of actions.
Ledger == INSTANCE ActionLedger
            WITH offered <- issued, committed <- commits, executed <- done

\* Every step of the gate is an offer, a first commit, a first execution of a
\* committed action, or changes none of these: "duplicate action protection"
\* (tool-executor.service.ts:263-264) as an abstract specification.
ImplementsLedger == Ledger!Spec

================================================================================
