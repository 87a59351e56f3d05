# GenXTaxi AI platform: TLA+ models, checks and proofs

This directory holds specifications of the services of the GenXTaxi AI
platform: what their code does at each `await`, what can go wrong between two of
them, what TLC checks on small instances, and what TLAPS proves for all
instances. Paths such as `orchestrator.service.ts:132` are relative to the
service they name; the platform is a monorepo of `chat-orchestrator`,
`ai-gateway`, `currency-service`, `insights-service` (NestJS), `demand-service`
(FastAPI) and the shared package `packages/ai-shared`. The core backend of the
taxi business (`gen-taxi-backend`) and the apps are other repositories: they
appear here only as what the services call, and as who calls them.

## 1. Inventory

| Part | State it keeps | Operations | Talks to | What is hard | What makes it correct |
|---|---|---|---|---|---|
| **Confirmation gate**: `confirmation.store.ts`, `confirm()`, `commit()`, `commitRefund()` | Redis: `confirm:<session>:<call>` (TTL 300 s), `idem:<key>` (600 s), `refund:<user>:<day>`; MongoDB: tickets, `refund_requests`, tool call log | save a card, confirm or decline it, commit to the backend or to the refund queue | core backend, Redis, MongoDB | concurrent and repeated confirms, expiry, lost and resent commands, crash between guard and effect, late answers | an action takes effect at most once, only after an accept, and the answers are true |
| **Assistant turn**: `processMessage()`, `degrade()`, `tool-executor.service.ts`, `grounding.service.ts` | `moneyAllowed`, hop counter, flags; MongoDB: session status, transcript, tickets; Redis: cards | a loop of completions and tool calls, a grounding check, cards, escalation, degradation | ai-gateway, core backend, the client's event stream | an unpredictable model, any tool order, every await can reject | no invented money, bounded cost, confirmable cards, an end |
| **Chat sessions**: `sessions.service.ts`, `chat.controller.ts` | MongoDB: sessions, messages | create, touch, add a message, set the status, the context window | turn, gate, admin | status written by several handlers | a ticket and the session agree |
| **Escalation, admin inbox**: `escalation.service.ts`, `admin.controller.ts` | MongoDB: tickets | create, assign, resolve, list | sessions | assign after resolve, status of the session | a resolved ticket stays resolved |
| **Completions and embeddings in ai-gateway**: `ai.service.ts`, `budget.service.ts` | Redis: `budget:<user>:<day>`; MongoDB: `ai_call_logs` | check the budget, complete or embed, log, charge | providers | check-then-act, midnight, one of several writes failing | a bounded overrun, by completions and embeddings together; charges explained by the log |
| **LLM routing**: `llm-router.service.ts` | a circuit breaker per provider | try the chain of routes | Groq, Anthropic | timeouts, a breaker shared by routes | a request is answered |
| **Prompt registry**: `prompts.service.ts` | MongoDB: versions and their status | draft, publish, resolve, preview | admins | concurrent drafts and publishes, several writes | versions are never replaced, one is live |
| **Knowledge base**: `rag.service.ts`, `chunker.service.ts`, `vector-search.service.ts` | MongoDB: documents, chunks, embeddings; the Atlas index | create, publish, search | embedding provider | a publish of several writes around a call, an index that lags, offsets of the chunker | published documents are whole, once, and found; drafts are not served |
| **Cost, observability, redaction** | MongoDB: logs; counters | record, report, scrub | all of ai-gateway | none | reports |
| **Exchange rates**: `fx.service.ts`, scheduler, convert | MongoDB: rates, currencies; Redis: cache | refresh, get, cross rate, convert, upsert | rate provider | overlapping refreshes, a cache and a store written apart, rates of different ages | the cache is not behind the store unless refreshes overlapped; amounts are as close as doubles allow |
| **Money**: `ai-shared/src/money/money.ts` | none | round, convert, format | all | half-way cases, exponents, doubles | rounded as the rule says, to the error of doubles |
| **Review ingest**: `ingest.service.ts`, `mongo-review.source.ts`, `aspect-extraction.service.ts` | MongoDB: reviews, watermark; a flag | pull, judge, store, advance, extract | core database, ai-gateway | batch order against watermark order, crashes in a batch, ratings that cannot be saved | faults lose no review, excluded ones are not read, verdicts stand |
| **Summaries**: `summarizer.service.ts`, zone aggregation, serving | MongoDB: summaries; Redis: cache | recompute, serve | ai-gateway | a cache filled from an old read, cron against administrators | what is served is backed by enough reviews, and catches up |
| **Surge**: `surge_engine.py`, `surge_service.py` | MongoDB and Redis: surge per hex, overrides | compute, smooth, cap, override | admins, riders | overrides during a cycle, lost rows, zero supply | range and step bounds, kills take effect, it settles |
| **Demand models**: `registry.py`, `trainer.py`, `predictor.py` | files, registry documents | train, promote, load, predict | scheduler | concurrent promotion | the better model is served |
| **Heatmap push**: `routers/ws.py` | what was last sent | push on change | clients | a change missed | clients converge |
| Authentication, health, configuration; evaluation, containers, docs | none | | | none | |

Three kinds of concurrency matter. Node interleaves the handlers of one process at
every `await`; several instances of a service share Redis and MongoDB; and the
clients, administrators, providers and core backend act when they like. So in every
module a handler is a process, and **each await on a store or a peer is one
action**; what runs between two awaits belongs to the action that precedes or
follows it.

## 2. Plan, and what became of it

In the order of their importance, all written:

1. `ActionLedger`, `ConfirmCommit`, `ConfirmCommitProofs`: the only path on which the
   assistant changes anything in the real world.
2. `TurnLoop`, `TurnLoopProofs`: one assistant turn.
3. `GatewayCall`, `GatewayCallProofs`: completions and embeddings of one user against the token budget.
4. `PromptRegistry`, `PromptRegistryProofs`: versions of one prompt.
5. `Chunker` (pure), `KnowledgeBase`, `KnowledgeBaseProofs`: documents, their pieces, searches.
6. `ReviewLedger`, `ReviewIngest`, `ReviewIngestProofs`: reviews from the core database to their aspects.
7. `DriverSummaries`, `DriverSummariesProofs`: summaries recomputed, stored, cached, served.
8. `MoneyOps` (pure), `FxRates`: rates, conversions and their rounding.
9. `Surge`: multipliers, overrides and the cycle that prices hexes.
10. `MoneyProofs`: about 8 and 9, which share the lemmas about rounding.

Left out on purpose, see section 6: the tolerance of grounding, breakers, the inbox,
demand models, zones and the heatmap. Worth doing next: a composition of `TurnLoop` and
`ConfirmCommit` (today each has the other as an environment that is free to do more).

An `MC*` module instantiates its specification for TLC; a `*Proofs` module extends it with
theorems. `KnowledgeBase` extends `Chunker`; `FxRates` and `Surge` extend `MoneyOps`;
`MoneyProofs` extends both, which is why their variables and formulas have different names;
`ConfirmCommit` instantiates `ActionLedger` and `ReviewIngest` instantiates `ReviewLedger`.
`ReviewIngest` and `DriverSummaries` are the two halves of one cron cycle: the first ends where
the second begins, and meets it as `AddReview`.

## 3. The modules

### ConfirmCommit (with ActionLedger)

| TLA+ | Code |
|---|---|
| `pending`, `ttl` | Redis key `confirm:<sessionId>:<toolCallId>`: its action, ticks to live |
| `guard` | Redis key `idem:<idempotencyKey>` |
| `counter` | Redis key `refund:<user>:<day>` |
| `core` | what became of the HTTP call to the core backend (external) |
| `tickets`, `refunds` | MongoDB rows written by `commitRefund()` |
| `pc`, `ask`, `holds`, `age`, `stamp` | the `confirm()` handlers: await, request, action read, time since the GET, day read |
| `told`, `flagged` | answers to users, refunds logged with `anomaly: true` |
| `issued`, `taken`, `commits`, `done`, `lost` | history, read by no guard but that of a fresh key |

Actions are one per await: `OfferCard` (a `save()`, which may overwrite a card under
the same tool call id), the request, GET and DEL of `take()`, the SET NX guard, the
backend call with its late answer, INCR, EXPIRE, the ticket, the refund row, the log;
besides them the tick of time (TTLs and the expiry of keys), midnight, and the faults:
a reply to SET NX or INCR that is lost while ioredis sends the command again, a
rejected await, the process stopping. A user only confirms in sessions of his own (the
ownership check precedes `take()`). An action is named by its idempotency key, a fresh
UUID: `OfferCard` takes an unused one.

`ActionLedger` is what the gate promises, without keys, guards or handlers: offer,
then at most one commit, then at most one execution.

### TurnLoop

One run of `processMessage()`. The model is the environment: every completion is any
sequence of at most `MaxCalls` tool calls (allowed, forbidden, unknown) or any text, as
`groq.provider.ts` and `anthropic.provider.ts` translate it (`ViaGroq`, `ViaAnthropic`: what
of a reply survives).
A text is the set of amounts it states, so `Grounded` is set inclusion. Tools are told
apart by what they do to the turn: `read` returns amounts, `escalate` opens a ticket,
`card` and `refund` return a card, the latter with an amount that the model chose. The
transcript, the cards saved and the events are sets of entries named by hop and call, so
that order and omission are visible. Any await may reject, and a `create()`
of a ticket may have been applied when it does: `Reject`, `GatewayDown` (any
answer of ai-gateway but a 2xx, as `ai-gateway.client.ts` maps it), `ToolThrows`, `Crash`.

### GatewayCall

The concurrent completions and embeddings of one user, which charge the same counter:
`CheckBudget`, `ProviderAnswers` or `ProviderFails` (for a completion along the chain of
`Chain` routes, where an error, the breaker's timeout and an open breaker look the same;
an embedding has one provider), `LogCall`, `Consume`, `Expire`, and for completions the
`catch` block (`LogError`): `embed()` has none and throws (`Throw`). A write that is
rejected may have been applied or not (`Reject`); INCRBY may be sent again after a lost
reply (`ConsumeResent`). The key of the counter carries the UTC day, computed as each
command is sent, which the model takes as the moment it runs. What a request is answered
with is left out.

### PromptRegistry

The documents of one key, each with its version and status, in the order they were
created, so that two documents of one version can exist and only the unique index
prevents them. `createDraft()` is `ReadLatest` and `CreateDraft` with the index between
them; `publish()` is `LoadTarget`, `RetireLive`, `SaveTarget`. `save()` of a
loaded document writes the fields that differ from what was loaded, so a version that
was live when it was loaded keeps the status `RetireLive` gave it.

### Chunker and KnowledgeBase

`Chunker` is `chunk()` on positions: a body is its paragraphs, as the intervals of
positions they fill, and the places of its sentence ends (`IsText`), and the buffer of the
code is always an interval of the body, because the overlap that is kept is what precedes
the next paragraph. Flush, overlap, the cut at a sentence end in the second half of the
target, and the hard split are one operator each; the two loops are recursive functions,
`Passes` of the hard split and `Filled` of the paragraphs. `ChunkerAssumption`
(`2 * Overlap < Target`, `Target > 1`) is what makes the hard split advance; the defaults
satisfy it.

`KnowledgeBase` keeps the versions of one titled document. `createDocument()` is
`ReadLatest`, `Create`; `publishDocument()` is `Load`, `Delete` (after the embeddings),
`Insert`, `Save`; each may be cut short at any await, `insertMany()` part way and `save()`
after it was executed (`CutShort`). A search asks the index (`VectorSearch`), which may lag,
answer nothing or be missing, and then scans (`FallbackCosine`). Chunks carry the handler
that inserted them, so that copies are visible.

### ReviewIngest (with ReviewLedger)

The rides of the core database with a rating on each side, written by others
(`Rate`, `Touch`, `Tick`); a rating may become visible after its stamp, as that is set before the
write, a ride may lack a driver or a passenger, and a rating may be one that `save()` refuses
(`Starless`: a 0, stored by `updateOne()` without validators). Then one cycle at a time: `Pull` (query, page, verdicts), `Store`
per review with `$setOnInsert`, `Advance` of the watermark, `FindPending`, `Extract`. `Pull`
chooses among the pages that `find().sort({ updatedAt: 1 }).limit()` may return. `Fail` is an
await that rejects or the process stopping, at any await; `ExtractInvalid` is the `save()` that
rejects at every cycle; the lock `running` is released by
`finally` or is gone with the process.

`ReviewLedger` is what the ingest promises about each review, without pages, watermarks,
batches and faults: it is judged once, after it was given; a toxic text always excludes it, a
bombing only if enough is said about its subject; its aspects are read at most once, and only
if it was admitted.

### DriverSummaries

A summary is the number of reviews it rests on and whether the model wrote its prose.
Cron ticks (`StartTick`, `FindDue`, `NextDue`, `EndTick`) and administrators share
`recompute()`: `ReadReviews`, `WriteProse` (a failed completion leaves the prose out), `Store`,
`CacheSummary`. Readers take `View`, `FindSummary`, `FillCache`. Documents age and copies expire
when time says so; `Reject` and `Crash` cut any of them short.

### MoneyOps and FxRates

`MoneyOps` is `roundMinor()` with its three rules and the default branch, which is reachable
because a currency accepts any string as its rule (`currency.dto.ts:25-28`), and the conversion
between exponents. The code divides and multiplies doubles. `Rounded` takes the exact fraction,
or one that is off by less than any distance that separates it from a whole or half unit: so
exactly the ties and the whole results may be decided otherwise, as they are in the code.
`RoundsWell` says what rounding is to achieve without an algorithm, and `RoundsClosely` what
a slip leaves of it. `FxRates` has several `refreshAll()` under way at
once (`Fetch`, `CacheOne` per quote, `InsertAll`, `RefreshFails`), copies that expire,
administrators who change exponents and rules (`Upsert`), and `convert()` in its awaits:
`ReadFrom`, `ReadTo`, `ReadCache`, `ReadStore`, then `ReadLeg` and `ReadCross` for a pair that is
crossed through the pivot. A rate is identified by the provider's timestamp.

### Surge

`Predict` is a run of the predictor before the cycle computes; `Decide` is `compute_surge()`: override, ratio, moving average, anti-shock limit, rounding to
the step, cap, dwell. `ReadOverrides`, `CountDrivers`, `ReadPrior`, `SetState`, `InsertRow` are the
awaits of a hex in the predict cycle (`CountDrivers` always counts none: MongoDB refuses `$near` in
`count_documents()`), which stops at the first exception (`CycleFails`). The
override document is read, changed and written back whole (`AdminReads`, `AdminWrites`) and
expires whole (`ExpireDoc`). Multipliers are integers in tenths or finer (`One`).

## 4. What the runs check

The runs are named in `PROJECT.json`; the cfg of each is an `MC*.cfg`.

| Run | Instance | States | Shows |
|---|---|---|---|
| `confirm_race` | one card slot, a booking and a refund, two handlers, fair | 1,274,056 | `GateInv`, `AtMostOnce`, `EffectNeedsAccept`, `CommittedIsDone`, no replay (`ObtainOnlyFresh`), refinement of `ActionLedger`, and that racing accepts never all lose (`AcceptResolves`) |
| `refund_day` | two refunds of one user, two handlers, two days, threshold 1 | 767,908 | `UnflaggedBounded` |
| `turn_loop` | all tools, two amounts, three hops, two calls a completion, fair | 4,229,236 | `SourcedText`, `CompletionsBounded`, `CardConfirmable`, `OnlyFaultsCutShort`, `EscalationMarksSession`, `TurnEnds` |
| `gateway_call` | two handlers, limit 2, usage up to 2, three routes (`AiTask.CHAT`), two days, three completions or embeddings, one resend, fair | 93,161 | `OverrunBounded`, `ChargedIsLogged`, `CallAnswered` |
| `prompt_registry` | three administrators, four versions | 198,631 | `VersionsContiguous`, `ReleasedStays`, `SerialPublishes` |
| `knowledge_base` | two versions, a blank and a long text, two administrators, one search | 2,407,068 | `OnceEach`, `NoDraftServed`, `NeverEmptyHanded`, `EveryPassageFound` (in a piece of bounded size) |
| `review_ingest` | two rides rated by both sides, with a driver and a passenger or without, a rating that cannot be saved, pull limit 1, one fault, fair | 68,149 | `NothingMissing`, refinement of `ReviewLedger` (`ImplementsReviews`), `StoredIsProcessed` |
| `driver_summaries` | one driver, two languages, two ticks, an administrator, a reader, three reviews, one fault, fair | 774,583 | `Backed`, `CronNeverRegresses`, `SummariesCatchUp`, `CacheSettles` |
| `fx_money` | two quotes and the pivot, two timestamps, two refreshes, one conversion, one fault, one changed configuration | 6,391,171 | `CacheNotBehind`, `NoOldRate`, `NotFoundIsUnknown`, `ConvertedClosely` |
| `surge` | one hex, three predictions, two administrators, all steps of the multiplier, one fault, fair | 1,158,854 | `SurgeInv` (types, caps, confirmed kills that are kept), `ShownStepBounded`, `KillTakesEffect`, `Settles` |
| `single_use` | as `confirm_race` | violated | a card is obtained twice |
| `review_skipped` | as `review_ingest` | violated | a review is passed over |

Why the bounds are enough. Two handlers are what a race on one key needs: a third
handler of the same card finds what the second finds. TTLs of 1 or 2 ticks with
`MaxLatency` just below separate "before", "at" and "after" the expiry. Two actions on
one slot allow a card to overwrite another; two refunds with a threshold of 1 cross it.
Three hops allow a retried draft, a tool call and the forced completion in one turn; two
calls in a completion allow a card with a call before or after it. The budget needs one
request to reach the limit and all handlers in flight at once, on either side of midnight.
Three versions allow a publish, its replacement, a rollback and a draft beside them. The
texts of the knowledge base are a blank one and one with a short and a long paragraph, which is
flushed, cut at a sentence end and then left over; other texts take the other cuts, and the
theorem about passages covers every text. A pull of one ride out of two is truncated, two ratings about one driver are a
bombing, and two ticks separate older, equal and newer ratings. Two timestamps, two quotes and
two refreshes let the older refresh write last, and the pivot is crossed; one changed
configuration separates the two reads of a conversion. 203 minor units halved are a tie, which
doubles miss, and `DOWN` may cut one off them. One driver with two languages, two
ticks, an administrator and a reader, and three reviews of which two are read, reach every race
on one summary. One hex with two administrators: hexes share the override document, which an administrator's request for the whole city exercises, and the
cycle, which an exception on one of them ends for the rest. One hex shows the second only as a
cycle that fails before it was reached; two of them exceed the time of a run.

`CHECK_DEADLOCK FALSE` is set for `TurnLoop`, whose turn ends, for `GatewayCall`, whose
requests and days are bounded, and for `ReviewIngest` and `DriverSummaries`, whose ratings,
requests and faults are. Everywhere else a deadlock would be an error.

Symmetry is used for handlers, interchangeable cards, administrators and refreshes, never in a
run with a liveness property.

### Fairness

- `ConfirmCommit`, `GatewayCall`: weak fairness on the steps of each handler, `TurnLoop`: on the
  turn. Node runs a settled promise in the end, and every await settles because the HTTP
  clients, ioredis (`maxRetriesPerRequest`), the breaker (`CB_TIMEOUT_MS`) and the MongoDB
  driver give up.
- `ReviewIngest`, `DriverSummaries`, `Surge`: the same of the cycle, which a cron or interval job
  starts again for ever; of the handlers of administrators and readers of summaries once they have
  come; and of time, which makes summaries old, copies expire and dwell times pass.

No fairness is assumed of users and administrators coming at all, of which way an await settles, or of faults
and crashes, which may always or never happen (their number is bounded in three of the runs
with liveness, which is what "once faults stop" means there).

### Where the code and its documentation differ

Two runs in which TLC finds a quoted statement violated:

- `single_use`: `take()` is a GET and a DEL, so two concurrent requests both obtain a
  "single-use" card; a decline and an accept can both be honoured. Two accepts are still
  stopped by the guard, which is what `AtMostOnce` rests on.
- `review_skipped`: the page is cut in the order of `updatedAt` while the watermark follows
  `ratedAt`, so a review that is left out of a full page can fall behind the watermark for good.
  `NothingMissing` shows which others are lost: those that become visible when a pull has taken
  their own or a later stamp, and those of rides without a driver or a passenger.

Observations that need no run, since they can be read off one definition:

- Refunds past the daily threshold are flagged, not limited; a refund card shows the amount the
  model passed (`SourcedText` shows that it goes no further).
- The anomaly flag is no field of a refund: it goes with the result that is logged after
  `refunds.create()`. A refund whose handler stops in between is queued without a flag whatever
  its count (`UnflaggedBounded` says what it counts).
- `degrade()` reports `escalated: true` even if no ticket was created, leaves the session
  active, and streams its message without recording it. A ticket whose `create()` was applied
  and rejected stands on an active session too, at the end of a normal turn
  (`EscalationMarksSession` excepts it).
- The "hard" token budget is overrun by concurrent completions and embeddings, within
  `OverrunBounded`.
- Publishing the live version of a prompt again leaves none live; `SerialPublishes` excepts it.
- Superseded versions of a knowledge document stay searchable; versions are numbered by title
  across languages; overlapping publications of one document store its pieces twice; the
  scan reads at most 2000 chunks.
- Doubles decide ties: 203 minor units at a rate of 0.5 are 101.49999999999999, hence 101 under
  `HALF_EVEN` where the tie asks for 102; and 29 units converted into themselves under `DOWN` are
  28. `ConvertedClosely` says how far this goes. Sums beyond the integers a double holds are
  outside the model.
- A ride with a rating but without a driver or a passenger is pulled and never stored; a full
  page of such rides never moves the watermark, and the ingest stands still.
- A rating stored as 0 makes `save()` reject at every cycle: extraction stops for good, and with
  it the refresh of summaries, which the same cycle runs after it.
- The kill switch is documented as taking effect in under 5 s (`routers/admin.py:21`,
  `AI_PLATFORM_PHASE4.md:56`); a cycle runs every 300 s (`PREDICT_CRON_SECONDS`), so it takes
  effect within a cycle. `KillTakesEffect` is about the cycle, not about seconds.
- `getRate()` never triggers the refresh its comment promises (`fx.service.ts:69-71`), and a
  conversion into the pivot is "not found" (`NotFoundIsUnknown` says so exactly).
  `upsert()` without a rounding rule resets it to `HALF_EVEN`.
- A manual multiplier is capped before it is rounded to the step (`WithinCap` allows half a
  step); one TTL covers all overrides of a city; the farthest window predicted decides; `$near`
  inside `count_documents()` is always refused and taken for zero drivers, so a multiplier follows
  the predicted demand alone (`Settles` says to what).
- A driver with more than 500 reviews is due at every tick. The zone week is seven days
  back, not an ISO week.
- Assigning a resolved ticket reopens it; a connection of the heatmap never sends a hex
  twice; promoting a demand model retires the active one first.

## 5. What is proved

TLAPS checks every proof of the eight `*Proofs` modules, for all values of the constants that
satisfy the named assumptions. In each, one lemma per step or group of steps shows that it
keeps the invariant, conjunct by conjunct; the theorem combines them; the properties and
action properties follow from it.

**Assumptions.** `CardAssumption`, `TurnAssumption`, `BudgetAssumption`, `VersionsAssumption`,
`ChunkerAssumption`, `KbAssumption`, `IngestAssumption`, `SummaryAssumption`, `NoneAssumption`,
`FxAssumption`, `SurgeAssumption` type the constants and name the inequalities the code's
configuration satisfies; `KbAssumption` also says that a body is a text, and `PowersOfTen` that
`10^e` is a positive number for every exponent, which the provers do not know. `TtlAssumption`
contains the only one about time: `MaxLatency < IdemTtl`, that is, a handler comes from its GET to
its SET NX in less than the 600 s a guard lives. The code does not enforce it; it is what the
event loop and the Redis client's limits give. Time itself waits for slow handlers in the model
(`Tick` does not pass `MaxLatency`), which is that assumption and nothing else.

**The gate.** `AtMostOnce` is not inductive. `CommitInv` strengthens it by what the
argument needs:

1. `HandlerInv`, `PendingInv`, `FreshInv`: an action still in Redis is held only by
   handlers that have not deleted it, and nobody was answered about it.
2. `GuardInv`: the commit count of an action is at most 1, and while a handler that read
   the card *before* that commit is still on its way to SET NX, the guard has not expired:
   `guard + age >= IdemTtl`, both moving by the same tick. With `age <= MaxLatency <
   IdemTtl` the guard is found.
3. `WinnerInv`: hence at most one handler is past the guard.
4. `EffectInv`: hence what each step of the commit left behind is known, `done <= 1` and the
   answers are true, although the backend may execute the call after the handler gave up.

From `CommitInvariant` follow `TypeCorrect`, `EffectAtMostOnce`, `NoEffectWithoutAccept`,
`AnswersAreTrue`, `QueuedRefundsHaveTickets`, the action property `ReplayFindsNothing`, and
`GateImplementsLedger`, the refinement of `ActionLedger` (`offered <- issued`,
`committed <- commits`, `executed <- done`), whose only hard case is that SET NX never
commits an action twice.

`SettleInv` is the safety half of `AcceptResolves`: an action whose guard was taken was
executed, was reported as failed, was dropped by a fault, or some handler is still past the
guard with it (`OnItsWay`). `GateInvariant` proves it together with `CommitInv`, and
`AcceptsAreSettled` extends it to every action that an accept obtained: racing handlers that
find the guard taken may all leave, because the one that took it is accounted for. What is
left to fairness is that a handler moves.

`UnflaggedBounded` bounds a count of the refunds whose result was logged, and says of the others
that their handler is still at work or was stopped by a fault. `RefundInv` says what is counted:
the refunds of a user and a day that escaped the flag, or will because their handler read a
number below the threshold (`Escaped`), are no more than the counter, each of them having raised
it (`DayInv`), and a refund has one row at most, which bears the user and the day of the handler
that wrote it (`RowInv`). The proof adds one element to a finite set at INCR and none elsewhere.

**The turn.** `SourcedText` is not inductive because `moneyAllowed` does contain amounts
that the model invented, from the arguments of a refund. `TurnInv` adds `MoneyInv`: such amounts
are there only while a card is being shown or after `awaitingConfirmation` was set, and then
no text is accepted in the turn; `HopInv` pays each completion with a hop; `CardInv` and
`TicketInv` tie flags to what was shown and stored. It yields `TextIsSourced`,
`CompletionsAreBounded`, `CardsAreConfirmable`, `EscalationIsMarked`, `CutShortByFaults`.

`StepsLeft` is a number that every step of the turn lowers (`TurnIsFinite`): a hop costs at
most `PerHop = 4 * MaxCalls + 1` steps, so a turn takes at most `MaxHops * PerHop + 6`,
whatever the model proposes. It is the safety half of `TurnEnds`; the other half, that a
turn which is not over can take a step, needs fairness and `ENABLED`.

**The budget.** `OverrunBounded` is not inductive: what matters is what is still to be
charged. `BudgetInv` adds that the counter of the current day plus `MaxUse` for every request
between its check and its charge stays below the bound, and that later days are untouched. A
request that passes the check found the counter below the limit, however many others are
`Uncharged`; a charge removes one of them; midnight starts at zero.

`ChargedIsLogged` compares a sum over the days with the tokens in the log. `LogInv` keeps the
difference: what is logged covers what is charged and what the requests between their log
and their charge still owe (`Owed`). A sum over days is a recursive function; that it exists,
is a number, and grows by what one day grows by are lemmas shown by the least day at which
they would fail, since the induction theorems of the library cannot be used. It yields
`ChargesAreLogged`.

**The prompt registry.** `RegistryInv` is `TypeOK` with two facts that need no further
help. `NumberInv`: the versions are `1..n` and a draft that is being created is at most
version `n + 1`, so what the unique index lets in is exactly the next one; this gives
`VersionsAreContiguous`. `LiveInv`: while no publish was disturbed there is one at a time,
its target was not live when loaded, nothing is live between its two writes, and
otherwise exactly the version published last is; this gives `SerialPublishesLeaveLast`.
`ReleasedVersionsStay` is an action property from the same invariant.

**The knowledge base.** `KbInv` rests on `WholeInv` (a document that was published, or is about to
be, has all its chunks unless a publication is between deletion and insertion or was cut short
there), `AloneInv` (a document whose publications never overlapped has one publisher, and no
chunks while it is about to insert), and `SureInv` (what a search must see is still whole: a
deletion takes it out of `sure`). It holds for whatever pieces the chunker makes, and yields
`PublishedAreWhole`, `RepublishIdempotent`, `DraftsNotServed`, `SearchFinds`, `VersionsNumbered`.

`EveryPassageFound` is about the chunker: for every text and every target and overlap that
satisfy the assumptions, each position of each paragraph lies in a piece, which is no longer
than one and a half targets. Both loops are shown to be
defined, and to keep their invariant, by the least iteration at which they would not
(`PassesExist`, `FilledExists`, `Reaches`): a pass of the hard split consumes what it cuts,
stepping back by the overlap only (`CutKeeps`); flushing keeps as buffer what the next
paragraph needs (`FlushKeeps`, `ParagraphKept`). `TextInvariant`, a lemma, ties the pieces of a
document to its body, and `PassagesFound` follows.

**The ingest.** `BatchInv` is the heart: every rating up to the watermark that a batch will set, unless
a pull may pass it (`Passed`), is stored or still in the batch, so forgetting the batch with the old watermark, or setting the
new one after the last upsert, loses nothing. `ClockInv` and `PendingInv` support it. It yields
`NothingIsMissing`, `ExcludedStaysUnread` and `VerdictsAreFrozen`.

`IngestImplementsLedger` is the refinement of `ReviewLedger`: `given` are the ratings of the core
database, `verdict` and `aspects` what is stored, and a review that is not stored is unjudged.
Its hard case is `Store`, which happens long after the verdict was formed and may repeat one of
an earlier cycle. `JudgedInv` carries the warrant across: a verdict in a batch is warranted by
what was written when the page was judged, which grows only, and a suspicion needs a number of
reviews that a larger set still has (`MoreIsSaid`, on cardinalities).

**The summaries.** `DraftInv` and `ViewInv` say where a summary that is being carried from one store
to another comes from: reviews never go away and documents are never deleted, so it is still
backed when it arrives. `TickInv`: cycles exclude each other, so the cron job's draft rests on no
fewer reviews than the document it will replace. It yields `ServedIsBacked` and `CronKeepsGround`.

**The rates.** `RefreshInv`: a refresh that is alone fetched rates no older than any stored, and
what it has cached is its own or expired. It yields `CacheNotBehind` for any number of currencies,
refreshes and faults.

A conversion spreads over several awaits while rates and rules change, so its properties
relate what it read to what was there when it read it. `ConversionInv` says of each await
what has been read: what the request knew to be stored when it asked is not newer than what
is stored now (`KnownInv`), a pair that is crossed is crossable and its first leg is no older
than what was known (`PathInv`), and until a rule is changed the exponents read are the
seeded ones (`SeedInv`). The newest stored time exists because times are bounded; it is the
greatest element of a set of numbers, again by the least counterexample. From it follow
`RatesAreCurrent`, `NotFoundMeansUnknown` and, with `RoundingIsRight` (each of the three rules
and the default of `roundMinor()` meets `RoundsWell`), `ConversionsAreClose`: a slip that is less
than half a unit's share leaves the nearest number nearest (`SlipStaysNearest`) and costs `DOWN`
one unit (`SlipCostsOne`).

**Surge.** `DecideIsGood` is arithmetic: for all multipliers, ratios and settings a computed
decision lies in `One..Cap`, one that an administrator sets within half a step of it, and whatever
is not overridden within the anti-shock limit and half a step of the multiplier it started from.
`SurgeInv` carries it through the cycle: `DecisionInv` keeps the decision near the copy in Redis
it was made from, and that copy equal to the row riders see while no row was lost; `CallInv` says
that an administrator who is alone writes back every kill that was confirmed, which gives
`KillsKept`. `ShownStepsAreBounded` follows.

The inductive invariants were first checked by the runs of their modules. Now the runs name
those that say most by themselves (`GateInv`, `SurgeInv`), and the properties that follow; type
correctness (`TypeOK`, a conjunct of each invariant) is proved and otherwise not run again.

**Only model-checked.** Every safety property of a passing run is stated by a theorem. What is left
is liveness, which needs fairness and `ENABLED`: `AcceptResolves` and `TurnEnds`, whose safety
halves are proved, `CallAnswered`, `StoredIsProcessed`, `SummariesCatchUp`, `CacheSettles`,
`KillTakesEffect`, `Settles`. The two expected violations are TLC's counterexamples.

## 6. What is not modelled

- The core backend, the model, the providers, Redis, MongoDB, the Atlas index and ioredis are
  modelled from how the code uses them: any answer, late, lost or doubled where the client
  library allows it.
- The contents of messages, prompts and documents, languages, formatting, redaction,
  cost reports and metrics: nothing in the modelled parts depends on them.
- The regular expressions and the tolerance of the grounding check: a comparison of numbers
  without state, which its unit tests enumerate.
- Breakers: the library's counters and timers. `ProviderFails` is allowed at any time, which
  covers an open breaker; tokens of calls that were abandoned are not counted.
- The inbox, the heatmap and the insights of a zone: single updates or reads, with nothing
  between two awaits that a property could relate.
- Demand models: numerical, and promoted by one scheduled trainer in two writes, the pattern
  `PromptRegistry` is about.
- Rates are fractions, and the error of doubles is the slip of `Rounded`: numbers so large that
  the error reaches half a unit are outside the model, and so is the rest of `money.ts` (sums,
  `multiply()`, formatting).
- Timestamps of the rates provider identify a rate and never go back; dates without a time
  (`fx-provider.adapter.ts:45`) would let two rows of one day tie in the store.
- Authentication, health checks, wiring, containers and evaluation scripts: no
  transitions of their own.

`PROJECT.json` lists every component with its status, and every hazard with the properties
that cover it or the reason why none does.
