----------------------------- MODULE DriverSummaries -----------------------------
(***************************************************************************)
(* insights-service, second half of the ingest cycle: summaries of drivers *)
(* are recomputed by the cron job and by administrators, stored in MongoDB,*)
(* copied to Redis and served from there (scheduler.service.ts,            *)
(* summarizer.service.ts, serving.service.ts).  A summary is abstracted to *)
(* the number of reviews it rests on and whether the model wrote its prose.*)
(***************************************************************************)
EXTENDS Integers, FiniteSets

CONSTANTS
    Drivers, Langs, DefaultLang,
    Ticks,         \* ticks of the ingest cron job that may be under way
    Admins,        \* POST /admin/insights/recompute handlers
    Readers,       \* GET handlers of riders and drivers
    ColdStart,     \* COLD_START_MIN_REVIEWS
    MinNew,        \* SUMMARY_MIN_NEW_REVIEWS
    MaxRead,       \* the newest reviews a summary rests on at most (500)
    None,
    MaxReviews,    \* bound: reviews of a driver
    MaxFaults,     \* bound: rejected awaits, failed completions, crashes
    MaxRequests    \* bound: requests of administrators

Workers == Ticks \cup Admins
Entries == Drivers \X Langs

ASSUME SummaryAssumption ==
    /\ DefaultLang \in Langs
    /\ Ticks \cap Admins = {}
    /\ ColdStart \in Nat \ {0}
    /\ MinNew \in Nat \ {0}
    /\ MaxRead \in Nat /\ ColdStart <= MaxRead
    /\ MaxReviews \in Nat /\ MaxFaults \in Nat /\ MaxRequests \in Nat

VARIABLES
    count,     \* reviews: those about each driver that are not excluded
    mongo,     \* driver_summaries, one per driver and language
    redis,     \* driver_summary:<driver>:<lang>
    running,   \* SchedulerService.running
    pc,        \* workers: the await each one is at
    todo,      \* workers: drivers due that are still to recompute
    entry,     \* workers: the summary being recomputed
    draft,     \* workers: its content so far
    view,      \* readers: the await each one is at
    want,      \* readers: the summary asked for
    found,     \* readers: the document found in MongoDB
    faults, requests

worker == <<running, pc, todo, entry, draft>>
reader == <<view, want, found>>
vars == <<count, mongo, redis, worker, reader, faults, requests>>

NoEntry == <<None, None>>
NoDraft == [n |-> 0, prose |-> FALSE]
Drafts == [n : 0..MaxReviews, prose : BOOLEAN]

\* A document: content, whether computedAt is older than SUMMARY_MAX_AGE_HOURS, and
\* (history) whether the cron job wrote it.
Docs == [n : 0..MaxReviews, prose : BOOLEAN, aged : BOOLEAN, cron : BOOLEAN]
Payload(doc) == [n |-> doc.n, prose |-> doc.prose]

\* What SET ... EX leaves in Redis.  (Mutated: no EX.)
Copies == [n : 0..MaxReviews, prose : BOOLEAN, ttl : BOOLEAN]
SetForEver(doc) == [n |-> doc.n, prose |-> doc.prose, ttl |-> FALSE]
SetEx(doc) == [n |-> doc.n, prose |-> doc.prose, ttl |-> TRUE]

ASSUME NoneAssumption == None \notin Docs \cup Copies

Init ==
    /\ count = [d \in Drivers |-> 0]
    /\ mongo = [e \in Entries |-> None]
    /\ redis = [e \in Entries |-> None]
    /\ running = FALSE
    /\ pc = [w \in Workers |-> "idle"]
    /\ todo = [w \in Workers |-> {}]
    /\ entry = [w \in Workers |-> NoEntry]
    /\ draft = [w \in Workers |-> NoDraft]
    /\ view = [r \in Readers |-> "idle"]
    /\ want = [r \in Readers |-> NoEntry]
    /\ found = [r \in Readers |-> NoDraft]
    /\ faults = 0
    /\ requests = 0

Goto(w, p) == pc' = [pc EXCEPT ![w] = p]

-----------------------------------------------------------------------------
(* What happens around the summaries.                                       *)

\* The ingest stores one more review that counts (module ReviewIngest).
AddReview(d) ==
    /\ count[d] < MaxReviews
    /\ count' = [count EXCEPT ![d] = @ + 1]
    /\ UNCHANGED <<mongo, redis, worker, reader, faults, requests>>

\* Time makes a summary old, and Redis drops a copy at its TTL.
Age(e) ==
    /\ mongo[e] # None
    /\ mongo' = [mongo EXCEPT ![e].aged = TRUE]
    /\ UNCHANGED <<count, redis, worker, reader, faults, requests>>

Expire(e) ==
    /\ redis[e] # None
    /\ redis[e].ttl
    /\ redis' = [redis EXCEPT ![e] = None]
    /\ UNCHANGED <<count, mongo, worker, reader, faults, requests>>

-----------------------------------------------------------------------------
(* The cron job.                                                            *)

\* A tick that finds a cycle running is skipped.  (Mutated: it is not.)
AlwaysStarts == TRUE
MayStart == ~ running

\* (Ticks are alike: any that is free stands for the one that comes.)
StartTick(w) ==
    /\ pc[w] = "idle"
    /\ w = CHOOSE u \in Ticks : pc[u] = "idle"
    /\ MayStart
    /\ running' = TRUE
    /\ Goto(w, "due")
    /\ UNCHANGED <<count, mongo, redis, todo, entry, draft, reader, faults, requests>>

\* A summary that is refreshed: enough new reviews, or too old.  A driver with many
\* more than MaxRead reviews is due at every tick.  (Mutated: the age is forgotten.)
EnoughNew(d, doc) == count[d] - doc.n >= MinNew
Stale(d, doc) == EnoughNew(d, doc) \/ doc.aged

\* driversNeedingRefresh() compares a driver with his last summary in the order of
\* the collection, in whatever language that is.  Summaries and counts are read by
\* two awaits; a summary that is newer by then only makes its driver due in vain.
Stored(d) == {l \in Langs : mongo[<<d, l>>] # None}
Due(pick) ==
    {d \in Drivers :
        \/ Stored(d) = {} /\ count[d] >= ColdStart
        \/ Stored(d) # {} /\ Stale(d, mongo[<<d, pick[d]>>])}
Picks == {p \in [Drivers -> Langs] : \A d \in Drivers : Stored(d) # {} => p[d] \in Stored(d)}

FindDue(w) ==
    /\ pc[w] = "due"
    /\ \E pick \in Picks : todo' = [todo EXCEPT ![w] = Due(pick)]
    /\ Goto(w, "next")
    /\ UNCHANGED <<count, mongo, redis, running, entry, draft, reader, faults, requests>>

EndTick(w) ==
    /\ pc[w] = "next"
    /\ todo[w] = {}
    /\ running' = FALSE
    /\ Goto(w, "idle")
    /\ UNCHANGED <<count, mongo, redis, todo, entry, draft, reader, faults, requests>>

-----------------------------------------------------------------------------
(* recompute(), for the cron job and for administrators.                    *)

\* recompute() returns or throws: the cron job goes on with the next driver.
After(w) == IF w \in Ticks THEN "next" ELSE "idle"
Done(w) ==
    /\ Goto(w, After(w))
    /\ entry' = [entry EXCEPT ![w] = NoEntry]
    /\ draft' = [draft EXCEPT ![w] = NoDraft]

Readable(d) == IF count[d] <= MaxRead THEN count[d] ELSE MaxRead

\* (Mutated: off by one.)
AlmostEnough(n) == n + 1 >= ColdStart
Enough(n) == n >= ColdStart

\* recompute() of one summary, whose first await reads the reviews.
ReadReviews(w, e) ==
    LET n == Readable(e[1])
    IN  \/ /\ ~ Enough(n)
           /\ Done(w)
        \/ /\ Enough(n)
           /\ entry' = [entry EXCEPT ![w] = e]
           /\ draft' = [draft EXCEPT ![w].n = n]
           /\ Goto(w, "prose")

NextDue(w) ==
    /\ pc[w] = "next"
    /\ \E d \in todo[w] :
         /\ todo' = [todo EXCEPT ![w] = @ \ {d}]
         /\ ReadReviews(w, <<d, DefaultLang>>)
    /\ UNCHANGED <<count, mongo, redis, running, reader, faults, requests>>

AdminAsks(w) ==
    /\ pc[w] = "idle"
    /\ requests < MaxRequests
    /\ requests' = requests + 1
    /\ \E e \in Entries : ReadReviews(w, e)
    /\ UNCHANGED <<count, mongo, redis, running, todo, reader, faults>>

\* A completion that fails in any way is null: the summary has no prose.
WriteProse(w) ==
    /\ pc[w] = "prose"
    /\ \/ draft' = [draft EXCEPT ![w].prose = TRUE] /\ UNCHANGED faults
       \/ faults < MaxFaults /\ faults' = faults + 1 /\ UNCHANGED draft
    /\ Goto(w, "store")
    /\ UNCHANGED <<count, mongo, redis, running, todo, entry, reader, requests>>

Store(w) ==
    /\ pc[w] = "store"
    /\ mongo' = [mongo EXCEPT ![entry[w]] =
                    [n |-> draft[w].n, prose |-> draft[w].prose, aged |-> FALSE, cron |-> w \in Ticks]]
    /\ Goto(w, "cache")
    /\ UNCHANGED <<count, redis, running, todo, entry, draft, reader, faults, requests>>

CacheSummary(w) ==
    /\ pc[w] = "cache"
    /\ redis' = [redis EXCEPT ![entry[w]] = SetEx(draft[w])]
    /\ Done(w)
    /\ UNCHANGED <<count, mongo, running, todo, reader, faults, requests>>

\* An await rejects: for one driver, or for the whole cycle.
RunningAfter(w) == IF pc[w] = "due" THEN FALSE ELSE running

Reject(w) ==
    /\ pc[w] \in {"due", "next", "store", "cache"}
    /\ faults < MaxFaults
    /\ faults' = faults + 1
    /\ running' = RunningAfter(w)
    /\ \/ /\ pc[w] = "next"
          /\ \E d \in todo[w] : todo' = [todo EXCEPT ![w] = @ \ {d}]
       \/ /\ pc[w] # "next"
          /\ UNCHANGED todo
    /\ Goto(w, IF pc[w] = "due" THEN "idle" ELSE After(w))
    /\ entry' = [entry EXCEPT ![w] = NoEntry]
    /\ draft' = [draft EXCEPT ![w] = NoDraft]
    /\ UNCHANGED <<count, mongo, redis, reader, requests>>

-----------------------------------------------------------------------------
(* serve().                                                                 *)

\* GET on Redis: a hit is the answer.
View(r) ==
    /\ view[r] = "idle"
    /\ \E e \in Entries :
         /\ redis[e] = None
         /\ want' = [want EXCEPT ![r] = e]
    /\ view' = [view EXCEPT ![r] = "find"]
    /\ UNCHANGED <<count, mongo, redis, worker, found, faults, requests>>

Answered(r) ==
    /\ view' = [view EXCEPT ![r] = "idle"]
    /\ want' = [want EXCEPT ![r] = NoEntry]
    /\ found' = [found EXCEPT ![r] = NoDraft]

FindSummary(r) ==
    /\ view[r] = "find"
    /\ LET doc == mongo[want[r]]
       IN  \/ /\ doc = None
              /\ Answered(r)
           \/ /\ doc # None
              /\ found' = [found EXCEPT ![r] = Payload(doc)]
              /\ view' = [view EXCEPT ![r] = "fill"]
              /\ UNCHANGED want
    /\ UNCHANGED <<count, mongo, redis, worker, faults, requests>>

FillCache(r) ==
    /\ view[r] = "fill"
    /\ redis' = [redis EXCEPT ![want[r]] = SetEx(found[r])]
    /\ Answered(r)
    /\ UNCHANGED <<count, mongo, worker, faults, requests>>

\* The process stops: every handler and the flag are gone.
Crash ==
    /\ faults < MaxFaults
    /\ faults' = faults + 1
    /\ running' = FALSE
    /\ pc' = [w \in Workers |-> "idle"]
    /\ todo' = [w \in Workers |-> {}]
    /\ entry' = [w \in Workers |-> NoEntry]
    /\ draft' = [w \in Workers |-> NoDraft]
    /\ view' = [r \in Readers |-> "idle"]
    /\ want' = [r \in Readers |-> NoEntry]
    /\ found' = [r \in Readers |-> NoDraft]
    /\ UNCHANGED <<count, mongo, redis, requests>>

-----------------------------------------------------------------------------
Recompute(w) == WriteProse(w) \/ Store(w) \/ CacheSummary(w)
Cron(w) == StartTick(w) \/ FindDue(w) \/ NextDue(w) \/ EndTick(w)
Serve(r) == FindSummary(r) \/ FillCache(r)

Next ==
    \/ \E d \in Drivers : AddReview(d)
    \/ \E e \in Entries : Age(e) \/ Expire(e)
    \/ \E w \in Ticks : Cron(w)
    \/ \E w \in Admins : AdminAsks(w)
    \/ \E w \in Workers : Recompute(w) \/ Reject(w)
    \/ \E r \in Readers : View(r) \/ Serve(r)
    \/ Crash

Spec == Init /\ [][Next]_vars

\* The cron job ticks for ever, awaits settle, and time passes.
FairSpec ==
    /\ Spec
    /\ WF_vars(\E w \in Ticks : Cron(w) \/ Recompute(w))
    /\ \A w \in Admins : WF_vars(Recompute(w))
    /\ \A r \in Readers : WF_vars(Serve(r))
    /\ \A e \in Entries : WF_vars(Age(e)) /\ WF_vars(Expire(e))

-----------------------------------------------------------------------------
(* Properties.                                                              *)

TypeOK ==
    /\ count \in [Drivers -> 0..MaxReviews]
    /\ mongo \in [Entries -> Docs \cup {None}]
    /\ redis \in [Entries -> Copies \cup {None}]
    /\ running \in BOOLEAN
    /\ pc \in [Workers -> {"idle", "due", "next", "prose", "store", "cache"}]
    /\ todo \in [Workers -> SUBSET Drivers]
    /\ entry \in [Workers -> Entries \cup {NoEntry}]
    /\ draft \in [Workers -> Drafts]
    /\ view \in [Readers -> {"idle", "find", "fill"}]
    /\ want \in [Readers -> Entries \cup {NoEntry}]
    /\ found \in [Readers -> Drafts]
    /\ faults \in 0..MaxFaults
    /\ requests \in 0..MaxRequests

\* A copy is served only of a summary that is stored, and neither rests on fewer
\* reviews than a driver must have, whichever await was rejected and whichever
\* reader filled the cache (summarizer.service.ts:55-58, 115-134, 139-147).
Backed ==
    \A e \in Entries :
        /\ redis[e] # None => mongo[e] # None
        /\ redis[e] # None => redis[e].n \in ColdStart..count[e[1]]
        /\ mongo[e] # None => mongo[e].n \in ColdStart..count[e[1]]

\* What makes them inductive: where each handler's summary comes from.
DraftInv ==
    \A w \in Workers :
        /\ pc[w] \in {"prose", "store", "cache"} => entry[w] \in Entries
        /\ pc[w] \in {"prose", "store", "cache"} =>
                draft[w].n \in ColdStart..count[entry[w][1]]
        /\ pc[w] = "cache" => mongo[entry[w]] # None
ReadInv ==
    /\ \A e \in Entries : mongo[e] # None => mongo[e].n <= MaxRead
    /\ \A w \in Workers : draft[w].n <= MaxRead
    /\ \A w \in Admins : pc[w] \notin {"due", "next"}
ViewInv ==
    \A r \in Readers :
        /\ view[r] # "idle" => want[r] \in Entries
        /\ view[r] = "fill" => /\ mongo[want[r]] # None
                               /\ found[r].n \in ColdStart..count[want[r][1]]
TickInv ==
    \A w \in Ticks :
        /\ pc[w] # "idle" => running /\ \A u \in Ticks \ {w} : pc[u] = "idle"
        /\ pc[w] \in {"prose", "store"} =>
                LET doc == mongo[entry[w]]
                IN  doc # None /\ doc.cron => doc.n <= draft[w].n
SummaryInv == TypeOK /\ Backed /\ DraftInv /\ ReadInv /\ ViewInv /\ TickInv

\* Cycles never overlap, so the cron job alone never replaces a summary by one that
\* rests on fewer reviews; a request of an administrator that runs beside it can
\* (scheduler.service.ts:14-16, 47-52).
CronNeverRegresses ==
    [][\A e \in Entries :
         mongo[e] # None /\ mongo'[e].n < mongo[e].n =>
            ~ (mongo[e].cron /\ mongo'[e].cron)]_vars

\* Once reviews, requests and faults stop, a driver with enough reviews has a summary
\* in the default language that rests on all it can and has its prose: summaries lost to
\* a race, a crash or an outage of the model are replaced because they grow old.
Current(d) ==
    LET doc == mongo[<<d, DefaultLang>>]
    IN  doc # None /\ doc.n = Readable(d) /\ doc.prose
SummariesCatchUp == \A d \in Drivers : []<>(count[d] >= ColdStart => Current(d))

\* Once reviews, requests and faults stop, what Redis serves is the stored summary and
\* stays it, however many readers come: a copy left by an overtaken reader or recompute,
\* or by one that failed between the two writes, is gone with its TTL, and no reader ever
\* fills the cache from anything but the stored summary (summarizer.service.ts:115-147).
Agrees(e) == redis[e] = None \/ (mongo[e] # None /\ Payload(redis[e]) = Payload(mongo[e]))
CacheSettles == \A e \in Entries : <>[]Agrees(e)

================================================================================
