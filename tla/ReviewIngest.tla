------------------------------ MODULE ReviewIngest ------------------------------
(***************************************************************************)
(* insights-service, first half of the ingest cycle: ratings embedded in   *)
(* the rides of the core database are pulled past a watermark, judged,     *)
(* stored once and given their aspects (scheduler.service.ts,              *)
(* ingest.service.ts, mongo-review.source.ts, aspect-extraction.service.ts).*)
(* Every await may reject and the process may stop between any two.        *)
(***************************************************************************)
EXTENDS Naturals, FiniteSets

CONSTANTS
    Rides,
    Subjects,        \* drivers and passengers
    SubjectOf,       \* whom a rating is about: [Keys -> Subjects]
    Texts,           \* review texts, up to case and surrounding spaces
    TextOf,          \* the text of each rating: [Keys -> Texts]
    Toxic, Blank,    \* the abusive texts; the empty text
    Starless,        \* ratings without a number of stars, or with one out of 1..5
    PullLimit,       \* rides of one pull (500)
    BombMin,         \* reviews of a subject that make a bombing possible (5)
    AspectBatch,     \* reviews of one extraction batch (50)
    MaxTime,         \* bound: the clock, in milliseconds
    MaxFailures      \* bound: rejected awaits, crashes, gateway failures

Sides == {"driver", "rider"}
Keys == Rides \X Sides            \* the unique index (rideId, subjectType)

ASSUME IngestAssumption ==
    /\ IsFiniteSet(Rides)
    /\ SubjectOf \in [Keys -> Subjects]
    /\ TextOf \in [Keys -> Texts]
    /\ Toxic \subseteq Texts
    /\ Blank \in Texts \ Toxic
    /\ Starless \subseteq Keys
    /\ PullLimit \in Nat \ {0}
    /\ BombMin \in Nat \ {0}
    /\ AspectBatch \in Nat \ {0}
    /\ MaxTime \in Nat
    /\ MaxFailures \in Nat

VARIABLES
    now,             \* the clock
    matched,         \* rides: those that have both a driver and a passenger
    ratedAt,         \* rides: the stamp of each rating, 0 if it was not given
    updatedAt,       \* rides: the last write to each ride
    reviews,         \* the reviews collection
    watermark,       \* insights_watermarks: lastRatedAt
    running,         \* SchedulerService.running
    pc,              \* the cycle: the await it is at
    batch,           \* the cycle: pulled reviews still to store, with their verdict
    newWatermark,    \* the cycle: where the watermark goes
    pending,         \* the cycle: reviews whose aspects are to be extracted
    failures,        \* faults so far
    behind           \* history: ratings that the watermark passed without them, left out
                     \* by a page or visible only after a pull that took a later stamp

source == <<now, matched, ratedAt, updatedAt>>
cycle == <<running, pc, batch, newWatermark, pending>>
vars == <<source, reviews, watermark, cycle, failures, behind>>

NoReview == [stored |-> FALSE, excluded |-> "no", aspects |-> "unprocessed"]
Verdicts == {"no", "toxicity", "review_bombing"}

\* Verdict of each pulled review; NotPulled for the others.
NotPulled == "not pulled"

Init ==
    /\ now = 1
    /\ matched \in SUBSET Rides
    /\ ratedAt = [k \in Keys |-> 0]
    /\ updatedAt = [r \in Rides |-> 0]
    /\ reviews = [k \in Keys |-> NoReview]
    /\ watermark = 0
    /\ running = FALSE
    /\ pc = "idle"
    /\ batch = [k \in Keys |-> NotPulled]
    /\ newWatermark = 0
    /\ pending = {}
    /\ failures = 0
    /\ behind = {}

-----------------------------------------------------------------------------
(* The core backend, which owns the rides, and the clock.                   *)

\* A rating is stamped before its write is visible.
Rate(k) ==
    /\ ratedAt[k] = 0
    /\ \E stamp \in 1..now :
         /\ ratedAt' = [ratedAt EXCEPT ![k] = stamp]
         /\ behind' = IF stamp <= newWatermark THEN behind \cup {k} ELSE behind
         /\ \E written \in stamp..now :
              updatedAt' = [updatedAt EXCEPT ![k[1]] = IF @ > written THEN @ ELSE written]
    /\ UNCHANGED <<now, matched, reviews, watermark, cycle, failures>>

\* Any other write to the ride.
Touch(r) ==
    /\ \E s \in Sides : ratedAt[<<r, s>>] > 0
    /\ updatedAt[r] < now
    /\ updatedAt' = [updatedAt EXCEPT ![r] = now]
    /\ UNCHANGED <<now, matched, ratedAt, reviews, watermark, cycle, failures, behind>>

Tick ==
    /\ now < MaxTime
    /\ now' = now + 1
    /\ UNCHANGED <<matched, ratedAt, updatedAt, reviews, watermark, cycle, failures, behind>>

-----------------------------------------------------------------------------
(* The cycle.                                                               *)

\* A tick of the cron job; one that finds a cycle running does nothing.
StartCycle ==
    /\ ~ running
    /\ running' = TRUE
    /\ pc' = "pull"
    /\ UNCHANGED <<source, reviews, watermark, batch, newWatermark, pending, failures, behind>>

\* Rides with a rating past the watermark, and the pages find().sort().limit()
\* can return: the least recently updated ones, in any order among equals.
Matching == {r \in Rides : \E s \in Sides : ratedAt[<<r, s>>] > watermark}
Pages ==
    {P \in SUBSET Matching :
        /\ \/ P = Matching /\ Cardinality(P) <= PullLimit
           \/ Cardinality(P) = PullLimit
        /\ \A r \in P, q \in Matching \ P : updatedAt[r] <= updatedAt[q]}

\* The ratings of a page that are past the watermark, of rides with both parties.
Fresh(P) == {k \in Keys : k[1] \in P \cap matched /\ ratedAt[k] > watermark}

\* Many reviews of one subject, few different texts.
CeilThird(n) == (n + 2) \div 3
Bombed(K) ==
    {s \in Subjects :
        LET about == {k \in K : SubjectOf[k] = s /\ TextOf[k] # Blank}
        IN  /\ Cardinality(about) >= BombMin
            /\ Cardinality({TextOf[k] : k \in about}) <= CeilThird(Cardinality(about))}

Verdict(k, K) ==
    IF TextOf[k] \in Toxic THEN "toxicity"
    ELSE IF SubjectOf[k] \in Bombed(K) THEN "review_bombing" ELSE "no"

\* The largest ratedAt of the page, or the watermark if it is empty.
Newest(K) ==
    {t \in {watermark} \cup {ratedAt[k] : k \in K} : \A k \in K : ratedAt[k] <= t}

\* ingestBatch() up to its loop: the watermark is read, the page pulled and judged.
Pull ==
    /\ pc = "pull"
    /\ \E P \in Pages :
         LET K == Fresh(P)
         IN  /\ batch' = [k \in Keys |-> IF k \in K THEN Verdict(k, K) ELSE NotPulled]
             /\ newWatermark' \in Newest(K)
             /\ pc' = IF K = {} THEN "find" ELSE "store"
             /\ behind' = behind \cup {k \in Keys \ K : ratedAt[k] \in (watermark + 1)..newWatermark'}
    /\ UNCHANGED <<source, reviews, watermark, running, pending, failures>>

\* $setOnInsert: a review that is there stays as it is.  (Mutated: $set.)
Overwrite(k) == [stored |-> TRUE, excluded |-> batch[k], aspects |-> "unprocessed"]
Upserted(k) == IF reviews[k].stored THEN reviews[k] ELSE Overwrite(k)

Store(k) ==
    /\ pc = "store"
    /\ batch[k] # NotPulled
    /\ reviews' = [reviews EXCEPT ![k] = Upserted(k)]
    /\ batch' = [batch EXCEPT ![k] = NotPulled]
    /\ UNCHANGED <<source, watermark, running, pc, newWatermark, pending, failures, behind>>

\* The watermark moves after the last upsert.  (Mutated: before it.)
Anytime == TRUE
AllStored == \A k \in Keys : batch[k] = NotPulled

Advance ==
    /\ pc = "store"
    /\ AllStored
    /\ watermark' = newWatermark
    /\ pc' = "find"
    /\ UNCHANGED <<source, reviews, running, batch, newWatermark, pending, failures, behind>>

\* Reviews processPending() looks for.  (Mutated: excluded ones as well.)
Unprocessed == {k \in Keys : reviews[k].stored /\ reviews[k].aspects = "unprocessed"}
Extractable == {k \in Unprocessed : reviews[k].excluded = "no"}

FindPending ==
    /\ pc = "find"
    /\ \E B \in SUBSET Extractable :
         /\ \/ B = Extractable /\ Cardinality(B) <= AspectBatch
            \/ Cardinality(B) = AspectBatch
         /\ pending' = B
    /\ pc' = "extract"
    /\ UNCHANGED <<source, reviews, watermark, running, batch, newWatermark, failures, behind>>

\* A blank text has no aspects and costs no call; a failed call yields null, and
\* the review is saved as processed without aspects.
Extract(k) ==
    /\ pc = "extract"
    /\ k \in pending \ Starless
    /\ \E found \in {"found", "none"} :
         /\ TextOf[k] = Blank => found = "none"
         /\ reviews' = [reviews EXCEPT ![k].aspects = found]
    /\ pending' = pending \ {k}
    /\ UNCHANGED <<source, watermark, running, pc, batch, newWatermark, failures, behind>>

\* What running is after an error.  (Mutated: no finally.)
StaysLocked == running
Unlocked == FALSE

\* The cycle is given up: what was not stored is forgotten, and what its page left out
\* is not behind the watermark after all.
GiveUp ==
    /\ pc' = "idle"
    /\ running' = Unlocked
    /\ batch' = [k \in Keys |-> NotPulled]
    /\ newWatermark' = watermark
    /\ pending' = {}
    /\ behind' = {k \in behind : ratedAt[k] <= watermark}

\* Stars that are missing are stored as 0, which the upsert does not validate: save()
\* does, finds less than the schema's minimum, and rejects, in this cycle and the next.
ExtractInvalid(k) ==
    /\ pc = "extract"
    /\ k \in pending \cap Starless
    /\ GiveUp
    /\ UNCHANGED <<source, reviews, watermark, failures>>

\* The summaries due are refreshed (module DriverSummaries), and finally.
EndCycle ==
    /\ pc = "extract"
    /\ pending = {}
    /\ pc' = "idle"
    /\ running' = FALSE
    /\ UNCHANGED <<source, reviews, watermark, batch, newWatermark, pending, failures, behind>>

\* An await rejects, or the process stops.
Fail ==
    /\ pc # "idle"
    /\ failures < MaxFailures
    /\ failures' = failures + 1
    /\ GiveUp
    /\ UNCHANGED <<source, reviews, watermark>>

CycleStep ==
    \/ StartCycle \/ Pull \/ Advance \/ FindPending \/ EndCycle
    \/ \E k \in Keys : Store(k) \/ Extract(k) \/ ExtractInvalid(k)

Next ==
    \/ \E k \in Keys : Rate(k)
    \/ \E r \in Rides : Touch(r)
    \/ Tick \/ CycleStep \/ Fail

Spec == Init /\ [][Next]_vars

\* The cron job ticks for ever, and every await of a cycle settles.
FairSpec == Spec /\ WF_vars(CycleStep)

-----------------------------------------------------------------------------
(* Properties.                                                              *)

TypeOK ==
    /\ now \in Nat
    /\ matched \subseteq Rides
    /\ ratedAt \in [Keys -> Nat]
    /\ updatedAt \in [Rides -> Nat]
    /\ reviews \in [Keys -> [stored : BOOLEAN, excluded : Verdicts,
                             aspects : {"unprocessed", "found", "none"}]]
    /\ watermark \in Nat
    /\ running \in BOOLEAN
    /\ pc \in {"idle", "pull", "store", "find", "extract"}
    /\ batch \in [Keys -> Verdicts \cup {NotPulled}]
    /\ newWatermark \in Nat
    /\ pending \subseteq Keys
    /\ failures \in Nat
    /\ behind \subseteq Keys

\* Ratings that the watermark may pass: those of a ride without a driver or a passenger,
\* those a pull left out of its page though it took a later stamp, and those that became
\* visible after such a pull.
Passed == {k \in Keys : k[1] \notin matched} \cup behind

\* Any other rating below the watermark is stored: no failure in the middle of a batch,
\* crash, or cycle that pulls again what an earlier one stored in part loses one
\* (ingest.service.ts:36-86, mongo-review.source.ts:19-71).
NothingMissing ==
    \A k \in Keys \ Passed : ratedAt[k] \in 1..watermark => reviews[k].stored

\* Excluded reviews are never read by a model (spec 3.7, review.schema.ts:47-49).
ExcludedUnread ==
    \A k \in Keys : reviews[k].excluded # "no" => reviews[k].aspects = "unprocessed"

\* The strengthening that is inductive: clocks are ordered, and a batch holds what
\* is still missing below its own watermark.
ClockInv ==
    /\ \A k \in Keys : ratedAt[k] <= now
    /\ watermark <= newWatermark
    /\ pc # "store" => AllStored /\ newWatermark = watermark
    /\ ~ running => pc = "idle"
BatchInv ==
    pc = "store" =>
        \A k \in Keys \ Passed : ratedAt[k] \in 1..newWatermark =>
                                     reviews[k].stored \/ batch[k] # NotPulled
PendingInv == pending \subseteq Extractable
IngestInv ==
    TypeOK /\ ClockInv /\ BatchInv /\ PendingInv /\ NothingMissing /\ ExcludedUnread

\* A stored review keeps its verdict when it is pulled again, whatever the later
\* batch makes of it, and aspects are never extracted twice.
VerdictFrozen ==
    [][\A k \in Keys : reviews[k].stored =>
          /\ reviews'[k].stored
          /\ reviews'[k].excluded = reviews[k].excluded
          /\ reviews[k].aspects # "unprocessed" => reviews'[k].aspects = reviews[k].aspects]_vars

\* A failure never stops the pipeline: what was stored is processed in the end, unless a
\* review that save() refuses was stored and admitted, which stops every cycle
\* (scheduler.service.ts:46-71, aspect-extraction.service.ts:28-33).
Stuck == Extractable \cap Starless # {}
StoredIsProcessed ==
    \A k \in Keys : k \in Extractable ~> reviews[k].aspects # "unprocessed" \/ Stuck


-----------------------------------------------------------------------------
(* The ingest implements the ledger of reviews.                             *)

Given == {k \in Keys : ratedAt[k] > 0}
VerdictOf == [k \in Keys |-> IF reviews[k].stored THEN reviews[k].excluded ELSE "unjudged"]
AspectsOf == [k \in Keys |-> reviews[k].aspects]
Ledger == INSTANCE ReviewLedger
            WITH given <- Given, verdict <- VerdictOf, aspects <- AspectsOf

\* What is not stored is as if it had never been pulled, and a verdict that waits in the
\* batch is still warranted when it is stored.
JudgedInv ==
    \A k \in Keys :
        /\ ~ reviews[k].stored => reviews[k] = NoReview
        /\ batch[k] # NotPulled => k \in Given /\ Ledger!Warranted(k, batch[k])
LedgerInv == IngestInv /\ JudgedInv

\* Whatever is pulled again after a fault, in whatever batches, each review is judged once
\* on what was written, and read once if it was admitted (ingest.service.ts:46-86,
\* aspect-extraction.service.ts:22-37).
ImplementsReviews == Ledger!Spec

================================================================================
