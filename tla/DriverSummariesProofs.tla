------------------------- MODULE DriverSummariesProofs -------------------------
(***************************************************************************)
(* Proofs about the summaries of drivers: SummaryInv is an inductive       *)
(* invariant of DriverSummaries, for any drivers, languages, ticks,        *)
(* administrators, readers, thresholds and bounds.                         *)
(***************************************************************************)
EXTENDS DriverSummaries, TLAPS

USE SummaryAssumption, NoneAssumption DEF Workers, Entries

-----------------------------------------------------------------------------
(* The initial states.                                                      *)

\* Without reviews and summaries the invariant holds (driver-summary.schema.ts).
LEMMA InitSummaryInv == Init => SummaryInv
<1> SUFFICES ASSUME Init PROVE SummaryInv
  OBVIOUS
<1>1. count \in [Drivers -> 0..MaxReviews]
  BY DEF Init, NoDraft, Drafts
<1>2. mongo \in [Entries -> Docs \cup {None}]
  BY DEF Init, NoDraft, Drafts
<1>3. redis \in [Entries -> Copies \cup {None}]
  BY DEF Init, NoDraft, Drafts
<1>4. running \in BOOLEAN
  BY DEF Init, NoDraft, Drafts
<1>5. pc \in [Workers -> {"idle", "due", "next", "prose", "store", "cache"}]
  BY DEF Init, NoDraft, Drafts
<1>6. todo \in [Workers -> SUBSET Drivers]
  BY DEF Init, NoDraft, Drafts
<1>7. entry \in [Workers -> Entries \cup {NoEntry}]
  BY DEF Init, NoDraft, Drafts
<1>8. draft \in [Workers -> Drafts]
  BY DEF Init, NoDraft, Drafts
<1>9. view \in [Readers -> {"idle", "find", "fill"}]
  BY DEF Init, NoDraft, Drafts
<1>10. want \in [Readers -> Entries \cup {NoEntry}]
  BY DEF Init, NoDraft, Drafts
<1>11. found \in [Readers -> Drafts]
  BY DEF Init, NoDraft, Drafts
<1>12. faults \in 0..MaxFaults
  BY DEF Init, NoDraft, Drafts
<1>13. requests \in 0..MaxRequests
  BY DEF Init, NoDraft, Drafts
<1>14. TypeOK
  BY <1>1, <1>2, <1>3, <1>4, <1>5, <1>6, <1>7, <1>8, <1>9, <1>10, <1>11, <1>12, <1>13 DEF TypeOK
<1>15. Backed
  BY DEF Init, Backed, NoDraft
<1>16. DraftInv
  BY DEF Init, DraftInv, NoDraft
<1>17. ReadInv
  BY DEF Init, ReadInv, NoDraft
<1>18. ViewInv
  BY DEF Init, ViewInv, NoDraft
<1>19. TickInv
  BY DEF Init, TickInv, NoDraft
<1> QED
  BY <1>14, <1>15, <1>16, <1>17, <1>18, <1>19 DEF SummaryInv

-----------------------------------------------------------------------------
(* The operators.                                                           *)

\* What recompute() reads (summarizer.service.ts:48-51).
LEMMA ReadableBound ==
    ASSUME TypeOK, NEW d \in Drivers
    PROVE  /\ Readable(d) \in 0..MaxReviews
           /\ Readable(d) <= count[d] /\ Readable(d) <= MaxRead
           /\ \A n \in Nat : n <= count[d] /\ n <= MaxRead => n <= Readable(d)
BY DEF TypeOK, Readable

\* One component of a draft or a document is changed.
LEMMA ComponentSet ==
    /\ \A x \in Drafts, k \in 0..MaxReviews :
          [x EXCEPT !.n = k] \in Drafts /\ [x EXCEPT !.n = k].n = k
    /\ \A x \in Drafts :
          [x EXCEPT !.prose = TRUE] \in Drafts /\ [x EXCEPT !.prose = TRUE].n = x.n
    /\ \A x \in Docs :
          /\ [x EXCEPT !.aged = TRUE] \in Docs
          /\ [x EXCEPT !.aged = TRUE].n = x.n /\ [x EXCEPT !.aged = TRUE].cron = x.cron
<1>1. \A x \in Drafts, k \in 0..MaxReviews :
         [x EXCEPT !.n = k] \in Drafts /\ [x EXCEPT !.n = k].n = k
  BY DEF Drafts
<1>2. \A x \in Drafts :
         [x EXCEPT !.prose = TRUE] \in Drafts /\ [x EXCEPT !.prose = TRUE].n = x.n
  BY DEF Drafts
<1>3. \A x \in Docs :
         /\ [x EXCEPT !.aged = TRUE] \in Docs
         /\ [x EXCEPT !.aged = TRUE].n = x.n /\ [x EXCEPT !.aged = TRUE].cron = x.cron
  BY DEF Docs
<1> QED
  BY <1>1, <1>2, <1>3

\* What is stored, and copied, of a draft (summarizer.service.ts:115-134).
LEMMA DraftStored ==
    ASSUME NEW x \in Drafts, NEW c \in BOOLEAN
    PROVE  LET y == [n |-> x.n, prose |-> x.prose, aged |-> FALSE, cron |-> c]
           IN  /\ y \in Docs /\ y # None /\ y.n = x.n /\ y.cron = c
               /\ Payload(y) \in Drafts /\ Payload(y).n = x.n
               /\ SetEx(x) \in Copies /\ SetEx(x) # None /\ SetEx(x).n = x.n
<1> DEFINE y == [n |-> x.n, prose |-> x.prose, aged |-> FALSE, cron |-> c]
<1>1. x.n \in 0..MaxReviews /\ x.prose \in BOOLEAN
  BY DEF Drafts
<1>2. y \in Docs
  BY <1>1 DEF Docs
<1>3. SetEx(x) \in Copies
  BY <1>1 DEF SetEx, Copies
<1>4. Payload(y) \in Drafts
  BY <1>1 DEF Payload, Drafts
<1> QED
  BY <1>2, <1>3, <1>4 DEF Payload, SetEx

\* The payload of a stored document (summarizer.service.ts:144).
LEMMA PayloadOfDoc == \A x \in Docs : Payload(x) \in Drafts /\ Payload(x).n = x.n
BY DEF Docs, Payload, Drafts

\* recompute() reads enough reviews, or gives up (summarizer.service.ts:48-58).
LEMMA ReadReviewsEffect ==
    ASSUME SummaryInv, NEW w \in Workers, NEW e \in Entries, ReadReviews(w, e)
    PROVE  /\ pc' \in [Workers -> {"idle", "due", "next", "prose", "store", "cache"}]
           /\ entry' \in [Workers -> Entries \cup {NoEntry}]
           /\ draft' \in [Workers -> Drafts]
           /\ \A u \in Workers \ {w} :
                 pc'[u] = pc[u] /\ entry'[u] = entry[u] /\ draft'[u] = draft[u]
           /\ \/ pc'[w] = After(w) /\ draft'[w].n = 0
              \/ /\ pc'[w] = "prose" /\ entry'[w] = e
                 /\ draft'[w].n = Readable(e[1])
                 /\ draft'[w].n \in ColdStart..count[e[1]]
                 /\ draft'[w].n <= MaxRead
<1> USE DEF Goto
<1>1. e[1] \in Drivers
  OBVIOUS
<1>2. /\ Readable(e[1]) \in 0..MaxReviews
      /\ Readable(e[1]) <= count[e[1]] /\ Readable(e[1]) <= MaxRead
  BY <1>1, ReadableBound DEF SummaryInv
<1>3. count[e[1]] \in 0..MaxReviews /\ draft[w] \in Drafts
  BY <1>1 DEF SummaryInv, TypeOK
<1>4. CASE ~ Enough(Readable(e[1]))
  <2>1. /\ pc' = [pc EXCEPT ![w] = After(w)]
        /\ entry' = [entry EXCEPT ![w] = NoEntry]
        /\ draft' = [draft EXCEPT ![w] = NoDraft]
    BY <1>4 DEF ReadReviews, Done
  <2>2. NoDraft \in Drafts /\ NoDraft.n = 0
    BY DEF NoDraft, Drafts
  <2> QED
    BY <2>1, <2>2 DEF SummaryInv, TypeOK, After
<1>5. CASE Enough(Readable(e[1]))
  <2>1. /\ pc' = [pc EXCEPT ![w] = "prose"]
        /\ entry' = [entry EXCEPT ![w] = e]
        /\ draft' = [draft EXCEPT ![w].n = Readable(e[1])]
    BY <1>5 DEF ReadReviews
  <2> DEFINE new == [draft[w] EXCEPT !.n = Readable(e[1])]
  <2>2. new \in Drafts /\ new.n = Readable(e[1])
    BY <1>2, <1>3, ComponentSet
  <2>3. draft' = [draft EXCEPT ![w] = new]
    BY <2>1
  <2>4. Readable(e[1]) \in ColdStart..count[e[1]]
    BY <1>2, <1>3, <1>5 DEF Enough
  <2> HIDE DEF new
  <2> QED
    BY <1>2, <2>1, <2>2, <2>3, <2>4, SMTT(30) DEF SummaryInv, TypeOK
<1> QED
  BY <1>4, <1>5

-----------------------------------------------------------------------------
(* The steps.                                                               *)

\* The ingest stores a review (module ReviewIngest).
LEMMA AddReviewStep ==
    ASSUME NEW d \in Drivers, SummaryInv, AddReview(d)
    PROVE  SummaryInv'
<1> USE DEF AddReview, worker, reader
<1>1. count' \in [Drivers -> 0..MaxReviews]
  BY DEF SummaryInv, TypeOK
<1>2. TypeOK'
  BY <1>1 DEF SummaryInv, TypeOK
<1>3. Backed'
  BY <1>2 DEF SummaryInv, TypeOK, Backed, DraftInv, ViewInv, Docs, Copies, Drafts
<1>4. DraftInv'
  BY <1>2 DEF SummaryInv, TypeOK, DraftInv, Drafts, Docs
<1>5. ReadInv'
  BY <1>2 DEF SummaryInv, TypeOK, ReadInv, Drafts, Docs
<1>6. ViewInv'
  BY <1>2 DEF SummaryInv, TypeOK, ViewInv, Backed, Drafts, Docs
<1>7. TickInv'
  BY <1>2 DEF SummaryInv, TypeOK, TickInv, ReadInv, Backed, Drafts, Docs
<1> QED
  BY <1>2, <1>3, <1>4, <1>5, <1>6, <1>7 DEF SummaryInv

\* A summary grows old (summarizer.service.ts:151).
LEMMA AgeStep ==
    ASSUME NEW e \in Entries, SummaryInv, Age(e)
    PROVE  SummaryInv'
<1> USE DEF Age, worker, reader
<1>a. mongo[e] \in Docs
  BY DEF SummaryInv, TypeOK
<1> DEFINE new == [mongo[e] EXCEPT !.aged = TRUE]
<1>b. new \in Docs /\ new # None /\ new.n = mongo[e].n /\ new.cron = mongo[e].cron
  BY <1>a, ComponentSet
<1>c. mongo' = [mongo EXCEPT ![e] = new]
  OBVIOUS
<1> HIDE DEF new
<1>d. \A x \in Entries :
         /\ (mongo'[x] = None) = (mongo[x] = None)
         /\ mongo[x] # None => mongo'[x].n = mongo[x].n /\ mongo'[x].cron = mongo[x].cron
  BY <1>b, <1>c DEF SummaryInv, TypeOK
<1>1. mongo' \in [Entries -> Docs \cup {None}]
  BY <1>b, <1>c DEF SummaryInv, TypeOK
<1>2. TypeOK'
  BY <1>1 DEF SummaryInv, TypeOK
<1>3. Backed'
  BY <1>d DEF SummaryInv, TypeOK, Backed
<1>4. DraftInv'
  BY <1>d DEF SummaryInv, TypeOK, DraftInv
<1>5. ReadInv'
  BY <1>d DEF SummaryInv, TypeOK, ReadInv
<1>6. ViewInv'
  BY <1>d DEF SummaryInv, TypeOK, ViewInv
<1>7. TickInv'
  BY <1>d DEF SummaryInv, TypeOK, TickInv, DraftInv
<1> QED
  BY <1>2, <1>3, <1>4, <1>5, <1>6, <1>7 DEF SummaryInv

\* A copy expires (summarizer.service.ts:132).
LEMMA ExpireStep ==
    ASSUME NEW e \in Entries, SummaryInv, Expire(e)
    PROVE  SummaryInv'
<1> USE DEF Expire, worker, reader
<1>1. redis' \in [Entries -> Copies \cup {None}]
  BY DEF SummaryInv, TypeOK, Copies
<1>2. TypeOK'
  BY <1>1 DEF SummaryInv, TypeOK
<1>3. Backed'
  BY <1>2 DEF SummaryInv, TypeOK, Backed, DraftInv, ViewInv, Docs, Copies, Drafts
<1>4. DraftInv'
  BY <1>2 DEF SummaryInv, TypeOK, DraftInv, Drafts, Docs
<1>5. ReadInv'
  BY <1>2 DEF SummaryInv, TypeOK, ReadInv, Drafts, Docs
<1>6. ViewInv'
  BY <1>2 DEF SummaryInv, TypeOK, ViewInv, Backed, Drafts, Docs
<1>7. TickInv'
  BY <1>2 DEF SummaryInv, TypeOK, TickInv, ReadInv, Backed, Drafts, Docs
<1> QED
  BY <1>2, <1>3, <1>4, <1>5, <1>6, <1>7 DEF SummaryInv

\* A tick that finds no cycle running starts one (scheduler.service.ts:47-52).
LEMMA StartTickStep ==
    ASSUME NEW w \in Ticks, SummaryInv, StartTick(w)
    PROVE  SummaryInv'
<1> USE DEF StartTick, MayStart, Goto, reader
<1>1. running' \in BOOLEAN
  BY DEF SummaryInv, TypeOK
<1>2. pc' \in [Workers -> {"idle", "due", "next", "prose", "store", "cache"}]
  BY DEF SummaryInv, TypeOK
<1>3. TypeOK'
  BY <1>1, <1>2 DEF SummaryInv, TypeOK
<1>4. Backed'
  BY <1>3 DEF SummaryInv, TypeOK, Backed, DraftInv, ViewInv, Docs, Copies, Drafts
<1>5. DraftInv'
  BY <1>3 DEF SummaryInv, TypeOK, DraftInv, Drafts, Docs
<1>6. ReadInv'
  BY <1>3 DEF SummaryInv, TypeOK, ReadInv, Drafts, Docs
<1>7. ViewInv'
  BY <1>3 DEF SummaryInv, TypeOK, ViewInv, Backed, Drafts, Docs
<1>8. TickInv'
  BY <1>3 DEF SummaryInv, TypeOK, TickInv, ReadInv, Backed, Drafts, Docs
<1> QED
  BY <1>3, <1>4, <1>5, <1>6, <1>7, <1>8 DEF SummaryInv

\* The cron job finds the drivers that are due (summarizer.service.ts:150-170).
LEMMA FindDueStep ==
    ASSUME NEW w \in Ticks, SummaryInv, FindDue(w)
    PROVE  SummaryInv'
<1> USE DEF FindDue, Due, Goto, reader
<1>1. todo' \in [Workers -> SUBSET Drivers]
  BY DEF SummaryInv, TypeOK
<1>2. pc' \in [Workers -> {"idle", "due", "next", "prose", "store", "cache"}]
  BY DEF SummaryInv, TypeOK
<1>3. TypeOK'
  BY <1>1, <1>2 DEF SummaryInv, TypeOK
<1>4. Backed'
  BY <1>3 DEF SummaryInv, TypeOK, Backed, DraftInv, ViewInv, Docs, Copies, Drafts
<1>5. DraftInv'
  BY <1>3 DEF SummaryInv, TypeOK, DraftInv, Drafts, Docs
<1>6. ReadInv'
  BY <1>3 DEF SummaryInv, TypeOK, ReadInv, Drafts, Docs
<1>7. ViewInv'
  BY <1>3 DEF SummaryInv, TypeOK, ViewInv, Backed, Drafts, Docs
<1>8. TickInv'
  BY <1>3 DEF SummaryInv, TypeOK, TickInv, ReadInv, Backed, Drafts, Docs
<1> QED
  BY <1>3, <1>4, <1>5, <1>6, <1>7, <1>8 DEF SummaryInv

\* The cron job ends (scheduler.service.ts:69-70).
LEMMA EndTickStep ==
    ASSUME NEW w \in Ticks, SummaryInv, EndTick(w)
    PROVE  SummaryInv'
<1> USE DEF EndTick, Goto, reader
<1>1. running' \in BOOLEAN
  BY DEF SummaryInv, TypeOK
<1>2. pc' \in [Workers -> {"idle", "due", "next", "prose", "store", "cache"}]
  BY DEF SummaryInv, TypeOK
<1>3. TypeOK'
  BY <1>1, <1>2 DEF SummaryInv, TypeOK
<1>4. Backed'
  BY <1>3 DEF SummaryInv, TypeOK, Backed, DraftInv, ViewInv, Docs, Copies, Drafts
<1>5. DraftInv'
  BY <1>3 DEF SummaryInv, TypeOK, DraftInv, Drafts, Docs
<1>6. ReadInv'
  BY <1>3 DEF SummaryInv, TypeOK, ReadInv, Drafts, Docs
<1>7. ViewInv'
  BY <1>3 DEF SummaryInv, TypeOK, ViewInv, Backed, Drafts, Docs
<1>8. TickInv'
  BY <1>3 DEF SummaryInv, TypeOK, TickInv, ReadInv, Backed, Drafts, Docs
<1> QED
  BY <1>3, <1>4, <1>5, <1>6, <1>7, <1>8 DEF SummaryInv

\* The cron job reads the reviews of a driver (summarizer.service.ts:48-58).
LEMMA NextDueStep ==
    ASSUME NEW w \in Ticks, SummaryInv, NextDue(w)
    PROVE  SummaryInv'
<1> USE DEF NextDue, ReadReviews, Done, After, Goto, reader, NoDraft
<1>a. PICK d \in todo[w] : ReadReviews(w, <<d, DefaultLang>>) /\ todo' = [todo EXCEPT ![w] = @ \ {d}]
  OBVIOUS
<1> DEFINE e == <<d, DefaultLang>>
<1>b. e \in Entries
  BY <1>a DEF SummaryInv, TypeOK
<1>c. /\ pc' \in [Workers -> {"idle", "due", "next", "prose", "store", "cache"}]
      /\ entry' \in [Workers -> Entries \cup {NoEntry}]
      /\ draft' \in [Workers -> Drafts]
      /\ \A u \in Workers \ {w} :
            pc'[u] = pc[u] /\ entry'[u] = entry[u] /\ draft'[u] = draft[u]
      /\ \/ pc'[w] = After(w) /\ draft'[w].n = 0
         \/ /\ pc'[w] = "prose" /\ entry'[w] = e
            /\ draft'[w].n = Readable(e[1])
            /\ draft'[w].n \in ColdStart..count[e[1]]
            /\ draft'[w].n <= MaxRead
  BY <1>a, <1>b, ReadReviewsEffect
<1> HIDE DEF e, NextDue
<1>x. UNCHANGED <<count, mongo, redis, running, reader, faults, requests>> /\ pc[w] = "next"
  BY DEF NextDue
<1>1. todo' \in [Workers -> SUBSET Drivers]
  BY <1>a DEF SummaryInv, TypeOK
<1>2. pc' \in [Workers -> {"idle", "due", "next", "prose", "store", "cache"}]
  BY <1>c
<1>3. entry' \in [Workers -> Entries \cup {NoEntry}]
  BY <1>c
<1>4. draft' \in [Workers -> Drafts]
  BY <1>c
<1>5. TypeOK'
  BY <1>1, <1>2, <1>3, <1>4, <1>x DEF SummaryInv, TypeOK
<1>6. Backed'
  BY <1>x DEF SummaryInv, Backed
<1>7. DraftInv'
  BY <1>b, <1>c, <1>x DEF SummaryInv, DraftInv
<1>8. ReadInv'
  BY <1>c, <1>x DEF SummaryInv, ReadInv
<1>9. ViewInv'
  BY <1>x DEF SummaryInv, ViewInv
<1>10. TickInv'
  <2> SUFFICES ASSUME NEW u \in Ticks
               PROVE  /\ pc'[u] # "idle" => running' /\ \A v \in Ticks \ {u} : pc'[v] = "idle"
                      /\ pc'[u] \in {"prose", "store"} =>
                            (mongo'[entry'[u]] # None /\ mongo'[entry'[u]].cron =>
                                mongo'[entry'[u]].n <= draft'[u].n)
    BY DEF TickInv
  <2>1. pc'[u] # "idle" => running' /\ \A v \in Ticks \ {u} : pc'[v] = "idle"
    BY <1>c, <1>x DEF SummaryInv, TickInv
  <2>2. CASE u = w /\ pc'[w] = "prose"
    <3>1. e[1] \in Drivers
      BY <1>b
    <3>2. mongo[e] # None => mongo[e].n \in Nat /\ mongo[e].n <= count[e[1]] /\ mongo[e].n <= MaxRead
      BY <1>b DEF SummaryInv, Backed, ReadInv
    <3>3. mongo[e] # None => mongo[e].n <= Readable(e[1])
      BY <3>1, <3>2, ReadableBound DEF SummaryInv
    <3>4. entry'[w] = e /\ draft'[w].n = Readable(e[1])
      BY <1>c, <2>2 DEF After
    <3> QED
      BY <1>x, <2>1, <2>2, <3>3, <3>4
  <2>3. CASE u # w
    BY <1>c, <1>x, <2>1, <2>3 DEF SummaryInv, TickInv
  <2>4. CASE u = w /\ pc'[w] # "prose"
    BY <1>c, <2>1, <2>4 DEF After
  <2> QED
    BY <2>2, <2>3, <2>4
<1> QED
  BY <1>5, <1>6, <1>7, <1>8, <1>9, <1>10 DEF SummaryInv

\* An administrator asks for a summary (summarizer.service.ts:48-58).
LEMMA AdminAsksStep ==
    ASSUME NEW w \in Admins, SummaryInv, AdminAsks(w)
    PROVE  SummaryInv'
<1> USE DEF AdminAsks, ReadReviews, Done, After, Goto, reader, NoDraft
<1>a. PICK e \in Entries : ReadReviews(w, e)
  OBVIOUS
<1>b. e \in Entries
  BY <1>a
<1>c. /\ pc' \in [Workers -> {"idle", "due", "next", "prose", "store", "cache"}]
      /\ entry' \in [Workers -> Entries \cup {NoEntry}]
      /\ draft' \in [Workers -> Drafts]
      /\ \A u \in Workers \ {w} :
            pc'[u] = pc[u] /\ entry'[u] = entry[u] /\ draft'[u] = draft[u]
      /\ \/ pc'[w] = After(w) /\ draft'[w].n = 0
         \/ /\ pc'[w] = "prose" /\ entry'[w] = e
            /\ draft'[w].n = Readable(e[1])
            /\ draft'[w].n \in ColdStart..count[e[1]]
            /\ draft'[w].n <= MaxRead
  BY <1>a, <1>b, ReadReviewsEffect
<1>x. UNCHANGED <<count, mongo, redis, running, todo, reader, faults>> /\ pc[w] = "idle"
  OBVIOUS
<1>1. pc' \in [Workers -> {"idle", "due", "next", "prose", "store", "cache"}]
  BY <1>c
<1>2. entry' \in [Workers -> Entries \cup {NoEntry}]
  BY <1>c
<1>3. draft' \in [Workers -> Drafts]
  BY <1>c
<1>4. requests' \in 0..MaxRequests
  BY DEF SummaryInv, TypeOK
<1>5. TypeOK'
  BY <1>1, <1>2, <1>3, <1>4 DEF SummaryInv, TypeOK
<1>6. Backed'
  BY <1>x DEF SummaryInv, Backed
<1>7. DraftInv'
  BY <1>b, <1>c, <1>x DEF SummaryInv, DraftInv
<1>8. ReadInv'
  BY <1>c, <1>x DEF SummaryInv, ReadInv
<1>9. ViewInv'
  BY <1>x DEF SummaryInv, ViewInv
<1>10. TickInv'
  BY <1>c, <1>x DEF SummaryInv, TickInv
<1> QED
  BY <1>5, <1>6, <1>7, <1>8, <1>9, <1>10 DEF SummaryInv

\* The model writes the prose or fails (summarizer.service.ts:82-113).
LEMMA WriteProseStep ==
    ASSUME NEW w \in Workers, SummaryInv, WriteProse(w)
    PROVE  SummaryInv'
<1> USE DEF WriteProse, Goto, reader
<1>a. draft[w] \in Drafts
  BY DEF SummaryInv, TypeOK
<1> DEFINE new == [draft[w] EXCEPT !.prose = TRUE]
<1>b. new \in Drafts /\ new.n = draft[w].n
  BY <1>a, ComponentSet
<1>c. draft' = [draft EXCEPT ![w] = new] \/ draft' = draft
  OBVIOUS
<1> HIDE DEF new
<1>d. \A u \in Workers : draft'[u] \in Drafts /\ draft'[u].n = draft[u].n
  BY <1>b, <1>c DEF SummaryInv, TypeOK
<1>1. pc' \in [Workers -> {"idle", "due", "next", "prose", "store", "cache"}]
  BY DEF SummaryInv, TypeOK
<1>2. draft' \in [Workers -> Drafts]
  BY <1>b, <1>c DEF SummaryInv, TypeOK
<1>3. faults' \in 0..MaxFaults
  BY DEF SummaryInv, TypeOK
<1>4. TypeOK'
  BY <1>1, <1>2, <1>3 DEF SummaryInv, TypeOK
<1>5. Backed'
  BY <1>4 DEF SummaryInv, TypeOK, Backed, DraftInv, ViewInv, Docs, Copies, Drafts
<1>6. DraftInv'
  BY <1>d DEF SummaryInv, TypeOK, DraftInv
<1>7. ReadInv'
  BY <1>d DEF SummaryInv, TypeOK, ReadInv
<1>8. ViewInv'
  BY <1>4 DEF SummaryInv, TypeOK, ViewInv, Backed, Drafts, Docs
<1>9. TickInv'
  BY <1>d DEF SummaryInv, TypeOK, TickInv
<1> QED
  BY <1>4, <1>5, <1>6, <1>7, <1>8, <1>9 DEF SummaryInv

\* The summary is stored (summarizer.service.ts:115-128).
LEMMA StoreStep ==
    ASSUME NEW w \in Workers, SummaryInv, Store(w)
    PROVE  SummaryInv'
<1> USE DEF Store, Goto, reader
<1> DEFINE new == [n |-> draft[w].n, prose |-> draft[w].prose, aged |-> FALSE, cron |-> w \in Ticks]
<1>a. new \in Docs /\ new # None /\ new.n = draft[w].n /\ new.cron = (w \in Ticks)
  <2>1. draft[w] \in Drafts /\ (w \in Ticks) \in BOOLEAN
    BY DEF SummaryInv, TypeOK
  <2> QED
    BY <2>1, DraftStored
<1>b. mongo' = [mongo EXCEPT ![entry[w]] = new]
  OBVIOUS
<1> HIDE DEF new
<1>c. entry[w] \in Entries /\ draft[w].n \in ColdStart..count[entry[w][1]] /\ draft[w].n <= MaxRead
  BY DEF SummaryInv, DraftInv, ReadInv
<1>d. /\ mongo'[entry[w]] = new
      /\ \A x \in Entries : mongo'[x] = IF x = entry[w] THEN new ELSE mongo[x]
  BY <1>b, <1>c DEF SummaryInv, TypeOK
<1>1. pc' \in [Workers -> {"idle", "due", "next", "prose", "store", "cache"}]
  BY DEF SummaryInv, TypeOK
<1>2. mongo' \in [Entries -> Docs \cup {None}]
  BY <1>a, <1>b, <1>c DEF SummaryInv, TypeOK
<1>3. TypeOK'
  BY <1>1, <1>2 DEF SummaryInv, TypeOK
<1>4. Backed'
  <2>1. \A x \in Entries : mongo'[x] # None => mongo'[x].n \in ColdStart..count[x[1]]
    BY <1>a, <1>c, <1>d DEF SummaryInv, Backed
  <2>2. \A x \in Entries : redis[x] # None => mongo'[x] # None
    BY <1>a, <1>d, ZenonT(30) DEF SummaryInv, Backed
  <2> QED
    BY <2>1, <2>2, SMTT(30) DEF SummaryInv, Backed
<1>5. DraftInv'
  BY <1>a, <1>c, <1>d DEF SummaryInv, DraftInv, TypeOK
<1>6. ReadInv'
  BY <1>a, <1>c, <1>d, SMTT(30) DEF SummaryInv, ReadInv, TypeOK
<1>7. ViewInv'
  BY <1>a, <1>c, <1>d, ZenonT(30) DEF SummaryInv, ViewInv
<1>8. TickInv'
  <2>1. \A u \in Ticks : pc'[u] # "idle" => running' /\ \A v \in Ticks \ {u} : pc'[v] = "idle"
    BY DEF SummaryInv, TypeOK, TickInv
  <2> SUFFICES ASSUME NEW u \in Ticks, pc'[u] \in {"prose", "store"},
                      mongo'[entry[u]] # None, mongo'[entry[u]].cron
               PROVE  mongo'[entry[u]].n <= draft[u].n
    BY <2>1 DEF TickInv
  <2>2. pc[u] \in {"prose", "store"} /\ u # w /\ entry[u] \in Entries
    BY DEF SummaryInv, TypeOK, DraftInv
  <2>3. w \notin Ticks
    BY <2>2 DEF SummaryInv, TickInv
  <2>4. entry[u] # entry[w]
    BY <1>a, <1>d, <2>3
  <2>5. mongo'[entry[u]] = mongo[entry[u]]
    BY <1>d, <2>2, <2>4
  <2> QED
    BY <2>2, <2>5 DEF SummaryInv, TickInv
<1> QED
  BY <1>3, <1>4, <1>5, <1>6, <1>7, <1>8 DEF SummaryInv

\* The summary is copied to Redis (summarizer.service.ts:129-135).
LEMMA CacheSummaryStep ==
    ASSUME NEW w \in Workers, SummaryInv, CacheSummary(w)
    PROVE  SummaryInv'
<1> USE DEF CacheSummary, SetEx, Done, After, Goto, reader, NoDraft
<1>a. SetEx(draft[w]) \in Copies /\ SetEx(draft[w]) # None /\ SetEx(draft[w]).n = draft[w].n
  <2>1. draft[w] \in Drafts
    BY DEF SummaryInv, TypeOK
  <2> QED
    BY <2>1, DraftStored
<1>b. /\ entry[w] \in Entries /\ draft[w].n \in ColdStart..count[entry[w][1]]
      /\ mongo[entry[w]] # None
  BY DEF SummaryInv, DraftInv
<1>1. pc' \in [Workers -> {"idle", "due", "next", "prose", "store", "cache"}]
  BY DEF SummaryInv, TypeOK
<1>2. entry' \in [Workers -> Entries \cup {NoEntry}]
  BY DEF SummaryInv, TypeOK
<1>3. draft' \in [Workers -> Drafts]
  BY DEF SummaryInv, TypeOK, Drafts
<1>4. redis' \in [Entries -> Copies \cup {None}]
  BY <1>a, <1>b DEF SummaryInv, TypeOK
<1>5. TypeOK'
  BY <1>1, <1>2, <1>3, <1>4 DEF SummaryInv, TypeOK
<1>6. Backed'
  BY <1>a, <1>b DEF SummaryInv, TypeOK, Backed
<1>7. DraftInv'
  BY <1>5 DEF SummaryInv, TypeOK, DraftInv, Drafts, Docs
<1>8. ReadInv'
  BY <1>5 DEF SummaryInv, TypeOK, ReadInv, Drafts, Docs
<1>9. ViewInv'
  BY <1>5 DEF SummaryInv, TypeOK, ViewInv, Backed, Drafts, Docs
<1>10. TickInv'
  BY <1>5 DEF SummaryInv, TypeOK, TickInv, ReadInv, Backed, Drafts, Docs
<1> QED
  BY <1>5, <1>6, <1>7, <1>8, <1>9, <1>10 DEF SummaryInv

\* An await rejects (scheduler.service.ts:61-70).
LEMMA RejectStep ==
    ASSUME NEW w \in Workers, SummaryInv, Reject(w)
    PROVE  SummaryInv'
<1> USE DEF Reject, RunningAfter, After, Goto, reader, NoDraft
<1>1. pc' \in [Workers -> {"idle", "due", "next", "prose", "store", "cache"}]
  BY DEF SummaryInv, TypeOK
<1>2. entry' \in [Workers -> Entries \cup {NoEntry}]
  BY DEF SummaryInv, TypeOK
<1>3. draft' \in [Workers -> Drafts]
  BY DEF SummaryInv, TypeOK, Drafts
<1>4. todo' \in [Workers -> SUBSET Drivers]
  <2>1. CASE pc[w] = "next"
    <3>1. PICK d \in todo[w] : todo' = [todo EXCEPT ![w] = @ \ {d}]
      BY <2>1
    <3> QED
      BY <3>1 DEF SummaryInv, TypeOK
  <2>2. CASE pc[w] # "next"
    BY <2>2 DEF SummaryInv, TypeOK
  <2> QED
    BY <2>1, <2>2
<1>5. running' \in BOOLEAN
  BY ZenonT(30) DEF SummaryInv, TypeOK
<1>6. faults' \in 0..MaxFaults
  BY DEF SummaryInv, TypeOK
<1>7. TypeOK'
  BY <1>1, <1>2, <1>3, <1>4, <1>5, <1>6 DEF SummaryInv, TypeOK
<1>8. Backed'
  BY <1>7 DEF SummaryInv, TypeOK, Backed, DraftInv, ViewInv, Docs, Copies, Drafts
<1>9. DraftInv'
  BY <1>7 DEF SummaryInv, TypeOK, DraftInv, Drafts, Docs
<1>10. ReadInv'
  BY <1>7 DEF SummaryInv, TypeOK, ReadInv, Drafts, Docs
<1>11. ViewInv'
  BY <1>7 DEF SummaryInv, TypeOK, ViewInv, Backed, Drafts, Docs
<1>12. TickInv'
  BY <1>7 DEF SummaryInv, TypeOK, TickInv, ReadInv, Backed, Drafts, Docs
<1> QED
  BY <1>7, <1>8, <1>9, <1>10, <1>11, <1>12 DEF SummaryInv

\* A reader misses the copy (summarizer.service.ts:139-141).
LEMMA ViewStep ==
    ASSUME NEW r \in Readers, SummaryInv, View(r)
    PROVE  SummaryInv'
<1> USE DEF View, worker
<1>1. view' \in [Readers -> {"idle", "find", "fill"}]
  BY DEF SummaryInv, TypeOK
<1>2. want' \in [Readers -> Entries \cup {NoEntry}]
  BY DEF SummaryInv, TypeOK
<1>3. TypeOK'
  BY <1>1, <1>2 DEF SummaryInv, TypeOK
<1>4. Backed'
  BY <1>3 DEF SummaryInv, TypeOK, Backed, DraftInv, ViewInv, Docs, Copies, Drafts
<1>5. DraftInv'
  BY <1>3 DEF SummaryInv, TypeOK, DraftInv, Drafts, Docs
<1>6. ReadInv'
  BY <1>3 DEF SummaryInv, TypeOK, ReadInv, Drafts, Docs
<1>7. ViewInv'
  BY <1>3 DEF SummaryInv, TypeOK, ViewInv, Backed, Drafts, Docs
<1>8. TickInv'
  BY <1>3 DEF SummaryInv, TypeOK, TickInv, ReadInv, Backed, Drafts, Docs
<1> QED
  BY <1>3, <1>4, <1>5, <1>6, <1>7, <1>8 DEF SummaryInv

\* A reader finds the summary or nothing (summarizer.service.ts:142-143).
LEMMA FindSummaryStep ==
    ASSUME NEW r \in Readers, SummaryInv, FindSummary(r)
    PROVE  SummaryInv'
<1> USE DEF FindSummary, Answered, worker, Payload, NoDraft
<1>a. want[r] \in Entries
  BY DEF SummaryInv, ViewInv
<1>b. mongo[want[r]] # None => mongo[want[r]] \in Docs
  BY <1>a DEF SummaryInv, TypeOK
<1>c. mongo[want[r]] # None =>
         Payload(mongo[want[r]]) \in Drafts /\ Payload(mongo[want[r]]).n = mongo[want[r]].n
  BY <1>b, PayloadOfDoc
<1>d. NoDraft \in Drafts
  BY DEF NoDraft, Drafts
<1> HIDE DEF Payload, NoDraft
<1>1. view' \in [Readers -> {"idle", "find", "fill"}]
  BY DEF SummaryInv, TypeOK
<1>2. want' \in [Readers -> Entries \cup {NoEntry}]
  BY DEF SummaryInv, TypeOK
<1>3. found' \in [Readers -> Drafts]
  BY <1>c, <1>d DEF SummaryInv, TypeOK
<1>4. TypeOK'
  BY <1>1, <1>2, <1>3 DEF SummaryInv, TypeOK
<1>5. Backed'
  BY <1>4 DEF SummaryInv, TypeOK, Backed, DraftInv, ViewInv, Docs, Copies, Drafts
<1>6. DraftInv'
  BY <1>4 DEF SummaryInv, TypeOK, DraftInv, Drafts, Docs
<1>7. ReadInv'
  BY <1>4 DEF SummaryInv, TypeOK, ReadInv, Drafts, Docs
<1>8. ViewInv'
  BY <1>a, <1>c DEF SummaryInv, TypeOK, ViewInv, Backed
<1>9. TickInv'
  BY <1>4 DEF SummaryInv, TypeOK, TickInv, ReadInv, Backed, Drafts, Docs
<1> QED
  BY <1>4, <1>5, <1>6, <1>7, <1>8, <1>9 DEF SummaryInv

\* A reader fills the cache (summarizer.service.ts:144-146).
LEMMA FillCacheStep ==
    ASSUME NEW r \in Readers, SummaryInv, FillCache(r)
    PROVE  SummaryInv'
<1> USE DEF FillCache, Answered, SetEx, worker, NoDraft
<1>a. SetEx(found[r]) \in Copies /\ SetEx(found[r]) # None /\ SetEx(found[r]).n = found[r].n
  <2>1. found[r] \in Drafts
    BY DEF SummaryInv, TypeOK
  <2> QED
    BY <2>1, DraftStored
<1>b. /\ want[r] \in Entries /\ found[r].n \in ColdStart..count[want[r][1]]
      /\ mongo[want[r]] # None
  BY DEF SummaryInv, ViewInv
<1>1. view' \in [Readers -> {"idle", "find", "fill"}]
  BY DEF SummaryInv, TypeOK
<1>2. want' \in [Readers -> Entries \cup {NoEntry}]
  BY DEF SummaryInv, TypeOK
<1>3. found' \in [Readers -> Drafts]
  BY DEF SummaryInv, TypeOK, Drafts
<1>4. redis' \in [Entries -> Copies \cup {None}]
  BY <1>a, <1>b DEF SummaryInv, TypeOK
<1>5. TypeOK'
  BY <1>1, <1>2, <1>3, <1>4 DEF SummaryInv, TypeOK
<1>6. Backed'
  BY <1>a, <1>b DEF SummaryInv, TypeOK, Backed
<1>7. DraftInv'
  BY <1>5 DEF SummaryInv, TypeOK, DraftInv, Drafts, Docs
<1>8. ReadInv'
  BY <1>5 DEF SummaryInv, TypeOK, ReadInv, Drafts, Docs
<1>9. ViewInv'
  BY <1>5 DEF SummaryInv, TypeOK, ViewInv, Backed, Drafts, Docs
<1>10. TickInv'
  BY <1>5 DEF SummaryInv, TypeOK, TickInv, ReadInv, Backed, Drafts, Docs
<1> QED
  BY <1>5, <1>6, <1>7, <1>8, <1>9, <1>10 DEF SummaryInv

\* The process stops.
LEMMA CrashStep ==
    ASSUME SummaryInv, Crash
    PROVE  SummaryInv'
<1> USE DEF Crash, NoDraft
<1>1. running' \in BOOLEAN
  BY DEF SummaryInv, TypeOK
<1>2. pc' \in [Workers -> {"idle", "due", "next", "prose", "store", "cache"}]
  BY DEF SummaryInv, TypeOK
<1>3. todo' \in [Workers -> SUBSET Drivers]
  BY DEF SummaryInv, TypeOK
<1>4. entry' \in [Workers -> Entries \cup {NoEntry}]
  BY DEF SummaryInv, TypeOK
<1>5. draft' \in [Workers -> Drafts]
  BY DEF SummaryInv, TypeOK, Drafts
<1>6. view' \in [Readers -> {"idle", "find", "fill"}]
  BY DEF SummaryInv, TypeOK
<1>7. want' \in [Readers -> Entries \cup {NoEntry}]
  BY DEF SummaryInv, TypeOK
<1>8. found' \in [Readers -> Drafts]
  BY DEF SummaryInv, TypeOK, Drafts
<1>9. faults' \in 0..MaxFaults
  BY DEF SummaryInv, TypeOK
<1>10. TypeOK'
  BY <1>1, <1>2, <1>3, <1>4, <1>5, <1>6, <1>7, <1>8, <1>9 DEF SummaryInv, TypeOK
<1>11. Backed'
  BY <1>10 DEF SummaryInv, TypeOK, Backed, DraftInv, ViewInv, Docs, Copies, Drafts
<1>12. DraftInv'
  BY <1>10 DEF SummaryInv, TypeOK, DraftInv, Drafts, Docs
<1>13. ReadInv'
  BY <1>10 DEF SummaryInv, TypeOK, ReadInv, Drafts, Docs
<1>14. ViewInv'
  BY <1>10 DEF SummaryInv, TypeOK, ViewInv, Backed, Drafts, Docs
<1>15. TickInv'
  BY <1>10 DEF SummaryInv, TypeOK, TickInv, ReadInv, Backed, Drafts, Docs
<1> QED
  BY <1>10, <1>11, <1>12, <1>13, <1>14, <1>15 DEF SummaryInv

-----------------------------------------------------------------------------
(* The theorems.                                                            *)

\* The inductive invariant of the summaries.
THEOREM SummariesInvariant == Spec => []SummaryInv
<1>1. SummaryInv /\ [Next]_vars => SummaryInv'
  <2> SUFFICES ASSUME SummaryInv, [Next]_vars PROVE SummaryInv'
    OBVIOUS
  <2>1. ASSUME NEW d \in Drivers, AddReview(d) PROVE SummaryInv'
    BY <2>1, AddReviewStep
  <2>2. ASSUME NEW e \in Entries, Age(e) PROVE SummaryInv'
    BY <2>2, AgeStep
  <2>3. ASSUME NEW e \in Entries, Expire(e) PROVE SummaryInv'
    BY <2>3, ExpireStep
  <2>4. ASSUME NEW w \in Ticks, StartTick(w) PROVE SummaryInv'
    BY <2>4, StartTickStep
  <2>5. ASSUME NEW w \in Ticks, FindDue(w) PROVE SummaryInv'
    BY <2>5, FindDueStep
  <2>6. ASSUME NEW w \in Ticks, EndTick(w) PROVE SummaryInv'
    BY <2>6, EndTickStep
  <2>7. ASSUME NEW w \in Ticks, NextDue(w) PROVE SummaryInv'
    BY <2>7, NextDueStep
  <2>8. ASSUME NEW w \in Admins, AdminAsks(w) PROVE SummaryInv'
    BY <2>8, AdminAsksStep
  <2>9. ASSUME NEW w \in Workers, WriteProse(w) PROVE SummaryInv'
    BY <2>9, WriteProseStep
  <2>10. ASSUME NEW w \in Workers, Store(w) PROVE SummaryInv'
    BY <2>10, StoreStep
  <2>11. ASSUME NEW w \in Workers, CacheSummary(w) PROVE SummaryInv'
    BY <2>11, CacheSummaryStep
  <2>12. ASSUME NEW w \in Workers, Reject(w) PROVE SummaryInv'
    BY <2>12, RejectStep
  <2>13. ASSUME NEW r \in Readers, View(r) PROVE SummaryInv'
    BY <2>13, ViewStep
  <2>14. ASSUME NEW r \in Readers, FindSummary(r) PROVE SummaryInv'
    BY <2>14, FindSummaryStep
  <2>15. ASSUME NEW r \in Readers, FillCache(r) PROVE SummaryInv'
    BY <2>15, FillCacheStep
  <2>16. ASSUME Crash PROVE SummaryInv'
    BY <2>16, CrashStep
  <2>17. CASE UNCHANGED vars
    <3> USE <2>17 DEF vars, worker, reader
    <3>1. TypeOK'
      BY DEF SummaryInv, TypeOK
    <3>2. Backed'
      BY DEF SummaryInv, Backed
    <3>3. DraftInv'
      BY DEF SummaryInv, DraftInv
    <3>4. ReadInv'
      BY DEF SummaryInv, ReadInv
    <3>5. ViewInv'
      BY DEF SummaryInv, ViewInv
    <3>6. TickInv'
      BY DEF SummaryInv, TickInv, Readable
    <3> QED
      BY <3>1, <3>2, <3>3, <3>4, <3>5, <3>6 DEF SummaryInv
  <2> QED
    BY <2>1, <2>2, <2>3, <2>4, <2>5, <2>6, <2>7, <2>8, <2>9, <2>10, <2>11, <2>12, <2>13, <2>14, <2>15, <2>16, <2>17 DEF Next, Cron, Recompute, Serve
<1> QED
  BY InitSummaryInv, <1>1, PTL DEF Spec

\* What is served is backed by a stored summary of enough reviews
\* (summarizer.service.ts:55-58, 115-134, 139-147).
THEOREM ServedIsBacked == Spec => []Backed
<1>1. SummaryInv => Backed
  BY DEF SummaryInv
<1> QED
  BY SummariesInvariant, <1>1, PTL

\* The cron job never replaces a summary of its own by one of fewer reviews
\* (scheduler.service.ts:14-16, 47-52).
THEOREM CronKeepsGround == Spec => CronNeverRegresses
<1> DEFINE Goal == \A e \in Entries :
                      mongo[e] # None /\ mongo'[e].n < mongo[e].n =>
                         ~ (mongo[e].cron /\ mongo'[e].cron)
<1>1. SummaryInv /\ [Next]_vars => [Goal]_vars
  <2> SUFFICES ASSUME SummaryInv, [Next]_vars PROVE Goal
    OBVIOUS
  <2>1. ASSUME NEW w \in Workers, Store(w) PROVE Goal
    <3>1. CASE w \in Ticks
      <4>1. mongo[entry[w]] # None /\ mongo[entry[w]].cron => mongo[entry[w]].n <= draft[w].n
        BY <2>1, <3>1 DEF Store, SummaryInv, TickInv
      <4> QED
        BY <2>1, <4>1 DEF Store, SummaryInv, TypeOK, Docs, Drafts
    <3>2. CASE w \notin Ticks
      <4> DEFINE new == [n |-> draft[w].n, prose |-> draft[w].prose, aged |-> FALSE, cron |-> w \in Ticks]
      <4>1. ~ new.cron
        BY <3>2
      <4>2. mongo' = [mongo EXCEPT ![entry[w]] = new]
        BY <2>1 DEF Store
      <4> HIDE DEF new
      <4>3. \A e \in Entries : mongo'[e] = new \/ mongo'[e] = mongo[e]
        BY <4>2 DEF SummaryInv, TypeOK
      <4>4. \A e \in Entries : mongo[e] # None => mongo[e].n \in Nat
        BY DEF SummaryInv, Backed
      <4> QED
        BY <4>1, <4>3, <4>4
    <3> QED
      BY <3>1, <3>2
  <2>2. ASSUME NEW e \in Entries, Age(e) PROVE Goal
    BY <2>2 DEF Age, SummaryInv, TypeOK, Docs
  <2>3. ASSUME UNCHANGED mongo PROVE Goal
    BY <2>3 DEF SummaryInv, TypeOK, Docs
  <2>4. \/ \E w \in Workers : Store(w)
        \/ \E e \in Entries : Age(e)
        \/ UNCHANGED mongo
    BY DEF Next, Cron, Recompute, Serve, AddReview, Expire, StartTick, FindDue, EndTick,
       NextDue, AdminAsks, WriteProse, CacheSummary, Reject, View, FindSummary, FillCache,
       Crash, vars
  <2> QED
    BY <2>1, <2>2, <2>3, <2>4
<1> QED
  BY SummariesInvariant, <1>1, PTL DEF Spec, CronNeverRegresses

================================================================================
