--------------------------- MODULE ReviewIngestProofs ---------------------------
(***************************************************************************)
(* Proofs about the ingest cycle, for any rides, limits, texts and faults. *)
(***************************************************************************)
EXTENDS ReviewIngest, FiniteSetTheorems, TLAPS

\* The inductive invariant holds initially.
LEMMA IngestInit == Init => IngestInv
<1> SUFFICES ASSUME Init PROVE IngestInv
  OBVIOUS
<1>1. /\ now = 1 /\ watermark = 0 /\ newWatermark = 0 /\ failures = 0 /\ pending = {}
      /\ pc = "idle"
      /\ ratedAt = [k \in Keys |-> 0]
      /\ updatedAt = [r \in Rides |-> 0]
      /\ reviews = [k \in Keys |-> NoReview]
      /\ batch = [k \in Keys |-> NotPulled]
      /\ matched \subseteq Rides /\ behind = {}
  BY DEF Init
<1>2. running \in BOOLEAN
  BY DEF Init
<1> HIDE DEF Init
<1>3. TypeOK
  <2>1. reviews \in [Keys -> [stored : BOOLEAN, excluded : Verdicts,
                              aspects : {"unprocessed", "found", "none"}]]
    BY <1>1 DEF NoReview, Verdicts
  <2>2. /\ now \in Nat /\ watermark \in Nat /\ newWatermark \in Nat /\ failures \in Nat
        /\ ratedAt \in [Keys -> Nat] /\ updatedAt \in [Rides -> Nat]
    BY <1>1
  <2> QED BY <1>1, <1>2, <2>1, <2>2, Zenon DEF TypeOK
<1>4. ClockInv
  <2>1. \A k \in Keys : ratedAt[k] <= now
    BY <1>1
  <2>2. watermark <= newWatermark /\ newWatermark = watermark
    BY <1>1
  <2> QED BY <1>1, <2>1, <2>2, Zenon DEF ClockInv, AllStored
<1>5. BatchInv /\ PendingInv /\ ExcludedUnread
  BY <1>1 DEF BatchInv, PendingInv, ExcludedUnread, NoReview
<1>6. NothingMissing
  <2>1. \A k \in Keys : ratedAt[k] \notin 1..watermark
    BY <1>1
  <2> QED BY <2>1 DEF NothingMissing
<1> QED BY <1>3, <1>4, <1>5, <1>6 DEF IngestInv

\* Steps of the core backend and of the clock.
LEMMA WorldStep ==
  ASSUME IngestInv, \/ \E k \in Keys : Rate(k)
                    \/ \E r \in Rides : Touch(r)
                    \/ Tick
  PROVE  IngestInv'
<1> USE DEF IngestInv, Extractable, Unprocessed
<1>1. ASSUME NEW k \in Keys, Rate(k)
      PROVE  IngestInv'
  <2>1. PICK stamp \in 1..now :
          /\ ratedAt' = [ratedAt EXCEPT ![k] = stamp]
          /\ behind' = IF stamp <= newWatermark THEN behind \cup {k} ELSE behind
          /\ \E written \in stamp..now :
               updatedAt' = [updatedAt EXCEPT ![k[1]] = IF @ > written THEN @ ELSE written]
    BY <1>1 DEF Rate
  <2>2. ratedAt[k] = 0 /\ UNCHANGED <<now, matched, reviews, watermark, cycle, failures>>
    BY <1>1 DEF Rate
  <2>3. TypeOK'
    <3>1. ratedAt' \in [Keys -> Nat] /\ behind' \subseteq Keys
      BY <2>1 DEF TypeOK
    <3>2. PICK written \in stamp..now :
            updatedAt' = [updatedAt EXCEPT ![k[1]] = IF @ > written THEN @ ELSE written]
      BY <2>1
    <3>3. k[1] \in Rides /\ written \in Nat
      BY <3>2 DEF TypeOK, Keys
    <3>4. updatedAt' \in [Rides -> Nat]
      BY <3>2, <3>3 DEF TypeOK
    <3> QED BY <2>2, <3>1, <3>4 DEF TypeOK, cycle
  <2>4. ClockInv'
    <3>1. \A j \in Keys : ratedAt'[j] <= now
      BY <2>1 DEF TypeOK, ClockInv
    <3> QED BY <2>2, <3>1 DEF ClockInv, AllStored, cycle
  <2>5. PendingInv' /\ ExcludedUnread'
    BY <2>2 DEF PendingInv, ExcludedUnread, cycle
  <2>6. \A j \in Keys \ Passed' : j \in Keys \ Passed
    BY <2>1, <2>2 DEF Passed
  <2>7. \A j \in Keys \ Passed' : ratedAt'[j] \in 1..newWatermark => ratedAt'[j] = ratedAt[j]
    BY <2>1 DEF TypeOK, Passed
  <2>8. watermark \in Nat /\ newWatermark \in Nat /\ watermark <= newWatermark
    BY DEF TypeOK, ClockInv
  <2>9. BatchInv'
    BY <2>2, <2>6, <2>7 DEF BatchInv, cycle
  <2>10. NothingMissing'
    BY <2>2, <2>6, <2>7, <2>8 DEF NothingMissing
  <2> QED BY <2>3, <2>4, <2>5, <2>9, <2>10
<1>2. ASSUME \/ \E r \in Rides : Touch(r)
             \/ Tick
      PROVE  IngestInv'
  <2>1. /\ now' \in Nat /\ now <= now'
        /\ updatedAt' \in [Rides -> Nat]
        /\ UNCHANGED <<matched, ratedAt, reviews, watermark, cycle, failures, behind>>
    BY <1>2 DEF TypeOK, Touch, Tick
  <2>2. TypeOK'
    BY <2>1 DEF TypeOK, cycle
  <2>3. ClockInv'
    <3>1. \A k \in Keys : ratedAt[k] <= now'
      BY <2>1 DEF TypeOK, ClockInv
    <3> QED BY <2>1, <3>1 DEF ClockInv, AllStored, cycle
  <2>4. BatchInv' /\ NothingMissing' /\ PendingInv' /\ ExcludedUnread'
    BY <2>1 DEF BatchInv, NothingMissing, PendingInv, ExcludedUnread, Passed, cycle
  <2> QED BY <2>2, <2>3, <2>4
<1> QED BY <1>1, <1>2

\* A pull keeps the invariant: what is missing up to the new watermark is in the batch,
\* or the page left it out.
LEMMA PullStep ==
  ASSUME IngestInv, Pull
  PROVE  IngestInv'
<1> USE DEF IngestInv
<1>1. PICK P \in Pages :
        /\ batch' = [k \in Keys |-> IF k \in Fresh(P) THEN Verdict(k, Fresh(P)) ELSE NotPulled]
        /\ newWatermark' \in Newest(Fresh(P))
        /\ pc' = IF Fresh(P) = {} THEN "find" ELSE "store"
        /\ behind' = behind \cup {k \in Keys \ Fresh(P) : ratedAt[k] \in (watermark + 1)..newWatermark'}
  BY DEF Pull
<1> DEFINE K == Fresh(P)
<1>2. UNCHANGED <<source, reviews, watermark, running, pending, failures>> /\ pc = "pull"
  BY DEF Pull
<1>3. /\ \A k \in K : ratedAt[k] <= newWatermark'
      /\ watermark <= newWatermark' /\ newWatermark' \in Nat
      /\ K = {} => newWatermark' = watermark
  BY <1>1 DEF Newest, Fresh, TypeOK
<1>4. TypeOK'
  <2>1. batch' \in [Keys -> Verdicts \cup {NotPulled}]
    BY <1>1 DEF Verdict, Verdicts
  <2>2. behind' \subseteq Keys
    BY <1>1 DEF TypeOK
  <2> QED BY <1>1, <1>2, <1>3, <2>1, <2>2 DEF TypeOK, source
<1>5. ClockInv'
  BY <1>1, <1>2, <1>3 DEF ClockInv, AllStored, TypeOK, source
<1>6. PendingInv' /\ NothingMissing' /\ ExcludedUnread'
  <2>1. \A k \in Keys \ Passed' : k \in Keys \ Passed
    BY <1>1, <1>2 DEF Passed, source
  <2> QED BY <1>2, <2>1 DEF PendingInv, NothingMissing, ExcludedUnread, Extractable, Unprocessed, source
<1>7. BatchInv'
  <2> SUFFICES ASSUME NEW k \in Keys \ Passed', ratedAt'[k] \in 1..newWatermark'
               PROVE  reviews'[k].stored \/ batch'[k] # NotPulled
    BY DEF BatchInv
  <2>1. ratedAt' = ratedAt /\ reviews' = reviews /\ matched' = matched
    BY <1>2 DEF source
  <2>2. k \in Keys \ Passed /\ k \notin behind'
    BY <1>1, <2>1 DEF Passed
  <2>3. CASE ratedAt[k] <= watermark
    BY <2>1, <2>2, <2>3 DEF NothingMissing, TypeOK
  <2>4. CASE ratedAt[k] > watermark
    <3>1. ratedAt[k] \in (watermark + 1)..newWatermark'
      BY <1>3, <2>1, <2>4 DEF TypeOK
    <3>2. k \in K
      BY <1>1, <2>2, <3>1
    <3>3. Verdict(k, K) # NotPulled
      BY DEF Verdict, NotPulled
    <3> QED BY <1>1, <3>2, <3>3
  <2> QED BY <2>1, <2>3, <2>4 DEF TypeOK
<1> QED BY <1>4, <1>5, <1>6, <1>7

\* A cycle that is given up keeps the invariant.
LEMMA GiveUpStep ==
  ASSUME IngestInv, GiveUp, failures' \in Nat, UNCHANGED <<source, reviews, watermark>>
  PROVE  IngestInv'
<1> USE DEF IngestInv
<1>1. /\ pc' = "idle" /\ pending' = {} /\ newWatermark' = watermark
      /\ batch' = [k \in Keys |-> NotPulled]
      /\ behind' = {k \in behind : ratedAt[k] <= watermark}
  BY DEF GiveUp
<1>2. running' = FALSE
  BY Zenon DEF GiveUp, Unlocked
<1>3. TypeOK'
  <2>1. batch' \in [Keys -> Verdicts \cup {NotPulled}] /\ behind' \subseteq Keys
    BY <1>1 DEF TypeOK
  <2>2. running' \in BOOLEAN
    BY <1>2
  <2> QED BY <1>1, <2>1, <2>2 DEF TypeOK, source
<1>4. ClockInv'
  <2>1. AllStored'
    BY <1>1 DEF AllStored
  <2>2. watermark' \in Nat /\ newWatermark' = watermark' /\ \A k \in Keys : ratedAt'[k] <= now'
    BY <1>1 DEF TypeOK, ClockInv, source
  <2> QED BY <1>1, <2>1, <2>2 DEF ClockInv
<1>5. BatchInv' /\ PendingInv'
  BY <1>1 DEF BatchInv, PendingInv
<1>6. NothingMissing'
  <2>1. \A k \in Keys \ Passed' : ratedAt[k] <= watermark => k \in Keys \ Passed
    BY <1>1 DEF Passed, source
  <2> QED BY <2>1 DEF NothingMissing, TypeOK, source
<1>7. ExcludedUnread'
  BY DEF ExcludedUnread
<1> QED BY <1>3, <1>4, <1>5, <1>6, <1>7

\* The other steps of the cycle.
LEMMA CycleKeeps ==
  ASSUME IngestInv, CycleStep \/ Fail
  PROVE  IngestInv'
<1> USE DEF IngestInv
<1>1. CASE StartCycle
  <2>1. TypeOK'
    BY <1>1 DEF StartCycle, TypeOK, source
  <2>2. ClockInv' /\ BatchInv'
    <3>1. /\ pc # "store" /\ pc' = "pull"
          /\ UNCHANGED <<source, watermark, batch, newWatermark>>
      BY <1>1 DEF StartCycle, ClockInv
    <3>2. running'
      BY <1>1, Zenon DEF StartCycle
    <3> QED BY <3>1, <3>2 DEF ClockInv, AllStored, BatchInv, Passed, source
  <2>3. PendingInv' /\ NothingMissing' /\ ExcludedUnread'
    BY <1>1 DEF StartCycle, PendingInv, NothingMissing, ExcludedUnread, Passed, Extractable, Unprocessed, source
  <2> QED BY <2>1, <2>2, <2>3
<1>2. CASE Pull
  BY <1>2, PullStep
<1>3. ASSUME NEW k \in Keys, Store(k)
      PROVE  IngestInv'
  <2>1. batch[k] \in Verdicts
    BY <1>3 DEF Store, TypeOK
  <2>2. Upserted(k) \in [stored : BOOLEAN, excluded : Verdicts,
                         aspects : {"unprocessed", "found", "none"}]
    BY <2>1 DEF Upserted, Overwrite, TypeOK
  <2>3. TypeOK'
    BY <1>3, <2>2 DEF Store, TypeOK, source
  <2>4. Upserted(k).stored /\ (Upserted(k).excluded # "no" => Upserted(k).aspects = "unprocessed")
        /\ (reviews[k].stored => Upserted(k) = reviews[k])
    BY DEF Upserted, Overwrite, ExcludedUnread
  <2>5. reviews' = [reviews EXCEPT ![k] = Upserted(k)] /\ batch' = [batch EXCEPT ![k] = NotPulled]
        /\ pc = "store" /\ UNCHANGED <<source, watermark, running, pc, newWatermark, pending, behind>>
    BY <1>3 DEF Store
  <2>6. ClockInv' /\ BatchInv' /\ NothingMissing' /\ ExcludedUnread'
    BY <2>4, <2>5 DEF ClockInv, BatchInv, NothingMissing, ExcludedUnread, TypeOK, Passed, source
  <2>7. PendingInv'
    BY <2>4, <2>5 DEF PendingInv, Extractable, Unprocessed, TypeOK
  <2> QED BY <2>3, <2>6, <2>7
<1>4. CASE Advance
  BY <1>4 DEF Advance, TypeOK, ClockInv, AllStored, BatchInv, PendingInv, NothingMissing,
              ExcludedUnread, Passed, Extractable, Unprocessed, source
<1>5. CASE FindPending
  BY <1>5 DEF FindPending, TypeOK, ClockInv, AllStored, BatchInv, PendingInv, NothingMissing,
              ExcludedUnread, Passed, Extractable, Unprocessed, source
<1>6. ASSUME NEW k \in Keys, Extract(k)
      PROVE  IngestInv'
  <2>1. PICK found \in {"found", "none"} : reviews' = [reviews EXCEPT ![k].aspects = found]
    BY <1>6 DEF Extract
  <2>2. k \in pending /\ pending' = pending \ {k} /\ pc = "extract"
        /\ UNCHANGED <<source, watermark, running, pc, batch, newWatermark, failures, behind>>
    BY <1>6 DEF Extract
  <2>3. TypeOK'
    BY <2>1, <2>2 DEF TypeOK, source
  <2>4. reviews[k].excluded = "no"
    BY <2>2 DEF PendingInv, Extractable
  <2>5. ClockInv' /\ BatchInv' /\ NothingMissing' /\ ExcludedUnread'
    BY <2>1, <2>2, <2>4 DEF ClockInv, AllStored, BatchInv, NothingMissing, ExcludedUnread, TypeOK, Passed, source
  <2>6. PendingInv'
    BY <2>1, <2>2 DEF PendingInv, Extractable, Unprocessed, TypeOK
  <2> QED BY <2>3, <2>5, <2>6
<1>7. CASE EndCycle
  BY <1>7 DEF EndCycle, TypeOK, ClockInv, AllStored, BatchInv, PendingInv, NothingMissing,
              ExcludedUnread, Passed, Extractable, Unprocessed, source
<1>8. ASSUME \/ Fail
             \/ \E k \in Keys : ExtractInvalid(k)
      PROVE  IngestInv'
  <2>1. GiveUp /\ UNCHANGED <<source, reviews, watermark>>
    BY <1>8 DEF Fail, ExtractInvalid
  <2>2. failures' \in Nat
    BY <1>8 DEF Fail, ExtractInvalid, TypeOK
  <2> QED BY <2>1, <2>2, GiveUpStep
<1> QED BY <1>1, <1>2, <1>3, <1>4, <1>5, <1>6, <1>7, <1>8 DEF CycleStep

\* Every reachable state of the ingest cycle satisfies its invariant
\* (ingest.service.ts:36-86, aspect-extraction.service.ts:22-37).
THEOREM IngestInvariant == Spec => []IngestInv
<1>1. IngestInv /\ UNCHANGED vars => IngestInv'
  BY DEF IngestInv, vars, TypeOK, ClockInv, AllStored, BatchInv, PendingInv, NothingMissing,
         ExcludedUnread, Passed, Extractable, Unprocessed, source, cycle
<1>2. IngestInv /\ [Next]_vars => IngestInv'
  BY <1>1, WorldStep, CycleKeeps DEF Next
<1> QED BY IngestInit, <1>2, PTL DEF Spec

\* However cycles fail, a rating below the watermark is missing only if its ride has no
\* driver or no passenger, a page left it out, or it was visible only after a pull that
\* took a later stamp (ingest.service.ts:36-86, mongo-review.source.ts:19-71).
THEOREM NothingIsMissing == Spec => []NothingMissing
<1>1. IngestInv => NothingMissing
  BY DEF IngestInv
<1> QED BY IngestInvariant, <1>1, PTL

\* No model reads an excluded review.
THEOREM ExcludedStaysUnread == Spec => []ExcludedUnread
<1>1. IngestInv => ExcludedUnread
  BY DEF IngestInv
<1> QED BY IngestInvariant, <1>1, PTL

\* A review that is pulled again keeps its verdict and its aspects.
THEOREM VerdictsAreFrozen == Spec => VerdictFrozen
<1> DEFINE Kept == \A k \in Keys : reviews[k].stored =>
          /\ reviews'[k].stored
          /\ reviews'[k].excluded = reviews[k].excluded
          /\ reviews[k].aspects # "unprocessed" => reviews'[k].aspects = reviews[k].aspects
<1>1. IngestInv /\ [Next]_vars => [Kept]_vars
  <2> SUFFICES ASSUME IngestInv, Next PROVE Kept
    BY DEF vars
  <2>1. CASE \E j \in Keys : Store(j)
    BY <2>1 DEF Store, Upserted, Overwrite, IngestInv, TypeOK
  <2>2. ASSUME NEW j \in Keys, Extract(j)
        PROVE  Kept
    <3>1. reviews[j].stored /\ reviews[j].aspects = "unprocessed"
      BY <2>2 DEF Extract, IngestInv, PendingInv, Extractable, Unprocessed
    <3> QED BY <2>2, <3>1 DEF Extract, IngestInv, TypeOK
  <2>3. CASE UNCHANGED reviews
    BY <2>3
  <2> QED BY <2>1, <2>2, <2>3 DEF Next, CycleStep, Rate, Touch, Tick, StartCycle, Pull,
             Advance, FindPending, ExtractInvalid, EndCycle, Fail
<1> QED BY IngestInvariant, <1>1, PTL DEF Spec, VerdictFrozen

-----------------------------------------------------------------------------
(* The ledger of reviews.                                                   *)

LEMMA KeysAreFinite == IsFiniteSet(Keys)
<1>1. IsFiniteSet(Rides) /\ IsFiniteSet(Sides)
  <2>1. IsFiniteSet({"driver"}) /\ IsFiniteSet({"rider"})
    BY FS_Singleton
  <2>2. Sides = {"driver"} \cup {"rider"}
    BY DEF Sides
  <2> QED BY <2>1, <2>2, FS_Union, IngestAssumption
<1> QED BY <1>1, FS_Product DEF Keys

\* What is said about the subject of a review.
SaidAbout(k, K) == {j \in K : SubjectOf[j] = SubjectOf[k] /\ TextOf[j] # Blank}

\* The more is said, the more reason for suspicion.
LEMMA MoreIsSaid ==
  ASSUME NEW k, NEW K, NEW L \in SUBSET Keys, K \subseteq L, Cardinality(SaidAbout(k, K)) >= BombMin
  PROVE  Cardinality(SaidAbout(k, L)) >= BombMin
<1>1. SaidAbout(k, K) \subseteq SaidAbout(k, L) /\ SaidAbout(k, L) \subseteq Keys
  BY DEF SaidAbout
<1>2. IsFiniteSet(SaidAbout(k, L)) /\ IsFiniteSet(SaidAbout(k, K))
  BY <1>1, KeysAreFinite, FS_Subset
<1>3. /\ Cardinality(SaidAbout(k, K)) \in Nat /\ Cardinality(SaidAbout(k, L)) \in Nat
      /\ Cardinality(SaidAbout(k, K)) <= Cardinality(SaidAbout(k, L))
  BY <1>1, <1>2, FS_Subset, FS_CardinalityType
<1> QED BY <1>3, IngestAssumption

\* What is warranted stays so when more is written.
LEMMA WarrantLasts ==
  ASSUME Given \subseteq Given', NEW k \in Keys, NEW v, Ledger!Warranted(k, v)
  PROVE  Ledger!Warranted(k, v)'
<1>1. Ledger!Suspected(k) => Ledger!Suspected(k)'
  <2>1. Ledger!Suspected(k) <=> Cardinality(SaidAbout(k, Given)) >= BombMin
    BY DEF Ledger!Suspected, SaidAbout, Ledger!Cardinality, Cardinality
  <2>2. Ledger!Suspected(k)' <=> Cardinality(SaidAbout(k, Given')) >= BombMin
    BY DEF Ledger!Suspected, SaidAbout, Ledger!Cardinality, Cardinality
  <2>3. Given' \in SUBSET Keys
    BY DEF Given
  <2> QED BY <2>1, <2>2, <2>3, MoreIsSaid
<1> QED BY <1>1 DEF Ledger!Warranted

\* The verdict on a review of a page is warranted by what was written by then.
LEMMA VerdictIsWarranted ==
  ASSUME NEW K \in SUBSET Given, NEW k \in K
  PROVE  Verdict(k, K) \in Verdicts /\ Ledger!Warranted(k, Verdict(k, K))
<1>1. CASE TextOf[k] \in Toxic
  BY <1>1 DEF Verdict, Verdicts, Ledger!Warranted
<1>2. CASE TextOf[k] \notin Toxic /\ SubjectOf[k] \in Bombed(K)
  <2>1. Cardinality(SaidAbout(k, K)) >= BombMin
    BY <1>2 DEF Bombed, SaidAbout
  <2>2. Given \in SUBSET Keys
    BY DEF Given
  <2>3. Cardinality(SaidAbout(k, Given)) >= BombMin
    BY <2>1, <2>2, MoreIsSaid
  <2>4. Ledger!Suspected(k)
    BY <2>3 DEF Ledger!Suspected, SaidAbout, Ledger!Cardinality, Cardinality
  <2> QED BY <1>2, <2>4 DEF Verdict, Verdicts, Ledger!Warranted
<1>3. CASE TextOf[k] \notin Toxic /\ SubjectOf[k] \notin Bombed(K)
  BY <1>3 DEF Verdict, Verdicts, Ledger!Warranted
<1> QED BY <1>1, <1>2, <1>3

LEMMA JudgedInit == Init => JudgedInv
  BY DEF Init, JudgedInv, NoReview

\* A rating, once given, stays.
LEMMA GivenGrows == IngestInv /\ [Next]_vars => Given \subseteq Given'
<1> SUFFICES ASSUME IngestInv, [Next]_vars PROVE Given \subseteq Given'
  OBVIOUS
<1>1. ASSUME NEW k \in Keys, Rate(k) PROVE Given \subseteq Given'
  BY <1>1 DEF Rate, Given, IngestInv, TypeOK
<1>2. CASE UNCHANGED ratedAt
  BY <1>2 DEF Given
<1> QED BY <1>1, <1>2 DEF Next, CycleStep, Touch, Tick, StartCycle, Pull, Store, Advance, FindPending,
           Extract, ExtractInvalid, EndCycle, Fail, source, vars

\* Every step leaves the reviews that are not stored and the verdicts that wait as they
\* should be.
LEMMA JudgedStep == LedgerInv /\ [Next]_vars => JudgedInv'
<1> SUFFICES ASSUME IngestInv, JudgedInv, [Next]_vars PROVE JudgedInv'
  BY DEF LedgerInv
<1>1. Given \subseteq Given'
  BY GivenGrows
<1>2. \A k \in Keys : \A v : Ledger!Warranted(k, v) => Ledger!Warranted(k, v)'
  BY <1>1, WarrantLasts
<1>3. CASE UNCHANGED <<reviews, batch>>
  BY <1>1, <1>2, <1>3 DEF JudgedInv
<1>4. ASSUME reviews' = reviews, \A k \in Keys : batch'[k] = NotPulled
      PROVE  JudgedInv'
  BY <1>4 DEF JudgedInv
<1>5. CASE Pull
  <2>1. PICK P \in Pages :
          batch' = [k \in Keys |-> IF k \in Fresh(P) THEN Verdict(k, Fresh(P)) ELSE NotPulled]
    BY <1>5 DEF Pull
  <2>2. Fresh(P) \in SUBSET Given
    BY DEF Fresh, Given, IngestInv, TypeOK
  <2>3. reviews' = reviews
    BY <1>5 DEF Pull
  <2>4. \A k \in Fresh(P) : Ledger!Warranted(k, Verdict(k, Fresh(P)))
    BY <2>2, VerdictIsWarranted
  <2>5. ASSUME NEW k \in Keys, batch'[k] # NotPulled
        PROVE  k \in Given' /\ Ledger!Warranted(k, batch[k])'
    <3>1. k \in Fresh(P) /\ batch'[k] = Verdict(k, Fresh(P))
      BY <2>1, <2>5
    <3>2. \A v : Ledger!Warranted(k, v) => Ledger!Warranted(k, v)'
      BY <1>2
    <3> QED BY <1>1, <2>2, <2>4, <3>1, <3>2
  <2> QED BY <2>3, <2>5 DEF JudgedInv
<1>6. ASSUME NEW j \in Keys, Store(j) PROVE JudgedInv'
  <2>1. reviews' = [reviews EXCEPT ![j] = Upserted(j)] /\ batch' = [batch EXCEPT ![j] = NotPulled]
    BY <1>6 DEF Store
  <2>2. Upserted(j).stored
    BY DEF Upserted, Overwrite
  <2>3. \A k \in Keys : ~ reviews'[k].stored => reviews'[k] = NoReview
    BY <2>1, <2>2 DEF JudgedInv, IngestInv, TypeOK
  <2>4. \A k \in Keys : batch'[k] # NotPulled => batch'[k] = batch[k]
    BY <2>1 DEF IngestInv, TypeOK
  <2> QED BY <1>1, <1>2, <2>3, <2>4 DEF JudgedInv
<1>7. ASSUME NEW j \in Keys, Extract(j) PROVE JudgedInv'
  <2>1. PICK found : reviews' = [reviews EXCEPT ![j].aspects = found]
    BY <1>7 DEF Extract
  <2>2. reviews[j].stored /\ batch' = batch
    BY <1>7 DEF Extract, IngestInv, PendingInv, Extractable, Unprocessed
  <2>3. \A k \in Keys : ~ reviews'[k].stored => reviews'[k] = NoReview
    BY <2>1, <2>2 DEF JudgedInv, IngestInv, TypeOK
  <2> QED BY <1>1, <1>2, <2>2, <2>3 DEF JudgedInv
<1>8. CASE Fail \/ \E k \in Keys : ExtractInvalid(k)
  BY <1>4, <1>8 DEF Fail, ExtractInvalid, GiveUp
<1> QED BY <1>3, <1>5, <1>6, <1>7, <1>8 DEF Next, CycleStep, Rate, Touch, Tick, StartCycle, Advance,
           FindPending, EndCycle, cycle, vars

\* A verdict that waits in a batch is warranted by what was written, and a review that is
\* not stored has none (ingest.service.ts:46-78).
THEOREM LedgerInvariant == Spec => []LedgerInv
<1>1. Init => LedgerInv
  BY IngestInit, JudgedInit DEF LedgerInv
<1>2. LedgerInv /\ IngestInv' /\ [Next]_vars => LedgerInv'
  BY JudgedStep DEF LedgerInv
<1> QED BY <1>1, <1>2, IngestInvariant, PTL DEF Spec

\* Every step of the ingest writes a review, judges one, reads one, or is invisible.
LEMMA StepsOfTheLedger ==
  LedgerInv /\ [Next]_vars => [Ledger!Next]_<<Given, VerdictOf, AspectsOf>>
<1> SUFFICES ASSUME LedgerInv, [Next]_vars
             PROVE  \/ \E k \in Keys : Ledger!Give(k) \/ Ledger!Judge(k) \/ Ledger!ReadAspects(k)
                    \/ UNCHANGED <<Given, VerdictOf, AspectsOf>>
  BY DEF Ledger!Next
<1> DEFINE Goal == \/ \E k \in Keys : Ledger!Give(k) \/ Ledger!Judge(k) \/ Ledger!ReadAspects(k)
                   \/ UNCHANGED <<Given, VerdictOf, AspectsOf>>
<1>1. TypeOK /\ PendingInv /\ JudgedInv
  BY DEF LedgerInv, IngestInv
<1>2. UNCHANGED reviews => UNCHANGED <<VerdictOf, AspectsOf>>
  BY DEF VerdictOf, AspectsOf
<1>3. UNCHANGED ratedAt => UNCHANGED Given
  BY DEF Given
<1>4. ASSUME NEW k \in Keys, Rate(k) PROVE Goal
  <2>1. PICK stamp \in 1..now : ratedAt' = [ratedAt EXCEPT ![k] = stamp]
    BY <1>4 DEF Rate
  <2>2. ratedAt[k] = 0 /\ reviews' = reviews
    BY <1>4 DEF Rate
  <2>3. Given' = Given \cup {k} /\ k \notin Given
    BY <1>1, <2>1, <2>2 DEF Given, TypeOK
  <2> QED BY <1>2, <2>2, <2>3 DEF Ledger!Give
<1>5. ASSUME NEW k \in Keys, Store(k) PROVE Goal
  <2>1. /\ reviews' = [reviews EXCEPT ![k] = Upserted(k)]
        /\ batch[k] # NotPulled /\ ratedAt' = ratedAt
    BY <1>5 DEF Store, source
  <2>2. CASE reviews[k].stored
    <3>1. reviews' = reviews
      BY <1>1, <2>1, <2>2 DEF Upserted, TypeOK
    <3> QED BY <1>2, <1>3, <2>1, <3>1
  <2>3. CASE ~ reviews[k].stored
    <3>1. reviews[k] = NoReview /\ k \in Given /\ Ledger!Warranted(k, batch[k])
      BY <1>1, <2>1, <2>3 DEF JudgedInv
    <3>2. reviews' = [reviews EXCEPT ![k] = Overwrite(k)]
      BY <2>1, <2>3 DEF Upserted
    <3>3. AspectsOf' = AspectsOf
      BY <1>1, <3>1, <3>2 DEF AspectsOf, Overwrite, NoReview, TypeOK
    <3>4. VerdictOf' = [VerdictOf EXCEPT ![k] = batch[k]] /\ VerdictOf[k] = "unjudged"
      BY <1>1, <2>3, <3>2 DEF VerdictOf, Overwrite, TypeOK
    <3>5. batch[k] \in {"no", "toxicity", "review_bombing"}
      BY <1>1, <2>1 DEF TypeOK, Verdicts
    <3>6. Ledger!Judge(k)
      BY <1>3, <2>1, <3>1, <3>3, <3>4, <3>5 DEF Ledger!Judge, Ledger!Unjudged
    <3> QED BY <3>6
  <2> QED BY <2>2, <2>3
<1>6. ASSUME NEW k \in Keys, Extract(k) PROVE Goal
  <2>1. PICK found \in {"found", "none"} :
          /\ TextOf[k] = Blank => found = "none"
          /\ reviews' = [reviews EXCEPT ![k].aspects = found]
    BY <1>6 DEF Extract
  <2>2. reviews[k].stored /\ reviews[k].excluded = "no" /\ reviews[k].aspects = "unprocessed"
    BY <1>1, <1>6 DEF Extract, PendingInv, Extractable, Unprocessed
  <2>3. VerdictOf' = VerdictOf /\ VerdictOf[k] = "no"
    BY <1>1, <2>1, <2>2 DEF VerdictOf, TypeOK
  <2>4. AspectsOf' = [AspectsOf EXCEPT ![k] = found] /\ AspectsOf[k] = "unprocessed"
    BY <1>1, <2>1, <2>2 DEF AspectsOf, TypeOK
  <2>5. Given' = Given
    BY <1>3, <1>6 DEF Extract, source
  <2>6. Ledger!ReadAspects(k)
    BY <2>1, <2>3, <2>4, <2>5 DEF Ledger!ReadAspects
  <2> QED BY <2>6
<1>7. CASE UNCHANGED <<ratedAt, reviews>>
  BY <1>2, <1>3, <1>7
<1> QED BY <1>4, <1>5, <1>6, <1>7 DEF Next, CycleStep, Touch, Tick, StartCycle, Pull, Advance,
           FindPending, ExtractInvalid, EndCycle, Fail, source, vars

\* The ingest implements ReviewLedger: however often a review is pulled, in whatever
\* batches and after whatever faults, it is judged once, on what was written, and read
\* once if it was admitted.
THEOREM IngestImplementsLedger == Spec => ImplementsReviews
<1>1. Init => Ledger!Init
  <2>1. Init => Given = {}
    BY DEF Init, Given
  <2>2. Init => VerdictOf = [k \in Keys |-> "unjudged"] /\ AspectsOf = [k \in Keys |-> "unprocessed"]
    BY DEF Init, VerdictOf, AspectsOf, NoReview
  <2> QED BY <2>1, <2>2 DEF Ledger!Init, Ledger!Unjudged
<1> QED BY <1>1, StepsOfTheLedger, LedgerInvariant, PTL DEF Spec, ImplementsReviews, Ledger!Spec

================================================================================
