-------------------------- MODULE ConfirmCommitProofs --------------------------
(***************************************************************************)
(* Proofs about the confirmation gate: CommitInv is an inductive invariant *)
(* of ConfirmCommit, for every set of slots, actions, handlers and users   *)
(* and every TTL.                                                          *)
(***************************************************************************)
EXTENDS ConfirmCommit, FiniteSetTheorems, TLAPS

USE CardAssumption, TtlAssumption, CountAssumption

-----------------------------------------------------------------------------
(* Type correctness.                                                        *)

\* Past its GET, a handler holds an action and knows its slot (TypeOK alone does
\* not say so: HandlerInv does).
LEMMA Holding ==
    ASSUME TypeOK, HandlerInv, NEW r \in Requests, pc[r] \notin {"idle", "get"}
    PROVE  holds[r] \in Actions /\ ask[r].slot \in Slots
BY DEF TypeOK, HandlerInv

\* A guard set by an earlier commit is still there when a handler that read the
\* card before that commit reaches its SET NX.
LEMMA GuardOutlivesReaders ==
    ASSUME TypeOK, GuardInv, NEW r \in Requests, holds[r] \in Actions,
           BeforeGuard(r), guard[holds[r]] = 0
    PROVE  commits[holds[r]] = 0
<1>1. age[r] \in 0..MaxLatency /\ commits[holds[r]] \in Nat
  BY DEF TypeOK
<1>2. commits[holds[r]] > 0 => guard[holds[r]] + age[r] >= IdemTtl
  BY DEF GuardInv
<1> QED
  BY <1>1, <1>2

\* One tick off a TTL stays in range.
LEMMA Countdown ==
    ASSUME NEW n \in Nat, NEW k \in 0..n
    PROVE  (IF k = 0 THEN 0 ELSE k - 1) \in 0..n
OBVIOUS

\* The initial state is in its types.
LEMMA TypeInit == Init => TypeOK
BY DEF Init, TypeOK, PC, Asks, NoAsk, Stamps, NoStamp, Days, Decisions

\* No action of a handler, of the backend, of a fault or of time leaves the types;
\* that a running handler has an action and a slot to write to comes from Holding.
LEMMA TypeStep == TypeOK /\ HandlerInv /\ [Next]_vars => TypeOK'
<1> SUFFICES ASSUME TypeOK, HandlerInv, [Next]_vars PROVE TypeOK'
  OBVIOUS
<1> USE DEF TypeOK, PC, Asks, NoAsk, Stamps, NoStamp, Days, Decisions, Answers,
            redisVars, storeVars, handlerVars, historyVars
<1>1. ASSUME NEW s \in Slots, NEW a \in Actions, OfferCard(s, a) PROVE TypeOK'
  BY <1>1 DEF OfferCard
<1>2. ASSUME NEW r \in Requests, NEW s \in Slots, NEW d \in Decisions, Arrive(r, s, d)
      PROVE TypeOK'
  BY <1>2 DEF Arrive
<1>3. ASSUME NEW r \in Requests, ReadPending(r) PROVE TypeOK'
  <2>1. pending[ask[r].slot] \in Actions \cup {NoAction}
    BY <1>3 DEF ReadPending, HandlerInv
  <2>2. CASE pending[ask[r].slot] = NoAction
    <3>1. Finish(r) /\ UNCHANGED <<redisVars, core, storeVars, day, historyVars>>
      BY <1>3, <2>2 DEF ReadPending
    <3> QED
      BY <3>1 DEF Finish
  <2>3. CASE pending[ask[r].slot] # NoAction
    BY <1>3, <2>1, <2>3 DEF ReadPending
  <2> QED
    BY <2>2, <2>3
<1>4. ASSUME NEW r \in Requests, DeletePending(r) PROVE TypeOK'
  <2>1. holds[r] \in Actions /\ ask[r].slot \in Slots
    BY <1>4, Holding DEF DeletePending
  <2> QED
    BY <1>4, <2>1 DEF DeletePending, Goto, AfterTake, DeletedKey
<1>5. ASSUME NEW r \in Requests, AnswerDecline(r) PROVE TypeOK'
  <2>1. holds[r] \in Actions /\ ask[r].slot \in Slots
    BY <1>5, Holding DEF AnswerDecline
  <2> QED
    BY <1>5, <2>1 DEF AnswerDecline, Tell, Finish
<1>6. ASSUME NEW r \in Requests, SetGuard(r) PROVE TypeOK'
  <2>1. holds[r] \in Actions /\ ask[r].slot \in Slots
    BY <1>6, Holding DEF SetGuard
  <2> QED
    BY <1>6, <2>1 DEF SetGuard, FirstStep
<1>7. ASSUME NEW r \in Requests, AnswerConflict(r) PROVE TypeOK'
  <2>1. holds[r] \in Actions /\ ask[r].slot \in Slots
    BY <1>7, Holding DEF AnswerConflict
  <2> QED
    BY <1>7, <2>1 DEF AnswerConflict, Tell, Finish
<1>8. ASSUME NEW r \in Requests, GuardResent(r) PROVE TypeOK'
  <2>1. holds[r] \in Actions /\ ask[r].slot \in Slots
    BY <1>8, Holding DEF GuardResent
  <2> QED
    BY <1>8, <2>1 DEF GuardResent, Tell, Finish
<1>9. ASSUME NEW r \in Requests, CoreSend(r) PROVE TypeOK'
  <2>1. holds[r] \in Actions /\ ask[r].slot \in Slots
    BY <1>9, Holding DEF CoreSend
  <2> QED
    BY <1>9, <2>1 DEF CoreSend, Goto
<1>10. ASSUME NEW a \in Actions, BackendExecutes(a) PROVE TypeOK'
  BY <1>10 DEF BackendExecutes
<1>11. ASSUME NEW a \in Actions, BackendRefuses(a) PROVE TypeOK'
  BY <1>11 DEF BackendRefuses
<1>12. ASSUME NEW r \in Requests, CoreReply(r) PROVE TypeOK'
  BY <1>12 DEF CoreReply, Goto
<1>13. ASSUME NEW r \in Requests, CoreFails(r) PROVE TypeOK'
  <2>1. holds[r] \in Actions /\ ask[r].slot \in Slots
    BY <1>13, Holding DEF CoreFails
  <2> QED
    BY <1>13, <2>1 DEF CoreFails, Tell, Finish
<1>14. ASSUME NEW r \in Requests, NEW n \in Nat, CountRefundBy(r, n) PROVE TypeOK'
  <2>1. <<UserOf(r), day>> \in Users \X Days
    BY <1>14 DEF CountRefundBy, UserOf, HandlerInv
  <2> QED
    BY <1>14, <2>1 DEF CountRefundBy
<1>15. ASSUME NEW r \in Requests, ExpireCounter(r) PROVE TypeOK'
  BY <1>15 DEF ExpireCounter, Goto
<1>16. ASSUME NEW r \in Requests, CreateTicket(r) PROVE TypeOK'
  <2>1. holds[r] \in Actions /\ ask[r].slot \in Slots
    BY <1>16, Holding DEF CreateTicket
  <2> QED
    BY <1>16, <2>1 DEF CreateTicket, Goto, OneMoreTicket
<1>17. ASSUME NEW r \in Requests, QueueRefund(r) PROVE TypeOK'
  <2>1. holds[r] \in Actions /\ ask[r].slot \in Slots
    BY <1>17, Holding DEF QueueRefund
  <2> QED
    BY <1>17, <2>1 DEF QueueRefund, Goto, UserOf
<1>18. ASSUME NEW r \in Requests, LogCommit(r) PROVE TypeOK'
  <2>1. holds[r] \in Actions /\ ask[r].slot \in Slots
    BY <1>18, Holding DEF LogCommit
  <2> QED
    BY <1>18, <2>1 DEF LogCommit, Tell, Finish
<1>19. ASSUME NEW r \in Requests, Abort(r) PROVE TypeOK'
  BY <1>19 DEF Abort, Finish
<1>20. ASSUME Tick PROVE TypeOK'
  <2>1. \A s \in Slots : (IF ttl[s] = 0 THEN 0 ELSE ttl[s] - 1) \in 0..ConfirmTtl
    <3> TAKE s \in Slots
    <3>1. ttl[s] \in 0..ConfirmTtl /\ ConfirmTtl \in Nat
      OBVIOUS
    <3> HIDE TtlAssumption DEF TypeOK
    <3> QED
      BY <3>1, Countdown
  <2>2. \A a \in Actions : (IF guard[a] = 0 THEN 0 ELSE guard[a] - 1) \in 0..IdemTtl
    <3> TAKE a \in Actions
    <3>1. guard[a] \in 0..IdemTtl /\ IdemTtl \in Nat
      OBVIOUS
    <3> HIDE TtlAssumption DEF TypeOK
    <3> QED
      BY <3>1, Countdown
  <2>3. \A r \in Requests : BeforeGuard(r) => age[r] + 1 \in 0..MaxLatency
    BY <1>20 DEF Tick
  <2>4. pending' \in [Slots -> Actions \cup {NoAction}]
    BY <1>20 DEF Tick
  <2>5. ttl' \in [Slots -> 0..ConfirmTtl]
    BY <1>20, <2>1 DEF Tick
  <2>6. guard' \in [Actions -> 0..IdemTtl]
    BY <1>20, <2>2 DEF Tick
  <2>7. age' \in [Requests -> 0..MaxLatency]
    BY <1>20, <2>3 DEF Tick
  <2> QED
    BY <1>20, <2>4, <2>5, <2>6, <2>7 DEF Tick
<1>21. ASSUME NextDay PROVE TypeOK'
  BY <1>21 DEF NextDay
<1>22. ASSUME UNCHANGED vars PROVE TypeOK'
  BY <1>22 DEF vars
<1> HIDE DEF TypeOK
<1>23. ASSUME NEW r \in Requests, CountRefund(r) PROVE TypeOK'
  BY <1>14, <1>23 DEF CountRefund
<1>24. ASSUME NEW r \in Requests, CountResent(r) PROVE TypeOK'
  BY <1>14, <1>24 DEF CountResent
<1> QED
  BY <1>1, <1>2, <1>3, <1>4, <1>5, <1>6, <1>7, <1>8, <1>9, <1>10, <1>11, <1>12, <1>13,
     <1>15, <1>16, <1>17, <1>18, <1>19, <1>20, <1>21, <1>22, <1>23, <1>24
     DEF Next, Step, Fault
-----------------------------------------------------------------------------
\* What a handler holds stays consistent with where it is: it gets its action from
\* the GET of take(), loses it when the request ends, and passes the decision and
\* the kind of the action on its way.
LEMMA HandlerInvStep ==
    TypeOK /\ HandlerInv /\ PendingInv /\ [Next]_vars => HandlerInv'
<1> SUFFICES ASSUME TypeOK, HandlerInv, PendingInv, [Next]_vars PROVE HandlerInv'
  OBVIOUS
<1> USE DEF HandlerInv, PastGuard, TypeOK, PC, Decisions, Asks, NoAsk, redisVars,
       storeVars, handlerVars, historyVars
<1>1. ASSUME NEW s \in Slots, NEW a \in Actions, OfferCard(s, a)
      PROVE  HandlerInv'
  BY <1>1 DEF OfferCard
<1>2. ASSUME NEW r \in Requests, NEW s \in Slots, NEW d \in Decisions, Arrive(r, s, d)
      PROVE  HandlerInv'
  BY <1>2 DEF Arrive
<1>3. ASSUME NEW r \in Requests, ReadPending(r)
      PROVE  HandlerInv'
  BY <1>3 DEF ReadPending, Finish, PendingInv
<1>4. ASSUME NEW r \in Requests, DeletePending(r)
      PROVE  HandlerInv'
  <2>1. holds[r] \in Actions /\ ask[r].slot \in Slots
    BY <1>4, Holding DEF DeletePending
  <2> QED
    BY <1>4, <2>1 DEF DeletePending, Goto, AfterTake, DeletedKey
<1>5. ASSUME NEW r \in Requests, AnswerDecline(r)
      PROVE  HandlerInv'
  <2>1. holds[r] \in Actions /\ ask[r].slot \in Slots
    BY <1>5, Holding DEF AnswerDecline
  <2> QED
    BY <1>5, <2>1 DEF AnswerDecline, Tell, Finish
<1>6. ASSUME NEW r \in Requests, SetGuard(r)
      PROVE  HandlerInv'
  <2>1. holds[r] \in Actions /\ ask[r].slot \in Slots
    BY <1>6, Holding DEF SetGuard
  <2> QED
    BY <1>6, <2>1 DEF SetGuard, FirstStep, GuardFree
<1>7. ASSUME NEW r \in Requests, AnswerConflict(r)
      PROVE  HandlerInv'
  <2>1. holds[r] \in Actions /\ ask[r].slot \in Slots
    BY <1>7, Holding DEF AnswerConflict
  <2> QED
    BY <1>7, <2>1 DEF AnswerConflict, Tell, Finish
<1>8. ASSUME NEW r \in Requests, GuardResent(r)
      PROVE  HandlerInv'
  <2>1. holds[r] \in Actions /\ ask[r].slot \in Slots
    BY <1>8, Holding DEF GuardResent
  <2> QED
    BY <1>8, <2>1 DEF GuardResent, Tell, Finish, GuardFree
<1>9. ASSUME NEW r \in Requests, CoreSend(r)
      PROVE  HandlerInv'
  <2>1. holds[r] \in Actions /\ ask[r].slot \in Slots
    BY <1>9, Holding DEF CoreSend
  <2> QED
    BY <1>9, <2>1 DEF CoreSend, Goto
<1>10. ASSUME NEW a \in Actions, BackendExecutes(a)
      PROVE  HandlerInv'
  BY <1>10 DEF BackendExecutes
<1>11. ASSUME NEW a \in Actions, BackendRefuses(a)
      PROVE  HandlerInv'
  BY <1>11 DEF BackendRefuses
<1>12. ASSUME NEW r \in Requests, CoreReply(r)
      PROVE  HandlerInv'
  <2>1. holds[r] \in Actions /\ ask[r].slot \in Slots
    BY <1>12, Holding DEF CoreReply
  <2> QED
    BY <1>12, <2>1 DEF CoreReply, Goto, ReplyOk
<1>13. ASSUME NEW r \in Requests, CoreFails(r)
      PROVE  HandlerInv'
  <2>1. holds[r] \in Actions /\ ask[r].slot \in Slots
    BY <1>13, Holding DEF CoreFails
  <2> QED
    BY <1>13, <2>1 DEF CoreFails, Tell, Finish
<1>14. ASSUME NEW r \in Requests, NEW n \in Nat, CountRefundBy(r, n)
      PROVE  HandlerInv'
  <2>1. holds[r] \in Actions /\ ask[r].slot \in Slots
    BY <1>14, Holding DEF CountRefundBy
  <2> QED
    BY <1>14, <2>1 DEF CountRefundBy
<1>15. ASSUME NEW r \in Requests, ExpireCounter(r)
      PROVE  HandlerInv'
  <2>1. holds[r] \in Actions /\ ask[r].slot \in Slots
    BY <1>15, Holding DEF ExpireCounter
  <2> QED
    BY <1>15, <2>1 DEF ExpireCounter, Goto
<1>16. ASSUME NEW r \in Requests, CreateTicket(r)
      PROVE  HandlerInv'
  <2>1. holds[r] \in Actions /\ ask[r].slot \in Slots
    BY <1>16, Holding DEF CreateTicket
  <2> QED
    BY <1>16, <2>1 DEF CreateTicket, Goto, OneMoreTicket
<1>17. ASSUME NEW r \in Requests, QueueRefund(r)
      PROVE  HandlerInv'
  <2>1. holds[r] \in Actions /\ ask[r].slot \in Slots
    BY <1>17, Holding DEF QueueRefund
  <2> QED
    BY <1>17, <2>1 DEF QueueRefund, Goto, UserOf
<1>18. ASSUME NEW r \in Requests, LogCommit(r)
      PROVE  HandlerInv'
  <2>1. holds[r] \in Actions /\ ask[r].slot \in Slots
    BY <1>18, Holding DEF LogCommit
  <2> QED
    BY <1>18, <2>1 DEF LogCommit, Tell, Finish
<1>19. ASSUME NEW r \in Requests, Abort(r)
      PROVE  HandlerInv'
  BY <1>19 DEF Abort, Finish
<1>20. ASSUME Tick
      PROVE  HandlerInv'
  BY <1>20 DEF Tick, BeforeGuard
<1>21. ASSUME NextDay
      PROVE  HandlerInv'
  BY <1>21 DEF NextDay
<1>22. ASSUME UNCHANGED vars PROVE HandlerInv'
  BY <1>22 DEF vars
<1> HIDE DEF TypeOK, HandlerInv
<1>23. ASSUME NEW r \in Requests, CountRefund(r) \/ CountResent(r) PROVE HandlerInv'
  BY <1>14, <1>23 DEF CountRefund, CountResent
<1> QED
  BY <1>1, <1>2, <1>3, <1>4, <1>5, <1>6, <1>7, <1>8, <1>9, <1>10, <1>11, <1>12, <1>13,
     <1>15, <1>16, <1>17, <1>18, <1>19, <1>20, <1>21, <1>22, <1>23
     DEF Next, Step, Fault

\* An action still in Redis stays undecided: DEL comes before anything is answered
\* or committed, and a key that expires or is overwritten never comes back.
LEMMA PendingInvStep ==
    TypeOK /\ HandlerInv /\ PendingInv /\ FreshInv /\ [Next]_vars => PendingInv'
<1> SUFFICES ASSUME TypeOK, HandlerInv, PendingInv, FreshInv, [Next]_vars PROVE PendingInv'
  OBVIOUS
<1> USE DEF PendingInv, TypeOK, PC, Decisions, Asks, NoAsk, redisVars, storeVars,
       handlerVars, historyVars
<1>1. ASSUME NEW s \in Slots, NEW a \in Actions, OfferCard(s, a)
      PROVE  PendingInv'
  BY <1>1 DEF OfferCard, HandlerInv, FreshInv
<1>2. ASSUME NEW r \in Requests, NEW s \in Slots, NEW d \in Decisions, Arrive(r, s, d)
      PROVE  PendingInv'
  BY <1>2 DEF Arrive
<1>3. ASSUME NEW r \in Requests, ReadPending(r)
      PROVE  PendingInv'
  <2>1. CASE pending[ask[r].slot] = NoAction
    <3>1. Finish(r) /\ UNCHANGED <<pending, told, commits, issued>>
      BY <1>3, <2>1 DEF ReadPending
    <3> QED
      BY <3>1 DEF Finish
  <2>2. CASE pending[ask[r].slot] # NoAction
    <3>1. ask[r].slot \in Slots
      BY <1>3 DEF ReadPending, HandlerInv
    <3>2. pending[ask[r].slot] \in Actions
      BY <2>2, <3>1
    <3>3. /\ pc' = [pc EXCEPT ![r] = "del"]
          /\ holds' = [holds EXCEPT ![r] = pending[ask[r].slot]]
          /\ UNCHANGED <<ask, pending, told, commits, issued>>
      BY <1>3, <2>2 DEF ReadPending
    <3> QED
      BY <3>1, <3>2, <3>3
  <2> QED
    BY <2>1, <2>2
<1>4. ASSUME NEW r \in Requests, DeletePending(r)
      PROVE  PendingInv'
  <2>1. holds[r] \in Actions /\ ask[r].slot \in Slots
    BY <1>4, Holding DEF DeletePending
  <2> QED
    BY <1>4, <2>1 DEF DeletePending, Goto, AfterTake, DeletedKey
<1>5. ASSUME NEW r \in Requests, AnswerDecline(r)
      PROVE  PendingInv'
  <2>1. holds[r] \in Actions /\ ask[r].slot \in Slots
    BY <1>5, Holding DEF AnswerDecline
  <2> QED
    BY <1>5, <2>1 DEF AnswerDecline, Tell, Finish
<1>6. ASSUME NEW r \in Requests, SetGuard(r)
      PROVE  PendingInv'
  <2>1. holds[r] \in Actions /\ ask[r].slot \in Slots
    BY <1>6, Holding DEF SetGuard
  <2> QED
    BY <1>6, <2>1 DEF SetGuard, FirstStep, GuardFree
<1>7. ASSUME NEW r \in Requests, AnswerConflict(r)
      PROVE  PendingInv'
  <2>1. holds[r] \in Actions /\ ask[r].slot \in Slots
    BY <1>7, Holding DEF AnswerConflict
  <2> QED
    BY <1>7, <2>1 DEF AnswerConflict, Tell, Finish
<1>8. ASSUME NEW r \in Requests, GuardResent(r)
      PROVE  PendingInv'
  <2>1. holds[r] \in Actions /\ ask[r].slot \in Slots
    BY <1>8, Holding DEF GuardResent
  <2> QED
    BY <1>8, <2>1 DEF GuardResent, Tell, Finish, GuardFree
<1>9. ASSUME NEW r \in Requests, CoreSend(r)
      PROVE  PendingInv'
  <2>1. holds[r] \in Actions /\ ask[r].slot \in Slots
    BY <1>9, Holding DEF CoreSend
  <2> QED
    BY <1>9, <2>1 DEF CoreSend, Goto
<1>10. ASSUME NEW a \in Actions, BackendExecutes(a)
      PROVE  PendingInv'
  BY <1>10 DEF BackendExecutes
<1>11. ASSUME NEW a \in Actions, BackendRefuses(a)
      PROVE  PendingInv'
  BY <1>11 DEF BackendRefuses
<1>12. ASSUME NEW r \in Requests, CoreReply(r)
      PROVE  PendingInv'
  <2>1. holds[r] \in Actions /\ ask[r].slot \in Slots
    BY <1>12, Holding DEF CoreReply
  <2> QED
    BY <1>12, <2>1 DEF CoreReply, Goto, ReplyOk
<1>13. ASSUME NEW r \in Requests, CoreFails(r)
      PROVE  PendingInv'
  <2>1. holds[r] \in Actions /\ ask[r].slot \in Slots
    BY <1>13, Holding DEF CoreFails
  <2> QED
    BY <1>13, <2>1 DEF CoreFails, Tell, Finish
<1>14. ASSUME NEW r \in Requests, NEW n \in Nat, CountRefundBy(r, n)
      PROVE  PendingInv'
  <2>1. holds[r] \in Actions /\ ask[r].slot \in Slots
    BY <1>14, Holding DEF CountRefundBy
  <2> QED
    BY <1>14, <2>1 DEF CountRefundBy
<1>15. ASSUME NEW r \in Requests, ExpireCounter(r)
      PROVE  PendingInv'
  <2>1. holds[r] \in Actions /\ ask[r].slot \in Slots
    BY <1>15, Holding DEF ExpireCounter
  <2> QED
    BY <1>15, <2>1 DEF ExpireCounter, Goto
<1>16. ASSUME NEW r \in Requests, CreateTicket(r)
      PROVE  PendingInv'
  <2>1. holds[r] \in Actions /\ ask[r].slot \in Slots
    BY <1>16, Holding DEF CreateTicket
  <2> QED
    BY <1>16, <2>1 DEF CreateTicket, Goto, OneMoreTicket
<1>17. ASSUME NEW r \in Requests, QueueRefund(r)
      PROVE  PendingInv'
  <2>1. holds[r] \in Actions /\ ask[r].slot \in Slots
    BY <1>17, Holding DEF QueueRefund
  <2> QED
    BY <1>17, <2>1 DEF QueueRefund, Goto, UserOf
<1>18. ASSUME NEW r \in Requests, LogCommit(r)
      PROVE  PendingInv'
  <2>1. holds[r] \in Actions /\ ask[r].slot \in Slots
    BY <1>18, Holding DEF LogCommit
  <2> QED
    BY <1>18, <2>1 DEF LogCommit, Tell, Finish
<1>19. ASSUME NEW r \in Requests, Abort(r)
      PROVE  PendingInv'
  BY <1>19 DEF Abort, Finish
<1>20. ASSUME Tick
      PROVE  PendingInv'
  BY <1>20 DEF Tick, BeforeGuard
<1>21. ASSUME NextDay
      PROVE  PendingInv'
  BY <1>21 DEF NextDay
<1>22. ASSUME UNCHANGED vars PROVE PendingInv'
  BY <1>22 DEF vars
<1> HIDE DEF TypeOK, PendingInv
<1>23. ASSUME NEW r \in Requests, CountRefund(r) \/ CountResent(r) PROVE PendingInv'
  BY <1>14, <1>23 DEF CountRefund, CountResent
<1> QED
  BY <1>1, <1>2, <1>3, <1>4, <1>5, <1>6, <1>7, <1>8, <1>9, <1>10, <1>11, <1>12, <1>13,
     <1>15, <1>16, <1>17, <1>18, <1>19, <1>20, <1>21, <1>22, <1>23
     DEF Next, Step, Fault

\* Nothing is answered or committed about an action no card was saved for.
LEMMA FreshInvStep == TypeOK /\ HandlerInv /\ FreshInv /\ [Next]_vars => FreshInv'
<1> SUFFICES ASSUME TypeOK, HandlerInv, FreshInv, [Next]_vars PROVE FreshInv'
  OBVIOUS
\* Only a handler that holds an action changes what is told or committed, and
\* handlers hold issued actions.
<1>1. ASSUME NEW r \in Requests, pc[r] \notin {"idle", "get"}, issued' = issued,
             \A a \in Actions \ {holds[r]} : told'[a] = told[a] /\ commits'[a] = commits[a]
      PROVE  FreshInv'
  <2>1. holds[r] \in issued
    BY <1>1, Holding DEF HandlerInv
  <2> QED
    BY <1>1, <2>1 DEF FreshInv
<1>2. ASSUME issued \subseteq issued', UNCHANGED <<told, commits>> PROVE FreshInv'
  BY <1>2 DEF FreshInv
<1> HIDE DEF FreshInv
<1>3. ASSUME NEW r \in Requests, SetGuard(r) PROVE FreshInv'
  BY <1>1, <1>3 DEF SetGuard, storeVars, TypeOK
<1>4. ASSUME NEW r \in Requests,
             \/ AnswerDecline(r) \/ AnswerConflict(r) \/ GuardResent(r)
             \/ CoreFails(r) \/ LogCommit(r)
      PROVE  FreshInv'
  BY <1>1, <1>4 DEF AnswerDecline, AnswerConflict, GuardResent, CoreFails, LogCommit, Tell,
     historyVars, TypeOK
<1>5. ASSUME NEW r \in Requests,
             \/ ReadPending(r) \/ DeletePending(r) \/ CoreSend(r) \/ CoreReply(r)
             \/ CountRefund(r) \/ CountResent(r) \/ ExpireCounter(r) \/ CreateTicket(r)
             \/ QueueRefund(r) \/ Abort(r)
      PROVE  FreshInv'
  BY <1>2, <1>5 DEF ReadPending, DeletePending, CoreSend, CoreReply, CountRefund,
     CountResent, CountRefundBy, ExpireCounter, CreateTicket, QueueRefund, Abort,
     storeVars, historyVars
<1>6. ASSUME NEW a \in Actions, BackendExecutes(a) \/ BackendRefuses(a) PROVE FreshInv'
  BY <1>2, <1>6 DEF BackendExecutes, BackendRefuses, storeVars, historyVars
<1>7. ASSUME Tick \/ NextDay \/ UNCHANGED vars PROVE FreshInv'
  BY <1>2, <1>7 DEF Tick, NextDay, vars, storeVars, historyVars
<1>8. ASSUME NEW s \in Slots, NEW a \in Actions, OfferCard(s, a) PROVE FreshInv'
  BY <1>2, <1>8 DEF OfferCard, storeVars
<1>9. ASSUME NEW r \in Requests, NEW s \in Slots, NEW d \in Decisions, Arrive(r, s, d)
       PROVE  FreshInv'
  BY <1>2, <1>9 DEF Arrive, storeVars, historyVars
<1> QED
  BY <1>3, <1>4, <1>5, <1>6, <1>7, <1>8, <1>9 DEF Next, Step, Fault

\* The guard of a commit outlives the handlers that read the card before it: its
\* TTL and their age add up to IdemTtl at least, and Tick moves both by one.
LEMMA GuardInvStep ==
    TypeOK /\ HandlerInv /\ PendingInv /\ GuardInv /\ [Next]_vars => GuardInv'
<1> SUFFICES ASSUME TypeOK, HandlerInv, PendingInv, GuardInv, [Next]_vars PROVE GuardInv'
  OBVIOUS
<1> USE DEF GuardInv, BeforeGuard, HandlerInv, TypeOK, PC, Decisions, Asks, NoAsk,
       redisVars, storeVars, handlerVars, historyVars
<1>1. ASSUME NEW s \in Slots, NEW a \in Actions, OfferCard(s, a)
      PROVE  GuardInv'
  BY <1>1 DEF OfferCard
<1>2. ASSUME NEW r \in Requests, NEW s \in Slots, NEW d \in Decisions, Arrive(r, s, d)
      PROVE  GuardInv'
  BY <1>2 DEF Arrive
<1>3. ASSUME NEW r \in Requests, ReadPending(r)
      PROVE  GuardInv'
  BY <1>3 DEF ReadPending, Finish, PendingInv
<1>4. ASSUME NEW r \in Requests, DeletePending(r)
      PROVE  GuardInv'
  <2>1. holds[r] \in Actions /\ ask[r].slot \in Slots
    BY <1>4, Holding DEF DeletePending
  <2> QED
    BY <1>4, <2>1 DEF DeletePending, Goto, AfterTake, DeletedKey
<1>5. ASSUME NEW r \in Requests, AnswerDecline(r)
      PROVE  GuardInv'
  <2>1. holds[r] \in Actions /\ ask[r].slot \in Slots
    BY <1>5, Holding DEF AnswerDecline
  <2> QED
    BY <1>5, <2>1 DEF AnswerDecline, Tell, Finish
<1>6. ASSUME NEW r \in Requests, SetGuard(r)
      PROVE  GuardInv'
  <2>1. holds[r] \in Actions
    BY <1>6, Holding DEF SetGuard
  <2>2. commits[holds[r]] = 0
    <3>1. guard[holds[r]] = 0 /\ BeforeGuard(r)
      BY <1>6 DEF SetGuard, GuardFree
    <3> QED
      BY <2>1, <3>1, GuardOutlivesReaders
  <2>3. \A q \in Requests : age'[q] \in Nat
    BY <1>6 DEF SetGuard
  <2>4. /\ guard' = [guard EXCEPT ![holds[r]] = IdemTtl]
        /\ commits' = [commits EXCEPT ![holds[r]] = @ + 1]
        /\ pc' = [pc EXCEPT ![r] = FirstStep(holds[r])]
        /\ age' = [age EXCEPT ![r] = 0]
        /\ holds' = holds
    BY <1>6 DEF SetGuard
  <2>5. \A a \in Actions : commits'[a] <= 1
    BY <2>1, <2>2, <2>4
  <2>6. ASSUME NEW q \in Requests, BeforeGuard(q)', commits'[holds'[q]] > 0
        PROVE  guard'[holds'[q]] + age'[q] >= IdemTtl
    <3>1. q # r
      BY <2>4, <2>6 DEF FirstStep
    <3>2. CASE holds[q] = holds[r]
      BY <2>1, <2>3, <2>4, <3>2
    <3>3. CASE holds[q] # holds[r]
      BY <2>1, <2>4, <2>6, <3>1, <3>3
    <3> QED
      BY <3>2, <3>3
  <2> QED
    BY <2>5, <2>6
<1>7. ASSUME NEW r \in Requests, AnswerConflict(r)
      PROVE  GuardInv'
  <2>1. holds[r] \in Actions /\ ask[r].slot \in Slots
    BY <1>7, Holding DEF AnswerConflict
  <2> QED
    BY <1>7, <2>1 DEF AnswerConflict, Tell, Finish
<1>8. ASSUME NEW r \in Requests, GuardResent(r)
      PROVE  GuardInv'
  <2>1. holds[r] \in Actions /\ ask[r].slot \in Slots
    BY <1>8, Holding DEF GuardResent
  <2> QED
    BY <1>8, <2>1 DEF GuardResent, Tell, Finish, GuardFree
<1>9. ASSUME NEW r \in Requests, CoreSend(r)
      PROVE  GuardInv'
  <2>1. holds[r] \in Actions /\ ask[r].slot \in Slots
    BY <1>9, Holding DEF CoreSend
  <2> QED
    BY <1>9, <2>1 DEF CoreSend, Goto
<1>10. ASSUME NEW a \in Actions, BackendExecutes(a)
      PROVE  GuardInv'
  BY <1>10 DEF BackendExecutes
<1>11. ASSUME NEW a \in Actions, BackendRefuses(a)
      PROVE  GuardInv'
  BY <1>11 DEF BackendRefuses
<1>12. ASSUME NEW r \in Requests, CoreReply(r)
      PROVE  GuardInv'
  <2>1. holds[r] \in Actions /\ ask[r].slot \in Slots
    BY <1>12, Holding DEF CoreReply
  <2> QED
    BY <1>12, <2>1 DEF CoreReply, Goto, ReplyOk
<1>13. ASSUME NEW r \in Requests, CoreFails(r)
      PROVE  GuardInv'
  <2>1. holds[r] \in Actions /\ ask[r].slot \in Slots
    BY <1>13, Holding DEF CoreFails
  <2> QED
    BY <1>13, <2>1 DEF CoreFails, Tell, Finish
<1>14. ASSUME NEW r \in Requests, NEW n \in Nat, CountRefundBy(r, n)
      PROVE  GuardInv'
  <2>1. holds[r] \in Actions /\ ask[r].slot \in Slots
    BY <1>14, Holding DEF CountRefundBy
  <2> QED
    BY <1>14, <2>1 DEF CountRefundBy
<1>15. ASSUME NEW r \in Requests, ExpireCounter(r)
      PROVE  GuardInv'
  <2>1. holds[r] \in Actions /\ ask[r].slot \in Slots
    BY <1>15, Holding DEF ExpireCounter
  <2> QED
    BY <1>15, <2>1 DEF ExpireCounter, Goto
<1>16. ASSUME NEW r \in Requests, CreateTicket(r)
      PROVE  GuardInv'
  <2>1. holds[r] \in Actions /\ ask[r].slot \in Slots
    BY <1>16, Holding DEF CreateTicket
  <2> QED
    BY <1>16, <2>1 DEF CreateTicket, Goto, OneMoreTicket
<1>17. ASSUME NEW r \in Requests, QueueRefund(r)
      PROVE  GuardInv'
  <2>1. holds[r] \in Actions /\ ask[r].slot \in Slots
    BY <1>17, Holding DEF QueueRefund
  <2> QED
    BY <1>17, <2>1 DEF QueueRefund, Goto, UserOf
<1>18. ASSUME NEW r \in Requests, LogCommit(r)
      PROVE  GuardInv'
  <2>1. holds[r] \in Actions /\ ask[r].slot \in Slots
    BY <1>18, Holding DEF LogCommit
  <2> QED
    BY <1>18, <2>1 DEF LogCommit, Tell, Finish
<1>19. ASSUME NEW r \in Requests, Abort(r)
      PROVE  GuardInv'
  BY <1>19 DEF Abort, Finish
<1>20. ASSUME Tick
      PROVE  GuardInv'
  BY <1>20 DEF Tick, BeforeGuard
<1>21. ASSUME NextDay
      PROVE  GuardInv'
  BY <1>21 DEF NextDay
<1>22. ASSUME UNCHANGED vars PROVE GuardInv'
  BY <1>22 DEF vars
<1> HIDE DEF TypeOK, GuardInv
<1>23. ASSUME NEW r \in Requests, CountRefund(r) \/ CountResent(r) PROVE GuardInv'
  BY <1>14, <1>23 DEF CountRefund, CountResent
<1> QED
  BY <1>1, <1>2, <1>3, <1>4, <1>5, <1>6, <1>7, <1>8, <1>9, <1>10, <1>11, <1>12, <1>13,
     <1>15, <1>16, <1>17, <1>18, <1>19, <1>20, <1>21, <1>22, <1>23
     DEF Next, Step, Fault

\* SET NX lets one handler through: a second one that reaches its SET NX finds the
\* guard of the first (GuardOutlivesReaders).
LEMMA WinnerInvStep ==
    TypeOK /\ HandlerInv /\ GuardInv /\ WinnerInv /\ [Next]_vars => WinnerInv'
<1> SUFFICES ASSUME TypeOK, HandlerInv, GuardInv, WinnerInv, [Next]_vars PROVE WinnerInv'
  OBVIOUS
<1> USE DEF WinnerInv, PastGuard, HandlerInv, TypeOK, PC, Decisions, Asks, NoAsk,
       redisVars, storeVars, handlerVars, historyVars
<1>1. ASSUME NEW s \in Slots, NEW a \in Actions, OfferCard(s, a)
      PROVE  WinnerInv'
  BY <1>1 DEF OfferCard
<1>2. ASSUME NEW r \in Requests, NEW s \in Slots, NEW d \in Decisions, Arrive(r, s, d)
      PROVE  WinnerInv'
  BY <1>2 DEF Arrive
<1>3. ASSUME NEW r \in Requests, ReadPending(r)
      PROVE  WinnerInv'
  BY <1>3, SMTT(30) DEF ReadPending, Finish
<1>4. ASSUME NEW r \in Requests, DeletePending(r)
      PROVE  WinnerInv'
  <2>1. holds[r] \in Actions /\ ask[r].slot \in Slots
    BY <1>4, Holding DEF DeletePending
  <2> QED
    BY <1>4, <2>1 DEF DeletePending, Goto, AfterTake, DeletedKey
<1>5. ASSUME NEW r \in Requests, AnswerDecline(r)
      PROVE  WinnerInv'
  <2>1. holds[r] \in Actions /\ ask[r].slot \in Slots
    BY <1>5, Holding DEF AnswerDecline
  <2> QED
    BY <1>5, <2>1 DEF AnswerDecline, Tell, Finish
<1>6. ASSUME NEW r \in Requests, SetGuard(r)
      PROVE  WinnerInv'
  <2>1. holds[r] \in Actions /\ ask[r].slot \in Slots
    BY <1>6, Holding DEF SetGuard
  <2> QED
    BY <1>6, <2>1, SMTT(30) DEF SetGuard, FirstStep, GuardFree, GuardInv, BeforeGuard
<1>7. ASSUME NEW r \in Requests, AnswerConflict(r)
      PROVE  WinnerInv'
  <2>1. holds[r] \in Actions /\ ask[r].slot \in Slots
    BY <1>7, Holding DEF AnswerConflict
  <2> QED
    BY <1>7, <2>1 DEF AnswerConflict, Tell, Finish
<1>8. ASSUME NEW r \in Requests, GuardResent(r)
      PROVE  WinnerInv'
  <2>1. holds[r] \in Actions /\ ask[r].slot \in Slots
    BY <1>8, Holding DEF GuardResent
  <2> QED
    BY <1>8, <2>1 DEF GuardResent, Tell, Finish, GuardFree
<1>9. ASSUME NEW r \in Requests, CoreSend(r)
      PROVE  WinnerInv'
  <2>1. holds[r] \in Actions /\ ask[r].slot \in Slots
    BY <1>9, Holding DEF CoreSend
  <2> QED
    BY <1>9, <2>1 DEF CoreSend, Goto
<1>10. ASSUME NEW a \in Actions, BackendExecutes(a)
      PROVE  WinnerInv'
  BY <1>10 DEF BackendExecutes
<1>11. ASSUME NEW a \in Actions, BackendRefuses(a)
      PROVE  WinnerInv'
  BY <1>11 DEF BackendRefuses
<1>12. ASSUME NEW r \in Requests, CoreReply(r)
      PROVE  WinnerInv'
  <2>1. holds[r] \in Actions /\ ask[r].slot \in Slots
    BY <1>12, Holding DEF CoreReply
  <2> QED
    BY <1>12, <2>1 DEF CoreReply, Goto, ReplyOk
<1>13. ASSUME NEW r \in Requests, CoreFails(r)
      PROVE  WinnerInv'
  <2>1. holds[r] \in Actions /\ ask[r].slot \in Slots
    BY <1>13, Holding DEF CoreFails
  <2> QED
    BY <1>13, <2>1 DEF CoreFails, Tell, Finish
<1>14. ASSUME NEW r \in Requests, NEW n \in Nat, CountRefundBy(r, n)
      PROVE  WinnerInv'
  <2>1. holds[r] \in Actions /\ ask[r].slot \in Slots
    BY <1>14, Holding DEF CountRefundBy
  <2> QED
    BY <1>14, <2>1 DEF CountRefundBy
<1>15. ASSUME NEW r \in Requests, ExpireCounter(r)
      PROVE  WinnerInv'
  <2>1. holds[r] \in Actions /\ ask[r].slot \in Slots
    BY <1>15, Holding DEF ExpireCounter
  <2> QED
    BY <1>15, <2>1 DEF ExpireCounter, Goto
<1>16. ASSUME NEW r \in Requests, CreateTicket(r)
      PROVE  WinnerInv'
  <2>1. holds[r] \in Actions /\ ask[r].slot \in Slots
    BY <1>16, Holding DEF CreateTicket
  <2> QED
    BY <1>16, <2>1 DEF CreateTicket, Goto, OneMoreTicket
<1>17. ASSUME NEW r \in Requests, QueueRefund(r)
      PROVE  WinnerInv'
  <2>1. holds[r] \in Actions /\ ask[r].slot \in Slots
    BY <1>17, Holding DEF QueueRefund
  <2> QED
    BY <1>17, <2>1 DEF QueueRefund, Goto, UserOf
<1>18. ASSUME NEW r \in Requests, LogCommit(r)
      PROVE  WinnerInv'
  <2>1. holds[r] \in Actions /\ ask[r].slot \in Slots
    BY <1>18, Holding DEF LogCommit
  <2> QED
    BY <1>18, <2>1 DEF LogCommit, Tell, Finish
<1>19. ASSUME NEW r \in Requests, Abort(r)
      PROVE  WinnerInv'
  BY <1>19 DEF Abort, Finish
<1>20. ASSUME Tick
      PROVE  WinnerInv'
  BY <1>20 DEF Tick, BeforeGuard
<1>21. ASSUME NextDay
      PROVE  WinnerInv'
  BY <1>21 DEF NextDay
<1>22. ASSUME UNCHANGED vars PROVE WinnerInv'
  BY <1>22 DEF vars
<1> HIDE DEF TypeOK, WinnerInv
<1>23. ASSUME NEW r \in Requests, CountRefund(r) \/ CountResent(r) PROVE WinnerInv'
  BY <1>14, <1>23 DEF CountRefund, CountResent
<1> QED
  BY <1>1, <1>2, <1>3, <1>4, <1>5, <1>6, <1>7, <1>8, <1>9, <1>10, <1>11, <1>12, <1>13,
     <1>15, <1>16, <1>17, <1>18, <1>19, <1>20, <1>21, <1>22, <1>23
     DEF Next, Step, Fault

\* What the steps after the guard leave behind is not disturbed by other handlers,
\* because none of them is past the guard of the same action (WinnerInv).
LEMMA EffectInvStep ==
    TypeOK /\ HandlerInv /\ GuardInv /\ WinnerInv /\ EffectInv /\ [Next]_vars => EffectInv'
<1> SUFFICES ASSUME TypeOK, HandlerInv, GuardInv, WinnerInv, EffectInv, [Next]_vars
             PROVE  EffectInv'
  OBVIOUS
<1> USE DEF EffectInv, WinnerInv, HandlerInv, PastGuard, TypeOK, PC, Decisions, Asks,
       NoAsk, redisVars, storeVars, handlerVars, historyVars
<1>1. ASSUME NEW s \in Slots, NEW a \in Actions, OfferCard(s, a)
      PROVE  EffectInv'
  BY <1>1 DEF OfferCard
<1>2. ASSUME NEW r \in Requests, NEW s \in Slots, NEW d \in Decisions, Arrive(r, s, d)
      PROVE  EffectInv'
  BY <1>2 DEF Arrive
<1>3. ASSUME NEW r \in Requests, ReadPending(r)
      PROVE  EffectInv'
  BY <1>3, SMTT(30) DEF ReadPending, Finish
<1>4. ASSUME NEW r \in Requests, DeletePending(r)
      PROVE  EffectInv'
  <2>1. holds[r] \in Actions /\ ask[r].slot \in Slots
    BY <1>4, Holding DEF DeletePending
  <2> QED
    BY <1>4, <2>1 DEF DeletePending, Goto, AfterTake, DeletedKey
<1>5. ASSUME NEW r \in Requests, AnswerDecline(r)
      PROVE  EffectInv'
  <2>1. holds[r] \in Actions /\ ask[r].slot \in Slots
    BY <1>5, Holding DEF AnswerDecline
  <2> QED
    BY <1>5, <2>1 DEF AnswerDecline, Tell, Finish
<1>6. ASSUME NEW r \in Requests, SetGuard(r)
      PROVE  EffectInv'
  <2>1. holds[r] \in Actions /\ ask[r].slot \in Slots
    BY <1>6, Holding DEF SetGuard
  <2> QED
    BY <1>6, <2>1 DEF SetGuard, FirstStep, GuardFree, GuardInv, BeforeGuard
<1>7. ASSUME NEW r \in Requests, AnswerConflict(r)
      PROVE  EffectInv'
  <2>1. holds[r] \in Actions /\ ask[r].slot \in Slots
    BY <1>7, Holding DEF AnswerConflict
  <2> QED
    BY <1>7, <2>1 DEF AnswerConflict, Tell, Finish
<1>8. ASSUME NEW r \in Requests, GuardResent(r)
      PROVE  EffectInv'
  <2>1. holds[r] \in Actions /\ ask[r].slot \in Slots
    BY <1>8, Holding DEF GuardResent
  <2> QED
    BY <1>8, <2>1 DEF GuardResent, Tell, Finish, GuardFree
<1>9. ASSUME NEW r \in Requests, CoreSend(r)
      PROVE  EffectInv'
  <2>1. holds[r] \in Actions /\ ask[r].slot \in Slots
    BY <1>9, Holding DEF CoreSend
  <2> QED
    BY <1>9, <2>1 DEF CoreSend, Goto
<1>10. ASSUME NEW a \in Actions, BackendExecutes(a)
      PROVE  EffectInv'
  BY <1>10 DEF BackendExecutes
<1>11. ASSUME NEW a \in Actions, BackendRefuses(a)
      PROVE  EffectInv'
  BY <1>11 DEF BackendRefuses
<1>12. ASSUME NEW r \in Requests, CoreReply(r)
      PROVE  EffectInv'
  <2>1. holds[r] \in Actions /\ ask[r].slot \in Slots
    BY <1>12, Holding DEF CoreReply
  <2> QED
    BY <1>12, <2>1 DEF CoreReply, Goto, ReplyOk
<1>13. ASSUME NEW r \in Requests, CoreFails(r)
      PROVE  EffectInv'
  <2>1. holds[r] \in Actions /\ ask[r].slot \in Slots
    BY <1>13, Holding DEF CoreFails
  <2> QED
    BY <1>13, <2>1 DEF CoreFails, Tell, Finish
<1>14. ASSUME NEW r \in Requests, NEW n \in Nat, CountRefundBy(r, n)
      PROVE  EffectInv'
  <2>1. holds[r] \in Actions /\ ask[r].slot \in Slots
    BY <1>14, Holding DEF CountRefundBy
  <2> QED
    BY <1>14, <2>1 DEF CountRefundBy
<1>15. ASSUME NEW r \in Requests, ExpireCounter(r)
      PROVE  EffectInv'
  <2>1. holds[r] \in Actions /\ ask[r].slot \in Slots
    BY <1>15, Holding DEF ExpireCounter
  <2> QED
    BY <1>15, <2>1 DEF ExpireCounter, Goto
<1>16. ASSUME NEW r \in Requests, CreateTicket(r)
      PROVE  EffectInv'
  <2>1. holds[r] \in Actions /\ ask[r].slot \in Slots
    BY <1>16, Holding DEF CreateTicket
  <2> QED
    BY <1>16, <2>1 DEF CreateTicket, Goto, OneMoreTicket
<1>17. ASSUME NEW r \in Requests, QueueRefund(r)
      PROVE  EffectInv'
  <2>1. /\ holds[r] \in Actions
        /\ KindOf[holds[r]] = "refund_queue"
        /\ done[holds[r]] = 0
        /\ tickets[holds[r]] > 0
        /\ commits[holds[r]] = 1
        /\ taken[holds[r]]["accept"] > 0
    BY <1>17, Holding DEF QueueRefund
  \* Nobody else is past the guard of this action.
  <2>2. \A q \in Requests : q # r /\ pc[q] \in PastGuard => holds[q] # holds[r]
    BY <1>17 DEF QueueRefund
  <2>3. /\ done' = [done EXCEPT ![holds[r]] = @ + 1]
        /\ pc' = [pc EXCEPT ![r] = "log"]
        /\ refunds \subseteq refunds'
        /\ \E row \in refunds' : row.action = holds[r]
        /\ UNCHANGED <<core, tickets, commits, taken, holds>>
    <3> DEFINE new == [action |-> holds[r], user |-> UserOf(r), day |-> stamp[r].day]
    <3>1. refunds' = refunds \cup {new}
      BY <1>17 DEF QueueRefund
    <3>2. new.action = holds[r]
      OBVIOUS
    <3> HIDE DEF new
    <3> QED
      BY <1>17, <3>1, <3>2 DEF QueueRefund, Goto
  <2>4. \A b \in Actions :
          /\ core'[b] # "none" => commits'[b] = 1 /\ KindOf[b] = "core"
          /\ core'[b] # "none" => taken'[b]["accept"] > 0
          /\ done'[b] <= 1
          /\ done'[b] > 0 => commits'[b] = 1 /\ taken'[b]["accept"] > 0
          /\ KindOf[b] = "core" /\ core'[b] # "executed" => done'[b] = 0
    BY <2>1, <2>3
  <2>5. ASSUME NEW q \in Requests
        PROVE  /\ pc'[q] = "core" => core'[holds'[q]] = "none"
               /\ pc'[q] = "await" => core'[holds'[q]] # "none"
               /\ pc'[q] = "await" /\ core'[holds'[q]] = "executed" => done'[holds'[q]] = 1
               /\ pc'[q] \in {"count", "expire", "ticket", "queue"} => done'[holds'[q]] = 0
               /\ pc'[q] = "queue" => tickets'[holds'[q]] > 0
               /\ pc'[q] = "log" =>
                    /\ done'[holds'[q]] = 1
                    /\ KindOf[holds'[q]] = "refund_queue" =>
                         /\ tickets'[holds'[q]] > 0
                         /\ \E row \in refunds' : row.action = holds'[q]
    <3>1. CASE q = r
      BY <2>1, <2>3, <3>1
    <3>2. CASE q # r
      BY <2>1, <2>2, <2>3, <3>2
    <3> QED
      BY <3>1, <3>2
  <2> QED
    BY <2>4, <2>5
<1>18. ASSUME NEW r \in Requests, LogCommit(r)
      PROVE  EffectInv'
  <2>1. holds[r] \in Actions /\ ask[r].slot \in Slots
    BY <1>18, Holding DEF LogCommit
  <2> QED
    BY <1>18, <2>1 DEF LogCommit, Tell, Finish
<1>19. ASSUME NEW r \in Requests, Abort(r)
      PROVE  EffectInv'
  BY <1>19 DEF Abort, Finish
<1>20. ASSUME Tick
      PROVE  EffectInv'
  BY <1>20 DEF Tick, BeforeGuard
<1>21. ASSUME NextDay
      PROVE  EffectInv'
  BY <1>21 DEF NextDay
<1>22. ASSUME UNCHANGED vars PROVE EffectInv'
  BY <1>22 DEF vars
<1> HIDE DEF TypeOK, EffectInv
<1>23. ASSUME NEW r \in Requests, CountRefund(r) \/ CountResent(r) PROVE EffectInv'
  BY <1>14, <1>23 DEF CountRefund, CountResent
<1> QED
  BY <1>1, <1>2, <1>3, <1>4, <1>5, <1>6, <1>7, <1>8, <1>9, <1>10, <1>11, <1>12, <1>13,
     <1>15, <1>16, <1>17, <1>18, <1>19, <1>20, <1>21, <1>22, <1>23
     DEF Next, Step, Fault

\* Only createTicket() and the refund insert write to the refund collections.
LEMMA MongoSteps ==
    [Next]_vars => \/ \E r \in Requests : CreateTicket(r) \/ QueueRefund(r)
                   \/ UNCHANGED <<tickets, refunds>>
BY DEF Next, Step, Fault, vars, storeVars, OfferCard, Arrive, ReadPending, DeletePending,
   AnswerDecline, SetGuard, AnswerConflict, GuardResent, CoreSend, BackendExecutes,
   BackendRefuses, CoreReply, CoreFails, CountRefund, CountResent, CountRefundBy,
   ExpireCounter, LogCommit, Abort, Tick, NextDay

\* The answer "committed" is given only after the effect, and the effect stays.
LEMMA CommittedIsDoneStep ==
    TypeOK /\ HandlerInv /\ EffectInv /\ CommittedIsDone /\ [Next]_vars => CommittedIsDone'
<1> SUFFICES ASSUME TypeOK, HandlerInv, EffectInv, CommittedIsDone, [Next]_vars,
                    NEW b \in Actions, "committed" \in told'[b]
             PROVE  /\ done'[b] = 1
                    /\ KindOf[b] = "refund_queue" =>
                          tickets'[b] > 0 /\ \E row \in refunds' : row.action = b
  BY DEF CommittedIsDone
<1> DEFINE Recorded == /\ done[b] = 1
                       /\ KindOf[b] = "refund_queue" =>
                             tickets[b] > 0 /\ \E row \in refunds : row.action = b
\* Rows and tickets are only ever added.
<1>1. refunds \subseteq refunds' /\ (tickets[b] > 0 => tickets'[b] > 0)
  <2>1. ASSUME NEW r \in Requests, CreateTicket(r)
        PROVE  refunds \subseteq refunds' /\ (tickets[b] > 0 => tickets'[b] > 0)
    BY <2>1, Holding DEF CreateTicket, OneMoreTicket, TypeOK
  <2>2. ASSUME NEW r \in Requests, QueueRefund(r)
        PROVE  refunds \subseteq refunds' /\ (tickets[b] > 0 => tickets'[b] > 0)
    BY <2>2 DEF QueueRefund
  <2> QED
    BY <2>1, <2>2, MongoSteps
\* The only answer "committed" is that of LogCommit.
<1>2. "committed" \in told[b] \/ \E r \in Requests : LogCommit(r) /\ holds[r] = b
  <2>1. ASSUME NEW r \in Requests, NEW answer, answer # "committed",
               holds[r] \in Actions, Tell(r, answer)
        PROVE  "committed" \in told[b]
    BY <2>1 DEF Tell, TypeOK
  <2>2. ASSUME NEW r \in Requests, holds[r] \in Actions, LogCommit(r)
        PROVE  "committed" \in told[b] \/ holds[r] = b
    BY <2>2 DEF LogCommit, Tell, TypeOK
  <2>3. \/ \E r \in Requests : /\ pc[r] \in PC \ {"idle", "get"}
                               /\ \/ LogCommit(r)
                                  \/ \E answer \in Answers \ {"committed"} : Tell(r, answer)
        \/ told' = told
    BY DEF Next, Step, Fault, vars, storeVars, PC, Answers, OfferCard, Arrive, ReadPending,
       DeletePending, AnswerDecline, SetGuard, AnswerConflict, GuardResent, CoreSend,
       BackendExecutes, BackendRefuses, CoreReply, CoreFails, CountRefund, CountResent,
       CountRefundBy, ExpireCounter, CreateTicket, QueueRefund, LogCommit, Abort, Tick,
       NextDay
  <2>4. \A r \in Requests : pc[r] \in PC \ {"idle", "get"} => holds[r] \in Actions
    BY Holding
  <2> QED
    BY <2>1, <2>2, <2>3, <2>4
<1>3. Recorded
  BY <1>2 DEF CommittedIsDone, EffectInv, LogCommit
\* What is done is not done again.
<1>4. done[b] = 1 => done'[b] = 1
  <2>1. ASSUME NEW a \in Actions, BackendExecutes(a) PROVE done[b] = 1 => done'[b] = 1
    <3>1. done[a] = 0
      BY <2>1 DEF BackendExecutes, EffectInv
    <3>2. CASE a = b
      BY <3>1, <3>2
    <3>3. CASE a # b
      BY <2>1, <3>3 DEF BackendExecutes, TypeOK
    <3> QED
      BY <3>2, <3>3
  <2>2. ASSUME NEW r \in Requests, QueueRefund(r) PROVE done[b] = 1 => done'[b] = 1
    BY <2>2, Holding DEF QueueRefund, EffectInv, TypeOK
  <2>3. \/ \E a \in Actions : BackendExecutes(a)
        \/ \E r \in Requests : QueueRefund(r)
        \/ done' = done
    BY DEF Next, Step, Fault, vars, historyVars, OfferCard, Arrive, ReadPending,
       DeletePending, AnswerDecline, SetGuard, AnswerConflict, GuardResent, CoreSend,
       BackendRefuses, CoreReply, CoreFails, CountRefund, CountResent, CountRefundBy,
       ExpireCounter, CreateTicket, LogCommit, Abort, Tick, NextDay
  <2> QED
    BY <2>1, <2>2, <2>3
<1> QED
  BY <1>1, <1>3, <1>4

\* commitRefund() creates the ticket before the refund row.
LEMMA RefundHasTicketStep ==
    TypeOK /\ HandlerInv /\ EffectInv /\ RefundHasTicket /\ [Next]_vars => RefundHasTicket'
<1> SUFFICES ASSUME TypeOK, HandlerInv, EffectInv, RefundHasTicket, [Next]_vars
             PROVE  RefundHasTicket'
  OBVIOUS
<1>1. ASSUME NEW r \in Requests, CreateTicket(r) PROVE RefundHasTicket'
  BY <1>1, Holding DEF CreateTicket, OneMoreTicket, RefundHasTicket, TypeOK
<1>2. ASSUME NEW r \in Requests, QueueRefund(r) PROVE RefundHasTicket'
  BY <1>2 DEF QueueRefund, RefundHasTicket, EffectInv
<1>3. ASSUME UNCHANGED <<tickets, refunds>> PROVE RefundHasTicket'
  BY <1>3 DEF RefundHasTicket
<1> QED
  BY <1>1, <1>2, <1>3, MongoSteps

-----------------------------------------------------------------------------
\* Every part of the inductive invariant holds initially.
LEMMA CommitInvInit == Init => CommitInv
<1> SUFFICES ASSUME Init PROVE CommitInv
  OBVIOUS
<1>1. TypeOK
  BY TypeInit
<1>2. HandlerInv /\ PendingInv /\ FreshInv
  BY DEF Init, HandlerInv, PendingInv, FreshInv, PastGuard
<1>3. GuardInv /\ WinnerInv /\ EffectInv
  BY DEF Init, GuardInv, WinnerInv, EffectInv, PastGuard, BeforeGuard
<1>4. CommittedIsDone /\ RefundHasTicket
  BY DEF Init, CommittedIsDone, RefundHasTicket
<1> QED
  BY <1>1, <1>2, <1>3, <1>4 DEF CommitInv

\* No step breaks any part of the inductive invariant.
LEMMA CommitInvStep == CommitInv /\ [Next]_vars => CommitInv'
BY TypeStep, HandlerInvStep, PendingInvStep, FreshInvStep, GuardInvStep,
   WinnerInvStep, EffectInvStep, CommittedIsDoneStep, RefundHasTicketStep
   DEF CommitInv

\* The parts of CommitInv hold together in every reachable state.
THEOREM CommitInvariant == Spec => []CommitInv
<1>1. Init => CommitInv
  BY CommitInvInit
<1>2. CommitInv /\ [Next]_vars => CommitInv'
  BY CommitInvStep
<1> QED
  BY <1>1, <1>2, PTL DEF Spec

\* The state of the gate stays in its types, whatever the sets and TTLs.
THEOREM TypeCorrect == Spec => []TypeOK
<1>1. CommitInv => TypeOK
  BY DEF CommitInv
<1> QED
  BY <1>1, CommitInvariant, PTL

\* Whatever confirms race, are replayed or die, an action takes effect at most
\* once: the SET NX guard of commit() outlives every handler that read the card.
THEOREM EffectAtMostOnce == Spec => []AtMostOnce
<1>1. CommitInv => AtMostOnce
  BY DEF CommitInv, EffectInv, AtMostOnce
<1> QED
  BY <1>1, CommitInvariant, PTL

\* No action takes effect unless an accept obtained its card.
THEOREM NoEffectWithoutAccept == Spec => []EffectNeedsAccept
<1>1. CommitInv => EffectNeedsAccept
  BY DEF CommitInv, EffectInv, EffectNeedsAccept
<1> QED
  BY <1>1, CommitInvariant, PTL

\* A user told that an action was committed was told the truth, and every refund
\* row has its ticket.
THEOREM AnswersAreTrue == Spec => [](CommittedIsDone /\ RefundHasTicket)
<1>1. CommitInv => CommittedIsDone /\ RefundHasTicket
  BY DEF CommitInv
<1> QED
  BY <1>1, CommitInvariant, PTL

\* A card that was answered or committed cannot be obtained again.
THEOREM ReplayFindsNothing == Spec => ObtainOnlyFresh
<1> DEFINE A == \A r \in Requests :
                  (holds[r] = NoAction /\ holds'[r] # NoAction) =>
                      told[holds'[r]] = {} /\ commits[holds'[r]] = 0
<1>1. CommitInv /\ [Next]_vars => [A]_vars
  <2> SUFFICES ASSUME CommitInv, Next, NEW q \in Requests,
                      holds[q] = NoAction, holds'[q] # NoAction
               PROVE  told[holds'[q]] = {} /\ commits[holds'[q]] = 0
    OBVIOUS
  <2> USE DEF CommitInv, TypeOK, handlerVars
  \* Only a GET gives a handler an action.
  <2>1. ASSUME NEW r \in Requests, ReadPending(r)
        PROVE  told[holds'[q]] = {} /\ commits[holds'[q]] = 0
    <3>1. CASE pending[ask[r].slot] = NoAction
      <4>1. holds' = [holds EXCEPT ![r] = NoAction]
        BY <2>1, <3>1 DEF ReadPending, Finish
      <4> QED
        BY <4>1
    <3>2. CASE pending[ask[r].slot] # NoAction
      <4>1. holds' = [holds EXCEPT ![r] = pending[ask[r].slot]] /\ ask[r].slot \in Slots
        BY <2>1, <3>2 DEF ReadPending, HandlerInv
      <4>2. holds'[q] = pending[ask[r].slot]
        BY <4>1
      <4> QED
        BY <3>2, <4>1, <4>2 DEF PendingInv
    <3> QED
      BY <3>1, <3>2
  <2>2. ASSUME NEW r \in Requests, holds' = [holds EXCEPT ![r] = NoAction]
        PROVE  FALSE
    BY <2>2
  <2>3. ASSUME holds' = holds
        PROVE  FALSE
    BY <2>3
  <2> HIDE DEF CommitInv, TypeOK
  <2>4. ASSUME NEW r \in Requests, Step(r)
        PROVE  \/ ReadPending(r)
               \/ holds' = [holds EXCEPT ![r] = NoAction]
               \/ holds' = holds
    BY <2>4 DEF Step, DeletePending, AnswerDecline, SetGuard, AnswerConflict, CoreSend,
       CoreReply, CoreFails, CountRefund, CountRefundBy, ExpireCounter, CreateTicket,
       QueueRefund, LogCommit, Goto, Finish
  <2>5. ASSUME NEW r \in Requests, Fault(r)
        PROVE  \/ holds' = [holds EXCEPT ![r] = NoAction]
               \/ holds' = holds
    BY <2>5 DEF Fault, GuardResent, CountResent, CountRefundBy, Abort, Finish
  <2>6. ASSUME NEW s \in Slots, NEW a \in Actions, OfferCard(s, a) PROVE FALSE
    BY <2>3, <2>6 DEF OfferCard
  <2>7. ASSUME NEW r \in Requests, NEW s \in Slots, NEW d \in Decisions, Arrive(r, s, d)
        PROVE  FALSE
    BY <2>3, <2>7 DEF Arrive
  <2>8. ASSUME NEW a \in Actions, BackendExecutes(a) \/ BackendRefuses(a) PROVE FALSE
    BY <2>3, <2>8 DEF BackendExecutes, BackendRefuses
  <2>9. ASSUME Tick \/ NextDay PROVE FALSE
    BY <2>3, <2>9 DEF Tick, NextDay
  <2> QED
    BY <2>1, <2>2, <2>3, <2>4, <2>5, <2>6, <2>7, <2>8, <2>9 DEF Next
<1> QED
  BY <1>1, CommitInvariant, PTL DEF Spec, ObtainOnlyFresh

-----------------------------------------------------------------------------
\* The gate implements ActionLedger: a first commit is SET NX succeeding, an
\* execution is the backend acting on the call or the refund row being written.
THEOREM GateImplementsLedger == Spec => ImplementsLedger
<1>1. Init => Ledger!Init
  BY DEF Init, Ledger!Init
<1>2. CommitInv /\ [Next]_vars => [Ledger!Next]_<<issued, commits, done>>
  <2> SUFFICES ASSUME CommitInv, [Next]_vars
               PROVE  \/ \E a \in Actions :
                           Ledger!Offer(a) \/ Ledger!Commit(a) \/ Ledger!Execute(a)
                      \/ UNCHANGED <<issued, commits, done>>
    BY DEF Ledger!Next
  <2> DEFINE Goal == \/ \E a \in Actions :
                          Ledger!Offer(a) \/ Ledger!Commit(a) \/ Ledger!Execute(a)
                     \/ UNCHANGED <<issued, commits, done>>
  <2>0. TypeOK /\ HandlerInv /\ GuardInv /\ WinnerInv /\ EffectInv
    BY DEF CommitInv
  <2>1. ASSUME NEW s \in Slots, NEW a \in Actions, OfferCard(s, a) PROVE Goal
    BY <2>1 DEF OfferCard, Ledger!Offer
  <2>2. ASSUME NEW r \in Requests, SetGuard(r) PROVE Goal
    <3>1. holds[r] \in Actions /\ holds[r] \in issued
      BY <2>0, <2>2, Holding DEF SetGuard, HandlerInv
    <3>2. commits[holds[r]] = 0
      <4>1. guard[holds[r]] = 0 /\ BeforeGuard(r)
        BY <2>2 DEF SetGuard, GuardFree, BeforeGuard
      <4> QED
        BY <2>0, <3>1, <4>1, GuardOutlivesReaders
    <3>3. /\ commits' = [commits EXCEPT ![holds[r]] = 1]
          /\ UNCHANGED <<issued, done>>
      BY <2>0, <2>2, <3>1, <3>2 DEF SetGuard, TypeOK
    <3>4. Ledger!Commit(holds[r])
      BY <3>1, <3>2, <3>3 DEF Ledger!Commit
    <3> QED
      BY <3>1, <3>4
  <2>3. ASSUME NEW a \in Actions, BackendExecutes(a) PROVE Goal
    <3>1. commits[a] = 1 /\ done[a] = 0
      BY <2>0, <2>3 DEF BackendExecutes, EffectInv
    <3>2. done' = [done EXCEPT ![a] = 1] /\ UNCHANGED <<issued, commits>>
      BY <2>0, <2>3, <3>1 DEF BackendExecutes, TypeOK
    <3>3. Ledger!Execute(a)
      BY <3>1, <3>2 DEF Ledger!Execute
    <3> QED
      BY <3>3
  <2>4. ASSUME NEW r \in Requests, QueueRefund(r) PROVE Goal
    <3>1. holds[r] \in Actions
      BY <2>0, <2>4, Holding DEF QueueRefund
    <3>2. commits[holds[r]] = 1 /\ done[holds[r]] = 0
      BY <2>0, <2>4 DEF QueueRefund, WinnerInv, EffectInv, PastGuard
    <3>3. done' = [done EXCEPT ![holds[r]] = 1] /\ UNCHANGED <<issued, commits>>
      BY <2>0, <2>4, <3>1, <3>2 DEF QueueRefund, TypeOK
    <3>4. Ledger!Execute(holds[r])
      BY <3>2, <3>3 DEF Ledger!Execute
    <3> QED
      BY <3>1, <3>4
  <2>5. ASSUME NEW r \in Requests, Step(r)
        PROVE  SetGuard(r) \/ QueueRefund(r) \/ UNCHANGED <<issued, commits, done>>
    BY <2>5 DEF Step, historyVars, ReadPending, DeletePending, AnswerDecline,
       AnswerConflict, CoreSend, CoreReply, CoreFails, CountRefund, CountRefundBy,
       ExpireCounter, CreateTicket, LogCommit
  <2>6. ASSUME NEW r \in Requests, Fault(r) PROVE Goal
    BY <2>6 DEF Fault, historyVars, GuardResent, CountResent, CountRefundBy, Abort
  <2>7. ASSUME NEW r \in Requests, NEW s \in Slots, NEW d \in Decisions, Arrive(r, s, d)
        PROVE  Goal
    BY <2>7 DEF Arrive, historyVars
  <2>8. ASSUME NEW a \in Actions, BackendRefuses(a) PROVE Goal
    BY <2>8 DEF BackendRefuses, historyVars
  <2>9. ASSUME Tick \/ NextDay PROVE Goal
    BY <2>9 DEF Tick, NextDay, historyVars
  <2>10. ASSUME UNCHANGED vars PROVE Goal
    BY <2>10 DEF vars, historyVars
  <2> QED
    BY <2>1, <2>2, <2>3, <2>4, <2>5, <2>6, <2>7, <2>8, <2>9, <2>10 DEF Next
<1> QED
  BY <1>1, <1>2, CommitInvariant, PTL DEF Spec, ImplementsLedger, Ledger!Spec

\* Every refund row in the admin's queue has the ticket it points to: the ticket is
\* created before the row (tool-executor.service.ts:295-309).
THEOREM QueuedRefundsHaveTickets == Spec => []RefundHasTicket
<1>1. CommitInv => RefundHasTicket
  BY DEF CommitInv
<1> QED
  BY <1>1, CommitInvariant, PTL

-----------------------------------------------------------------------------
(* The daily count of refunds.                                              *)

\* Only the queue writes rows, and only the queue and the backend execute effects.
LEMMA RowSteps ==
    [Next]_vars => \/ \E r \in Requests : QueueRefund(r)
                   \/ refunds' = refunds
BY DEF Next, Step, Fault, vars, storeVars, OfferCard, Arrive, ReadPending, DeletePending,
   AnswerDecline, SetGuard, AnswerConflict, GuardResent, CoreSend, BackendExecutes,
   BackendRefuses, CoreReply, CoreFails, CountRefund, CountResent, CountRefundBy,
   ExpireCounter, CreateTicket, LogCommit, Abort, Tick, NextDay

\* What was executed stays executed (tool-executor.service.ts:263-300).
LEMMA DoneGrows ==
    ASSUME TypeOK, HandlerInv, [Next]_vars, NEW b \in Actions, done[b] > 0
    PROVE  done'[b] > 0
<1>1. ASSUME NEW a \in Actions, BackendExecutes(a) PROVE done'[b] > 0
  BY <1>1 DEF BackendExecutes, TypeOK
<1>2. ASSUME NEW r \in Requests, QueueRefund(r) PROVE done'[b] > 0
  BY <1>2, Holding DEF QueueRefund, TypeOK
<1>3. \/ \E a \in Actions : BackendExecutes(a)
      \/ \E r \in Requests : QueueRefund(r)
      \/ done' = done
  BY DEF Next, Step, Fault, vars, historyVars, OfferCard, Arrive, ReadPending,
     DeletePending, AnswerDecline, SetGuard, AnswerConflict, GuardResent, CoreSend,
     BackendRefuses, CoreReply, CoreFails, CountRefund, CountResent, CountRefundBy,
     ExpireCounter, CreateTicket, LogCommit, Abort, Tick, NextDay
<1> QED
  BY <1>1, <1>2, <1>3

\* A handler that is past the guard and stays there keeps its action, its user and, once
\* it counted, its stamp.
LEMMA PastGuardKeeps ==
    ASSUME TypeOK, HandlerInv, [Next]_vars, NEW q \in Requests,
           pc'[q] \in {"core", "await", "count", "expire", "ticket", "queue", "log"}
    PROVE  \/ /\ pc[q] = "guard" /\ pc'[q] \in {"core", "count"}
              /\ holds'[q] = holds[q]
           \/ /\ CountRefund(q) \/ CountResent(q)
              /\ pc'[q] \in {"expire", "ticket"}
           \/ /\ pc[q] \in {"core", "await", "count", "expire", "ticket", "queue", "log"}
              /\ holds'[q] = holds[q] /\ ask'[q] = ask[q] /\ stamp'[q] = stamp[q]
              /\ pc'[q] \in {"expire", "ticket", "queue"}
                    => pc[q] \in {"expire", "ticket", "queue"}
              /\ pc'[q] = "log" => pc[q] \in {"await", "queue", "log"}
              /\ pc'[q] \in {"core", "await", "count"} => pc[q] \in {"core", "await", "count"}
              /\ (pc[q] = "queue" /\ pc'[q] = "log") => QueueRefund(q)
<1> USE DEF TypeOK, HandlerInv, redisVars, storeVars, handlerVars, historyVars
<1>1. ASSUME NEW r \in Requests, CountRefund(r) \/ CountResent(r) PROVE r = q \/
        (pc'[q] = pc[q] /\ holds'[q] = holds[q] /\ ask'[q] = ask[q] /\ stamp'[q] = stamp[q])
  BY <1>1 DEF CountRefund, CountResent, CountRefundBy
<1>2. ASSUME NEW r \in Requests,
             \/ ReadPending(r) \/ DeletePending(r) \/ AnswerDecline(r)
             \/ AnswerConflict(r) \/ CoreFails(r) \/ GuardResent(r) \/ Abort(r)
             \/ LogCommit(r) \/ \E s \in Slots, d \in Decisions : Arrive(r, s, d)
      PROVE  r # q /\ pc'[q] = pc[q] /\ holds'[q] = holds[q] /\ ask'[q] = ask[q]
                   /\ stamp'[q] = stamp[q]
  BY <1>2 DEF ReadPending, DeletePending, AnswerDecline, AnswerConflict, CoreFails,
     GuardResent, Abort, LogCommit, Arrive, Finish, Goto, AfterTake
<1>3. ASSUME NEW r \in Requests,
             CoreSend(r) \/ CoreReply(r) \/ ExpireCounter(r) \/ CreateTicket(r) \/ QueueRefund(r)
      PROVE  /\ holds'[q] = holds[q] /\ ask'[q] = ask[q] /\ stamp'[q] = stamp[q]
             /\ r # q => pc'[q] = pc[q]
             /\ r = q => \/ pc[q] = "core" /\ pc'[q] = "await"
                         \/ pc[q] = "await" /\ pc'[q] = "log"
                         \/ pc[q] = "expire" /\ pc'[q] = "ticket"
                         \/ pc[q] = "ticket" /\ pc'[q] = "queue"
                         \/ pc[q] = "queue" /\ pc'[q] = "log" /\ QueueRefund(q)
  BY <1>3 DEF CoreSend, CoreReply, ExpireCounter, CreateTicket, QueueRefund, Goto
<1>4. ASSUME NEW r \in Requests, SetGuard(r)
      PROVE  /\ holds'[q] = holds[q] /\ ask'[q] = ask[q] /\ stamp'[q] = stamp[q]
             /\ r # q => pc'[q] = pc[q]
             /\ r = q => pc[q] = "guard" /\ pc'[q] \in {"core", "count"}
  BY <1>4 DEF SetGuard, FirstStep
<1>5. ASSUME \/ \E s \in Slots, a \in Actions : OfferCard(s, a)
             \/ \E a \in Actions : BackendExecutes(a) \/ BackendRefuses(a)
             \/ Tick \/ NextDay \/ UNCHANGED vars
      PROVE  pc'[q] = pc[q] /\ holds'[q] = holds[q] /\ ask'[q] = ask[q]
                   /\ stamp'[q] = stamp[q]
  BY <1>5 DEF OfferCard, BackendExecutes, BackendRefuses, Tick, NextDay, vars
<1>6. ASSUME CountRefund(q) \/ CountResent(q) PROVE pc'[q] \in {"expire", "ticket"}
  BY <1>6 DEF CountRefund, CountResent, CountRefundBy
<1> DEFINE Same == /\ pc'[q] = pc[q] /\ holds'[q] = holds[q] /\ ask'[q] = ask[q]
                   /\ stamp'[q] = stamp[q]
<1>7. ASSUME Same, pc[q] = "queue", pc'[q] = "log" PROVE FALSE
  BY <1>7
<1> HIDE DEF TypeOK, HandlerInv, redisVars, storeVars, handlerVars, historyVars
<1>8. \/ Same
      \/ CountRefund(q) \/ CountResent(q)
      \/ /\ holds'[q] = holds[q] /\ ask'[q] = ask[q] /\ stamp'[q] = stamp[q]
         /\ \/ pc[q] = "core" /\ pc'[q] = "await"
            \/ pc[q] = "await" /\ pc'[q] = "log"
            \/ pc[q] = "expire" /\ pc'[q] = "ticket"
            \/ pc[q] = "ticket" /\ pc'[q] = "queue"
            \/ pc[q] = "queue" /\ pc'[q] = "log" /\ QueueRefund(q)
      \/ holds'[q] = holds[q] /\ pc[q] = "guard" /\ pc'[q] \in {"core", "count"}
  BY <1>1, <1>2, <1>3, <1>4, <1>5 DEF Next, Step, Fault
<1> QED
  BY <1>6, <1>8

\* A refund whose result is logged stays so, and one whose handler is to log it is logged,
\* dropped, or still to be logged (orchestrator.service.ts:259-266).
LEMMA LogStep ==
    ASSUME TypeOK, HandlerInv, [Next]_vars, NEW a \in Actions,
           "committed" \in told[a] \/ a \in lost \/ OnItsWay(a, {"log"})
    PROVE  "committed" \in told'[a] \/ a \in lost' \/ OnItsWay(a, {"log"})'
<1> USE DEF TypeOK, redisVars, storeVars, handlerVars, historyVars
<1>1. told[a] \subseteq told'[a] /\ lost \subseteq lost'
  <2>1. ASSUME NEW r \in Requests, pc[r] \notin {"idle", "get"}, NEW answer, Tell(r, answer)
        PROVE  told[a] \subseteq told'[a]
    BY <2>1, Holding DEF Tell
  <2>2. \/ \E r \in Requests : /\ pc[r] \notin {"idle", "get"}
                               /\ \E answer \in Answers : Tell(r, answer)
        \/ told' = told
    BY DEF Next, Step, Fault, vars, Answers, OfferCard, Arrive, ReadPending,
       DeletePending, AnswerDecline, SetGuard, AnswerConflict, GuardResent, CoreSend,
       BackendExecutes, BackendRefuses, CoreReply, CoreFails, CountRefund, CountResent,
       CountRefundBy, ExpireCounter, CreateTicket, QueueRefund, LogCommit, Abort, Tick,
       NextDay
  <2>3. lost \subseteq lost'
    BY DEF Next, Step, Fault, vars, OfferCard, Arrive, ReadPending,
       DeletePending, AnswerDecline, SetGuard, AnswerConflict, GuardResent, CoreSend,
       BackendExecutes, BackendRefuses, CoreReply, CoreFails, CountRefund, CountResent,
       CountRefundBy, ExpireCounter, CreateTicket, QueueRefund, LogCommit, Abort, Tick,
       NextDay
  <2> QED
    BY <2>1, <2>2, <2>3
<1>2. ASSUME NEW q \in Requests, holds[q] = a, pc[q] = "log"
      PROVE  \/ LogCommit(q) \/ Abort(q)
             \/ holds'[q] = a /\ pc'[q] = "log"
  <2>1. ASSUME NEW r \in Requests, r # q,
               Step(r) \/ Fault(r) \/ \E s \in Slots, d \in Decisions : Arrive(r, s, d)
        PROVE  holds'[q] = a /\ pc'[q] = "log"
    BY <1>2, <2>1 DEF Step, Fault, Arrive, ReadPending,
       DeletePending, AnswerDecline, SetGuard, AnswerConflict, GuardResent, CoreSend,
       CoreReply, CoreFails, CountRefund, CountResent, CountRefundBy, ExpireCounter,
       CreateTicket, QueueRefund, LogCommit, Abort, Finish, Goto
  <2>2. ASSUME Step(q) \/ Fault(q) \/ \E s \in Slots, d \in Decisions : Arrive(q, s, d)
        PROVE  LogCommit(q) \/ Abort(q)
    BY <1>2, <2>2 DEF Step, Fault, Arrive, ReadPending,
       DeletePending, AnswerDecline, SetGuard, AnswerConflict, GuardResent, CoreSend,
       CoreReply, CoreFails, CountRefund, CountResent, CountRefundBy, ExpireCounter,
       CreateTicket, QueueRefund
  <2>3. ASSUME \/ \E s \in Slots, b \in Actions : OfferCard(s, b)
               \/ \E b \in Actions : BackendExecutes(b) \/ BackendRefuses(b)
               \/ Tick \/ NextDay \/ UNCHANGED vars
        PROVE  holds'[q] = a /\ pc'[q] = "log"
    BY <1>2, <2>3 DEF OfferCard, BackendExecutes, BackendRefuses, Tick, NextDay, vars
  <2> QED
    <3> HIDE DEF TypeOK, redisVars, storeVars, handlerVars, historyVars
    <3> QED
      BY <2>1, <2>2, <2>3, ZenonT(60) DEF Next
<1>3. ASSUME NEW q \in Requests, holds[q] = a, LogCommit(q) PROVE "committed" \in told'[a]
  BY <1>3 DEF LogCommit, Tell
<1>4. ASSUME NEW q \in Requests, holds[q] = a, Abort(q) PROVE a \in lost'
  <2>1. a # NoAction
    BY Holding, <1>4 DEF Abort, HandlerInv
  <2> QED
    BY <1>4, <2>1 DEF Abort
<1> QED
  BY <1>1, <1>2, <1>3, <1>4 DEF OnItsWay

\* A refund is queued once, for the user and the day it was counted for
\* (tool-executor.service.ts:302-330).
LEMMA RowInvStep == CommitInv /\ RowInv /\ [Next]_vars => RowInv'
<1> SUFFICES ASSUME CommitInv, RowInv, [Next]_vars PROVE RowInv'
  OBVIOUS
<1>1. TypeOK /\ HandlerInv /\ WinnerInv /\ EffectInv
  BY DEF CommitInv
<1>2. \A row \in refunds : row.action \in Actions
  BY <1>1 DEF TypeOK
\* What the new row is, if there is one.
<1>3. ASSUME NEW r \in Requests, QueueRefund(r)
      PROVE  /\ holds[r] \in Actions /\ done[holds[r]] = 0 /\ done'[holds[r]] > 0
             /\ KindOf[holds[r]] = "refund_queue"
             /\ refunds' = refunds \cup {[action |-> holds[r], user |-> UserOf(r),
                                          day |-> stamp[r].day]}
  <2>1. pc[r] = "queue" /\ holds[r] \in Actions
    BY <1>1, <1>3, Holding DEF QueueRefund
  <2>2. done[holds[r]] = 0 /\ KindOf[holds[r]] = "refund_queue"
    BY <1>1, <2>1 DEF EffectInv, HandlerInv
  <2>3. done'[holds[r]] > 0
    BY <1>1, <1>3, <2>1, <2>2 DEF QueueRefund, TypeOK
  <2> QED
    BY <1>3, <2>1, <2>2, <2>3 DEF QueueRefund
<1>4. \A row \in refunds' : KindOf[row.action] = "refund_queue" /\ done'[row.action] > 0
  <2>1. \A row \in refunds : KindOf[row.action] = "refund_queue" /\ done'[row.action] > 0
    BY <1>1, <1>2, DoneGrows DEF RowInv
  <2> QED
    BY <1>3, <2>1, RowSteps
<1>5. \A row, other \in refunds' : row.action = other.action => row = other
  <2>1. \A row, other \in refunds : row.action = other.action => row = other
    BY DEF RowInv
  <2>2. ASSUME NEW r \in Requests, QueueRefund(r)
        PROVE  \A row \in refunds : row.action # holds[r]
    BY <1>2, <1>3, <2>2 DEF RowInv
  <2> QED
    BY <1>3, <2>1, <2>2, RowSteps
<1>6. ASSUME NEW q \in Requests, pc'[q] = "log", NEW row \in refunds',
             row.action = holds'[q]
      PROVE  row.user = UserOf(q)' /\ row.day = stamp'[q].day
  <2>1. /\ pc[q] \in {"await", "queue", "log"}
        /\ holds'[q] = holds[q] /\ ask'[q] = ask[q] /\ stamp'[q] = stamp[q]
        /\ pc[q] = "queue" => QueueRefund(q)
    BY <1>1, <1>6, PastGuardKeeps
  <2>2. CASE pc[q] = "await"
    <3>1. KindOf[holds[q]] = "core"
      BY <1>1, <2>2 DEF HandlerInv
    <3>2. KindOf[row.action] = "refund_queue"
      BY <1>4
    <3> QED
      BY <1>6, <2>1, <3>1, <3>2
  <2>3. CASE pc[q] = "queue"
    <3>1. QueueRefund(q)
      BY <2>1, <2>3
    <3>2. row \notin refunds
      BY <1>2, <1>3, <1>6, <2>1, <3>1 DEF RowInv
    <3>3. row = [action |-> holds[q], user |-> UserOf(q), day |-> stamp[q].day]
      BY <1>3, <3>1, <3>2
    <3> QED
      BY <2>1, <3>3 DEF UserOf
  <2>4. CASE pc[q] = "log"
    <3>1. row \in refunds
      <4>1. ASSUME NEW r \in Requests, QueueRefund(r) PROVE holds[r] # holds[q]
        <5>1. pc[r] = "queue"
          BY <4>1 DEF QueueRefund
        <5> QED
          BY <1>1, <2>4, <5>1 DEF WinnerInv, PastGuard
      <4> QED
        BY <1>3, <1>6, <2>1, <4>1, RowSteps
    <3>2. row.user = UserOf(q) /\ row.day = stamp[q].day
      BY <1>6, <2>1, <2>4, <3>1 DEF RowInv
    <3> QED
      BY <2>1, <3>2 DEF UserOf
  <2> QED
    BY <2>1, <2>2, <2>3, <2>4
<1>7. \A row \in refunds' : \/ "committed" \in told'[row.action]
                            \/ row.action \in lost'
                            \/ OnItsWay(row.action, {"log"})'
  <2>1. ASSUME NEW row \in refunds
        PROVE  \/ "committed" \in told'[row.action]
               \/ row.action \in lost'
               \/ OnItsWay(row.action, {"log"})'
    <3>1. /\ row.action \in Actions
          /\ "committed" \in told[row.action] \/ row.action \in lost
                \/ OnItsWay(row.action, {"log"})
      BY <1>2, <2>1 DEF RowInv
    <3> QED
      BY <1>1, <3>1, LogStep
  <2>2. ASSUME NEW r \in Requests, QueueRefund(r), NEW b, b = holds[r]
        PROVE  OnItsWay(b, {"log"})'
    <3>1. pc'[r] = "log" /\ holds'[r] = holds[r]
      BY <1>1, <2>2 DEF QueueRefund, Goto, TypeOK
    <3> QED
      BY <2>2, <3>1 DEF OnItsWay
  <2>3. CASE refunds' = refunds
    BY <2>1, <2>3
  <2>4. CASE \E r \in Requests : QueueRefund(r)
    <3>1. PICK r \in Requests : QueueRefund(r)
      BY <2>4
    <3>2. refunds' = refunds \cup {[action |-> holds[r], user |-> UserOf(r),
                                    day |-> stamp[r].day]}
      BY <1>3, <3>1
    <3>3. ASSUME NEW b, b = holds[r] PROVE OnItsWay(b, {"log"})'
      BY <2>2, <3>1, <3>3
    <3>4. ASSUME NEW row \in refunds', row \notin refunds
          PROVE  row.action = holds[r]
      BY <3>2, <3>4
    <3> SUFFICES ASSUME NEW row \in refunds'
                 PROVE  \/ "committed" \in told'[row.action]
                        \/ row.action \in lost'
                        \/ OnItsWay(row.action, {"log"})'
      OBVIOUS
    <3>5. CASE row \in refunds
      BY <2>1, <3>5
    <3>6. CASE row \notin refunds
      <4>1. row.action = holds[r]
        BY <3>4, <3>6
      <4> QED
        BY <3>3, <4>1
    <3> QED
      BY <3>5, <3>6
  <2> QED
    BY <2>3, <2>4, RowSteps
<1> QED
  BY <1>4, <1>5, <1>6, <1>7 DEF RowInv

\* The only answer "committed" is that of a commit that is logged, and flags stay
\* (orchestrator.service.ts:250-268).
LEMMA CommittedSteps ==
    ASSUME TypeOK, HandlerInv, [Next]_vars, NEW b \in Actions, "committed" \in told'[b]
    PROVE  "committed" \in told[b] \/ \E r \in Requests : LogCommit(r) /\ holds[r] = b
<1>1. ASSUME NEW r \in Requests, NEW answer, answer # "committed",
             holds[r] \in Actions, Tell(r, answer)
      PROVE  "committed" \in told[b]
  BY <1>1 DEF Tell, TypeOK
<1>2. ASSUME NEW r \in Requests, holds[r] \in Actions, LogCommit(r)
      PROVE  "committed" \in told[b] \/ holds[r] = b
  BY <1>2 DEF LogCommit, Tell, TypeOK
<1>3. \/ \E r \in Requests : /\ pc[r] \in PC \ {"idle", "get"}
                             /\ \/ LogCommit(r)
                                \/ \E answer \in Answers \ {"committed"} : Tell(r, answer)
      \/ told' = told
  BY DEF Next, Step, Fault, vars, storeVars, PC, Answers, OfferCard, Arrive, ReadPending,
     DeletePending, AnswerDecline, SetGuard, AnswerConflict, GuardResent, CoreSend,
     BackendExecutes, BackendRefuses, CoreReply, CoreFails, CountRefund, CountResent,
     CountRefundBy, ExpireCounter, CreateTicket, QueueRefund, LogCommit, Abort, Tick,
     NextDay
<1>4. \A r \in Requests : pc[r] \in PC \ {"idle", "get"} => holds[r] \in Actions
  BY Holding
<1> QED
  BY <1>1, <1>2, <1>3, <1>4

LEMMA FlagsStay == [Next]_vars => flagged \subseteq flagged'
BY DEF Next, Step, Fault, vars, storeVars, OfferCard, Arrive, ReadPending,
   DeletePending, AnswerDecline, SetGuard, AnswerConflict, GuardResent, CoreSend,
   BackendExecutes, BackendRefuses, CoreReply, CoreFails, CountRefund, CountResent,
   CountRefundBy, ExpireCounter, CreateTicket, QueueRefund, LogCommit, Abort, Tick,
   NextDay

\* A refund escapes the flag by being counted within the threshold, and in no other way
\* (tool-executor.service.ts:304-312,326).
LEMMA EscapeStep ==
    ASSUME CommitInv, RowInv, [Next]_vars, NEW u \in Users, NEW d \in Days,
           NEW a \in Actions, EscapedBy(u, d, a)'
    PROVE  \/ EscapedBy(u, d, a)
           \/ \E r \in Requests :
                 /\ CountRefund(r) \/ CountResent(r)
                 /\ a = holds[r] /\ u = UserOf(r) /\ d = day
                 /\ stamp'[r].count <= AnomalyAfter
<1>1. TypeOK /\ HandlerInv /\ EffectInv /\ CommittedIsDone
  BY DEF CommitInv
<1>2. ASSUME "committed" \in told'[a], a \notin flagged', NEW row \in refunds',
             row.action = a, row.user = u, row.day = d
      PROVE  EscapedBy(u, d, a)
  <2>1. a \notin flagged
    BY <1>2, FlagsStay
  <2>2. CASE "committed" \in told[a]
    <3>1. done[a] = 1
      BY <1>1, <2>2 DEF CommittedIsDone
    <3>2. ASSUME NEW r \in Requests, QueueRefund(r) PROVE holds[r] # a
      <4>1. pc[r] = "queue"
        BY <3>2 DEF QueueRefund
      <4> QED
        BY <1>1, <3>1, <4>1 DEF EffectInv
    <3>3. row \in refunds
      BY <1>2, <3>2, RowSteps DEF QueueRefund
    <3> QED
      BY <1>2, <2>1, <2>2, <3>3 DEF EscapedBy
  <2>3. ASSUME NEW r \in Requests, LogCommit(r), holds[r] = a PROVE EscapedBy(u, d, a)
    <3>1. refunds' = refunds /\ pc[r] = "log"
      BY <2>3 DEF LogCommit
    <3>2. KindOf[a] = "refund_queue" /\ row.user = UserOf(r) /\ row.day = stamp[r].day
      BY <1>2, <2>3, <3>1 DEF RowInv
    <3>3. stamp[r].count \in Nat /\ ~ (stamp[r].count > AnomalyAfter)
      BY <1>1, <1>2, <2>3, <3>2 DEF LogCommit, Anomaly, TypeOK, Stamps
    <3>4. stamp[r].count <= AnomalyAfter
      BY <3>3
    <3> QED
      BY <1>2, <2>3, <3>1, <3>2, <3>4 DEF EscapedBy, Counted
  <2> QED
    BY <1>1, <1>2, <2>2, <2>3, CommittedSteps
<1>3. ASSUME NEW q \in Requests, Counted(q)', holds'[q] = a, UserOf(q)' = u,
             stamp'[q].day = d, stamp'[q].count <= AnomalyAfter
      PROVE  \/ EscapedBy(u, d, a)
             \/ /\ CountRefund(q) \/ CountResent(q)
                /\ a = holds[q] /\ u = UserOf(q) /\ d = day
  <2>1. pc'[q] \in {"expire", "ticket", "queue", "log"} /\ KindOf[holds'[q]] = "refund_queue"
    BY <1>3 DEF Counted
  <2>2. CASE CountRefund(q) \/ CountResent(q)
    <3>1. holds' = holds /\ ask' = ask /\ stamp'[q].day = day
      BY <1>1, <2>2 DEF CountRefund, CountResent, CountRefundBy, TypeOK
    <3> QED
      BY <1>3, <2>2, <3>1 DEF UserOf
  <2>3. CASE /\ holds'[q] = holds[q] /\ ask'[q] = ask[q] /\ stamp'[q] = stamp[q]
             /\ pc[q] \in {"expire", "ticket", "queue", "log", "await"}
    <3>1. pc[q] # "await"
      BY <1>1, <2>1, <2>3 DEF HandlerInv
    <3>2. Counted(q)
      BY <2>1, <2>3, <3>1 DEF Counted
    <3>3. UserOf(q) = u
      BY <1>3, <2>3 DEF UserOf
    <3> QED
      BY <1>3, <2>3, <3>2, <3>3 DEF EscapedBy
  <2> QED
    BY <1>1, <2>1, <2>2, <2>3, PastGuardKeeps
<1>4. EscapedBy(u, d, a)' =>
        \/ /\ "committed" \in told'[a] /\ a \notin flagged'
           /\ \E row \in refunds' : row.action = a /\ row.user = u /\ row.day = d
        \/ \E q \in Requests :
              /\ Counted(q)' /\ holds'[q] = a /\ UserOf(q)' = u
              /\ stamp'[q].day = d /\ stamp'[q].count <= AnomalyAfter
  BY DEF EscapedBy
<1> QED
  BY <1>2, <1>3, <1>4

\* A refund is counted by its INCR, and in no other way
\* (tool-executor.service.ts:291-302).
LEMMA CountedStep ==
    ASSUME CommitInv, RowInv, [Next]_vars, NEW u \in Users, NEW d \in Days,
           NEW a \in Actions, CountedBy(u, d, a)'
    PROVE  \/ CountedBy(u, d, a)
           \/ \E r \in Requests :
                 /\ CountRefund(r) \/ CountResent(r)
                 /\ a = holds[r] /\ u = UserOf(r) /\ d = day
<1>1. TypeOK /\ HandlerInv /\ EffectInv
  BY DEF CommitInv
<1>2. ASSUME NEW row \in refunds', row.action = a, row.user = u, row.day = d
      PROVE  CountedBy(u, d, a)
  <2>1. CASE row \in refunds
    BY <1>2, <2>1 DEF CountedBy
  <2>2. ASSUME NEW r \in Requests, QueueRefund(r), row \notin refunds
        PROVE  CountedBy(u, d, a)
    <3>1. pc[r] = "queue" /\ KindOf[holds[r]] = "refund_queue"
      BY <1>1, <2>2 DEF QueueRefund, HandlerInv
    <3>2. a = holds[r] /\ u = UserOf(r) /\ d = stamp[r].day
      BY <1>2, <2>2 DEF QueueRefund
    <3> QED
      BY <3>1, <3>2 DEF CountedBy, Counted
  <2> QED
    BY <1>2, <2>1, <2>2, RowSteps
<1>3. ASSUME NEW q \in Requests, Counted(q)', holds'[q] = a, UserOf(q)' = u, stamp'[q].day = d
      PROVE  \/ CountedBy(u, d, a)
             \/ /\ CountRefund(q) \/ CountResent(q)
                /\ a = holds[q] /\ u = UserOf(q) /\ d = day
  <2>1. pc'[q] \in {"expire", "ticket", "queue", "log"} /\ KindOf[holds'[q]] = "refund_queue"
    BY <1>3 DEF Counted
  <2>2. CASE CountRefund(q) \/ CountResent(q)
    <3>1. holds' = holds /\ ask' = ask /\ stamp'[q].day = day
      BY <1>1, <2>2 DEF CountRefund, CountResent, CountRefundBy, TypeOK
    <3> QED
      BY <1>3, <2>2, <3>1 DEF UserOf
  <2>3. CASE /\ holds'[q] = holds[q] /\ ask'[q] = ask[q] /\ stamp'[q] = stamp[q]
             /\ pc[q] \in {"expire", "ticket", "queue", "log", "await"}
    <3>1. pc[q] # "await"
      BY <1>1, <2>1, <2>3 DEF HandlerInv
    <3>2. Counted(q)
      BY <2>1, <2>3, <3>1 DEF Counted
    <3>3. UserOf(q) = u
      BY <1>3, <2>3 DEF UserOf
    <3> QED
      BY <1>3, <2>3, <3>2, <3>3 DEF CountedBy
  <2> QED
    BY <1>1, <2>1, <2>2, <2>3, PastGuardKeeps
<1>4. CountedBy(u, d, a)' =>
        \/ \E row \in refunds' : row.action = a /\ row.user = u /\ row.day = d
        \/ \E q \in Requests :
              Counted(q)' /\ holds'[q] = a /\ UserOf(q)' = u /\ stamp'[q].day = d
  BY DEF CountedBy
<1> QED
  BY <1>2, <1>3, <1>4

\* Only INCR changes the counters, by one or, sent again, by two.
LEMMA CounterSteps ==
    [Next]_vars => \/ \E r \in Requests : CountRefund(r) \/ CountResent(r)
                   \/ counter' = counter
BY DEF Next, Step, Fault, vars, redisVars, storeVars, OfferCard, Arrive, ReadPending,
   DeletePending, AnswerDecline, SetGuard, AnswerConflict, GuardResent, CoreSend,
   BackendExecutes, BackendRefuses, CoreReply, CoreFails, ExpireCounter, CreateTicket,
   QueueRefund, LogCommit, Abort, Tick, NextDay

\* The INCR of a handler: its stamp is the new value of the counter, which is more than
\* the old one (tool-executor.service.ts:304-306).
LEMMA CountFacts ==
    ASSUME TypeOK, HandlerInv, NEW r \in Requests, CountRefund(r) \/ CountResent(r)
    PROVE  /\ UserOf(r) \in Users /\ holds[r] \in Actions
           /\ stamp'[r].count = counter'[<<UserOf(r), day>>]
           /\ counter'[<<UserOf(r), day>>] \in Nat
           /\ counter'[<<UserOf(r), day>>] >= counter[<<UserOf(r), day>>] + 1
           /\ \A k \in (Users \X Days) \ {<<UserOf(r), day>>} : counter'[k] = counter[k]
<1>1. pc[r] = "count"
  BY DEF CountRefund, CountResent, CountRefundBy
<1>2. UserOf(r) \in Users /\ holds[r] \in Actions
  BY <1>1, Holding DEF UserOf
<1>3. <<UserOf(r), day>> \in Users \X Days /\ counter[<<UserOf(r), day>>] \in Nat
  BY <1>2 DEF TypeOK
<1>4. CASE CountRefund(r)
  BY <1>2, <1>3, <1>4 DEF CountRefund, CountRefundBy, TypeOK
<1>5. CASE CountResent(r)
  BY <1>2, <1>3, <1>5 DEF CountResent, CountRefundBy, TypeOK
<1> QED
  BY <1>4, <1>5

\* One handler counts in a step.
LEMMA OneCounts ==
    ASSUME TypeOK, NEW r \in Requests, CountRefund(r) \/ CountResent(r),
           NEW q \in Requests, CountRefund(q) \/ CountResent(q)
    PROVE  q = r
<1> SUFFICES ASSUME q # r PROVE FALSE
  OBVIOUS
<1>1. pc'[q] \in {"expire", "ticket"} /\ pc[q] = "count"
  BY DEF CountRefund, CountResent, CountRefundBy, TypeOK
<1>2. pc'[q] = pc[q]
  BY DEF CountRefund, CountResent, CountRefundBy, TypeOK
<1> QED
  BY <1>1, <1>2

\* A set that gains at most one element has grown by at most one.
LEMMA GainOne ==
    ASSUME NEW E, NEW F, NEW x, IsFiniteSet(E), F \subseteq E \cup {x}
    PROVE  /\ IsFiniteSet(F) /\ Cardinality(F) \in Nat /\ Cardinality(E) \in Nat
           /\ Cardinality(F) <= Cardinality(E) + 1
<1>1. /\ IsFiniteSet(E \cup {x})
      /\ Cardinality(E \cup {x}) = IF x \in E THEN Cardinality(E) ELSE Cardinality(E) + 1
  BY FS_AddElement, ZenonT(30)
<1>2. Cardinality(E) \in Nat
  BY FS_CardinalityType
<1>3. Cardinality(E \cup {x}) \in Nat /\ Cardinality(E \cup {x}) <= Cardinality(E) + 1
  BY <1>1, <1>2
<1>4. IsFiniteSet(F) /\ Cardinality(F) <= Cardinality(E \cup {x})
  BY <1>1, FS_Subset
<1>5. Cardinality(F) \in Nat
  BY <1>4, FS_CardinalityType
<1> QED
  BY <1>2, <1>3, <1>4, <1>5

\* A set of actions that grows only by what an INCR of this counter counts grows by no
\* more than the counter (tool-executor.service.ts:291-293).
LEMMA CounterCovers ==
    ASSUME TypeOK, HandlerInv, [Next]_vars, NEW u \in Users, NEW d \in Days,
           NEW E, NEW F, IsFiniteSet(E), Cardinality(E) <= counter[<<u, d>>],
           \A a \in F : \/ a \in E
                        \/ \E r \in Requests :
                              /\ CountRefund(r) \/ CountResent(r)
                              /\ a = holds[r] /\ u = UserOf(r) /\ d = day
    PROVE  IsFiniteSet(F) /\ Cardinality(F) <= counter'[<<u, d>>]
<1>1. Cardinality(E) \in Nat /\ counter[<<u, d>>] \in Nat
  BY FS_CardinalityType DEF TypeOK
<1>2. ASSUME F \subseteq E, counter'[<<u, d>>] \in Nat, counter'[<<u, d>>] >= counter[<<u, d>>]
      PROVE  IsFiniteSet(F) /\ Cardinality(F) <= counter'[<<u, d>>]
  <2>1. IsFiniteSet(F) /\ Cardinality(F) <= Cardinality(E)
    BY <1>2, FS_Subset
  <2>2. Cardinality(F) \in Nat
    BY <2>1, FS_CardinalityType
  <2> QED
    BY <1>1, <1>2, <2>1, <2>2
<1>3. CASE \A r \in Requests : ~ (CountRefund(r) \/ CountResent(r))
  <2>1. counter' = counter
    BY <1>3, CounterSteps
  <2> QED
    BY <1>1, <1>2, <1>3, <2>1
<1>4. ASSUME NEW r \in Requests, CountRefund(r) \/ CountResent(r)
      PROVE  IsFiniteSet(F) /\ Cardinality(F) <= counter'[<<u, d>>]
  <2> DEFINE k == <<UserOf(r), day>>
  <2>1. /\ UserOf(r) \in Users /\ counter'[k] \in Nat /\ counter'[k] >= counter[k] + 1
        /\ \A l \in (Users \X Days) \ {k} : counter'[l] = counter[l]
    BY <1>4, CountFacts
  <2>2. \A q \in Requests : CountRefund(q) \/ CountResent(q) => q = r
    BY <1>4, OneCounts
  <2>3. CASE <<u, d>> # k
    <3>1. F \subseteq E
      BY <2>2, <2>3
    <3>2. counter'[<<u, d>>] = counter[<<u, d>>]
      BY <2>1, <2>3
    <3> QED
      BY <1>1, <1>2, <3>1, <3>2
  <2>4. CASE <<u, d>> = k
    <3>1. F \subseteq E \cup {holds[r]}
      BY <2>2
    <3>2. /\ IsFiniteSet(F) /\ Cardinality(F) \in Nat
          /\ Cardinality(F) <= Cardinality(E) + 1
      BY <3>1, GainOne
    <3> QED
      BY <1>1, <2>1, <2>4, <3>2
  <2> QED
    BY <2>3, <2>4
<1> QED
  BY <1>3, <1>4

\* INCR hands out a number once, so the refunds counted are no more than the counter, and
\* those counted within the threshold no more than the threshold
\* (tool-executor.service.ts:304-326).
LEMMA DayInvStep == CommitInv /\ RowInv /\ DayInv /\ [Next]_vars => DayInv'
<1> SUFFICES ASSUME CommitInv, RowInv, DayInv, [Next]_vars, NEW u \in Users, NEW d \in Days
             PROVE  /\ IsFiniteSet(CountedFor(u, d)')
                    /\ Cardinality(CountedFor(u, d)') <= counter'[<<u, d>>]
                    /\ IsFiniteSet(Escaped(u, d)')
                    /\ Cardinality(Escaped(u, d)') <= counter'[<<u, d>>]
                    /\ Cardinality(Escaped(u, d)') <= AnomalyAfter
  BY DEF DayInv
<1> DEFINE E == Escaped(u, d)
           F == Escaped(u, d)'
           C == CountedFor(u, d)
           D == CountedFor(u, d)'
<1>1. TypeOK /\ HandlerInv
  BY DEF CommitInv
<1>2. /\ IsFiniteSet(E) /\ IsFiniteSet(C)
      /\ Cardinality(E) <= counter[<<u, d>>] /\ Cardinality(E) <= AnomalyAfter
      /\ Cardinality(C) <= counter[<<u, d>>]
  BY DEF DayInv
<1>3. \A a \in F : \/ a \in E
                   \/ \E r \in Requests :
                         /\ CountRefund(r) \/ CountResent(r)
                         /\ a = holds[r] /\ u = UserOf(r) /\ d = day
                         /\ stamp'[r].count <= AnomalyAfter
  BY EscapeStep DEF Escaped
<1>4. \A a \in D : \/ a \in C
                   \/ \E r \in Requests :
                         /\ CountRefund(r) \/ CountResent(r)
                         /\ a = holds[r] /\ u = UserOf(r) /\ d = day
  BY CountedStep DEF CountedFor
<1> HIDE DEF E, F, C, D
<1>5. IsFiniteSet(D) /\ Cardinality(D) <= counter'[<<u, d>>]
  BY <1>1, <1>2, <1>4, CounterCovers
<1>6. IsFiniteSet(F) /\ Cardinality(F) <= counter'[<<u, d>>]
  <2>1. \A a \in F : \/ a \in E
                     \/ \E r \in Requests :
                           /\ CountRefund(r) \/ CountResent(r)
                           /\ a = holds[r] /\ u = UserOf(r) /\ d = day
    BY <1>3
  <2> QED
    BY <1>1, <1>2, <2>1, CounterCovers
\* The handler that counts either stays within the threshold, and so does the counter that
\* covers the set, or adds nothing to it.
<1>7. Cardinality(F) <= AnomalyAfter
  <2>1. Cardinality(F) \in Nat /\ Cardinality(E) \in Nat /\ AnomalyAfter \in Nat
    BY <1>2, <1>6, FS_CardinalityType, CountAssumption
  <2>2. CASE F \subseteq E
    <3>1. Cardinality(F) <= Cardinality(E)
      BY <1>2, <2>2, FS_Subset
    <3> QED
      BY <1>2, <2>1, <3>1
  <2>3. ASSUME NEW r \in Requests, CountRefund(r) \/ CountResent(r), u = UserOf(r), d = day,
               stamp'[r].count <= AnomalyAfter
        PROVE  Cardinality(F) <= AnomalyAfter
    <3>1. stamp'[r].count = counter'[<<u, d>>] /\ counter'[<<u, d>>] \in Nat
      BY <1>1, <2>3, CountFacts
    <3> QED
      BY <1>6, <2>1, <2>3, <3>1
  <2> QED
    BY <1>3, <2>2, <2>3
<1> QED
  BY <1>5, <1>6, <1>7 DEF F, D

\* No refund was counted before the first step.
LEMMA RefundInvInit == Init => RefundInv
<1> SUFFICES ASSUME Init PROVE RefundInv
  OBVIOUS
<1>1. CommitInv
  BY CommitInvInit
<1>2. RowInv
  BY DEF Init, RowInv
<1>3. DayInv
  <2> SUFFICES ASSUME NEW u \in Users, NEW d \in Days
               PROVE  /\ IsFiniteSet(CountedFor(u, d))
                      /\ Cardinality(CountedFor(u, d)) <= counter[<<u, d>>]
                      /\ IsFiniteSet(Escaped(u, d))
                      /\ Cardinality(Escaped(u, d)) <= counter[<<u, d>>]
                      /\ Cardinality(Escaped(u, d)) <= AnomalyAfter
    BY DEF DayInv
  <2>1. Escaped(u, d) = {} /\ CountedFor(u, d) = {}
    BY DEF Init, Escaped, EscapedBy, CountedFor, CountedBy, Counted
  <2>2. counter[<<u, d>>] = 0 /\ AnomalyAfter \in Nat
    BY CountAssumption DEF Init
  <2>3. IsFiniteSet({}) /\ Cardinality({}) = 0
    BY FS_EmptySet
  <2> QED
    BY <2>1, <2>2, <2>3
<1> QED
  BY <1>1, <1>2, <1>3 DEF RefundInv

\* The inductive invariant of the daily count.
THEOREM RefundInvariant == Spec => []RefundInv
<1>1. RefundInv /\ [Next]_vars => RefundInv'
  BY CommitInvStep, RowInvStep, DayInvStep DEF RefundInv
<1> QED
  BY RefundInvInit, <1>1, PTL DEF Spec

\* Rows of different actions are no more than the actions.
LEMMA RowsInjected ==
    ASSUME NEW S, NEW E, IsFiniteSet(E), \A row \in S : row.action \in E,
           \A row, other \in S : row.action = other.action => row = other
    PROVE  IsFiniteSet(S) /\ Cardinality(S) <= Cardinality(E)
           /\ Cardinality(S) \in Nat /\ Cardinality(E) \in Nat
<1> DEFINE f == [row \in S |-> row.action]
<1>1. f \in Injection(S, E)
  BY DEF Injection, IsInjective
<1> HIDE DEF f
<1>2. IsFiniteSet(S) /\ Cardinality(S) <= Cardinality(E)
  BY <1>1, FS_Injection
<1> QED
  BY <1>2, FS_CardinalityType

\* However the commits of a user's refunds interleave, are sent again or die: of those
\* whose result is logged no more than the threshold in a day escape the anomaly flag, the
\* others are being logged or were dropped by a fault, and all of them are counted
\* (tool-executor.service.ts:291-315, orchestrator.service.ts:259-266).
THEOREM UnflaggedIsBounded == Spec => []UnflaggedBounded
<1>1. RefundInv => UnflaggedBounded
  <2> SUFFICES ASSUME RefundInv, NEW u \in Users, NEW d \in Days
               PROVE  /\ Cardinality({row \in Reported(u, d) : row.action \notin flagged})
                              <= AnomalyAfter
                      /\ \A row \in RowsOf(u, d) \ Reported(u, d) :
                            row.action \in lost \/ OnItsWay(row.action, {"log"})
                      /\ Cardinality(RowsOf(u, d)) <= counter[<<u, d>>]
    BY DEF UnflaggedBounded
  <2> DEFINE S == {row \in Reported(u, d) : row.action \notin flagged}
             R == RowsOf(u, d)
             E == Escaped(u, d)
             C == CountedFor(u, d)
  <2>1. /\ IsFiniteSet(E) /\ Cardinality(E) <= AnomalyAfter /\ AnomalyAfter \in Nat
        /\ IsFiniteSet(C) /\ Cardinality(C) <= counter[<<u, d>>] /\ counter[<<u, d>>] \in Nat
    BY CountAssumption DEF RefundInv, DayInv, CommitInv, TypeOK
  <2>2. \A row \in S : row.action \in E
    BY DEF RefundInv, CommitInv, TypeOK, Escaped, EscapedBy, Reported, RowsOf
  <2>3. \A row \in R : row.action \in C
    BY DEF RefundInv, CommitInv, TypeOK, CountedFor, CountedBy, RowsOf
  <2>4. /\ \A row, other \in R : row.action = other.action => row = other
        /\ S \subseteq R
    BY DEF RefundInv, RowInv, RowsOf, Reported
  <2>5. \A row \in R \ Reported(u, d) : row.action \in lost \/ OnItsWay(row.action, {"log"})
    BY DEF RefundInv, RowInv, RowsOf, Reported
  <2> HIDE DEF S, R, E, C
  <2>6. Cardinality(S) <= Cardinality(E) /\ Cardinality(S) \in Nat /\ Cardinality(E) \in Nat
    BY <2>1, <2>2, <2>4, RowsInjected
  <2>7. Cardinality(R) <= Cardinality(C) /\ Cardinality(R) \in Nat /\ Cardinality(C) \in Nat
    BY <2>1, <2>3, <2>4, RowsInjected
  <2>8. Cardinality(S) <= AnomalyAfter /\ Cardinality(R) <= counter[<<u, d>>]
    BY <2>1, <2>6, <2>7
  <2> QED
    BY <2>5, <2>8 DEF S, R
<1> QED
  BY <1>1, RefundInvariant, PTL

-----------------------------------------------------------------------------
(* An accept that took a card is answered for.                              *)

\* What was executed, reported as failed or dropped stays so.
LEMMA SettledStays ==
    ASSUME TypeOK, HandlerInv, [Next]_vars, NEW a \in Actions, Settled(a)
    PROVE  Settled(a)'
<1>1. done[a] > 0 => done'[a] > 0
  BY DoneGrows
<1>2. told[a] \subseteq told'[a]
  <2>1. ASSUME NEW r \in Requests, NEW answer, holds[r] \in Actions, Tell(r, answer)
        PROVE  told[a] \subseteq told'[a]
    BY <2>1 DEF Tell, TypeOK
  <2>2. \A r \in Requests : pc[r] \notin {"idle", "get"} => holds[r] \in Actions
    BY Holding
  <2>3. \/ \E r \in Requests : /\ pc[r] \notin {"idle", "get"}
                               /\ \E answer \in Answers : Tell(r, answer)
        \/ told' = told
    BY DEF Next, Step, Fault, vars, storeVars, Answers, OfferCard, Arrive, ReadPending,
       DeletePending, AnswerDecline, SetGuard, AnswerConflict, GuardResent, CoreSend,
       BackendExecutes, BackendRefuses, CoreReply, CoreFails, CountRefund, CountResent,
       CountRefundBy, ExpireCounter, CreateTicket, QueueRefund, LogCommit, Abort, Tick, NextDay
  <2> QED
    BY <2>1, <2>2, <2>3
<1>3. lost \subseteq lost'
  BY DEF Next, Step, Fault, vars, historyVars, OfferCard, Arrive, ReadPending, DeletePending,
     AnswerDecline, SetGuard, AnswerConflict, GuardResent, CoreSend, BackendExecutes,
     BackendRefuses, CoreReply, CoreFails, CountRefund, CountResent, CountRefundBy,
     ExpireCounter, CreateTicket, QueueRefund, LogCommit, Abort, Tick, NextDay
<1> QED
  BY <1>1, <1>2, <1>3 DEF Settled

\* A handler at or past the guard goes on, or leaves its action answered or dropped
\* (tool-executor.service.ts:263-300).
LEMMA OnwardSteps ==
    ASSUME TypeOK, HandlerInv, [Next]_vars, NEW q \in Requests, pc[q] \in PastGuard \cup {"guard"}
    PROVE  \/ /\ holds'[q] = holds[q]
              /\ pc'[q] \in PastGuard \cup {"guard"}
              /\ pc[q] \in PastGuard => pc'[q] \in PastGuard
           \/ AnswerConflict(q)
           \/ LogCommit(q)
           \/ "failed" \in told'[holds[q]]
           \/ holds[q] \in lost'
<1> USE DEF TypeOK, HandlerInv, PastGuard, redisVars, storeVars, handlerVars, historyVars
<1> DEFINE Same == pc'[q] = pc[q] /\ holds'[q] = holds[q]
<1>1. ASSUME NEW r \in Requests,
             \/ ReadPending(r) \/ DeletePending(r) \/ AnswerDecline(r)
             \/ \E s \in Slots, d \in Decisions : Arrive(r, s, d)
      PROVE  Same
  BY <1>1 DEF ReadPending, DeletePending, AnswerDecline, Arrive, Finish, Goto
<1>2. ASSUME NEW r \in Requests, AnswerConflict(r) \/ LogCommit(r) PROVE Same \/ r = q
  BY <1>2 DEF AnswerConflict, LogCommit, Finish
<1>3. ASSUME NEW r \in Requests, CoreFails(r) \/ GuardResent(r) \/ Abort(r)
      PROVE  Same \/ "failed" \in told'[holds[q]] \/ holds[q] \in lost'
  BY <1>3, Holding DEF CoreFails, GuardResent, Abort, Finish, Tell
<1>4. ASSUME NEW r \in Requests,
             \/ CoreSend(r) \/ CoreReply(r) \/ ExpireCounter(r) \/ CreateTicket(r)
             \/ QueueRefund(r) \/ SetGuard(r) \/ CountRefund(r) \/ CountResent(r)
      PROVE  /\ holds'[q] = holds[q]
             /\ pc'[q] = pc[q] \/ pc'[q] \in PastGuard
  BY <1>4 DEF CoreSend, CoreReply, ExpireCounter, CreateTicket, QueueRefund, SetGuard, FirstStep,
     CountRefund, CountResent, CountRefundBy, Goto
<1>5. ASSUME \/ \E s \in Slots, a \in Actions : OfferCard(s, a)
             \/ \E a \in Actions : BackendExecutes(a) \/ BackendRefuses(a)
             \/ Tick \/ NextDay \/ UNCHANGED vars
      PROVE  Same
  BY <1>5 DEF OfferCard, BackendExecutes, BackendRefuses, Tick, NextDay, vars
<1> HIDE DEF TypeOK, HandlerInv, redisVars, storeVars, handlerVars, historyVars
<1> QED
  BY <1>1, <1>2, <1>3, <1>4, <1>5 DEF Next, Step, Fault

\* An action that is being committed is settled when its handler leaves it.
LEMMA WaySettles ==
    ASSUME CommitInv, [Next]_vars, NEW a \in Actions, OnItsWay(a, PastGuard)
    PROVE  Settled(a)' \/ OnItsWay(a, PastGuard)'
<1>1. PICK q \in Requests : holds[q] = a /\ pc[q] \in PastGuard
  BY DEF OnItsWay
<1>2. ~ AnswerConflict(q)
  BY <1>1 DEF AnswerConflict, PastGuard
<1>3. LogCommit(q) => Settled(a)'
  <2> SUFFICES ASSUME LogCommit(q) PROVE Settled(a)'
    OBVIOUS
  <2>1. done[a] = 1
    BY <1>1 DEF LogCommit, CommitInv, EffectInv
  <2> QED
    BY <2>1, SettledStays DEF Settled, CommitInv
<1>4. \/ holds'[q] = a /\ pc'[q] \in PastGuard
      \/ LogCommit(q)
      \/ "failed" \in told'[a] \/ a \in lost'
  BY <1>1, <1>2, OnwardSteps DEF CommitInv
<1> QED
  BY <1>3, <1>4 DEF Settled, OnItsWay

\* A guard is set by a commit, or by one whose reply was lost
\* (tool-executor.service.ts:265-271).
LEMMA GuardSteps ==
    ASSUME TypeOK, HandlerInv, [Next]_vars, NEW a \in Actions, guard'[a] > 0 \/ commits'[a] > 0
    PROVE  \/ guard[a] > 0 \/ commits[a] > 0
           \/ a \in lost'
           \/ OnItsWay(a, PastGuard)'
<1>1. ASSUME NEW r \in Requests, SetGuard(r), holds[r] = a PROVE OnItsWay(a, PastGuard)'
  BY <1>1 DEF SetGuard, FirstStep, OnItsWay, PastGuard, TypeOK
<1>2. ASSUME NEW r \in Requests, SetGuard(r), holds[r] # a
      PROVE  guard[a] > 0 \/ commits[a] > 0
  BY <1>2, Holding DEF SetGuard, TypeOK
<1>3. ASSUME NEW r \in Requests, GuardResent(r)
      PROVE  guard[a] > 0 \/ commits[a] > 0 \/ a \in lost'
  BY <1>3, Holding DEF GuardResent, TypeOK
<1>4. ASSUME Tick PROVE guard[a] > 0 \/ commits[a] > 0
  BY <1>4 DEF Tick, historyVars, TypeOK
<1>5. \/ \E r \in Requests : SetGuard(r) \/ GuardResent(r)
      \/ Tick
      \/ guard' = guard /\ commits' = commits
  BY DEF Next, Step, Fault, vars, redisVars, historyVars, OfferCard, Arrive, ReadPending,
     DeletePending, AnswerDecline, AnswerConflict, CoreSend, BackendExecutes,
     BackendRefuses, CoreReply, CoreFails, CountRefund, CountResent, CountRefundBy,
     ExpireCounter, CreateTicket, QueueRefund, LogCommit, Abort, NextDay
<1> QED
  BY <1>1, <1>2, <1>3, <1>4, <1>5

\* Whoever finds the guard taken leaves the action to somebody else.
LEMMA SettleInvStep == CommitInv /\ SettleInv /\ [Next]_vars => SettleInv'
<1> SUFFICES ASSUME CommitInv, SettleInv, [Next]_vars,
                    NEW a \in Actions, guard'[a] > 0 \/ commits'[a] > 0
             PROVE  Settled(a)' \/ OnItsWay(a, PastGuard)'
  BY DEF SettleInv
<1>1. CASE guard[a] > 0 \/ commits[a] > 0
  <2>1. Settled(a) \/ OnItsWay(a, PastGuard)
    BY <1>1 DEF SettleInv
  <2> QED
    BY <2>1, SettledStays, WaySettles DEF CommitInv
<1>2. CASE a \in lost' \/ OnItsWay(a, PastGuard)'
  BY <1>2 DEF Settled
<1> QED
  BY <1>1, <1>2, GuardSteps DEF CommitInv

\* A card is obtained for an accept by the handler that will commit it
\* (confirmation.store.ts:41-52).
LEMMA TakenSteps ==
    ASSUME TypeOK, HandlerInv, [Next]_vars, NEW a \in Actions, taken'[a]["accept"] > 0
    PROVE  taken[a]["accept"] > 0 \/ OnItsWay(a, PastGuard \cup {"guard"})'
<1>1. ASSUME NEW r \in Requests, DeletePending(r), holds[r] = a, ask[r].decision = "accept"
      PROVE  OnItsWay(a, PastGuard \cup {"guard"})'
  BY <1>1 DEF DeletePending, AfterTake, Goto, OnItsWay, TypeOK
<1>2. ASSUME NEW r \in Requests, DeletePending(r), holds[r] # a \/ ask[r].decision # "accept"
      PROVE  taken'[a]["accept"] = taken[a]["accept"]
  BY <1>2 DEF DeletePending, TypeOK, Decisions
<1>3. (\E r \in Requests : DeletePending(r)) \/ taken' = taken
  BY DEF Next, Step, Fault, vars, historyVars, OfferCard, Arrive, ReadPending,
     AnswerDecline, SetGuard, AnswerConflict, GuardResent, CoreSend, BackendExecutes,
     BackendRefuses, CoreReply, CoreFails, CountRefund, CountResent, CountRefundBy,
     ExpireCounter, CreateTicket, QueueRefund, LogCommit, Abort, Tick, NextDay
<1> QED
  BY <1>1, <1>2, <1>3

\* An action on its way to the guard gets past it, or finds it taken by another commit.
LEMMA AcceptSettlesStep ==
    CommitInv /\ SettleInv /\ AcceptSettles /\ [Next]_vars => AcceptSettles'
<1> SUFFICES ASSUME CommitInv, SettleInv, AcceptSettles, [Next]_vars,
                    NEW a \in Actions, taken'[a]["accept"] > 0
             PROVE  Settled(a)' \/ OnItsWay(a, PastGuard \cup {"guard"})'
  BY DEF AcceptSettles
<1>1. CASE Settled(a)
  BY <1>1, SettledStays DEF CommitInv
<1>2. CASE OnItsWay(a, PastGuard)
  BY <1>2, WaySettles DEF OnItsWay
<1>3. ASSUME NEW q \in Requests, holds[q] = a, pc[q] = "guard", ~ OnItsWay(a, PastGuard),
             ~ Settled(a)
      PROVE  Settled(a)' \/ OnItsWay(a, PastGuard \cup {"guard"})'
  <2>1. ~ AnswerConflict(q)
    <3>1. guard[a] = 0
      BY <1>3 DEF SettleInv, CommitInv, TypeOK
    <3> QED
      BY <1>3, <3>1 DEF AnswerConflict, GuardFree
  <2>2. ~ LogCommit(q)
    BY <1>3 DEF LogCommit
  <2>3. \/ holds'[q] = a /\ pc'[q] \in PastGuard \cup {"guard"}
        \/ "failed" \in told'[a] \/ a \in lost'
    BY <1>3, <2>1, <2>2, OnwardSteps DEF CommitInv
  <2> QED
    BY <2>3 DEF Settled, OnItsWay
<1>4. CASE taken[a]["accept"] > 0
  <2>1. Settled(a) \/ OnItsWay(a, PastGuard) \/ \E q \in Requests : holds[q] = a /\ pc[q] = "guard"
    BY <1>4 DEF AcceptSettles, OnItsWay
  <2> QED
    BY <1>1, <1>2, <1>3, <2>1
<1> QED
  BY <1>4, TakenSteps DEF CommitInv

\* Everything a run of the gate keeps, for every set of handlers
\* (orchestrator.service.ts:241-268, tool-executor.service.ts:257-332).
THEOREM GateInvariant == Spec => []GateInv
<1>1. Init => GateInv
  BY CommitInvInit DEF Init, GateInv, SettleInv, AcceptSettles, Decisions
<1>2. GateInv /\ [Next]_vars => GateInv'
  BY CommitInvStep, SettleInvStep, AcceptSettlesStep DEF GateInv
<1> QED
  BY <1>1, <1>2, PTL DEF Spec

\* Racing accepts never all lose: an action that an accept obtained is executed, reported as
\* failed or dropped by a fault, or some handler is still working on it
\* (tool-executor.service.ts:263-300).
THEOREM AcceptsAreSettled == Spec => []AcceptSettles
<1>1. GateInv => AcceptSettles
  BY DEF GateInv
<1> QED
  BY GateInvariant, <1>1, PTL

================================================================================
