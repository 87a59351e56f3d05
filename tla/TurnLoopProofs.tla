----------------------------- MODULE TurnLoopProofs ----------------------------
(***************************************************************************)
(* Proofs about a turn of the assistant: TurnInv is an inductive invariant *)
(* of TurnLoop, for every set of amounts, every role and every hop cap.    *)
(***************************************************************************)
EXTENDS TurnLoop, TLAPS

USE TurnAssumption

-----------------------------------------------------------------------------
\* A number of calls to handle is one or more than one.
LEMMA OneOrMore ==
    ASSUME NEW n \in Nat, n >= 1
    PROVE  n = 1 \/ n > 1
OBVIOUS

\* Once a call is handled the turn goes on with the next call, ends to wait for a
\* confirmation, or spends a hop.
LEMMA NextCallCases ==
    ASSUME TypeOK, HopInv, pc \in Handling, NEW w \in BOOLEAN, NextCall(w)
    PROVE  /\ calls' \in Seq(Calls) /\ Len(calls') <= MaxCalls
           /\ awaiting' = w
           /\ \/ /\ pc' = "tool" /\ calls' # <<>>
                 /\ hop' = hop /\ ending' = ending
              \/ pc' = "ended" /\ ending' = "awaiting" /\ w /\ hop' = hop
              \/ /\ ~ w /\ hop' = hop + 1 /\ ending' = ending
                 /\ \/ pc' = "complete" /\ hop' < MaxHops
                    \/ pc' = "forced" /\ hop' = MaxHops
<1> USE DEF TypeOK, HopInv, Handling
<1>1. Len(calls) \in Nat /\ Len(calls) >= 1 /\ hop \in Nat /\ hop + 1 <= MaxHops
  OBVIOUS
<1>2. calls' = Tail(calls) /\ Len(calls') = Len(calls) - 1 /\ calls' \in Seq(Calls)
  BY DEF NextCall
<1>3. CASE Len(calls) > 1
  <2>1. Len(calls') > 0 /\ Len(calls') <= MaxCalls
    BY <1>1, <1>2, <1>3
  <2>2. calls' # <<>>
    BY <2>1
  <2> QED
    BY <1>1, <1>2, <1>3, <2>1, <2>2 DEF NextCall
<1>4. CASE Len(calls) = 1
  <2>1. Len(calls') <= MaxCalls /\ awaiting' = w
    BY <1>1, <1>2, <1>4 DEF NextCall
  <2>2. (w /\ End("awaiting") /\ UNCHANGED hop) \/ (~ w /\ Loop)
    BY <1>4 DEF NextCall
  <2> QED
    BY <1>1, <1>2, <2>1, <2>2 DEF Loop, NextHop, End
<1> HIDE DEF TypeOK, HopInv, Handling
<1>5. Len(calls) = 1 \/ Len(calls) > 1
  BY <1>1, OneOrMore
<1> QED
  BY <1>3, <1>4, <1>5

\* Every action keeps the state of the turn in its types.
LEMMA TypeStep == TypeOK /\ HopInv /\ [Next]_vars => TypeOK'
<1> SUFFICES ASSUME TypeOK, HopInv, [Next]_vars PROVE TypeOK'
  OBVIOUS
<1> USE DEF TypeOK, HopInv, Handling, loopVars, storeVars, Texts, Canned, EntrySet,
       Entries, Entry, Calls, Tools
<1>1. ASSUME HearUser PROVE TypeOK'
  BY <1>1 DEF HearUser, Record
<1>2. ASSUME Prepare PROVE TypeOK'
  BY <1>2 DEF Prepare, Following
<1>3. ASSUME ProposeCalls PROVE TypeOK'
  <2>1. PICK n \in 0..MaxCalls : calls' \in [1..n -> Calls]
    BY <1>3 DEF ProposeCalls, Replies, ViaGroq, ViaAnthropic
  <2>2. calls' \in Seq(Calls) /\ Len(calls') = n
    BY <2>1
  <2>3. n <= MaxCalls
    BY <2>1
  <2>4. completions' \in 0..(MaxHops + 2)
    BY <1>3 DEF ProposeCalls, CountCompletion
  <2> HIDE DEF Calls
  <2> QED
    BY <1>3, <2>2, <2>3, <2>4 DEF ProposeCalls
<1>4. ASSUME RetryDraft PROVE TypeOK'
  BY <1>4 DEF RetryDraft, Loop, NextHop, Grounded, CountCompletion
<1>5. ASSUME AcceptDraft PROVE TypeOK'
  BY <1>5 DEF AcceptDraft, Reply, Grounded, ModelText, CannedText, CountCompletion
<1>6. ASSUME SkipCall PROVE TypeOK'
  BY <1>6, NextCallCases DEF SkipCall
<1>7. ASSUME ReadTool PROVE TypeOK'
  BY <1>7 DEF ReadTool
<1>8. ASSUME EscalateTool PROVE TypeOK'
  BY <1>8 DEF EscalateTool
<1>9. ASSUME CardTool PROVE TypeOK'
  BY <1>9 DEF CardTool
<1>10. ASSUME RefundTool PROVE TypeOK'
  BY <1>10 DEF RefundTool
<1>11. ASSUME ToolThrows PROVE TypeOK'
  BY <1>11 DEF ToolThrows, MayOpenTicket, Observe
<1>12. ASSUME ShowToolError PROVE TypeOK'
  BY <1>12, NextCallCases, SMTT(30) DEF ShowToolError, RecordAndShow, Record, Show
<1>13. ASSUME ShowResult PROVE TypeOK'
  BY <1>13, NextCallCases, SMTT(30) DEF ShowResult, RecordAndShow, Record, Show, StillAwaiting
<1>14. ASSUME MarkEscalated PROVE TypeOK'
  BY <1>14, NextCallCases, SMTT(30) DEF MarkEscalated, MarkedStatus, StillAwaiting
<1>15. ASSUME SaveCard PROVE TypeOK'
  BY <1>15 DEF SaveCard, CardSaved
<1>16. ASSUME ShowCard PROVE TypeOK'
  <2>1. NextCall(TRUE) /\ pc \in Handling
    BY <1>16 DEF ShowCard
  <2> HIDE DEF TypeOK, HopInv, Handling
  <2>2. /\ calls' \in Seq(Calls) /\ Len(calls') <= MaxCalls
        /\ awaiting' = TRUE
        /\ \/ /\ pc' = "tool" /\ calls' # <<>>
              /\ hop' = hop /\ ending' = ending
           \/ pc' = "ended" /\ ending' = "awaiting" /\ hop' = hop
    BY <2>1, NextCallCases
  <2> USE DEF TypeOK, HopInv, Handling
  <2> QED
    BY <1>16, <2>2 DEF ShowCard, RecordAndShow, Record, Show
<1>17. ASSUME ForceText PROVE TypeOK'
  BY <1>17 DEF ForceText, ModelText, CannedText, Grounded, CountCompletion
<1>18. ASSUME SendAnswer PROVE TypeOK'
  BY <1>18 DEF SendAnswer, RecordAndShow, Record, Show, End
<1>19. ASSUME GatewayDown PROVE TypeOK'
  BY <1>19 DEF GatewayDown, CountCompletion
<1>20. ASSUME Degrade PROVE TypeOK'
  BY <1>20 DEF Degrade, MayOpenTicket, Show, End
<1>21. ASSUME Reject PROVE TypeOK'
  BY <1>21 DEF Reject, MayWrite, Writing, Record, MarkedStatus, CardSaved, End
<1>22. ASSUME Crash PROVE TypeOK'
  BY <1>22 DEF Crash, MayWrite, Writing, Record, MarkedStatus, CardSaved
<1>23. ASSUME UNCHANGED vars PROVE TypeOK'
  BY <1>23 DEF vars
<1> QED
  BY <1>1, <1>2, <1>3, <1>4, <1>5, <1>6, <1>7, <1>8, <1>9, <1>10, <1>11, <1>12, <1>13,
     <1>14, <1>15, <1>16, <1>17, <1>18, <1>19, <1>20, <1>21, <1>22, <1>23 DEF Next,
     Settle

\* Every completion of the loop is followed by a hop before the next one: the
\* continue after tool calls and the grounding retry both go through the increment.
LEMMA HopStep == TypeOK /\ HopInv /\ [Next]_vars => HopInv'
<1> SUFFICES ASSUME TypeOK, HopInv, [Next]_vars PROVE HopInv'
  OBVIOUS
<1> USE DEF HopInv, Handling, Preparing, TypeOK, loopVars, storeVars
<1>1. ASSUME HearUser PROVE HopInv'
  BY <1>1 DEF HearUser, Record
<1>2. ASSUME Prepare PROVE HopInv'
  BY <1>2 DEF Prepare, Following
<1>3. ASSUME ProposeCalls PROVE HopInv'
  BY <1>3 DEF ProposeCalls, CountCompletion
<1>4. ASSUME RetryDraft PROVE HopInv'
  BY <1>4 DEF RetryDraft, Loop, NextHop, Grounded, CountCompletion
<1>5. ASSUME AcceptDraft PROVE HopInv'
  BY <1>5 DEF AcceptDraft, Reply, Grounded, ModelText, CannedText, CountCompletion
<1>6. ASSUME SkipCall PROVE HopInv'
  BY <1>6, NextCallCases DEF SkipCall
<1>7. ASSUME ReadTool PROVE HopInv'
  BY <1>7 DEF ReadTool
<1>8. ASSUME EscalateTool PROVE HopInv'
  BY <1>8 DEF EscalateTool
<1>9. ASSUME CardTool PROVE HopInv'
  BY <1>9 DEF CardTool
<1>10. ASSUME RefundTool PROVE HopInv'
  BY <1>10 DEF RefundTool
<1>11. ASSUME ToolThrows PROVE HopInv'
  BY <1>11 DEF ToolThrows, MayOpenTicket, Observe
<1>12. ASSUME ShowToolError PROVE HopInv'
  BY <1>12, NextCallCases DEF ShowToolError, RecordAndShow, Record, Show
<1>13. ASSUME ShowResult PROVE HopInv'
  BY <1>13, NextCallCases DEF ShowResult, RecordAndShow, Record, Show, StillAwaiting
<1>14. ASSUME MarkEscalated PROVE HopInv'
  BY <1>14, NextCallCases DEF MarkEscalated, MarkedStatus, StillAwaiting
<1>15. ASSUME SaveCard PROVE HopInv'
  BY <1>15 DEF SaveCard, CardSaved
<1>16. ASSUME ShowCard PROVE HopInv'
  BY <1>16, NextCallCases DEF ShowCard, RecordAndShow, Record, Show
<1>17. ASSUME ForceText PROVE HopInv'
  BY <1>17 DEF ForceText, ModelText, CannedText, Grounded, CountCompletion
<1>18. ASSUME SendAnswer PROVE HopInv'
  BY <1>18 DEF SendAnswer, RecordAndShow, Record, Show, End
<1>19. ASSUME GatewayDown PROVE HopInv'
  BY <1>19 DEF GatewayDown, CountCompletion
<1>20. ASSUME Degrade PROVE HopInv'
  BY <1>20 DEF Degrade, MayOpenTicket, Show, End
<1>21. ASSUME Reject PROVE HopInv'
  BY <1>21 DEF Reject, MayWrite, Writing, Record, MarkedStatus, CardSaved, End
<1>22. ASSUME Crash PROVE HopInv'
  BY <1>22 DEF Crash, MayWrite, Writing, Record, MarkedStatus, CardSaved
<1>23. ASSUME UNCHANGED vars PROVE HopInv'
  BY <1>23 DEF vars
<1> QED
  BY <1>1, <1>2, <1>3, <1>4, <1>5, <1>6, <1>7, <1>8, <1>9, <1>10, <1>11, <1>12, <1>13,
     <1>14, <1>15, <1>16, <1>17, <1>18, <1>19, <1>20, <1>21, <1>22, <1>23 DEF Next,
     Settle

\* The amount of initiate_refund is allowed only from the save of its card on, and
\* the turn then ends before the next completion; all others come from the core.
LEMMA MoneyStep ==
    TypeOK /\ HopInv /\ MoneyInv /\ SourcedText /\ [Next]_vars => (MoneyInv /\ SourcedText)'
<1> SUFFICES ASSUME TypeOK, HopInv, MoneyInv, SourcedText, [Next]_vars
             PROVE  (MoneyInv /\ SourcedText)'
  OBVIOUS
<1> USE DEF MoneyInv, SourcedText, ShownSome, Entry, Handling, Preparing, Over, TypeOK,
       HopInv, loopVars, storeVars
<1>1. ASSUME HearUser PROVE (MoneyInv /\ SourcedText)'
  BY <1>1 DEF HearUser, Record
<1>2. ASSUME Prepare PROVE (MoneyInv /\ SourcedText)'
  BY <1>2 DEF Prepare, Following
<1>3. ASSUME ProposeCalls PROVE (MoneyInv /\ SourcedText)'
  BY <1>3 DEF ProposeCalls, CountCompletion
<1>4. ASSUME RetryDraft PROVE (MoneyInv /\ SourcedText)'
  BY <1>4 DEF RetryDraft, Loop, NextHop, Grounded, CountCompletion
<1>5. ASSUME AcceptDraft PROVE (MoneyInv /\ SourcedText)'
  BY <1>5 DEF AcceptDraft, Reply, Grounded, ModelText, CannedText, CountCompletion
<1>6. ASSUME SkipCall PROVE (MoneyInv /\ SourcedText)'
  BY <1>6, NextCallCases DEF SkipCall
<1>7. ASSUME ReadTool PROVE (MoneyInv /\ SourcedText)'
  BY <1>7 DEF ReadTool
<1>8. ASSUME EscalateTool PROVE (MoneyInv /\ SourcedText)'
  BY <1>8 DEF EscalateTool
<1>9. ASSUME CardTool PROVE (MoneyInv /\ SourcedText)'
  BY <1>9 DEF CardTool
<1>10. ASSUME RefundTool PROVE (MoneyInv /\ SourcedText)'
  BY <1>10 DEF RefundTool
<1>11. ASSUME ToolThrows PROVE (MoneyInv /\ SourcedText)'
  BY <1>11 DEF ToolThrows, MayOpenTicket, Observe
<1>12. ASSUME ShowToolError PROVE (MoneyInv /\ SourcedText)'
  BY <1>12, NextCallCases DEF ShowToolError, RecordAndShow, Record, Show
<1>13. ASSUME ShowResult PROVE (MoneyInv /\ SourcedText)'
  BY <1>13, NextCallCases DEF ShowResult, RecordAndShow, Record, Show, StillAwaiting
<1>14. ASSUME MarkEscalated PROVE (MoneyInv /\ SourcedText)'
  BY <1>14, NextCallCases DEF MarkEscalated, MarkedStatus, StillAwaiting
<1>15. ASSUME SaveCard PROVE (MoneyInv /\ SourcedText)'
  BY <1>15 DEF SaveCard, CardSaved
<1>16. ASSUME ShowCard PROVE (MoneyInv /\ SourcedText)'
  <2>1. NextCall(TRUE) /\ pc \in Handling
    BY <1>16 DEF ShowCard
  <2> HIDE DEF TypeOK, HopInv, Handling
  <2>2. /\ calls' \in Seq(Calls) /\ Len(calls') <= MaxCalls
        /\ awaiting' = TRUE
        /\ \/ /\ pc' = "tool" /\ calls' # <<>>
              /\ hop' = hop /\ ending' = ending
           \/ pc' = "ended" /\ ending' = "awaiting" /\ hop' = hop
    BY <2>1, NextCallCases
  <2> USE DEF TypeOK, HopInv, Handling
  <2> QED
    BY <1>16, <2>2 DEF ShowCard, RecordAndShow, Record, Show
<1>17. ASSUME ForceText PROVE (MoneyInv /\ SourcedText)'
  BY <1>17 DEF ForceText, ModelText, CannedText, Grounded, CountCompletion
<1>18. ASSUME SendAnswer PROVE (MoneyInv /\ SourcedText)'
  BY <1>18 DEF SendAnswer, RecordAndShow, Record, Show, End
<1>19. ASSUME GatewayDown PROVE (MoneyInv /\ SourcedText)'
  BY <1>19 DEF GatewayDown, CountCompletion
<1>20. ASSUME Degrade PROVE (MoneyInv /\ SourcedText)'
  BY <1>20 DEF Degrade, MayOpenTicket, Show, End
<1>21. ASSUME Reject PROVE (MoneyInv /\ SourcedText)'
  BY <1>21 DEF Reject, MayWrite, Writing, Record, MarkedStatus, CardSaved, End
<1>22. ASSUME Crash PROVE (MoneyInv /\ SourcedText)'
  BY <1>22 DEF Crash, MayWrite, Writing, Record, MarkedStatus, CardSaved
<1>23. ASSUME UNCHANGED vars PROVE (MoneyInv /\ SourcedText)'
  BY <1>23 DEF vars
<1> QED
  BY <1>1, <1>2, <1>3, <1>4, <1>5, <1>6, <1>7, <1>8, <1>9, <1>10, <1>11, <1>12, <1>13,
     <1>14, <1>15, <1>16, <1>17, <1>18, <1>19, <1>20, <1>21, <1>22, <1>23 DEF Next,
     Settle

\* A card is saved before it is shown, and from then on the turn only waits for the
\* confirmation: no later call of the completion takes the flag back.
LEMMA CardStep ==
    TypeOK /\ HopInv /\ MoneyInv /\ CardInv /\ CardConfirmable /\ [Next]_vars
        => (CardInv /\ CardConfirmable)'
<1> SUFFICES ASSUME TypeOK, HopInv, MoneyInv, CardInv, CardConfirmable, [Next]_vars
             PROVE  (CardInv /\ CardConfirmable)'
  OBVIOUS
<1> USE DEF CardInv, CardConfirmable, MoneyInv, ShownSome, Entry, Handling, Preparing,
       Over, TypeOK, HopInv, loopVars, storeVars
<1>1. ASSUME HearUser PROVE (CardInv /\ CardConfirmable)'
  BY <1>1 DEF HearUser, Record
<1>2. ASSUME Prepare PROVE (CardInv /\ CardConfirmable)'
  BY <1>2 DEF Prepare, Following
<1>3. ASSUME ProposeCalls PROVE (CardInv /\ CardConfirmable)'
  BY <1>3 DEF ProposeCalls, CountCompletion
<1>4. ASSUME RetryDraft PROVE (CardInv /\ CardConfirmable)'
  BY <1>4 DEF RetryDraft, Loop, NextHop, Grounded, CountCompletion
<1>5. ASSUME AcceptDraft PROVE (CardInv /\ CardConfirmable)'
  BY <1>5 DEF AcceptDraft, Reply, Grounded, ModelText, CannedText, CountCompletion
<1>6. ASSUME SkipCall PROVE (CardInv /\ CardConfirmable)'
  BY <1>6, NextCallCases DEF SkipCall
<1>7. ASSUME ReadTool PROVE (CardInv /\ CardConfirmable)'
  BY <1>7 DEF ReadTool
<1>8. ASSUME EscalateTool PROVE (CardInv /\ CardConfirmable)'
  BY <1>8 DEF EscalateTool
<1>9. ASSUME CardTool PROVE (CardInv /\ CardConfirmable)'
  BY <1>9 DEF CardTool
<1>10. ASSUME RefundTool PROVE (CardInv /\ CardConfirmable)'
  BY <1>10 DEF RefundTool
<1>11. ASSUME ToolThrows PROVE (CardInv /\ CardConfirmable)'
  BY <1>11 DEF ToolThrows, MayOpenTicket, Observe
<1>12. ASSUME ShowToolError PROVE (CardInv /\ CardConfirmable)'
  BY <1>12, NextCallCases DEF ShowToolError, RecordAndShow, Record, Show
<1>13. ASSUME ShowResult PROVE (CardInv /\ CardConfirmable)'
  BY <1>13, NextCallCases DEF ShowResult, RecordAndShow, Record, Show, StillAwaiting
<1>14. ASSUME MarkEscalated PROVE (CardInv /\ CardConfirmable)'
  BY <1>14, NextCallCases DEF MarkEscalated, MarkedStatus, StillAwaiting
<1>15. ASSUME SaveCard PROVE (CardInv /\ CardConfirmable)'
  BY <1>15 DEF SaveCard, CardSaved
<1>16. ASSUME ShowCard PROVE (CardInv /\ CardConfirmable)'
  <2>1. NextCall(TRUE) /\ pc \in Handling
    BY <1>16 DEF ShowCard
  <2> HIDE DEF TypeOK, HopInv, Handling
  <2>2. /\ calls' \in Seq(Calls) /\ Len(calls') <= MaxCalls
        /\ awaiting' = TRUE
        /\ \/ /\ pc' = "tool" /\ calls' # <<>>
              /\ hop' = hop /\ ending' = ending
           \/ pc' = "ended" /\ ending' = "awaiting" /\ hop' = hop
    BY <2>1, NextCallCases
  <2> USE DEF TypeOK, HopInv, Handling
  <2> QED
    BY <1>16, <2>2 DEF ShowCard, RecordAndShow, Record, Show
<1>17. ASSUME ForceText PROVE (CardInv /\ CardConfirmable)'
  BY <1>17 DEF ForceText, ModelText, CannedText, Grounded, CountCompletion
<1>18. ASSUME SendAnswer PROVE (CardInv /\ CardConfirmable)'
  <2>1. shown' = shown \cup {Entry("answer")} /\ ~ awaiting /\ saved' = saved
    BY <1>18 DEF SendAnswer, RecordAndShow, Show
  <2>2. Entry("answer").what = "answer"
    OBVIOUS
  <2>3. ~ ShownSome("card")'
    BY <1>18, <2>1, <2>2 DEF SendAnswer
  <2>4. ShownSome("answer")'
    BY <2>1, <2>2
  <2>5. pc' = "ended" /\ ending' = "done"
    BY <1>18 DEF SendAnswer, End
  <2> HIDE DEF TypeOK, HopInv, MoneyInv
  <2> QED
    BY <2>3, <2>4, <2>5
<1>19. ASSUME GatewayDown PROVE (CardInv /\ CardConfirmable)'
  BY <1>19 DEF GatewayDown, CountCompletion
<1>20. ASSUME Degrade PROVE (CardInv /\ CardConfirmable)'
  BY <1>20 DEF Degrade, MayOpenTicket, Show, End
<1>21. ASSUME Reject PROVE (CardInv /\ CardConfirmable)'
  BY <1>21 DEF Reject, MayWrite, Writing, Record, MarkedStatus, CardSaved, End
<1>22. ASSUME Crash PROVE (CardInv /\ CardConfirmable)'
  BY <1>22 DEF Crash, MayWrite, Writing, Record, MarkedStatus, CardSaved
<1>23. ASSUME UNCHANGED vars PROVE (CardInv /\ CardConfirmable)'
  BY <1>23 DEF vars
<1> QED
  BY <1>1, <1>2, <1>3, <1>4, <1>5, <1>6, <1>7, <1>8, <1>9, <1>10, <1>11, <1>12, <1>13,
     <1>14, <1>15, <1>16, <1>17, <1>18, <1>19, <1>20, <1>21, <1>22, <1>23 DEF Next,
     Settle

\* A step from elsewhere than the handling of a ticket, which opens none, leaves every
\* ticket as it was.
LEMMA TicketsKept ==
    ASSUME TypeOK, HopInv, TicketInv, pc \notin {"result", "mark", "toolError"} \cup Over,
           tickets' = tickets, status' = status, logged \subseteq logged', pc' # "mark"
    PROVE  TicketInv'
<1>1. ending = "open"
  BY DEF HopInv, Over
<1>2. ASSUME NEW t \in tickets, status # "escalated" PROVE SaidToFail(t)'
  <2>1. SaidToFail(t)
    BY <1>1, <1>2 DEF TicketInv, JustOpened, Over
  <2> QED
    BY <2>1 DEF SaidToFail
<1> QED
  BY <1>2 DEF TicketInv

\* setStatus(ESCALATED) follows the ticket of escalate_to_human before the turn can
\* go on, or the call is recorded as failed.
LEMMA TicketStep == TypeOK /\ HopInv /\ TicketInv /\ [Next]_vars => TicketInv'
<1> SUFFICES ASSUME TypeOK, HopInv, TicketInv, [Next]_vars PROVE TicketInv'
  OBVIOUS
<1>1. ASSUME HearUser PROVE TicketInv'
  <2>1. pc \notin {"result", "mark", "toolError"} \cup Over /\ tickets' = tickets
        /\ status' = status /\ logged \subseteq logged' /\ pc' # "mark"
    BY <1>1 DEF HearUser, Record, loopVars, storeVars, Over
  <2> QED
    BY <2>1, TicketsKept
<1>2. ASSUME Prepare PROVE TicketInv'
  <2>1. pc \notin {"result", "mark", "toolError"} \cup Over /\ tickets' = tickets
        /\ status' = status /\ logged \subseteq logged' /\ pc' # "mark"
    BY <1>2 DEF Prepare, Following, loopVars, storeVars, Over
  <2> QED
    BY <2>1, TicketsKept
<1>3. ASSUME ProposeCalls PROVE TicketInv'
  <2>1. pc \notin {"result", "mark", "toolError"} \cup Over /\ tickets' = tickets
        /\ status' = status /\ logged \subseteq logged' /\ pc' # "mark"
    BY <1>3 DEF ProposeCalls, loopVars, storeVars, Over
  <2> QED
    BY <2>1, TicketsKept
<1>4. ASSUME RetryDraft PROVE TicketInv'
  <2>1. pc \notin {"result", "mark", "toolError"} \cup Over /\ tickets' = tickets
        /\ status' = status /\ logged \subseteq logged' /\ pc' # "mark"
    BY <1>4 DEF RetryDraft, Loop, NextHop, loopVars, storeVars, Over
  <2> QED
    BY <2>1, TicketsKept
<1>5. ASSUME AcceptDraft PROVE TicketInv'
  <2>1. pc \notin {"result", "mark", "toolError"} \cup Over /\ tickets' = tickets
        /\ status' = status /\ logged \subseteq logged' /\ pc' # "mark"
    BY <1>5 DEF AcceptDraft, loopVars, storeVars, Over
  <2> QED
    BY <2>1, TicketsKept
<1>6. ASSUME SkipCall PROVE TicketInv'
  <2>1. pc \notin {"result", "mark", "toolError"} \cup Over /\ tickets' = tickets
        /\ status' = status /\ logged \subseteq logged' /\ pc' # "mark"
    BY <1>6 DEF SkipCall, NextCall, Loop, NextHop, End, loopVars, storeVars, Over
  <2> QED
    BY <2>1, TicketsKept
<1>7. ASSUME ReadTool PROVE TicketInv'
  <2>1. pc \notin {"result", "mark", "toolError"} \cup Over /\ tickets' = tickets
        /\ status' = status /\ logged \subseteq logged' /\ pc' # "mark"
    BY <1>7 DEF ReadTool, loopVars, storeVars, Over
  <2> QED
    BY <2>1, TicketsKept
<1>8. ASSUME CardTool PROVE TicketInv'
  <2>1. pc \notin {"result", "mark", "toolError"} \cup Over /\ tickets' = tickets
        /\ status' = status /\ logged \subseteq logged' /\ pc' # "mark"
    BY <1>8 DEF CardTool, loopVars, storeVars, Over
  <2> QED
    BY <2>1, TicketsKept
<1>9. ASSUME RefundTool PROVE TicketInv'
  <2>1. pc \notin {"result", "mark", "toolError"} \cup Over /\ tickets' = tickets
        /\ status' = status /\ logged \subseteq logged' /\ pc' # "mark"
    BY <1>9 DEF RefundTool, loopVars, storeVars, Over
  <2> QED
    BY <2>1, TicketsKept
<1>10. ASSUME SaveCard PROVE TicketInv'
  <2>1. pc \notin {"result", "mark", "toolError"} \cup Over /\ tickets' = tickets
        /\ status' = status /\ logged \subseteq logged' /\ pc' # "mark"
    BY <1>10 DEF SaveCard, loopVars, storeVars, Over
  <2> QED
    BY <2>1, TicketsKept
<1>11. ASSUME ShowCard PROVE TicketInv'
  <2>1. pc \notin {"result", "mark", "toolError"} \cup Over /\ tickets' = tickets
        /\ status' = status /\ logged \subseteq logged' /\ pc' # "mark"
    BY <1>11 DEF ShowCard, RecordAndShow, Record, NextCall, Loop, NextHop, End, loopVars, storeVars, Over
  <2> QED
    BY <2>1, TicketsKept
<1>12. ASSUME ForceText PROVE TicketInv'
  <2>1. pc \notin {"result", "mark", "toolError"} \cup Over /\ tickets' = tickets
        /\ status' = status /\ logged \subseteq logged' /\ pc' # "mark"
    BY <1>12 DEF ForceText, loopVars, storeVars, Over
  <2> QED
    BY <2>1, TicketsKept
<1>13. ASSUME SendAnswer PROVE TicketInv'
  <2>1. pc \notin {"result", "mark", "toolError"} \cup Over /\ tickets' = tickets
        /\ status' = status /\ logged \subseteq logged' /\ pc' # "mark"
    BY <1>13 DEF SendAnswer, RecordAndShow, Record, End, loopVars, storeVars, Over
  <2> QED
    BY <2>1, TicketsKept
<1>14. ASSUME GatewayDown PROVE TicketInv'
  <2>1. pc \notin {"result", "mark", "toolError"} \cup Over /\ tickets' = tickets
        /\ status' = status /\ logged \subseteq logged' /\ pc' # "mark"
    BY <1>14 DEF GatewayDown, loopVars, storeVars, Over
  <2> QED
    BY <2>1, TicketsKept
\* What a ticket of an earlier call is, while another call is handled.
<1> DEFINE Fine(t) == SaidToFail(t) \/ JustOpened(t)
<1>15. ASSUME pc \notin Over, status # "escalated", NEW t \in tickets PROVE Fine(t)
  BY <1>15 DEF TicketInv, HopInv, Over
<1>16. ASSUME NEW t, SaidToFail(t), logged \subseteq logged' PROVE SaidToFail(t)'
  BY <1>16 DEF SaidToFail
<1>17. ASSUME EscalateTool PROVE TicketInv'
  <2>1. /\ pc = "tool" /\ pc' = "result" /\ Head(calls) = "escalate" /\ status' = status
        /\ tickets' = tickets \cup {Entry("ticket")} /\ logged' = logged
        /\ calls' = calls /\ hop' = hop
    BY <1>17 DEF EscalateTool, loopVars
  <2>2. Entry("ticket")' = Entry("ticket")
    BY <2>1 DEF Entry
  <2>3. \A t \in tickets : status # "escalated" => SaidToFail(t)'
    BY <1>15, <1>16, <2>1 DEF JustOpened, Over
  <2> QED
    BY <2>1, <2>2, <2>3 DEF TicketInv, JustOpened
<1>18. ASSUME ToolThrows PROVE TicketInv'
  <2>1. /\ pc = "tool" /\ pc' = "toolError" /\ status' = status
        /\ tickets' \subseteq tickets \cup {Entry("ticket")} /\ logged' = logged
        /\ calls' = calls /\ hop' = hop
    BY <1>18 DEF ToolThrows, MayOpenTicket, Observe, loopVars
  <2>2. Entry("ticket")' = Entry("ticket")
    BY <2>1 DEF Entry
  <2>3. \A t \in tickets : status # "escalated" => SaidToFail(t)'
    BY <1>15, <1>16, <2>1 DEF JustOpened, Over
  <2> QED
    BY <2>1, <2>2, <2>3 DEF TicketInv, JustOpened
<1>19. ASSUME ShowToolError PROVE TicketInv'
  <2>1. /\ pc = "toolError" /\ pc' # "mark" /\ status' = status /\ tickets' = tickets
        /\ logged' = logged \cup {Entry("error")}
    BY <1>19 DEF ShowToolError, RecordAndShow, Record, NextCall, Loop, NextHop, End
  <2>2. ASSUME NEW t \in tickets, status # "escalated" PROVE SaidToFail(t)'
    <3>1. CASE SaidToFail(t)
      BY <1>16, <2>1, <3>1
    <3>2. CASE t = Entry("ticket")
      <4>1. [t EXCEPT !.what = "error"] = Entry("error")
        BY <3>2 DEF Entry
      <4> QED
        BY <2>1, <4>1 DEF SaidToFail
    <3> QED
      BY <1>15, <2>1, <2>2, <3>1, <3>2 DEF JustOpened, Over
  <2> QED
    BY <2>1, <2>2 DEF TicketInv
<1>20. ASSUME ShowResult PROVE TicketInv'
  <2>1. /\ pc = "result" /\ status' = status /\ tickets' = tickets /\ logged \subseteq logged'
    BY <1>20 DEF ShowResult, RecordAndShow, Record
  <2>2. CASE Head(calls) = "escalate"
    <3>1. pc' = "mark" /\ calls' = calls /\ hop' = hop
      BY <1>20, <2>2 DEF ShowResult
    <3>2. Entry("ticket")' = Entry("ticket")
      BY <3>1 DEF Entry
    <3>3. \A t \in tickets : status # "escalated" =>
              SaidToFail(t)' \/ t = Entry("ticket")
      BY <1>15, <1>16, <2>1 DEF JustOpened, Over
    <3> QED
      BY <2>1, <2>2, <3>1, <3>2, <3>3 DEF TicketInv, JustOpened
  <2>3. CASE Head(calls) # "escalate"
    <3>1. pc' # "mark"
      BY <1>20, <2>3 DEF ShowResult, NextCall, Loop, NextHop, End
    <3>2. \A t \in tickets : status # "escalated" => SaidToFail(t)'
      BY <1>15, <1>16, <2>1, <2>3 DEF JustOpened, Over
    <3> QED
      BY <2>1, <3>1, <3>2 DEF TicketInv
  <2> QED
    BY <2>2, <2>3
<1>21. ASSUME MarkEscalated PROVE TicketInv'
  <2>1. status' = "escalated" /\ pc' # "mark"
    BY <1>21 DEF MarkEscalated, MarkedStatus, NextCall, Loop, NextHop, End
  <2> QED
    BY <2>1 DEF TicketInv
<1>22. ASSUME Degrade PROVE TicketInv'
  BY <1>22 DEF Degrade, End, TicketInv
<1>23. ASSUME Reject PROVE TicketInv'
  BY <1>23 DEF Reject, End, TicketInv
<1>24. ASSUME Crash PROVE TicketInv'
  BY <1>24 DEF Crash, TicketInv
<1>25. ASSUME UNCHANGED vars PROVE TicketInv'
  <2>1. \A t : (SaidToFail(t) <=> SaidToFail(t)') /\ (JustOpened(t) <=> JustOpened(t)')
    BY <1>25 DEF vars, loopVars, storeVars, SaidToFail, JustOpened, Entry
  <2> QED
    BY <1>25, <2>1 DEF TicketInv, vars, loopVars, storeVars
<1> QED
  BY <1>1, <1>2, <1>3, <1>4, <1>5, <1>6, <1>7, <1>8, <1>9, <1>10, <1>11, <1>12, <1>13,
     <1>14, <1>17, <1>18, <1>19, <1>20, <1>21, <1>22, <1>23, <1>24, <1>25 DEF Next,
     Settle

\* The turn takes the scripted path, or ends with an error, only after a fault.
LEMMA FaultStep ==
    (pc = "outage" => faulty) /\ OnlyFaultsCutShort /\ [Next]_vars
        => (pc = "outage" => faulty)' /\ OnlyFaultsCutShort'
<1> SUFFICES ASSUME pc = "outage" => faulty, OnlyFaultsCutShort, [Next]_vars
             PROVE  (pc = "outage" => faulty)' /\ OnlyFaultsCutShort'
  OBVIOUS
<1> USE DEF OnlyFaultsCutShort, loopVars, storeVars
<1>1. ASSUME HearUser PROVE (pc = "outage" => faulty)' /\ OnlyFaultsCutShort'
  BY <1>1 DEF HearUser, Record
<1>2. ASSUME Prepare PROVE (pc = "outage" => faulty)' /\ OnlyFaultsCutShort'
  BY <1>2 DEF Prepare, Following
<1>3. ASSUME ProposeCalls PROVE (pc = "outage" => faulty)' /\ OnlyFaultsCutShort'
  BY <1>3 DEF ProposeCalls, CountCompletion
<1>4. ASSUME RetryDraft PROVE (pc = "outage" => faulty)' /\ OnlyFaultsCutShort'
  BY <1>4 DEF RetryDraft, Loop, NextHop, Grounded, CountCompletion
<1>5. ASSUME AcceptDraft PROVE (pc = "outage" => faulty)' /\ OnlyFaultsCutShort'
  BY <1>5 DEF AcceptDraft, Reply, Grounded, ModelText, CannedText, CountCompletion
<1>6. ASSUME SkipCall PROVE (pc = "outage" => faulty)' /\ OnlyFaultsCutShort'
  BY <1>6 DEF SkipCall, NextCall, Loop, End
<1>7. ASSUME ReadTool PROVE (pc = "outage" => faulty)' /\ OnlyFaultsCutShort'
  BY <1>7 DEF ReadTool
<1>8. ASSUME EscalateTool PROVE (pc = "outage" => faulty)' /\ OnlyFaultsCutShort'
  BY <1>8 DEF EscalateTool
<1>9. ASSUME CardTool PROVE (pc = "outage" => faulty)' /\ OnlyFaultsCutShort'
  BY <1>9 DEF CardTool
<1>10. ASSUME RefundTool PROVE (pc = "outage" => faulty)' /\ OnlyFaultsCutShort'
  BY <1>10 DEF RefundTool
<1>11. ASSUME ToolThrows PROVE (pc = "outage" => faulty)' /\ OnlyFaultsCutShort'
  BY <1>11 DEF ToolThrows, MayOpenTicket, Observe
<1>12. ASSUME ShowToolError PROVE (pc = "outage" => faulty)' /\ OnlyFaultsCutShort'
  BY <1>12 DEF ShowToolError, NextCall, Loop, End
<1>13. ASSUME ShowResult PROVE (pc = "outage" => faulty)' /\ OnlyFaultsCutShort'
  BY <1>13 DEF ShowResult, RecordAndShow, Record, Show, StillAwaiting, NextCall, Loop, End
<1>14. ASSUME MarkEscalated PROVE (pc = "outage" => faulty)' /\ OnlyFaultsCutShort'
  BY <1>14 DEF MarkEscalated, MarkedStatus, StillAwaiting, NextCall, Loop, End
<1>15. ASSUME SaveCard PROVE (pc = "outage" => faulty)' /\ OnlyFaultsCutShort'
  BY <1>15 DEF SaveCard, CardSaved
<1>16. ASSUME ShowCard PROVE (pc = "outage" => faulty)' /\ OnlyFaultsCutShort'
  BY <1>16 DEF ShowCard, NextCall, Loop, End
<1>17. ASSUME ForceText PROVE (pc = "outage" => faulty)' /\ OnlyFaultsCutShort'
  BY <1>17 DEF ForceText, ModelText, CannedText, Grounded, CountCompletion
<1>18. ASSUME SendAnswer PROVE (pc = "outage" => faulty)' /\ OnlyFaultsCutShort'
  BY <1>18 DEF SendAnswer, RecordAndShow, Record, Show, End
<1>19. ASSUME GatewayDown PROVE (pc = "outage" => faulty)' /\ OnlyFaultsCutShort'
  BY <1>19 DEF GatewayDown, CountCompletion
<1>20. ASSUME Degrade PROVE (pc = "outage" => faulty)' /\ OnlyFaultsCutShort'
  BY <1>20 DEF Degrade, MayOpenTicket, Show, End
<1>21. ASSUME Reject PROVE (pc = "outage" => faulty)' /\ OnlyFaultsCutShort'
  BY <1>21 DEF Reject, MayWrite, Writing, Record, MarkedStatus, CardSaved, End
<1>22. ASSUME Crash PROVE (pc = "outage" => faulty)' /\ OnlyFaultsCutShort'
  BY <1>22 DEF Crash, MayWrite, Writing, Record, MarkedStatus, CardSaved
<1>23. ASSUME UNCHANGED vars PROVE (pc = "outage" => faulty)' /\ OnlyFaultsCutShort'
  BY <1>23 DEF vars
<1> QED
  BY <1>1, <1>2, <1>3, <1>4, <1>5, <1>6, <1>7, <1>8, <1>9, <1>10, <1>11, <1>12, <1>13,
     <1>14, <1>15, <1>16, <1>17, <1>18, <1>19, <1>20, <1>21, <1>22, <1>23 DEF Next,
     Settle
-----------------------------------------------------------------------------
\* Every part of the inductive invariant holds when a turn starts.
LEMMA TurnInvInit == Init => TurnInv
<1> SUFFICES ASSUME Init PROVE TurnInv
  OBVIOUS
<1>1. TypeOK
  <2>1. calls \in Seq(Calls) /\ Len(calls) <= MaxCalls
    BY DEF Init
  <2>2. draft \in Texts
    BY DEF Init, Texts
  <2>3. hop \in 0..MaxHops /\ completions \in 0..(MaxHops + 2) /\ tickets \subseteq EntrySet
    BY DEF Init
  <2>4. retried \in BOOLEAN /\ awaiting \in BOOLEAN /\ faulty \in BOOLEAN
    BY DEF Init
  <2>5. /\ allowed \subseteq Amounts /\ card \subseteq Amounts /\ sourced \subseteq Amounts
        /\ logged \subseteq EntrySet /\ saved \subseteq EntrySet /\ shown \subseteq EntrySet
    BY DEF Init
  <2>6. pc = "hear" /\ status \in {"active", "escalated"} /\ ending = "open"
    BY DEF Init
  <2> QED
    BY <2>1, <2>2, <2>3, <2>4, <2>5, <2>6 DEF TypeOK
<1>2. HopInv /\ TicketInv
  BY DEF Init, HopInv, TicketInv, Preparing, Handling
<1>3. MoneyInv /\ CardInv
  BY DEF Init, MoneyInv, CardInv, ShownSome, Preparing, Over
<1>4. SourcedText /\ CardConfirmable /\ OnlyFaultsCutShort
  BY DEF Init, SourcedText, CardConfirmable, OnlyFaultsCutShort, ShownSome
<1>5. pc # "outage"
  BY DEF Init
<1> QED
  BY <1>1, <1>2, <1>3, <1>4, <1>5 DEF TurnInv

\* No step of a turn breaks any part of the inductive invariant.
LEMMA TurnInvStep == TurnInv /\ [Next]_vars => TurnInv'
BY TypeStep, HopStep, MoneyStep, CardStep, TicketStep, FaultStep DEF TurnInv

\* The parts of TurnInv hold together in every reachable state of a turn.
THEOREM TurnInvariant == Spec => []TurnInv
<1>1. Init => TurnInv
  BY TurnInvInit
<1>2. TurnInv /\ [Next]_vars => TurnInv'
  BY TurnInvStep
<1> QED
  BY <1>1, <1>2, PTL DEF Spec

\* The state of a turn stays in its types, whatever the hop cap and the role.
THEOREM TurnTypeCorrect == Spec => []TypeOK
<1>1. TurnInv => TypeOK
  BY DEF TurnInv
<1> QED
  BY <1>1, TurnInvariant, PTL

\* No text of the assistant states an amount the core backend did not return in
\* this turn, although moneyAllowed also collects the model's own refund amounts.
THEOREM TextIsSourced == Spec => []SourcedText
<1>1. TurnInv => SourcedText
  BY DEF TurnInv
<1> QED
  BY <1>1, TurnInvariant, PTL

\* A turn asks for at most MaxHops completions and the forced one.
THEOREM CompletionsAreBounded == Spec => []CompletionsBounded
<1>1. TurnInv => CompletionsBounded
  BY DEF TurnInv, HopInv, CompletionsBounded
<1> QED
  BY <1>1, TurnInvariant, PTL

\* A card the user sees is saved, and is the last thing the turn does.
THEOREM CardsAreConfirmable == Spec => []CardConfirmable
<1>1. TurnInv => CardConfirmable
  BY DEF TurnInv
<1> QED
  BY <1>1, TurnInvariant, PTL

\* Only a fault ends a turn with an error or an escalation.
THEOREM CutShortByFaults == Spec => []OnlyFaultsCutShort
<1>1. TurnInv => OnlyFaultsCutShort
  BY DEF TurnInv
<1> QED
  BY <1>1, TurnInvariant, PTL

\* A turn that ended normally escalated the session if it opened a ticket, but for a ticket
\* whose creation was applied and rejected: its call is recorded as failed
\* (orchestrator.service.ts:109-127,159-161).
THEOREM EscalationIsMarked == Spec => []EscalationMarksSession
<1>1. TurnInv => EscalationMarksSession
  BY DEF TurnInv, TypeOK, HopInv, TicketInv, JustOpened, EscalationMarksSession
<1> QED
  BY <1>1, TurnInvariant, PTL

-----------------------------------------------------------------------------
(* A turn cannot go on for ever: StepsLeft decreases.                       *)

\* A hop is worth more than the steps that it may take.
LEMMA HopsLeft ==
    ASSUME NEW h \in Nat, h < MaxHops
    PROVE  /\ (MaxHops - (h + 1)) * PerHop \in Nat
           /\ (MaxHops - h) * PerHop = (MaxHops - (h + 1)) * PerHop + PerHop
<1>1. PerHop \in Nat
  BY DEF PerHop
<1>2. PICK k \in Nat : k = MaxHops - (h + 1)
  OBVIOUS
<1>3. MaxHops - h = k + 1
  BY <1>2
<1>4. k * PerHop \in Nat /\ (k + 1) * PerHop = k * PerHop + PerHop
  <2>1. \A x, y \in Nat : x * y \in Nat /\ (x + 1) * y = x * y + y
    OBVIOUS
  <2> QED
    BY <1>1, <2>1
<1> QED
  BY <1>2, <1>3, <1>4

\* What StepsLeft is at each await, in a state and in the next one.
Steps(left, at, h, n) ==
    /\ at \in Over => left = 0
    /\ at \in {"answer", "outage"} => left = 1
    /\ at = "forced" => left = 2
    /\ at = "complete" => left = (MaxHops - h) * PerHop + 2
    /\ at \in Handling =>
          left = (MaxHops - (h + 1)) * PerHop + 2 + 4 * (n - 1) + Remaining[at]
    /\ at \in Preparing => left = MaxHops * PerHop + 2 + Ahead[at]

LEMMA StepsNow == Steps(StepsLeft, pc, hop, Len(calls))
BY DEF Steps, StepsLeft, Over, Handling, Preparing

LEMMA StepsThen == Steps(StepsLeft', pc', hop', Len(calls'))
BY DEF Steps, StepsLeft, Over, Handling, Preparing

\* While calls are handled, between the end of the hop and the end of the handling.
Between(left, at, h, n) ==
    /\ left = (MaxHops - (h + 1)) * PerHop + 2 + 4 * (n - 1) + Remaining[at]
    /\ Remaining[at] \in 1..3
    /\ left \in Nat
    /\ left >= (MaxHops - (h + 1)) * PerHop + 3
    /\ left < (MaxHops - h) * PerHop + 2

LEMMA HandlingSteps ==
    ASSUME NEW left, NEW at \in Handling, NEW h \in Nat, h < MaxHops, NEW n \in Nat,
           n >= 1, n <= MaxCalls, Steps(left, at, h, n)
    PROVE  Between(left, at, h, n)
<1> DEFINE rest == (MaxHops - (h + 1)) * PerHop
<1>1. rest \in Nat /\ (MaxHops - h) * PerHop = rest + PerHop
  BY HopsLeft
<1>2. left = rest + 2 + 4 * (n - 1) + Remaining[at]
  BY DEF Steps
<1>3. Remaining[at] \in 1..3
  BY DEF Remaining, Handling
<1>4. PerHop = 4 * MaxCalls + 1
  BY DEF PerHop
<1> HIDE DEF rest
<1> DEFINE r == Remaining[at]
<1>5. left = rest + 2 + 4 * (n - 1) + r /\ r \in 1..3
  BY <1>2, <1>3
<1> HIDE DEF r
<1>6. left \in Nat /\ left >= rest + 3 /\ left < rest + PerHop + 2
  BY <1>1, <1>4, <1>5
<1> QED
  BY <1>1, <1>2, <1>3, <1>6 DEF rest, Between

\* The bound is a number.
LEMMA StepsLeftType == TurnInv => StepsLeft \in Nat
<1> SUFFICES ASSUME TurnInv PROVE StepsLeft \in Nat
  OBVIOUS
<1> USE StepsNow
<1>1. TypeOK /\ HopInv
  BY DEF TurnInv
<1>2. CASE pc \in Over \cup {"answer", "outage", "forced"}
  BY <1>2 DEF Steps
<1>3. CASE pc = "complete"
  <2>1. hop \in Nat /\ hop < MaxHops
    BY <1>1, <1>3 DEF TypeOK, HopInv
  <2>2. (MaxHops - hop) * PerHop \in Nat
    BY <2>1, HopsLeft DEF PerHop
  <2> QED
    BY <1>3, <2>2 DEF Steps
<1>4. CASE pc \in Handling
  <2>1. hop \in Nat /\ hop < MaxHops /\ Len(calls) \in Nat /\ Len(calls) >= 1
        /\ Len(calls) <= MaxCalls
    BY <1>1, <1>4 DEF TypeOK, HopInv
  <2> QED
    BY <1>4, <2>1, HandlingSteps DEF Between
<1>5. CASE pc \in Preparing
  <2>1. MaxHops * PerHop \in Nat
    BY DEF PerHop
  <2>2. Ahead[pc] \in 1..4
    BY <1>5 DEF Ahead, Preparing
  <2>3. StepsLeft = MaxHops * PerHop + 2 + Ahead[pc]
    BY <1>5 DEF Steps
  <2> QED
    BY <2>1, <2>2, <2>3
<1> QED
  BY <1>1, <1>2, <1>3, <1>4, <1>5 DEF TypeOK, Over, Handling, Preparing

\* Handling a call to its end brings the end of the turn nearer.
LEMMA NextCallShrinks ==
    ASSUME TypeOK, HopInv, pc \in Handling, NEW w \in BOOLEAN, NextCall(w)
    PROVE  StepsLeft' < StepsLeft
<1>1. hop \in Nat /\ hop < MaxHops /\ Len(calls) \in Nat /\ Len(calls) >= 1
      /\ Len(calls) <= MaxCalls
  BY DEF TypeOK, HopInv
<1> DEFINE rest == (MaxHops - (hop + 1)) * PerHop
<1>2. /\ StepsLeft = rest + 2 + 4 * (Len(calls) - 1) + Remaining[pc]
      /\ Remaining[pc] \in 1..3
      /\ StepsLeft \in Nat /\ StepsLeft >= rest + 3
  <2>1. Steps(StepsLeft, pc, hop, Len(calls))
    BY StepsNow
  <2>2. Between(StepsLeft, pc, hop, Len(calls))
    BY <1>1, <2>1, HandlingSteps, Zenon
  <2> QED
    BY <2>2 DEF Between
<1>3. rest \in Nat
  BY <1>1, HopsLeft
<1>4. CASE pc' = "tool" /\ calls' # <<>> /\ hop' = hop
  <2>1. Len(calls') = Len(calls) - 1
    BY <1>1 DEF NextCall, TypeOK
  <2>2. StepsLeft' = rest + 2 + 4 * (Len(calls') - 1) + 3
    <3>1. pc' \in Handling /\ Remaining[pc'] = 3
      BY <1>4 DEF Handling, Remaining
    <3> QED
      BY <1>4, <3>1, StepsThen DEF Steps
  <2> HIDE DEF rest
  <2> DEFINE r == Remaining[pc]
  <2>3. StepsLeft = rest + 2 + 4 * (Len(calls) - 1) + r /\ r \in 1..3
    BY <1>2
  <2> HIDE DEF r
  <2> QED
    BY <1>1, <1>3, <2>1, <2>2, <2>3
<1>5. CASE pc' = "ended"
  BY <1>2, <1>3, <1>5, StepsThen DEF Steps, Over
<1>6. CASE pc' = "complete" /\ hop' = hop + 1
  <2>1. StepsLeft' = rest + 2
    BY <1>6, StepsThen DEF Steps
  <2> HIDE DEF rest
  <2> QED
    BY <1>2, <1>3, <2>1
<1>7. CASE pc' = "forced"
  <2>1. StepsLeft' = 2
    BY <1>7, StepsThen DEF Steps
  <2> HIDE DEF rest
  <2> QED
    BY <1>2, <1>3, <2>1
<1> QED
  BY <1>4, <1>5, <1>6, <1>7, NextCallCases

\* One await of the call being handled leads to the next one.
LEMMA AwaitShrinks ==
    ASSUME TypeOK, HopInv, pc \in Handling, pc' \in Handling,
           UNCHANGED <<hop, calls>>, Remaining[pc'] < Remaining[pc]
    PROVE  StepsLeft' < StepsLeft
<1>1. hop \in Nat /\ hop < MaxHops /\ Len(calls) \in Nat /\ Len(calls) >= 1
      /\ Len(calls) <= MaxCalls
  BY DEF TypeOK, HopInv
<1> DEFINE rest == (MaxHops - (hop + 1)) * PerHop
           n == Len(calls)
           r == Remaining[pc]
           q == Remaining[pc']
<1>2. rest \in Nat
  BY <1>1, HopsLeft
<1>3. StepsLeft = rest + 2 + 4 * (n - 1) + r /\ StepsLeft' = rest + 2 + 4 * (n - 1) + q
  BY StepsNow, StepsThen DEF Steps
<1>4. r \in 1..3 /\ q \in 1..3 /\ q < r /\ n \in Nat
  BY <1>1 DEF Remaining, Handling
<1> HIDE DEF rest, n, r, q
<1> QED
  BY <1>2, <1>3, <1>4

\* A completion, whatever comes of it.
LEMMA CompletionShrinks ==
    ASSUME TypeOK, HopInv, pc = "complete",
           \/ /\ pc' = "tool" /\ hop' = hop
              /\ Len(calls') \in 1..MaxCalls
           \/ pc' = "complete" /\ hop' = hop + 1 /\ hop' < MaxHops
           \/ pc' \in {"forced", "answer", "outage", "ended", "stopped"}
    PROVE  StepsLeft' < StepsLeft
<1>1. hop \in Nat /\ hop < MaxHops
  BY DEF TypeOK, HopInv
<1> DEFINE rest == (MaxHops - (hop + 1)) * PerHop
<1>2. rest \in Nat /\ (MaxHops - hop) * PerHop = rest + PerHop
  BY <1>1, HopsLeft
<1>3. StepsLeft = rest + PerHop + 2
  BY <1>2, StepsNow DEF Steps
<1>4. PerHop \in Nat /\ PerHop >= 1
  BY DEF PerHop
<1>5. CASE pc' = "tool" /\ hop' = hop /\ Len(calls') \in 1..MaxCalls
  <2>1. pc' \in Handling
    BY <1>5 DEF Handling
  <2>2. Steps(StepsLeft', pc', hop, Len(calls'))
    BY <1>5, StepsThen
  <2>3. Len(calls') \in Nat /\ Len(calls') >= 1 /\ Len(calls') <= MaxCalls
    BY <1>5
  <2>4. StepsLeft' < (MaxHops - hop) * PerHop + 2
    BY <1>1, <2>1, <2>2, <2>3, HandlingSteps, Zenon DEF Between
  <2> QED
    BY <1>2, <1>3, <2>4
<1>6. CASE pc' = "complete" /\ hop' = hop + 1
  <2>1. StepsLeft' = rest + 2
    BY <1>6, StepsThen DEF Steps
  <2> HIDE DEF rest
  <2> QED
    BY <1>2, <1>3, <1>4, <2>1
<1>7. CASE pc' \in {"forced", "answer", "outage", "ended", "stopped"}
  <2>1. StepsLeft' \in 0..2
    BY <1>7, StepsThen DEF Steps, Over
  <2> HIDE DEF rest
  <2> QED
    BY <1>2, <1>3, <1>4, <2>1
<1> QED
  BY <1>5, <1>6, <1>7

\* Everything before the loop, and everything after it.
LEMMA EdgeShrinks ==
    ASSUME TypeOK, HopInv,
           \/ pc = "hear" /\ pc' \in {"touch", "ended", "stopped"}
           \/ pc = "touch" /\ pc' \in {"kb", "ended", "stopped"}
           \/ pc = "kb" /\ pc' \in {"context", "ended", "stopped"}
           \/ pc = "context" /\ pc' \in {"complete", "ended", "stopped"} /\ hop' = hop
           \/ pc = "forced" /\ pc' \in {"answer", "ended", "stopped"}
           \/ pc \in {"answer", "outage"} /\ pc' \in {"ended", "stopped"}
           \/ pc \in Handling /\ pc' \in {"ended", "stopped"}
    PROVE  StepsLeft' < StepsLeft
<1>1. MaxHops * PerHop \in Nat
  BY DEF PerHop
<1> DEFINE all == MaxHops * PerHop
<1>2. CASE pc \in Preparing
  <2>1. StepsLeft = all + 2 + Ahead[pc] /\ hop = 0
    BY <1>2, StepsNow DEF Steps, HopInv
  <2>2. CASE pc' \in {"ended", "stopped"}
    <3>1. StepsLeft' = 0
      BY <2>2, StepsThen DEF Steps, Over
    <3>2. Ahead[pc] \in 1..4
      BY <1>2 DEF Ahead, Preparing
    <3> HIDE DEF all
    <3> QED
      BY <1>1, <2>1, <3>1, <3>2 DEF all
  <2>3. CASE pc' = "complete"
    <3>1. StepsLeft' = all + 2
      <4>1. hop' = 0
        BY <1>2, <2>1, <2>3 DEF Preparing
      <4>2. MaxHops - 0 = MaxHops
        OBVIOUS
      <4> QED
        BY <2>3, <4>1, <4>2, StepsThen DEF Steps
    <3>2. Ahead[pc] \in 1..4
      BY <1>2 DEF Ahead, Preparing
    <3> HIDE DEF all
    <3> QED
      BY <1>1, <2>1, <3>1, <3>2 DEF all
  <2>4. CASE pc' \in Preparing
    <3>1. StepsLeft' = all + 2 + Ahead[pc']
      BY <2>4, StepsThen DEF Steps
    <3>2. Ahead[pc] \in 1..4 /\ Ahead[pc'] \in 1..4 /\ Ahead[pc'] < Ahead[pc]
      BY <1>2, <2>4 DEF Ahead, Preparing, Handling
    <3> HIDE DEF all
    <3> QED
      BY <1>1, <2>1, <3>1, <3>2 DEF all
  <2> QED
    BY <1>2, <2>2, <2>3, <2>4 DEF Preparing, Handling
<1>3. CASE pc = "forced"
  BY <1>3, StepsNow, StepsThen DEF Steps, Over, Handling
<1>4. CASE pc \in {"answer", "outage"}
  BY <1>4, StepsNow, StepsThen DEF Steps, Over, Handling
<1>5. CASE pc \in Handling
  <2>1. pc' \in Over
    BY <1>5 DEF Handling, Over
  <2>2. hop \in Nat /\ hop < MaxHops /\ Len(calls) \in Nat /\ Len(calls) >= 1
        /\ Len(calls) <= MaxCalls
    BY <1>5 DEF TypeOK, HopInv
  <2> DEFINE rest == (MaxHops - (hop + 1)) * PerHop
  <2>3. StepsLeft \in Nat /\ StepsLeft >= rest + 3 /\ rest \in Nat
    BY <1>5, <2>2, StepsNow, HandlingSteps, HopsLeft DEF Between
  <2>4. StepsLeft' = 0
    BY <2>1, StepsThen DEF Steps
  <2> HIDE DEF rest
  <2> QED
    BY <2>3, <2>4
<1> QED
  BY <1>2, <1>3, <1>4, <1>5 DEF Preparing

\* Every step of the turn is of one of these kinds.
LEMMA StepShrinks == TurnInv /\ Next => StepsLeft' < StepsLeft
<1> SUFFICES ASSUME TurnInv, Next PROVE StepsLeft' < StepsLeft
  OBVIOUS
<1>1. TypeOK /\ HopInv
  BY DEF TurnInv
<1>2. ASSUME HearUser \/ Prepare PROVE StepsLeft' < StepsLeft
  <2>1. \/ pc = "hear" /\ pc' = "touch"
        \/ pc = "touch" /\ pc' = "kb"
        \/ pc = "kb" /\ pc' = "context"
        \/ pc = "context" /\ pc' = "complete" /\ hop' = hop
    BY <1>2 DEF HearUser, Prepare, Following, loopVars
  <2> QED
    BY <1>1, <2>1, EdgeShrinks
<1>3. ASSUME ProposeCalls PROVE StepsLeft' < StepsLeft
  <2>1. PICK n \in 0..MaxCalls : calls' \in [1..n -> Calls] /\ calls' # <<>>
    BY <1>3 DEF ProposeCalls, Replies, ViaGroq, ViaAnthropic
  <2>2. calls' \in Seq(Calls) /\ Len(calls') = n
    BY <2>1
  <2>3. Len(calls') \in 1..MaxCalls
    BY <2>1, <2>2
  <2> QED
    BY <1>1, <1>3, <2>3, CompletionShrinks DEF ProposeCalls
<1>4. ASSUME RetryDraft PROVE StepsLeft' < StepsLeft
  <2>1. pc = "complete" /\ hop' = hop + 1
        /\ pc' = IF hop' < MaxHops THEN "complete" ELSE "forced"
    BY <1>4 DEF RetryDraft, Loop, NextHop
  <2> QED
    BY <1>1, <2>1, CompletionShrinks
<1>5. ASSUME AcceptDraft \/ GatewayDown PROVE StepsLeft' < StepsLeft
  <2>1. pc = "complete" /\ pc' \in {"answer", "outage"}
    BY <1>5 DEF AcceptDraft, GatewayDown
  <2> QED
    BY <1>1, <2>1, CompletionShrinks
<1>6. ASSUME SkipCall \/ ShowToolError \/ ShowCard \/ MarkEscalated
      PROVE  StepsLeft' < StepsLeft
  <2>1. pc \in Handling /\ \E w \in BOOLEAN : NextCall(w)
    BY <1>1, <1>6 DEF SkipCall, ShowToolError, ShowCard, MarkEscalated, StillAwaiting, Handling,
       TypeOK
  <2> QED
    BY <1>1, <2>1, NextCallShrinks
<1>7. ASSUME ShowResult PROVE StepsLeft' < StepsLeft
  <2>1. pc = "result" /\ pc \in Handling
    BY <1>7 DEF ShowResult, Handling
  <2>2. CASE NextCall(StillAwaiting(awaiting))
    BY <1>1, <2>1, <2>2, NextCallShrinks DEF StillAwaiting, TypeOK
  <2>3. CASE pc' = "mark" /\ UNCHANGED <<hop, calls>>
    <3>1. pc' \in Handling /\ Remaining[pc'] < Remaining[pc]
      BY <2>1, <2>3 DEF Handling, Remaining
    <3> QED
      BY <1>1, <2>1, <2>3, <3>1, AwaitShrinks
  <2> QED
    BY <1>7, <2>2, <2>3 DEF ShowResult
<1>8. ASSUME ReadTool \/ EscalateTool \/ CardTool \/ RefundTool \/ ToolThrows \/ SaveCard
      PROVE  StepsLeft' < StepsLeft
  <2>1. /\ \/ pc = "tool" /\ pc' \in {"result", "save", "toolError"}
           \/ pc = "save" /\ pc' = "card"
        /\ UNCHANGED <<hop, calls>>
    BY <1>8 DEF ReadTool, EscalateTool, CardTool, RefundTool, ToolThrows, Observe, SaveCard,
       loopVars
  <2>2. pc \in Handling /\ pc' \in Handling /\ Remaining[pc'] < Remaining[pc]
    BY <2>1 DEF Handling, Remaining
  <2> QED
    BY <1>1, <2>1, <2>2, AwaitShrinks
<1>9. ASSUME ForceText \/ SendAnswer \/ Degrade PROVE StepsLeft' < StepsLeft
  <2>1. \/ pc = "forced" /\ pc' = "answer"
        \/ pc \in {"answer", "outage"} /\ pc' = "ended"
    BY <1>9 DEF ForceText, SendAnswer, Degrade, End
  <2> QED
    BY <1>1, <2>1, EdgeShrinks
<1>10. ASSUME Reject \/ Crash PROVE StepsLeft' < StepsLeft
  <2>1. pc \notin Over /\ pc' \in {"ended", "stopped"}
    BY <1>10 DEF Reject, Crash, End, Over
  <2>2. CASE pc = "complete"
    BY <1>1, <2>1, <2>2, CompletionShrinks
  <2>3. CASE pc # "complete"
    <3>1. pc \in Handling \cup {"hear", "touch", "kb", "context", "forced", "answer", "outage"}
      BY <1>1, <2>1, <2>3 DEF TypeOK, Over, Handling
    <3>2. UNCHANGED hop
      BY <1>10 DEF Reject, Crash, loopVars
    <3> QED
      BY <1>1, <2>1, <3>1, <3>2, EdgeShrinks
  <2> QED
    BY <2>2, <2>3
<1> QED
  BY <1>2, <1>3, <1>4, <1>5, <1>6, <1>7, <1>8, <1>9, <1>10 DEF Next, Settle

\* Every step brings the end of the turn nearer, and the bound is a number: a turn takes at
\* most MaxHops * PerHop + 6 steps, whatever the model proposes and whichever way an await
\* settles (orchestrator.service.ts:85-198).
THEOREM TurnIsFinite == Spec => TurnShrinks /\ [](StepsLeft \in Nat)
<1>1. TurnInv /\ [Next]_vars => [StepsLeft' < StepsLeft]_vars
  BY StepShrinks
<1> QED
  BY <1>1, StepsLeftType, TurnInvariant, PTL DEF Spec, TurnShrinks

================================================================================
