------------------------------- MODULE TurnLoop --------------------------------
(***************************************************************************)
(* One turn of the assistant: OrchestratorService.processMessage with the  *)
(* tool executions it awaits (orchestrator.service.ts,                     *)
(* tool-executor.service.ts) and the events the controller streams.        *)
(*                                                                         *)
(* The model is the environment: each completion is any sequence of tool   *)
(* calls or any text.  A text is the set of amounts it states; amounts are *)
(* told apart as the grounding check compares them.  Every await is an     *)
(* action, and every await may reject.                                     *)
(***************************************************************************)
EXTENDS Naturals, Sequences

CONSTANTS
    Amounts,   \* amounts of money
    Allowed,   \* the kinds of tools the role of the user may call
    MaxHops,   \* MAX_TOOL_HOPS
    MaxCalls   \* bound: tool calls in one completion

\* "read": fare estimate, ride status, payment history, charge explanation;
\* "card": book_ride, cancel_ride; "refund": initiate_refund.
Tools == {"read", "escalate", "card", "refund"}
Calls == Tools \cup {"unknown"}

ASSUME TurnAssumption ==
    /\ Allowed \subseteq Tools
    /\ MaxHops \in Nat \ {0}
    /\ MaxCalls \in Nat

VARIABLES
    pc,           \* the await the turn is at
    hop,          \* the loop counter
    calls,        \* tool calls of the completion not handled yet
    allowed,      \* moneyAllowed
    retried,      \* retriedForGrounding
    awaiting,     \* awaitingConfirmation
    draft,        \* the text to be sent
    completions,  \* completions requested from the gateway
    status,       \* MongoDB: status of the session
    tickets,      \* MongoDB: tickets this turn opened, by the call that opened them
    logged,       \* MongoDB: transcript entries of this turn
    saved,        \* Redis: cards of this turn saved for confirmation
    shown,        \* what the client was sent
    ending,       \* the terminal event
    sourced,      \* history: amounts the core backend returned in this turn
    card,         \* the amounts on the card being built
    faulty        \* history: a store or the gateway failed in this turn

loopVars  == <<hop, calls, allowed, retried, awaiting, draft, card>>
storeVars == <<status, tickets, logged, saved>>
vars == <<pc, loopVars, completions, storeVars, shown, ending, sourced, faulty>>

\* What a text may be besides the model's: the apology of a reply that stayed
\* ungrounded, the offer of a teammate, the scripted outage message.
Canned == {"apology", "teammate"}
Entries == {"user", "result", "error", "card", "answer", "outage", "ticket"}

Init ==
    /\ pc = "hear"
    /\ hop = 0
    /\ calls = <<>>
    /\ allowed = {}
    /\ retried = FALSE
    /\ awaiting = FALSE
    /\ draft = [canned |-> "none", states |-> {}]
    /\ card = {}
    /\ completions = 0
    /\ status \in {"active", "escalated"}
    /\ tickets = {}
    /\ logged = {}
    /\ saved = {}
    /\ shown = {}
    /\ ending = "open"
    /\ sourced = {}
    /\ faulty = FALSE

-----------------------------------------------------------------------------
(* Bookkeeping.                                                             *)

\* An entry of the transcript, an event, or a ticket, of the call being handled.
Entry(what) == [what |-> what, hop |-> hop, left |-> Len(calls)]

Record(what) == logged' = logged \cup {Entry(what)}
Show(what)   == shown' = shown \cup {Entry(what)}

\* addMessage() resolves, and in the same turn of the event loop the event is sent.
\* (An addMessage() that is applied and rejects is in Reject and Crash.)
RecordAndShow(what) == Record(what) /\ Show(what)

End(event) == pc' = "ended" /\ ending' = event

\* hop++ and the loop condition.  (Mutated: a continue that skips the increment.)
SameHop(h) == h
NextHop(h) == h + 1
Loop ==
    /\ hop' = NextHop(hop)
    /\ pc' = IF NextHop(hop) < MaxHops THEN "complete" ELSE "forced"
    /\ UNCHANGED ending

\* awaitingConfirmation once the result of a call is handled.  (Mutated: only the
\* last call of the completion decides.)
LastDecides(w) == FALSE
StillAwaiting(w) == w

\* The call is handled: the next one, the end of a turn that waits for Confirm,
\* or the next completion.
NextCall(waits) ==
    /\ calls' = Tail(calls)
    /\ awaiting' = waits
    /\ \/ Len(calls) > 1 /\ pc' = "tool" /\ UNCHANGED <<hop, ending>>
       \/ Len(calls) = 1 /\ waits /\ End("awaiting") /\ UNCHANGED hop
       \/ Len(calls) = 1 /\ ~ waits /\ Loop

\* Bound: the count stops one past what the property allows.
CountCompletion ==
    completions' = IF completions > MaxHops + 1 THEN completions ELSE completions + 1

-----------------------------------------------------------------------------
(* Before the loop.                                                         *)

HearUser ==
    /\ pc = "hear"
    /\ pc' = "touch"
    /\ Record("user")
    /\ UNCHANGED <<loopVars, completions, status, tickets, saved, shown, ending,
                   sourced, faulty>>

\* touch(), kbSearch() (an error status is an empty result), recentContext().
Following == [touch |-> "kb", kb |-> "context", context |-> "complete"]

Prepare ==
    /\ pc \in DOMAIN Following
    /\ pc' = Following[pc]
    /\ UNCHANGED <<loopVars, completions, storeVars, shown, ending, sourced, faulty>>

-----------------------------------------------------------------------------
(* The loop.                                                                *)

Grounded(states) == states \subseteq allowed

\* What the providers' adapters make of an answer: Groq's is any text and any calls, of
\* which the arguments that are not JSON are dropped; Anthropic is sent no tools, and
\* only its text is taken.
ViaGroq == [states : SUBSET Amounts, calls : UNION {[1..n -> Calls] : n \in 0..MaxCalls}]
ViaAnthropic == [states : SUBSET Amounts, calls : {<<>>}]
Replies == ViaGroq \cup ViaAnthropic

\* A reply with calls: its text is not looked at.
ProposeCalls ==
    /\ pc = "complete"
    /\ \E reply \in Replies : reply.calls # <<>> /\ calls' = reply.calls
    /\ awaiting' = FALSE
    /\ pc' = "tool"
    /\ CountCompletion
    /\ UNCHANGED <<hop, allowed, retried, draft, card, storeVars, shown, ending,
                   sourced, faulty>>

\* An ungrounded draft is thrown away once; it costs a hop.
RetryDraft ==
    /\ pc = "complete"
    /\ ~ retried
    /\ \E reply \in Replies : reply.calls = <<>> /\ ~ Grounded(reply.states)
    /\ retried' = TRUE
    /\ Loop
    /\ CountCompletion
    /\ UNCHANGED <<calls, allowed, awaiting, draft, card, storeVars, shown,
                   sourced, faulty>>

ModelText(states) == [canned |-> "none", states |-> states]
CannedText(text)  == [canned |-> text, states |-> {}]

\* What is sent for a reply: the model's if it is grounded, else an apology.
Reply(states) ==
    IF Grounded(states) THEN ModelText(states) ELSE CannedText("apology")

AcceptDraft ==
    /\ pc = "complete"
    /\ \E reply \in Replies :
          /\ reply.calls = <<>>
          /\ Grounded(reply.states) \/ retried
          /\ draft' = Reply(reply.states)
    /\ pc' = "answer"
    /\ CountCompletion
    /\ UNCHANGED <<hop, calls, allowed, retried, awaiting, card, storeVars, shown,
                   ending, sourced, faulty>>

\* An unknown tool is passed over.
SkipCall ==
    /\ pc = "tool"
    /\ Head(calls) = "unknown"
    /\ NextCall(awaiting)
    /\ UNCHANGED <<allowed, retried, draft, card, completions, storeVars, shown,
                   sourced, faulty>>

\* A read-only tool: its result's amounts become allowed.  An answer of the core
\* backend that is an error has no amounts.
ReadTool ==
    /\ pc = "tool"
    /\ Head(calls) = "read"
    /\ Head(calls) \in Allowed
    /\ \E got \in SUBSET Amounts :
          /\ allowed' = allowed \cup got
          /\ sourced' = sourced \cup got
    /\ pc' = "result"
    /\ UNCHANGED <<hop, calls, retried, awaiting, draft, card, completions, storeVars,
                   shown, ending, faulty>>

EscalateTool ==
    /\ pc = "tool"
    /\ Head(calls) = "escalate"
    /\ Head(calls) \in Allowed
    /\ tickets' = tickets \cup {Entry("ticket")}
    /\ pc' = "result"
    /\ UNCHANGED <<loopVars, completions, status, logged, saved, shown, ending,
                   sourced, faulty>>

\* book_ride, cancel_ride: the card shows an amount the core backend returned,
\* if it returned one.
CardTool ==
    /\ pc = "tool"
    /\ Head(calls) = "card"
    /\ Head(calls) \in Allowed
    /\ \E money \in {{}} \cup {{m} : m \in Amounts} :
          /\ card' = money
          /\ allowed' = allowed \cup money
          /\ sourced' = sourced \cup money
    /\ pc' = "save"
    /\ UNCHANGED <<hop, calls, retried, awaiting, draft, completions, storeVars, shown,
                   ending, faulty>>

\* initiate_refund: the amount is the model's argument.
RefundTool ==
    /\ pc = "tool"
    /\ Head(calls) = "refund"
    /\ Head(calls) \in Allowed
    /\ \E m \in Amounts :
          /\ card' = {m}
          /\ allowed' = allowed \cup {m}
    /\ pc' = "save"
    /\ UNCHANGED <<hop, calls, retried, awaiting, draft, completions, storeVars, shown,
                   ending, sourced, faulty>>

\* Where an error thrown by execute() leads.  (Mutated: to the end of the turn.)
EndTurn == "outage"
Observe == "toolError"

\* tickets.create() that rejects may have been applied.
MayOpenTicket ==
    \/ UNCHANGED tickets
    \/ /\ "escalate" \in Allowed
       /\ tickets' = tickets \cup {Entry("ticket")}

\* A forbidden tool, a missing argument, or a store or backend that is down.
ToolThrows ==
    /\ pc = "tool"
    /\ Head(calls) \in Tools
    /\ IF Head(calls) = "escalate" THEN MayOpenTicket ELSE UNCHANGED tickets
    /\ pc' = Observe
    /\ UNCHANGED <<loopVars, completions, status, logged, saved, shown, ending, sourced,
                   faulty>>

ShowToolError ==
    /\ pc = "toolError"
    /\ RecordAndShow("error")
    /\ NextCall(awaiting)
    /\ UNCHANGED <<allowed, retried, draft, card, completions, status, tickets, saved,
                   sourced, faulty>>

ShowResult ==
    /\ pc = "result"
    /\ RecordAndShow("result")
    /\ \/ /\ Head(calls) = "escalate"
          /\ pc' = "mark"
          /\ UNCHANGED <<hop, calls, awaiting, ending>>
       \/ /\ Head(calls) # "escalate"
          /\ NextCall(StillAwaiting(awaiting))
    /\ UNCHANGED <<allowed, retried, draft, card, completions, status, tickets, saved,
                   sourced, faulty>>

\* (Mutated: the ticket does not change the session.)
KeptStatus == status
MarkedStatus == "escalated"

MarkEscalated ==
    /\ pc = "mark"
    /\ status' = MarkedStatus
    /\ NextCall(StillAwaiting(awaiting))
    /\ UNCHANGED <<allowed, retried, draft, card, completions, tickets, logged, saved,
                   shown, sourced, faulty>>

\* (Mutated: the card is shown without being saved.)
NotSaved(c) == {}
CardSaved(c) == {c}

SaveCard ==
    /\ pc = "save"
    /\ saved' = saved \cup CardSaved(Entry("card"))
    /\ pc' = "card"
    /\ UNCHANGED <<loopVars, completions, status, tickets, logged, shown, ending,
                   sourced, faulty>>

ShowCard ==
    /\ pc = "card"
    /\ RecordAndShow("card")
    /\ NextCall(TRUE)
    /\ UNCHANGED <<allowed, retried, draft, card, completions, status, tickets, saved,
                   sourced, faulty>>

-----------------------------------------------------------------------------
(* The end of the turn.                                                     *)

\* The hop cap: one more completion without tools.  An ungrounded or empty reply,
\* or no reply at all, becomes the offer of a teammate.
ForceText ==
    /\ pc = "forced"
    /\ \/ draft' = CannedText("teammate")
       \/ \E reply \in Replies : Grounded(reply.states) /\ draft' = ModelText(reply.states)
    /\ pc' = "answer"
    /\ CountCompletion
    /\ UNCHANGED <<hop, calls, allowed, retried, awaiting, card, storeVars, shown,
                   ending, sourced, faulty>>

SendAnswer ==
    /\ pc = "answer"
    /\ RecordAndShow("answer")
    /\ End("done")
    /\ UNCHANGED <<loopVars, completions, status, tickets, saved, sourced, faulty>>

\* complete() got an error status: the scripted path.
GatewayDown ==
    /\ pc = "complete"
    /\ pc' = "outage"
    /\ faulty' = TRUE
    /\ CountCompletion
    /\ UNCHANGED <<loopVars, storeVars, shown, ending, sourced>>

\* degrade(): a ticket if the role may escalate and MongoDB accepts it; the message
\* is streamed, not recorded.
Degrade ==
    /\ pc = "outage"
    /\ MayOpenTicket
    /\ Show("outage")
    /\ End("escalated")
    /\ UNCHANGED <<loopVars, completions, status, logged, saved, sourced, faulty>>

\* The write under way when an await rejects or the process stops may have been applied.
Writing == [hear |-> "user", toolError |-> "error", result |-> "result", card |-> "card",
            answer |-> "answer"]
MayWrite ==
    \/ UNCHANGED storeVars
    \/ /\ pc \in DOMAIN Writing
       /\ Record(Writing[pc])
       /\ UNCHANGED <<status, tickets, saved>>
    \/ pc = "mark" /\ status' = MarkedStatus /\ UNCHANGED <<tickets, logged, saved>>
    \/ pc = "save" /\ saved' = saved \cup CardSaved(Entry("card"))
                   /\ UNCHANGED <<status, tickets, logged>>

\* An await outside execute() and the forced completion rejects.
Reject ==
    /\ pc \notin {"tool", "forced", "outage", "ended", "stopped"}
    /\ MayWrite
    /\ faulty' = TRUE
    /\ End("error")
    /\ UNCHANGED <<loopVars, completions, shown, sourced>>

\* (A ticket applied before the process stopped is EscalateTool and Crash, or Degrade.)
Crash ==
    /\ pc \notin {"ended", "stopped"}
    /\ MayWrite
    /\ pc' = "stopped"
    /\ UNCHANGED <<loopVars, completions, shown, ending, sourced, faulty>>

-----------------------------------------------------------------------------
\* What the event loop does with the turn: every await settles, one way or the
\* other.
Settle ==
    \/ HearUser \/ Prepare
    \/ ProposeCalls \/ RetryDraft \/ AcceptDraft
    \/ SkipCall \/ ReadTool \/ EscalateTool \/ CardTool \/ RefundTool \/ ToolThrows
    \/ ShowToolError \/ ShowResult \/ MarkEscalated \/ SaveCard \/ ShowCard
    \/ ForceText \/ SendAnswer
    \/ GatewayDown \/ Degrade \/ Reject

Next == Settle \/ Crash

Spec == Init /\ [][Next]_vars

\* fetch, ioredis and the MongoDB driver give up on a peer that does not answer.
FairSpec == Spec /\ WF_vars(Settle)

-----------------------------------------------------------------------------
(* Properties.                                                              *)

Texts == [canned: Canned \cup {"none"}, states: SUBSET Amounts]
EntrySet == [what: Entries, hop: 0..MaxHops, left: 0..MaxCalls]

\* The state of the turn stays in its types, the loop counter within MAX_TOOL_HOPS.
TypeOK ==
    /\ pc \in {"hear", "touch", "kb", "context", "complete", "tool", "toolError",
               "result", "mark", "save", "card", "forced", "answer", "outage",
               "ended", "stopped"}
    /\ hop \in 0..MaxHops
    /\ calls \in Seq(Calls) /\ Len(calls) <= MaxCalls
    /\ allowed \subseteq Amounts
    /\ retried \in BOOLEAN
    /\ awaiting \in BOOLEAN
    /\ draft \in Texts
    /\ card \subseteq Amounts
    /\ completions \in 0..(MaxHops + 2)
    /\ status \in {"active", "escalated"}
    /\ tickets \subseteq EntrySet
    /\ logged \subseteq EntrySet
    /\ saved \subseteq EntrySet
    /\ shown \subseteq EntrySet
    /\ ending \in {"open", "done", "awaiting", "escalated", "error"}
    /\ sourced \subseteq Amounts
    /\ faulty \in BOOLEAN

ShownSome(what) == \E e \in shown : e.what = what

\* Every amount in a text the user reads was returned by the core backend in this
\* turn, although moneyAllowed also takes the amount the model gave to
\* initiate_refund: a card ends its turn before another text is accepted
\* (grounding.service.ts:9-12, orchestrator.service.ts:128,165-169).
SourcedText == ShownSome("answer") => draft.states \subseteq sourced

\* A turn costs at most MAX_TOOL_HOPS completions and the forced one, whatever
\* the model keeps proposing.
CompletionsBounded == completions <= MaxHops + 1

\* A card the client shows can be confirmed at once, and a turn tells the client to
\* wait for a confirmation if and only if it showed a card and no text.
CardConfirmable ==
    /\ \A e \in shown : e.what = "card" => e \in saved
    /\ ending = "awaiting" => ShownSome("card")
    /\ ending = "done" => ~ ShownSome("card") /\ ShownSome("answer")

\* A forbidden, malformed or failing tool call never costs the user the answer:
\* only a store or the gateway failing ends a turn early
\* (orchestrator.service.ts:106-108).
OnlyFaultsCutShort == ending \in {"error", "escalated"} => faulty

\* The error of the call that opened a ticket: to the turn, the call has failed.
SaidToFail(t) == [t EXCEPT !.what = "error"] \in logged

\* A turn that ended normally leaves the session escalated if it opened a ticket through
\* escalate_to_human; the only tickets it can leave on an active session are those whose
\* creation was applied and then rejected: the transcript then calls the tool failed
\* (orchestrator.service.ts:109-127,159-161, tool-executor.service.ts:145).
EscalationMarksSession ==
    (ending \in {"done", "awaiting"} /\ status # "escalated") =>
        \A t \in tickets : SaidToFail(t)

\* Every turn ends, whatever the model proposes, unless the process stops.
TurnEnds == <>(pc \in {"ended", "stopped"})

-----------------------------------------------------------------------------
(* The inductive invariant behind the safety properties.                    *)

Preparing == {"hear", "touch", "kb", "context"}
Handling  == {"tool", "toolError", "result", "mark", "save", "card"}
Over      == {"ended", "stopped"}

\* Each completion of the loop is paid for with a hop.
HopInv ==
    /\ pc \in Preparing => completions = 0 /\ hop = 0
    /\ pc = "complete" => completions <= hop /\ hop < MaxHops
    /\ pc \in Handling => completions <= hop + 1 /\ hop < MaxHops /\ calls # <<>>
    /\ pc = "forced" => completions <= hop
    /\ pc # "ended" => ending = "open"
    /\ completions <= MaxHops + 1

\* Outside the handling of a card, and unless one was shown, only the core
\* backend's amounts are allowed.
MoneyInv ==
    /\ pc \in {"complete", "forced", "answer", "outage"} \cup Preparing => ~ awaiting
    /\ pc \notin {"save", "card"} \cup Over /\ ~ awaiting => allowed \subseteq sourced
    /\ pc = "answer" => draft.states \subseteq sourced
    /\ ShownSome("answer") => pc = "ended"

\* A card was shown if and only if the turn waits for its confirmation.
CardInv ==
    /\ pc \notin Over => (awaiting <=> ShownSome("card"))
    /\ pc = "card" => Entry("card") \in saved

\* The ticket of escalate_to_human comes just before the status of the session, or before
\* the error of its call.
JustOpened(t) ==
    /\ t = Entry("ticket")
    /\ \/ pc \in {"result", "mark"} /\ Head(calls) = "escalate"
       \/ pc = "toolError"
TicketInv ==
    /\ pc = "mark" => Head(calls) = "escalate"
    /\ status # "escalated" => \A t \in tickets :
          \/ SaidToFail(t)
          \/ JustOpened(t)
          \/ pc = "stopped"
          \/ ending \in {"escalated", "error"}

\* The parts together are inductive (the proofs are in TurnLoopProofs).
TurnInv ==
    /\ TypeOK
    /\ HopInv
    /\ MoneyInv
    /\ CardInv
    /\ TicketInv
    /\ SourcedText
    /\ CardConfirmable
    /\ OnlyFaultsCutShort
    /\ pc = "outage" => faulty

-----------------------------------------------------------------------------
(* Why a turn cannot go on for ever.                                        *)

\* The awaits of a call that are not behind it, and those before the loop.
Remaining == [tool |-> 3, result |-> 2, save |-> 2, toolError |-> 1, mark |-> 1, card |-> 1]
Ahead == [hear |-> 4, touch |-> 3, kb |-> 2, context |-> 1]

\* The most steps a hop may take: a completion, and three for each of its calls.
PerHop == 4 * MaxCalls + 1

\* A bound on the steps that are left to the turn.
StepsLeft ==
    CASE pc \in Over                 -> 0
      [] pc \in {"answer", "outage"} -> 1
      [] pc = "forced"               -> 2
      [] pc = "complete"             -> (MaxHops - hop) * PerHop + 2
      [] pc \in Handling             ->
            (MaxHops - (hop + 1)) * PerHop + 2 + 4 * (Len(calls) - 1) + Remaining[pc]
      [] pc \in Preparing            -> MaxHops * PerHop + 2 + Ahead[pc]

\* Every step brings the end of the turn nearer: a turn takes at most MaxHops * PerHop + 6
\* steps, whatever the model proposes and whichever way an await settles
\* (orchestrator.service.ts:85-198).
TurnShrinks == [][StepsLeft' < StepsLeft]_vars

================================================================================
