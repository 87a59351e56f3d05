------------------------------ MODULE ActionLedger ------------------------------
(***************************************************************************)
(* What the confirmation gate promises about the state-changing actions of *)
(* the assistant (book_ride, cancel_ride, initiate_refund): an action is   *)
(* offered once, committed at most once and only after it was offered, and *)
(* its effect follows a commit and happens at most once.  How cards are    *)
(* stored, confirmed, guarded and retried does not appear.                 *)
(***************************************************************************)
EXTENDS Naturals

CONSTANT Actions

VARIABLES
    offered,    \* actions shown to their user on a card
    committed,  \* how often the commit of each action was started
    executed    \* how often the effect of each action happened

Init ==
    /\ offered = {}
    /\ committed = [a \in Actions |-> 0]
    /\ executed = [a \in Actions |-> 0]

Offer(a) ==
    /\ a \notin offered
    /\ offered' = offered \cup {a}
    /\ UNCHANGED <<committed, executed>>

Commit(a) ==
    /\ a \in offered
    /\ committed[a] = 0
    /\ committed' = [committed EXCEPT ![a] = 1]
    /\ UNCHANGED <<offered, executed>>

Execute(a) ==
    /\ committed[a] = 1
    /\ executed[a] = 0
    /\ executed' = [executed EXCEPT ![a] = 1]
    /\ UNCHANGED <<offered, committed>>

Next == \E a \in Actions : Offer(a) \/ Commit(a) \/ Execute(a)

Spec == Init /\ [][Next]_<<offered, committed, executed>>
================================================================================
