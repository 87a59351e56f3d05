------------------------------ MODULE ReviewLedger ------------------------------
(***************************************************************************)
(* What the ingest promises about each review: it is judged once, after it *)
(* was given, as its text and the reviews of its subject warrant, and its  *)
(* aspects are read at most once, only if it was admitted.  Pages,         *)
(* watermarks, batches, faults and repeated cycles do not appear.          *)
(***************************************************************************)
EXTENDS Naturals, FiniteSets

CONSTANTS
    Keys,               \* reviews
    SubjectOf, TextOf,  \* whom each is about, and what it says
    Toxic, Blank,       \* the abusive texts; the empty text
    BombMin             \* reviews of a subject that make a bombing possible

VARIABLES
    given,      \* the reviews that were written
    verdict,    \* why each one is excluded, "no" if it is admitted
    aspects     \* what was read in each one

Unjudged == "unjudged"

Init ==
    /\ given = {}
    /\ verdict = [k \in Keys |-> Unjudged]
    /\ aspects = [k \in Keys |-> "unprocessed"]

Give(k) ==
    /\ given' = given \cup {k}
    /\ UNCHANGED <<verdict, aspects>>

\* A subject is suspected of being bombed only if enough is said about it.
Suspected(k) ==
    Cardinality({j \in given : SubjectOf[j] = SubjectOf[k] /\ TextOf[j] # Blank}) >= BombMin

Warranted(k, v) ==
    \/ v = "toxicity" /\ TextOf[k] \in Toxic
    \/ v = "review_bombing" /\ TextOf[k] \notin Toxic /\ Suspected(k)
    \/ v = "no" /\ TextOf[k] \notin Toxic

Judge(k) ==
    /\ k \in given
    /\ verdict[k] = Unjudged
    /\ \E v \in {"no", "toxicity", "review_bombing"} :
         /\ Warranted(k, v)
         /\ verdict' = [verdict EXCEPT ![k] = v]
    /\ UNCHANGED <<given, aspects>>

ReadAspects(k) ==
    /\ verdict[k] = "no"
    /\ aspects[k] = "unprocessed"
    /\ \E found \in {"found", "none"} :
         /\ TextOf[k] = Blank => found = "none"
         /\ aspects' = [aspects EXCEPT ![k] = found]
    /\ UNCHANGED <<given, verdict>>

Next == \E k \in Keys : Give(k) \/ Judge(k) \/ ReadAspects(k)

Spec == Init /\ [][Next]_<<given, verdict, aspects>>
================================================================================
