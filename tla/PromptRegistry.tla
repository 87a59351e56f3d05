----------------------------- MODULE PromptRegistry ----------------------------
(***************************************************************************)
(* The versions of one prompt in ai-gateway: drafts, publishing, and what  *)
(* resolvePublished() finds (prompts.service.ts).  Administrators work     *)
(* concurrently; a draft and a publish are each several MongoDB calls.     *)
(***************************************************************************)
EXTENDS Naturals, Sequences

CONSTANTS
    Admins,       \* concurrent handlers
    MaxVersions   \* bound: versions explored

ASSUME VersionsAssumption == MaxVersions \in Nat

VARIABLES
    prompts,    \* MongoDB: the documents of the key, in the order they were created
    pc,         \* handlers: the call each one is at
    target,     \* handlers: the version to create, or the document to publish
    loaded,     \* handlers: the status publish() found
    last,       \* history: the document published last, 0 if none
    disturbed   \* history: the last publish overlapped, died, or repeated a live version

vars == <<prompts, pc, target, loaded, last, disturbed>>
history == <<last, disturbed>>

Versions  == 1..MaxVersions
Statuses  == {"draft", "published", "retired"}
Documents == [version : Versions, status : Statuses]
Existing  == DOMAIN prompts
Live      == {i \in Existing : prompts[i].status = "published"}

Init ==
    /\ prompts = <<>>
    /\ pc = [a \in Admins |-> "idle"]
    /\ target = [a \in Admins |-> 0]
    /\ loaded = [a \in Admins |-> "draft"]
    /\ last = 0
    /\ disturbed = FALSE

\* The handler is over: nothing of it remains.
Finish(a) ==
    /\ pc' = [pc EXCEPT ![a] = "idle"]
    /\ target' = [target EXCEPT ![a] = 0]
    /\ loaded' = [loaded EXCEPT ![a] = "draft"]

-----------------------------------------------------------------------------
(* createDraft().                                                           *)

\* findOne().sort({version: -1}).
Latest == {i \in Existing : \A j \in Existing : prompts[j].version <= prompts[i].version}

\* (latest?.version ?? 0) + 1.
NextVersion ==
    (IF Latest = {} THEN 0 ELSE prompts[CHOOSE i \in Latest : TRUE].version) + 1

ReadLatest(a) ==
    /\ pc[a] = "idle"
    /\ NextVersion <= MaxVersions
    /\ target' = [target EXCEPT ![a] = NextVersion]
    /\ pc' = [pc EXCEPT ![a] = "create"]
    /\ UNCHANGED <<prompts, loaded, history>>

\* The unique index on (key, version).  (Mutated: no index.)
NoIndex(v) == TRUE
IndexAccepts(v) == \A i \in Existing : prompts[i].version # v

\* create(): a document of its own, unless another handler created the version
\* meanwhile and the index refuses it.
CreateDraft(a) ==
    /\ pc[a] = "create"
    /\ prompts' = IF IndexAccepts(target[a])
                  THEN Append(prompts, [version |-> target[a], status |-> "draft"])
                  ELSE prompts
    /\ Finish(a)
    /\ UNCHANGED history

-----------------------------------------------------------------------------
(* publish().                                                               *)

Publishing == {a \in Admins : pc[a] \in {"retire", "save"}}

\* findOne(): a document of the version, be it a draft, retired (a rollback), or live.
LoadTarget(a, i) ==
    /\ pc[a] = "idle"
    /\ target' = [target EXCEPT ![a] = i]
    /\ loaded' = [loaded EXCEPT ![a] = prompts[i].status]
    /\ pc' = [pc EXCEPT ![a] = "retire"]
    /\ disturbed' = (Publishing # {} \/ i \in Live)
    /\ UNCHANGED <<prompts, last>>

\* What updateMany() makes of a status.  (Mutated: nothing is retired.)
LeftAlone(s) == s
RetiredIfLive(s) == IF s = "published" THEN "retired" ELSE s

RetireLive(a) ==
    /\ pc[a] = "retire"
    /\ prompts' = [i \in Existing |-> [prompts[i] EXCEPT !.status = RetiredIfLive(@)]]
    /\ pc' = [pc EXCEPT ![a] = "save"]
    /\ UNCHANGED <<target, loaded, history>>

\* save() writes the fields that changed since the document was loaded: the status
\* is not among them if the document was live then.
SaveTarget(a) ==
    /\ pc[a] = "save"
    /\ prompts' = IF loaded[a] = "published"
                  THEN prompts
                  ELSE [prompts EXCEPT ![target[a]].status = "published"]
    /\ last' = target[a]
    /\ Finish(a)
    /\ UNCHANGED disturbed

-----------------------------------------------------------------------------
\* The process stops, or MongoDB rejects a call.
Abort(a) ==
    /\ pc[a] # "idle"
    /\ disturbed' = (disturbed \/ a \in Publishing)
    /\ Finish(a)
    /\ UNCHANGED <<prompts, last>>

Next ==
    \E a \in Admins :
        \/ ReadLatest(a) \/ CreateDraft(a)
        \/ \E i \in Existing : LoadTarget(a, i)
        \/ RetireLive(a) \/ SaveTarget(a)
        \/ Abort(a)

Spec == Init /\ [][Next]_vars

-----------------------------------------------------------------------------
(* Properties.                                                              *)

TypeOK ==
    /\ prompts \in Seq(Documents)
    /\ pc \in [Admins -> {"idle", "create", "retire", "save"}]
    /\ target \in [Admins -> 0..MaxVersions]
    /\ loaded \in [Admins -> Statuses]
    /\ last \in 0..MaxVersions
    /\ disturbed \in BOOLEAN

\* Administrators who draft at the same time compute the same version from the same
\* latest one; still no two documents share a version and no number is left out: the
\* n-th document of a key is version n (prompts.service.ts:28-42).
VersionsContiguous == \A i \in Existing : prompts[i].version = i

\* A released version is never a draft again: no publish takes one back, and no
\* draft of a slow handler comes to stand beside it under the same number
\* (prompts.service.ts:33-54).
ReleasedStays ==
    [][\A i \in Existing : prompts[i].status # "draft" =>
           \A j \in Existing' :
               prompts'[j].version = prompts[i].version => prompts'[j].status # "draft"]_vars

\* A publish that nobody overlapped, and of what was not live already, leaves exactly
\* its version live, also after overlapping or interrupted ones left several versions
\* live or none (prompts.service.ts:44-55).
SerialPublishes ==
    (~ disturbed /\ Publishing = {} /\ last # 0) => Live = {last}

-----------------------------------------------------------------------------
(* The inductive invariant behind the safety properties.                    *)

\* The versions are 1..n, and a draft being created is the next of them or one
\* that another handler created first.
NumberInv ==
    /\ Len(prompts) <= MaxVersions
    /\ VersionsContiguous
    /\ \A a \in Admins : pc[a] = "create" => target[a] \in 1..(Len(prompts) + 1)

\* A publish works on a document that exists; while it is not disturbed it is the only
\* one, of a version that was not live, nothing is live between its two writes, and
\* its version is when it is over.
LiveInv ==
    /\ \A a \in Publishing : target[a] \in Existing
    /\ ~ disturbed =>
          /\ \A a, b \in Publishing : a = b
          /\ \A a \in Publishing : loaded[a] # "published"
          /\ (\E a \in Admins : pc[a] = "save") => Live = {}
          /\ Publishing = {} => Live = (IF last = 0 THEN {} ELSE {last})

\* The parts together are inductive (the proofs are in PromptRegistryProofs).
RegistryInv ==
    /\ TypeOK
    /\ NumberInv
    /\ LiveInv

================================================================================
