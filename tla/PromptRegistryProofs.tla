-------------------------- MODULE PromptRegistryProofs -------------------------
(***************************************************************************)
(* Proofs about the prompt registry: RegistryInv is an inductive invariant *)
(* of PromptRegistry, for any number of administrators and versions.       *)
(***************************************************************************)
EXTENDS PromptRegistry, TLAPS

USE VersionsAssumption

-----------------------------------------------------------------------------
(* The operators.                                                           *)

\* With the versions 1..n, createDraft() computes n + 1
\* (prompts.service.ts:28-32).
LEMMA NextAfterLast ==
    ASSUME TypeOK, VersionsContiguous
    PROVE  NextVersion = Len(prompts) + 1
<1> DEFINE n == Len(prompts)
<1>1. n \in Nat /\ Existing = 1..n /\ \A i \in Existing : prompts[i].version = i
  BY DEF TypeOK, VersionsContiguous, Existing
<1>2. CASE n = 0
  <2>1. Latest = {}
    BY <1>1, <1>2 DEF Latest
  <2> QED
    BY <1>2, <2>1 DEF NextVersion
<1>3. CASE n > 0
  <2>1. Latest = {n}
    BY <1>1, <1>3 DEF Latest
  <2>2. (CHOOSE i \in Latest : TRUE) = n
    BY <2>1
  <2> QED
    BY <1>1, <1>3, <2>1, <2>2 DEF NextVersion
<1> QED
  BY <1>1, <1>2, <1>3

\* updateMany() leaves the documents, and nothing of them live
\* (prompts.service.ts:48-51).
LEMMA RetireStep ==
    ASSUME TypeOK, NEW a \in Admins, RetireLive(a)
    PROVE  /\ prompts' \in Seq(Documents) /\ Len(prompts') = Len(prompts)
           /\ Existing' = Existing
           /\ \A i \in Existing : /\ prompts'[i].version = prompts[i].version
                                  /\ prompts[i].status # "draft" => prompts'[i].status # "draft"
                                  /\ prompts[i].status = "draft" => prompts'[i].status = "draft"
           /\ Live' = {}
<1> DEFINE new == [i \in 1..Len(prompts) |-> [prompts[i] EXCEPT !.status = RetiredIfLive(@)]]
<1>1. Existing = 1..Len(prompts) /\ Len(prompts) \in Nat
  BY DEF TypeOK, Existing
<1>2. prompts' = new
  BY <1>1 DEF RetireLive
<1>3. \A i \in 1..Len(prompts) : prompts[i] \in Documents
  BY DEF TypeOK
<1>4. \A i \in 1..Len(prompts) :
          /\ new[i] \in Documents /\ new[i].version = prompts[i].version
          /\ new[i].status = RetiredIfLive(prompts[i].status)
  BY <1>3 DEF Documents, Statuses, RetiredIfLive
<1>5. new \in Seq(Documents) /\ Len(new) = Len(prompts) /\ DOMAIN new = 1..Len(prompts)
  BY <1>1, <1>4
<1> HIDE DEF new
<1>6. Existing' = Existing
  BY <1>1, <1>2, <1>5 DEF Existing
<1>7. \A i \in Existing : /\ prompts'[i].version = prompts[i].version
                          /\ prompts'[i].status = RetiredIfLive(prompts[i].status)
  BY <1>1, <1>2, <1>4
<1>8. Live' = {}
  BY <1>6, <1>7 DEF Live, RetiredIfLive
<1> QED
  BY <1>2, <1>5, <1>6, <1>7, <1>8 DEF RetiredIfLive

\* A draft is a document of its own: the others, and what is live, stay as they were
\* (prompts.service.ts:33-42).
LEMMA DraftStep ==
    ASSUME TypeOK, NEW a \in Admins, CreateDraft(a), target[a] \in Versions
    PROVE  /\ prompts' \in Seq(Documents)
           /\ Existing \subseteq Existing' /\ Live' = Live
           /\ \A i \in Existing : prompts'[i] = prompts[i]
           /\ \/ Len(prompts') = Len(prompts) /\ Existing' = Existing
              \/ /\ IndexAccepts(target[a])
                 /\ Len(prompts') = Len(prompts) + 1
                 /\ Existing' = Existing \cup {Len(prompts) + 1}
                 /\ prompts'[Len(prompts) + 1].version = target[a]
<1>1. CASE ~ IndexAccepts(target[a])
  BY <1>1 DEF CreateDraft, TypeOK, Existing, Live
<1>2. CASE IndexAccepts(target[a])
  <2> DEFINE doc == [version |-> target[a], status |-> "draft"]
  <2>1. prompts' = Append(prompts, doc)
    BY <1>2 DEF CreateDraft
  <2>2. doc \in Documents /\ doc.version = target[a] /\ doc.status = "draft"
    BY DEF Documents, Statuses
  <2> HIDE DEF doc
  <2>3. Len(prompts) \in Nat /\ Existing = 1..Len(prompts) /\ prompts \in Seq(Documents)
    BY DEF TypeOK, Existing
  <2>4. /\ prompts' \in Seq(Documents) /\ Len(prompts') = Len(prompts) + 1
        /\ \A i \in 1..Len(prompts) : prompts'[i] = prompts[i]
        /\ prompts'[Len(prompts) + 1] = doc
    BY <2>1, <2>2, <2>3
  <2>5. Existing' = 1..(Len(prompts) + 1)
    BY <2>3, <2>4 DEF Existing
  <2>6. Existing' = Existing \cup {Len(prompts) + 1}
    BY <2>3, <2>5
  <2>7. Live' = Live
    BY <2>2, <2>3, <2>4, <2>6 DEF Live
  <2> QED
    BY <1>2, <2>2, <2>3, <2>4, <2>6, <2>7
<1> QED
  BY <1>1, <1>2

\* save() changes the status of its document at most (prompts.service.ts:52-54).
LEMMA SaveStep ==
    ASSUME TypeOK, NEW a \in Admins, SaveTarget(a), target[a] \in Existing
    PROVE  /\ prompts' \in Seq(Documents) /\ Len(prompts') = Len(prompts)
           /\ Existing' = Existing
           /\ \A i \in Existing : /\ prompts'[i].version = prompts[i].version
                                  /\ i # target[a] => prompts'[i] = prompts[i]
           /\ loaded[a] # "published" => prompts'[target[a]].status = "published"
           /\ loaded[a] = "published" => prompts' = prompts
<1>1. CASE loaded[a] = "published"
  BY <1>1 DEF SaveTarget, TypeOK, Existing
<1>2. CASE loaded[a] # "published"
  <2> DEFINE t == target[a]
             doc == [prompts[t] EXCEPT !.status = "published"]
  <2>1. Len(prompts) \in Nat /\ Existing = 1..Len(prompts) /\ prompts \in Seq(Documents)
    BY DEF TypeOK, Existing
  <2>2. prompts[t] \in Documents
    BY <2>1
  <2>3. doc \in Documents /\ doc.version = prompts[t].version /\ doc.status = "published"
    BY <2>2 DEF Documents, Statuses
  <2>4. prompts' = [prompts EXCEPT ![t] = doc]
    BY <1>2 DEF SaveTarget
  <2> HIDE DEF doc
  <2>5. /\ prompts' \in Seq(Documents) /\ Len(prompts') = Len(prompts)
        /\ prompts'[t] = doc /\ \A i \in Existing : i # t => prompts'[i] = prompts[i]
    BY <2>1, <2>3, <2>4
  <2>6. Existing' = Existing
    BY <2>1, <2>5 DEF Existing
  <2> QED
    BY <1>2, <2>3, <2>5, <2>6
<1> QED
  BY <1>1, <1>2

-----------------------------------------------------------------------------
(* Type correctness.                                                        *)

\* The initial states have the right types.
LEMMA InitTypeOK == Init => TypeOK
<1> SUFFICES ASSUME Init PROVE TypeOK
  OBVIOUS
<1>1. prompts \in Seq(Documents)
  BY DEF Init
<1>2. /\ pc \in [Admins -> {"idle", "create", "retire", "save"}]
      /\ target \in [Admins -> 0..MaxVersions]
      /\ loaded \in [Admins -> Statuses]
  BY DEF Init, Statuses
<1>3. last \in 0..MaxVersions
  BY DEF Init
<1>4. disturbed \in BOOLEAN
  BY DEF Init
<1> QED
  BY <1>1, <1>2, <1>3, <1>4 DEF TypeOK

\* Every step keeps the types: the numbering keeps versions in range.
LEMMA NextTypeOK ==
    ASSUME RegistryInv, [Next]_vars
    PROVE  TypeOK'
<1>0. TypeOK /\ NumberInv /\ LiveInv
  BY DEF RegistryInv
<1>1. /\ Len(prompts) \in 0..MaxVersions /\ Existing = 1..Len(prompts)
      /\ \A i \in Existing : i \in 0..MaxVersions /\ prompts[i].status \in Statuses
  <2>1. prompts \in Seq(Documents) /\ Len(prompts) \in Nat /\ Existing = 1..Len(prompts)
    BY <1>0 DEF TypeOK, Existing
  <2>2. Len(prompts) <= MaxVersions
    BY <1>0 DEF NumberInv
  <2>3. \A i \in Existing : prompts[i] \in Documents
    BY <2>1
  <2> QED
    BY <2>1, <2>2, <2>3 DEF Documents
<1>2. ASSUME NEW a \in Admins, ReadLatest(a) PROVE TypeOK'
  <2>1. target' \in [Admins -> 0..MaxVersions]
    BY <1>0, <1>1, <1>2, NextAfterLast DEF ReadLatest, TypeOK, NumberInv
  <2> QED
    BY <1>0, <1>2, <2>1 DEF ReadLatest, history, TypeOK
<1>3. ASSUME NEW a \in Admins, CreateDraft(a) PROVE TypeOK'
  <2>1. target[a] \in Versions
    BY <1>0, <1>3 DEF CreateDraft, NumberInv, TypeOK, Versions
  <2>2. prompts' \in Seq(Documents)
    BY <1>0, <1>3, <2>1, DraftStep
  <2> QED
    BY <1>0, <1>3, <2>2 DEF CreateDraft, Finish, history, Statuses, TypeOK
<1>4. ASSUME NEW a \in Admins, NEW i \in Existing, LoadTarget(a, i) PROVE TypeOK'
  BY <1>0, <1>1, <1>4 DEF LoadTarget, Publishing, TypeOK
<1>5. ASSUME NEW a \in Admins, RetireLive(a) PROVE TypeOK'
  BY <1>0, <1>5, RetireStep DEF RetireLive, history, TypeOK
<1>6. ASSUME NEW a \in Admins, SaveTarget(a) PROVE TypeOK'
  <2>1. target[a] \in Existing
    BY <1>0, <1>6 DEF SaveTarget, LiveInv, Publishing
  <2>2. prompts' \in Seq(Documents) /\ last' \in 0..MaxVersions
    BY <1>0, <1>1, <1>6, <2>1, SaveStep DEF SaveTarget
  <2> QED
    BY <1>0, <1>6, <2>2 DEF SaveTarget, Finish, Statuses, TypeOK
<1>7. ASSUME NEW a \in Admins, Abort(a) PROVE TypeOK'
  BY <1>0, <1>7 DEF Abort, Finish, Statuses, Publishing, TypeOK
<1>8. ASSUME UNCHANGED vars PROVE TypeOK'
  BY <1>0, <1>8 DEF vars, TypeOK
<1> QED
  BY <1>2, <1>3, <1>4, <1>5, <1>6, <1>7, <1>8 DEF Next

-----------------------------------------------------------------------------
(* The numbering.                                                           *)

\* There are no versions and no drafts initially.
LEMMA InitNumberInv == Init => NumberInv
BY DEF Init, NumberInv, VersionsContiguous, Existing

\* Only a draft adds a version, and the index lets only the next one in.
LEMMA NextNumberInv ==
    ASSUME RegistryInv, [Next]_vars
    PROVE  NumberInv'
<1>0. TypeOK /\ NumberInv /\ LiveInv
  BY DEF RegistryInv
<1>1. /\ Len(prompts) \in Nat /\ Len(prompts) <= MaxVersions /\ Existing = 1..Len(prompts)
      /\ \A i \in Existing : prompts[i].version = i
      /\ \A b \in Admins : pc[b] = "create" => target[b] \in 1..(Len(prompts) + 1)
  BY <1>0 DEF TypeOK, NumberInv, VersionsContiguous, Existing
\* The steps that create nothing.
<1>2. ASSUME Len(prompts') = Len(prompts), Existing' = Existing,
             \A i \in Existing : prompts'[i].version = prompts[i].version,
             \A b \in Admins : pc'[b] = "create" =>
                 \/ pc[b] = "create" /\ target'[b] = target[b]
                 \/ target'[b] = Len(prompts) + 1
      PROVE  NumberInv'
  BY <1>1, <1>2 DEF NumberInv, VersionsContiguous
<1>3. ASSUME NEW a \in Admins, ReadLatest(a) PROVE NumberInv'
  <2>1. NextVersion = Len(prompts) + 1
    BY <1>0, NextAfterLast DEF NumberInv
  <2>2. \A b \in Admins : pc'[b] = "create" =>
            \/ pc[b] = "create" /\ target'[b] = target[b]
            \/ target'[b] = Len(prompts) + 1
    BY <1>0, <1>3, <2>1 DEF ReadLatest, TypeOK
  <2> QED
    BY <1>2, <1>3, <2>2 DEF ReadLatest, Existing
<1>4. ASSUME NEW a \in Admins, CreateDraft(a) PROVE NumberInv'
  <2>1. target[a] \in Versions /\ target[a] \in 1..(Len(prompts) + 1)
    BY <1>0, <1>1, <1>4 DEF CreateDraft, TypeOK, Versions
  <2>2. \A b \in Admins : pc'[b] = "create" => pc[b] = "create" /\ target'[b] = target[b]
    BY <1>0, <1>4 DEF CreateDraft, Finish, TypeOK
  <2>3. CASE Len(prompts') = Len(prompts) /\ Existing' = Existing
    BY <1>0, <1>2, <1>4, <2>1, <2>2, <2>3, DraftStep
  <2>4. CASE /\ IndexAccepts(target[a]) /\ Len(prompts') = Len(prompts) + 1
             /\ Existing' = Existing \cup {Len(prompts) + 1}
             /\ prompts'[Len(prompts) + 1].version = target[a]
    <3>1. target[a] = Len(prompts) + 1
      BY <1>1, <2>1, <2>4 DEF IndexAccepts
    <3>2. \A i \in Existing : prompts'[i] = prompts[i]
      BY <1>0, <1>4, <2>1, DraftStep
    <3>3. VersionsContiguous'
      BY <1>1, <2>4, <3>1, <3>2 DEF VersionsContiguous
    <3>4. Len(prompts') <= MaxVersions
      BY <2>1, <2>4, <3>1 DEF Versions
    <3>5. \A b \in Admins : pc'[b] = "create" => target'[b] \in 1..(Len(prompts') + 1)
      BY <1>1, <2>2, <2>4
    <3> QED
      BY <3>3, <3>4, <3>5 DEF NumberInv
  <2> QED
    BY <1>0, <1>4, <2>1, <2>3, <2>4, DraftStep
<1>5. ASSUME NEW a \in Admins, NEW i \in Existing, LoadTarget(a, i) PROVE NumberInv'
  <2>1. \A b \in Admins : pc'[b] = "create" => pc[b] = "create" /\ target'[b] = target[b]
    BY <1>0, <1>5 DEF LoadTarget, TypeOK
  <2> QED
    BY <1>2, <1>5, <2>1 DEF LoadTarget, Existing
<1>6. ASSUME NEW a \in Admins, RetireLive(a) PROVE NumberInv'
  <2>1. \A b \in Admins : pc'[b] = "create" => pc[b] = "create" /\ target'[b] = target[b]
    BY <1>0, <1>6 DEF RetireLive, TypeOK
  <2>2. /\ Len(prompts') = Len(prompts) /\ Existing' = Existing
        /\ \A i \in Existing : prompts'[i].version = prompts[i].version
    BY <1>0, <1>6, RetireStep
  <2> QED
    BY <1>2, <2>1, <2>2
<1>7. ASSUME NEW a \in Admins, SaveTarget(a) PROVE NumberInv'
  <2>1. target[a] \in Existing
    BY <1>0, <1>7 DEF SaveTarget, LiveInv, Publishing
  <2>2. \A b \in Admins : pc'[b] = "create" => pc[b] = "create" /\ target'[b] = target[b]
    BY <1>0, <1>7 DEF SaveTarget, Finish, TypeOK
  <2>3. /\ Len(prompts') = Len(prompts) /\ Existing' = Existing
        /\ \A i \in Existing : prompts'[i].version = prompts[i].version
    BY <1>0, <1>7, <2>1, SaveStep
  <2> QED
    BY <1>2, <2>2, <2>3
<1>8. ASSUME NEW a \in Admins, Abort(a) PROVE NumberInv'
  <2>1. \A b \in Admins : pc'[b] = "create" => pc[b] = "create" /\ target'[b] = target[b]
    BY <1>0, <1>8 DEF Abort, Finish, TypeOK
  <2> QED
    BY <1>2, <1>8, <2>1 DEF Abort, Existing
<1>9. ASSUME UNCHANGED vars PROVE NumberInv'
  BY <1>2, <1>9 DEF vars, Existing
<1> QED
  BY <1>3, <1>4, <1>5, <1>6, <1>7, <1>8, <1>9 DEF Next

-----------------------------------------------------------------------------
(* What is live.                                                            *)

\* Nothing is live and nobody publishes initially.
LEMMA InitLiveInv == Init => LiveInv
<1> SUFFICES ASSUME Init PROVE LiveInv
  OBVIOUS
<1>1. Live = {} /\ last = 0
  BY DEF Init, Live, Existing
<1>2. Publishing = {} /\ \A a \in Admins : pc[a] # "save"
  BY DEF Init, Publishing
<1> QED
  BY <1>1, <1>2 DEF LiveInv

\* A step that touches neither what is live nor a publish keeps LiveInv.
LEMMA LiveInvFrame ==
    ASSUME LiveInv, UNCHANGED <<last, disturbed>>, Live' = Live,
           Existing \subseteq Existing',
           \A b \in Admins : pc'[b] = "save" <=> pc[b] = "save",
           \A b \in Admins : pc'[b] = "retire" <=> pc[b] = "retire",
           \A b \in Publishing : target'[b] = target[b] /\ loaded'[b] = loaded[b]
    PROVE  LiveInv'
<1>1. Publishing' = Publishing
  BY DEF Publishing
<1> QED
  BY <1>1 DEF LiveInv

\* Every step keeps LiveInv: a publish that is alone retires what is live, whoever
\* made it so, then makes its target live.
LEMMA NextLiveInv ==
    ASSUME RegistryInv, [Next]_vars
    PROVE  LiveInv'
<1>0. TypeOK /\ NumberInv /\ LiveInv
  BY DEF RegistryInv
<1>1. ASSUME NEW a \in Admins, ReadLatest(a) PROVE LiveInv'
  <2>1. Live' = Live /\ Existing' = Existing
    BY <1>1 DEF ReadLatest, Live, Existing
  <2> QED
    BY <1>0, <1>1, <2>1, LiveInvFrame DEF ReadLatest, history, TypeOK, Publishing
<1>2. ASSUME NEW a \in Admins, CreateDraft(a) PROVE LiveInv'
  <2>1. target[a] \in Versions
    BY <1>0, <1>2 DEF CreateDraft, NumberInv, TypeOK, Versions
  <2>2. Live' = Live /\ Existing \subseteq Existing'
    BY <1>0, <1>2, <2>1, DraftStep
  <2> QED
    BY <1>0, <1>2, <2>2, LiveInvFrame DEF CreateDraft, Finish, history, TypeOK, Publishing
<1>3. ASSUME NEW a \in Admins, NEW i \in Existing, LoadTarget(a, i) PROVE LiveInv'
  <2>1. Live' = Live /\ Existing' = Existing
    BY <1>3 DEF LoadTarget, Live, Existing
  <2>2. Publishing' = Publishing \cup {a}
    BY <1>0, <1>3 DEF LoadTarget, Publishing, TypeOK
  <2>3. /\ target'[a] = i /\ loaded'[a] = prompts[i].status
        /\ \A b \in Admins \ {a} : target'[b] = target[b] /\ loaded'[b] = loaded[b]
        /\ \A b \in Admins : pc'[b] = "save" <=> pc[b] = "save"
    BY <1>0, <1>3 DEF LoadTarget, TypeOK
  <2>4. \A b \in Publishing' : target'[b] \in Existing'
    BY <1>0, <2>1, <2>2, <2>3 DEF LiveInv, Publishing
  <2>5. ASSUME ~ disturbed'
        PROVE  /\ Publishing' = {a} /\ loaded'[a] # "published"
               /\ \A b \in Admins : pc'[b] # "save"
    BY <1>3, <2>2, <2>3, <2>5 DEF LoadTarget, Live, Publishing
  <2> QED
    BY <2>4, <2>5 DEF LiveInv
<1>4. ASSUME NEW a \in Admins, RetireLive(a) PROVE LiveInv'
  <2>1. Live' = {} /\ Existing' = Existing
    BY <1>0, <1>4, RetireStep
  <2>2. Publishing' = Publishing /\ UNCHANGED <<target, loaded, disturbed>> /\ a \in Publishing
    BY <1>0, <1>4 DEF RetireLive, Publishing, TypeOK, history
  <2> QED
    BY <1>0, <2>1, <2>2 DEF LiveInv
<1>5. ASSUME NEW a \in Admins, SaveTarget(a) PROVE LiveInv'
  <2>1. a \in Publishing /\ Publishing' = Publishing \ {a}
    BY <1>0, <1>5 DEF SaveTarget, Finish, Publishing, TypeOK
  <2>2. target[a] \in Existing /\ target[a] # 0
    BY <1>0, <2>1 DEF LiveInv, TypeOK, Existing
  <2>3. Existing' = Existing
    BY <1>0, <1>5, <2>2, SaveStep
  <2>4. /\ \A b \in Admins \ {a} : target'[b] = target[b] /\ loaded'[b] = loaded[b]
        /\ last' = target[a] /\ disturbed' = disturbed
    BY <1>0, <1>5 DEF SaveTarget, Finish, TypeOK
  <2>5. \A b \in Publishing' : target'[b] \in Existing'
    BY <1>0, <2>1, <2>3, <2>4 DEF LiveInv, Publishing
  <2>6. ASSUME ~ disturbed
        PROVE  Live' = {target[a]} /\ Publishing' = {}
    <3>1. loaded[a] # "published" /\ Live = {} /\ Publishing' = {}
      BY <1>0, <1>5, <2>1, <2>6 DEF LiveInv, SaveTarget
    <3>2. /\ prompts'[target[a]].status = "published"
          /\ \A i \in Existing : i # target[a] => prompts'[i] = prompts[i]
      BY <1>0, <1>5, <2>2, <3>1, SaveStep
    <3>3. Live' = {target[a]}
      BY <2>2, <2>3, <3>1, <3>2 DEF Live
    <3> QED
      BY <3>1, <3>3
  <2>7. Publishing' = {} => \A b \in Admins : pc'[b] # "save"
    BY DEF Publishing
  <2> QED
    BY <2>2, <2>4, <2>5, <2>6, <2>7 DEF LiveInv
<1>6. ASSUME NEW a \in Admins, Abort(a) PROVE LiveInv'
  <2>1. Live' = Live /\ Existing' = Existing /\ last' = last
    BY <1>6 DEF Abort, Live, Existing
  <2>2. CASE a \in Publishing
    <3>1. disturbed' /\ Publishing' = Publishing \ {a}
      BY <1>0, <1>6, <2>2 DEF Abort, Finish, Publishing, TypeOK
    <3>2. \A b \in Publishing' : target'[b] = target[b]
      BY <1>0, <1>6, <3>1 DEF Abort, Finish, TypeOK, Publishing
    <3> QED
      BY <1>0, <2>1, <3>1, <3>2 DEF LiveInv
  <2>3. CASE a \notin Publishing
    BY <1>0, <1>6, <2>1, <2>3, LiveInvFrame DEF Abort, Finish, Publishing, TypeOK
  <2> QED
    BY <2>2, <2>3
<1>7. ASSUME UNCHANGED vars PROVE LiveInv'
  <2>1. Live' = Live /\ Existing' = Existing
    BY <1>7 DEF vars, Live, Existing
  <2> QED
    BY <1>0, <1>7, <2>1, LiveInvFrame DEF vars
<1> QED
  BY <1>1, <1>2, <1>3, <1>4, <1>5, <1>6, <1>7 DEF Next

-----------------------------------------------------------------------------
(* Theorems.                                                                *)

\* The inductive invariant holds in every reachable state.
THEOREM RegistryInvariant == Spec => []RegistryInv
<1>1. Init => RegistryInv
  BY InitTypeOK, InitNumberInv, InitLiveInv DEF RegistryInv
<1>2. RegistryInv /\ [Next]_vars => RegistryInv'
  BY NextTypeOK, NextNumberInv, NextLiveInv DEF RegistryInv
<1> QED
  BY <1>1, <1>2, PTL DEF Spec

\* The types of the registry are kept (prompt-template.schema.ts).
THEOREM RegistryTypeCorrect == Spec => []TypeOK
<1>1. RegistryInv => TypeOK
  BY DEF RegistryInv
<1> QED
  BY <1>1, RegistryInvariant, PTL

\* However drafts race, no two documents of a key share a version and none is left out
\* (prompts.service.ts:24-42).
THEOREM VersionsAreContiguous == Spec => []VersionsContiguous
<1>1. RegistryInv => VersionsContiguous
  BY DEF RegistryInv, NumberInv
<1> QED
  BY <1>1, RegistryInvariant, PTL

\* A publish that is neither overlapped nor interrupted, of a version that is not live,
\* leaves exactly that version live, whatever was live before
\* (prompts.service.ts:44-55).
THEOREM SerialPublishesLeaveLast == Spec => []SerialPublishes
<1>1. RegistryInv => SerialPublishes
  BY DEF RegistryInv, LiveInv, SerialPublishes
<1> QED
  BY <1>1, RegistryInvariant, PTL

\* No released version is ever a draft again, in its own document or in another of the
\* same number (prompts.service.ts:33-54).
THEOREM ReleasedVersionsStay == Spec => ReleasedStays
<1> DEFINE Kept == \A i \in Existing : prompts[i].status # "draft" =>
        \A j \in Existing' :
            prompts'[j].version = prompts[i].version => prompts'[j].status # "draft"
<1>1. ASSUME RegistryInv, RegistryInv', [Next]_vars PROVE Kept
  <2>0. TypeOK /\ NumberInv /\ LiveInv
    BY <1>1 DEF RegistryInv
  \* A document is the only one of its number, before and after the step.
  <2>1. ASSUME \A i \in Existing : prompts[i].status # "draft" => prompts'[i].status # "draft"
        PROVE  Kept
    <3>1. \A i \in Existing : prompts[i].version = i
      BY <2>0 DEF NumberInv, VersionsContiguous
    <3>2. \A j \in Existing' : prompts'[j].version = j
      BY <1>1 DEF RegistryInv, NumberInv, VersionsContiguous
    <3> QED
      BY <2>1, <3>1, <3>2
  <2>2. ASSUME NEW a \in Admins, CreateDraft(a) PROVE Kept
    <3>1. target[a] \in Versions
      BY <2>0, <2>2 DEF CreateDraft, NumberInv, TypeOK, Versions
    <3> QED
      BY <2>0, <2>1, <2>2, <3>1, DraftStep
  <2>3. ASSUME NEW a \in Admins, RetireLive(a) PROVE Kept
    BY <2>0, <2>1, <2>3, RetireStep
  <2>4. ASSUME NEW a \in Admins, SaveTarget(a) PROVE Kept
    <3>1. target[a] \in Existing
      BY <2>0, <2>4 DEF SaveTarget, LiveInv, Publishing
    <3>2. \A i \in Existing : prompts[i].status # "draft" => prompts'[i].status # "draft"
      BY <2>0, <2>4, <3>1, SaveStep
    <3> QED
      BY <2>1, <3>2
  <2>5. ASSUME UNCHANGED prompts PROVE Kept
    BY <2>1, <2>5
  <2>6. ASSUME NEW a \in Admins,
               \/ ReadLatest(a) \/ Abort(a)
               \/ \E i \in Existing : LoadTarget(a, i)
        PROVE  Kept
    BY <2>5, <2>6 DEF ReadLatest, Abort, LoadTarget
  <2>7. ASSUME UNCHANGED vars PROVE Kept
    BY <2>5, <2>7 DEF vars
  <2> QED
    BY <1>1, <2>2, <2>3, <2>4, <2>6, <2>7 DEF Next
<1>2. RegistryInv /\ RegistryInv' /\ [Next]_vars => [Kept]_vars
  BY <1>1
<1> QED
  BY <1>2, RegistryInvariant, PTL DEF Spec, ReleasedStays

================================================================================
