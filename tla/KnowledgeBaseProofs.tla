--------------------------- MODULE KnowledgeBaseProofs --------------------------
(***************************************************************************)
(* Proofs about the knowledge base: KbInv is an inductive invariant of     *)
(* KnowledgeBase, for any number of documents, administrators and searches *)
(* and whatever pieces the chunker makes of a text; and the pieces that it *)
(* does make hold every passage of the text, whatever its paragraphs and   *)
(* its sentences.                                                          *)
(***************************************************************************)
EXTENDS KnowledgeBase, WellFoundedInduction, TLAPS

USE KbAssumption

-----------------------------------------------------------------------------
(* The initial states.                                                      *)

\* The empty knowledge base satisfies the invariant (kb-document.schema.ts:5-30).
LEMMA InitKbInv == Init => KbInv
<1> SUFFICES ASSUME Init PROVE KbInv
  OBVIOUS
<1>1. TypeOK
  BY DEF Init, TypeOK, Made
<1>2. TargetInv
  BY DEF Init, TargetInv, Made
<1>3. WholeInv
  BY DEF Init, WholeInv, At
<1>4. OnceEach
  BY DEF Init, OnceEach, ChunksOf
<1>5. AloneInv
  BY DEF Init, AloneInv, Publishing, At, ChunksOf
<1>6. NoDraftServed
  BY DEF Init, NoDraftServed
<1>7. SureInv
  BY DEF Init, SureInv
<1>8. NeverEmptyHanded
  BY DEF Init, NeverEmptyHanded
<1>9. VersionsDistinct
  BY DEF Init, VersionsDistinct, Made
<1>10. LastInv
  BY DEF Init, LastInv, Made
<1>11. NumberInv
  BY DEF Init, NumberInv
<1> QED
  BY <1>1, <1>2, <1>3, <1>4, <1>5, <1>6, <1>7, <1>8, <1>9, <1>10, <1>11 DEF KbInv

-----------------------------------------------------------------------------
(* The latest version.                                                      *)

\* createDocument() reads a version that is the highest (rag.service.ts:32-38).
LEMMA LatestIsHighest ==
    ASSUME TypeOK, LastInv
    PROVE  Latest \in Nat /\ \A d \in Made : version[d] <= Latest
<1>1. CASE Made = {}
  BY <1>1 DEF Latest, Highest
<1>2. CASE Made # {}
  <2>1. PICK d \in Made : \A e \in Made : version[e] <= version[d]
    BY <1>2 DEF LastInv
  <2> DEFINE h == CHOOSE x \in Made : \A e \in Made : version[e] <= version[x]
  <2>2. h \in Made /\ \A e \in Made : version[e] <= version[h]
    BY <2>1
  <2>3. Latest = version[h]
    BY <1>2 DEF Latest, Highest
  <2> HIDE DEF h
  <2> QED
    BY <2>2, <2>3 DEF TypeOK, Made
<1> QED
  BY <1>1, <1>2

-----------------------------------------------------------------------------
(* The steps.                                                               *)

\* createDocument() reads the latest version (rag.service.ts:32-35).
LEMMA ReadLatestStep ==
    ASSUME NEW a \in Admins, KbInv, ReadLatest(a)
    PROVE  KbInv'
<1> USE DEF ReadLatest, store, search
<1>1. TypeOK'
  <2>1. Latest \in Nat
    BY LatestIsHighest DEF KbInv
  <2> QED
    BY <2>1 DEF KbInv, TypeOK, Made
<1>2. TargetInv'
  BY DEF KbInv, TargetInv, TypeOK, Made
<1>3. WholeInv'
  BY DEF KbInv, WholeInv, TargetInv, TypeOK, Whole, At, Made
<1>4. OnceEach'
  BY DEF KbInv, OnceEach, AloneInv, TypeOK, ChunksOf, At
<1>5. AloneInv'
  BY DEF KbInv, AloneInv, TypeOK, TargetInv, Publishing, At, ChunksOf, Made
<1>6. NoDraftServed'
  BY DEF KbInv, NoDraftServed, TargetInv, TypeOK, At, Made
<1>7. SureInv'
  BY DEF KbInv, SureInv, TypeOK, TargetInv, Whole, Made
<1>8. NeverEmptyHanded'
  BY DEF KbInv, NeverEmptyHanded, SureInv, TypeOK
<1>9. VersionsDistinct'
  BY DEF KbInv, VersionsDistinct, NumberInv, TypeOK, Made
<1>10. LastInv'
  BY DEF KbInv, LastInv, TypeOK, Made
<1>11. NumberInv'
  BY LatestIsHighest DEF KbInv, NumberInv, TypeOK, Made
<1> QED
  BY <1>1, <1>2, <1>3, <1>4, <1>5, <1>6, <1>7, <1>8, <1>9, <1>10, <1>11 DEF KbInv

\* createDocument() adds a draft (rag.service.ts:36-40).
LEMMA CreateStep ==
    ASSUME NEW a \in Admins, KbInv, Create(a)
    PROVE  KbInv'
<1> USE DEF Create, search, history
<1>1. TypeOK'
  BY DEF KbInv, TypeOK, Made
<1>2. TargetInv'
  BY DEF KbInv, TargetInv, TypeOK, Made
<1>3. WholeInv'
  <2> SUFFICES ASSUME NEW d \in Docs, (status'[d] = "published" \/ At(d, "save")'),
                        ~ At(d, "insert")', d \notin broken'
               PROVE  Whole(d)'
    BY DEF WholeInv
  <2>1. At(d, "save")' => At(d, "save")
    BY DEF KbInv, TypeOK, At
  <2>2. At(d, "insert") => At(d, "insert")'
    BY DEF KbInv, TypeOK, At
  <2>3. At(d, "save") => d \in Made
    BY DEF KbInv, TargetInv, At
  <2>4. status'[d] = "published" \/ At(d, "save") => status[d] = "published" \/ At(d, "save")
    BY DEF KbInv, TypeOK
  <2>5. d \in Made
    BY <2>1, <2>3, <2>4 DEF Made
  <2>6. pieces'[d] = pieces[d] /\ chunks' = chunks
    BY <2>5 DEF Made
  <2>7. Whole(d)
    BY <2>1, <2>2, <2>4 DEF KbInv, WholeInv
  <2> QED
    BY <2>6, <2>7 DEF Whole
<1>4. OnceEach'
  BY DEF KbInv, OnceEach, AloneInv, TypeOK, ChunksOf, At
<1>5. AloneInv'
  BY DEF KbInv, AloneInv, TypeOK, TargetInv, Publishing, At, ChunksOf, Made
<1>6. NoDraftServed'
  BY DEF KbInv, NoDraftServed, TargetInv, TypeOK, At, Made
<1>7. SureInv'
  BY DEF KbInv, SureInv, TypeOK, TargetInv, Whole, Made
<1>8. NeverEmptyHanded'
  BY DEF KbInv, NeverEmptyHanded, SureInv, TypeOK
<1>9. VersionsDistinct'
  BY DEF KbInv, VersionsDistinct, NumberInv, TypeOK, Made
<1>10. LastInv'
  BY DEF KbInv, LastInv, TypeOK, Made
<1>11. NumberInv'
  BY DEF KbInv, NumberInv, VersionsDistinct, TypeOK, Made
<1> QED
  BY <1>1, <1>2, <1>3, <1>4, <1>5, <1>6, <1>7, <1>8, <1>9, <1>10, <1>11 DEF KbInv

\* publishDocument() loads and cuts the document (rag.service.ts:56-60).
LEMMA LoadStep ==
    ASSUME NEW a \in Admins, KbInv, Load(a)
    PROVE  KbInv'
<1> USE DEF Load, store, search
<1>1. TypeOK'
  BY DEF KbInv, TypeOK, Made
<1>2. TargetInv'
  BY DEF KbInv, TargetInv, TypeOK, Made
<1>3. WholeInv'
  <2>1. \A d \in Docs : At(d, "save")' = At(d, "save") /\ At(d, "insert")' = At(d, "insert")
    <3> TAKE d \in Docs
    <3>1. At(d, "save")' = At(d, "save")
      BY DEF KbInv, TypeOK, At
    <3>2. At(d, "insert")' = At(d, "insert")
      BY DEF KbInv, TypeOK, At
    <3> QED
      BY <3>1, <3>2
  <2>2. \A d \in Docs : Whole(d)' = Whole(d)
    BY DEF Whole
  <2> QED
    BY <2>1, <2>2 DEF KbInv, WholeInv
<1>4. OnceEach'
  BY DEF KbInv, OnceEach, AloneInv, TypeOK, ChunksOf, At
<1>5. AloneInv'
  BY DEF KbInv, AloneInv, TypeOK, TargetInv, Publishing, At, ChunksOf, Made
<1>6. NoDraftServed'
  BY DEF KbInv, NoDraftServed, TargetInv, TypeOK, At, Made
<1>7. SureInv'
  BY DEF KbInv, SureInv, TypeOK, TargetInv, Whole, Made
<1>8. NeverEmptyHanded'
  BY DEF KbInv, NeverEmptyHanded, SureInv, TypeOK
<1>9. VersionsDistinct'
  BY DEF KbInv, VersionsDistinct, NumberInv, TypeOK, Made
<1>10. LastInv'
  BY DEF KbInv, LastInv, TypeOK, Made
<1>11. NumberInv'
  BY DEF KbInv, NumberInv, VersionsDistinct, TypeOK, Made
<1> QED
  BY <1>1, <1>2, <1>3, <1>4, <1>5, <1>6, <1>7, <1>8, <1>9, <1>10, <1>11 DEF KbInv

\* publishDocument() deletes the old chunks (rag.service.ts:68).
LEMMA DeleteStep ==
    ASSUME NEW a \in Admins, KbInv, Delete(a)
    PROVE  KbInv'
<1> USE DEF Delete, history, Dropped, ChunksOf
<1>1. TypeOK'
  BY DEF KbInv, TypeOK, Made
<1>2. TargetInv'
  BY DEF KbInv, TargetInv, TypeOK, Made
<1>3. WholeInv'
  BY DEF KbInv, WholeInv, TargetInv, TypeOK, Whole, At, Made
<1>4. OnceEach'
  BY DEF KbInv, OnceEach, AloneInv, TypeOK, ChunksOf, At
<1>5. AloneInv'
  BY DEF KbInv, AloneInv, TypeOK, TargetInv, Publishing, At, ChunksOf, Made
<1>6. NoDraftServed'
  BY DEF KbInv, NoDraftServed, TargetInv, TypeOK, At, Made
<1>7. SureInv'
  BY DEF KbInv, SureInv, TypeOK, TargetInv, Whole, Made
<1>8. NeverEmptyHanded'
  BY DEF KbInv, NeverEmptyHanded, SureInv, TypeOK
<1>9. VersionsDistinct'
  BY DEF KbInv, VersionsDistinct, NumberInv, TypeOK, Made
<1>10. LastInv'
  BY DEF KbInv, LastInv, TypeOK, Made
<1>11. NumberInv'
  BY DEF KbInv, NumberInv, VersionsDistinct, TypeOK, Made
<1> QED
  BY <1>1, <1>2, <1>3, <1>4, <1>5, <1>6, <1>7, <1>8, <1>9, <1>10, <1>11 DEF KbInv

\* publishDocument() inserts the new chunks (rag.service.ts:69-77).
LEMMA InsertStep ==
    ASSUME NEW a \in Admins, KbInv, Insert(a)
    PROVE  KbInv'
<1> USE DEF Insert, search, Copies
<1>1. TypeOK'
  <2>1. target[a] \in Made
    BY DEF KbInv, TargetInv
  <2>2. \A c \in chunks' : c[1] \in Made /\ c[2] \in pieces[c[1]] /\ c[3] \in Admins
    BY <2>1 DEF KbInv, TypeOK
  <2>3. Made' = Made /\ pieces' = pieces
    BY DEF Made
  <2>4. pc' \in [Admins -> {"idle", "create", "embed", "insert", "save"}]
    BY DEF KbInv, TypeOK
  <2> QED
    BY <2>2, <2>3, <2>4 DEF KbInv, TypeOK
<1>2. TargetInv'
  BY DEF KbInv, TargetInv, TypeOK, Made
<1>3. WholeInv'
  <2> DEFINE t == target[a]
  <2>1. \A p \in pieces[t] : <<t, p, a>> \in chunks'
    OBVIOUS
  <2>2. Whole(t)'
    BY <2>1 DEF Whole
  <2>3. \A d \in Docs \ {t} : Whole(d) => Whole(d)'
    BY DEF Whole
  <2>4. \A d \in Docs \ {t} : At(d, "save")' => At(d, "save")
    BY DEF KbInv, TypeOK, At
  <2>5. \A d \in Docs \ {t} : At(d, "insert") => At(d, "insert")'
    BY DEF KbInv, TypeOK, At
  <2> QED
    BY <2>2, <2>3, <2>4, <2>5 DEF KbInv, WholeInv
<1>4. OnceEach'
  BY DEF KbInv, OnceEach, AloneInv, TypeOK, ChunksOf, At
<1>5. AloneInv'
  BY DEF KbInv, AloneInv, TypeOK, TargetInv, Publishing, At, ChunksOf, Made
<1>6. NoDraftServed'
  BY DEF KbInv, NoDraftServed, TargetInv, TypeOK, At, Made
<1>7. SureInv'
  BY DEF KbInv, SureInv, TypeOK, TargetInv, Whole, Made
<1>8. NeverEmptyHanded'
  BY DEF KbInv, NeverEmptyHanded, SureInv, TypeOK
<1>9. VersionsDistinct'
  BY DEF KbInv, VersionsDistinct, NumberInv, TypeOK, Made
<1>10. LastInv'
  BY DEF KbInv, LastInv, TypeOK, Made
<1>11. NumberInv'
  BY DEF KbInv, NumberInv, VersionsDistinct, TypeOK, Made
<1> QED
  BY <1>1, <1>2, <1>3, <1>4, <1>5, <1>6, <1>7, <1>8, <1>9, <1>10, <1>11 DEF KbInv

\* publishDocument() marks the document (rag.service.ts:79-81).
LEMMA SaveStep ==
    ASSUME NEW a \in Admins, KbInv, Save(a)
    PROVE  KbInv'
<1> USE DEF Save, search, history, Marked
<1>1. TypeOK'
  BY DEF KbInv, TypeOK, Made
<1>2. TargetInv'
  BY DEF KbInv, TargetInv, TypeOK, Made
<1>3. WholeInv'
  BY DEF KbInv, WholeInv, TargetInv, TypeOK, Whole, At, Made
<1>4. OnceEach'
  BY DEF KbInv, OnceEach, AloneInv, TypeOK, ChunksOf, At
<1>5. AloneInv'
  BY DEF KbInv, AloneInv, TypeOK, TargetInv, Publishing, At, ChunksOf, Made
<1>6. NoDraftServed'
  BY DEF KbInv, NoDraftServed, TargetInv, TypeOK, At, Made
<1>7. SureInv'
  BY DEF KbInv, SureInv, TypeOK, TargetInv, Whole, Made
<1>8. NeverEmptyHanded'
  BY DEF KbInv, NeverEmptyHanded, SureInv, TypeOK
<1>9. VersionsDistinct'
  <2>1. Made' = Made
    BY DEF KbInv, TargetInv, TypeOK, Made
  <2> QED
    BY <2>1 DEF KbInv, VersionsDistinct
<1>10. LastInv'
  BY DEF KbInv, LastInv, TypeOK, Made
<1>11. NumberInv'
  <2>1. Made' = Made
    BY DEF KbInv, TargetInv, TypeOK, Made
  <2> QED
    BY <2>1 DEF KbInv, NumberInv, TypeOK
<1> QED
  BY <1>1, <1>2, <1>3, <1>4, <1>5, <1>6, <1>7, <1>8, <1>9, <1>10, <1>11 DEF KbInv

\* A handler is cut short at an await (rag.service.ts:55-83).
LEMMA CutShortStep ==
    ASSUME NEW a \in Admins, KbInv, CutShort(a)
    PROVE  KbInv'
<1> USE DEF CutShort, search, Copies, Marked
<1>1. TypeOK'
  <2>1. Made' = Made
    BY DEF KbInv, TargetInv, TypeOK, Made
  <2>2. \A c \in chunks' : c[1] \in Made /\ c[2] \in pieces[c[1]] /\ c[3] \in Admins
    <3>1. CASE pc[a] = "insert"
      <4>1. target[a] \in Made
        BY <3>1 DEF KbInv, TargetInv
      <4> QED
        BY <3>1, <4>1 DEF KbInv, TypeOK
    <3>2. CASE pc[a] # "insert"
      BY <3>2 DEF KbInv, TypeOK
    <3> QED
      BY <3>1, <3>2
  <2>3. status' \in [Docs -> {"none", "draft", "published"}]
    BY DEF KbInv, TypeOK
  <2>4. ever' \in BOOLEAN
    BY ZenonT(30) DEF KbInv, TypeOK
  <2>5. broken' \subseteq Docs /\ unsaved' \subseteq Docs /\ together' \subseteq Docs
    BY DEF KbInv, TypeOK, TargetInv, Made
  <2> QED
    BY <2>1, <2>2, <2>3, <2>4, <2>5 DEF KbInv, TypeOK
<1>2. TargetInv'
  BY DEF KbInv, TargetInv, TypeOK, Made
<1>3. WholeInv'
  BY ZenonT(30) DEF KbInv, WholeInv, TargetInv, TypeOK, Whole, At, Made
<1>4. OnceEach'
  BY SMTT(30) DEF KbInv, OnceEach, AloneInv, TypeOK, ChunksOf, At
<1>5. AloneInv'
  BY SMTT(30) DEF KbInv, AloneInv, TypeOK, TargetInv, Publishing, At, ChunksOf, Made
<1>6. NoDraftServed'
  BY DEF KbInv, NoDraftServed, TargetInv, TypeOK, At, Made
<1>7. SureInv'
  BY DEF KbInv, SureInv, TypeOK, TargetInv, Whole, Made
<1>8. NeverEmptyHanded'
  BY DEF KbInv, NeverEmptyHanded, SureInv, TypeOK
<1>9. VersionsDistinct'
  <2>1. Made' = Made
    BY DEF KbInv, TargetInv, TypeOK, Made
  <2> QED
    BY <2>1 DEF KbInv, VersionsDistinct
<1>10. LastInv'
  BY DEF KbInv, LastInv, TypeOK, Made
<1>11. NumberInv'
  <2>1. Made' = Made
    BY DEF KbInv, TargetInv, TypeOK, Made
  <2> QED
    BY <2>1 DEF KbInv, NumberInv, TypeOK
<1> QED
  BY <1>1, <1>2, <1>3, <1>4, <1>5, <1>6, <1>7, <1>8, <1>9, <1>10, <1>11 DEF KbInv

\* A search begins (rag.service.ts:86-92).
LEMMA AskStep ==
    ASSUME NEW r \in Readers, KbInv, Ask(r)
    PROVE  KbInv'
<1> USE DEF Ask, store, handler, history
<1>1. TypeOK'
  <2>1. empty' \in [Readers -> BOOLEAN]
    BY DEF KbInv, TypeOK
  <2>2. sure' \in [Readers -> SUBSET Docs]
    BY DEF KbInv, TypeOK, Visible
  <2> QED
    BY <2>1, <2>2 DEF KbInv, TypeOK, Made
<1>2. TargetInv'
  BY DEF KbInv, TargetInv, TypeOK, Made
<1>3. WholeInv'
  BY DEF KbInv, WholeInv, TargetInv, TypeOK, Whole, At, Made
<1>4. OnceEach'
  BY DEF KbInv, OnceEach, AloneInv, TypeOK, ChunksOf, At
<1>5. AloneInv'
  BY DEF KbInv, AloneInv, TypeOK, TargetInv, Publishing, At, ChunksOf, Made
<1>6. NoDraftServed'
  BY DEF KbInv, NoDraftServed, TargetInv, TypeOK, At, Made
<1>7. SureInv'
  <2>1. \A d \in Visible : d \in Made /\ Whole(d) /\ pieces[d] # {}
    BY DEF KbInv, WholeInv, TargetInv, Visible, Made
  <2>2. \A x \in Readers : sure'[x] = Visible \/ sure'[x] = sure[x]
    BY DEF KbInv, TypeOK
  <2>3. \A x \in Readers : \A d \in sure'[x] : d \in Made /\ Whole(d) /\ pieces[d] # {}
    BY <2>1, <2>2 DEF KbInv, SureInv
  <2> QED
    BY <2>3 DEF SureInv, Whole, Made
<1>8. NeverEmptyHanded'
  BY DEF KbInv, NeverEmptyHanded, SureInv, TypeOK
<1>9. VersionsDistinct'
  BY DEF KbInv, VersionsDistinct, NumberInv, TypeOK, Made
<1>10. LastInv'
  BY DEF KbInv, LastInv, TypeOK, Made
<1>11. NumberInv'
  BY DEF KbInv, NumberInv, VersionsDistinct, TypeOK, Made
<1> QED
  BY <1>1, <1>2, <1>3, <1>4, <1>5, <1>6, <1>7, <1>8, <1>9, <1>10, <1>11 DEF KbInv

\* The index answers (vector-search.service.ts:36-73).
LEMMA VectorSearchStep ==
    ASSUME NEW r \in Readers, KbInv, VectorSearch(r)
    PROVE  KbInv'
<1> USE DEF VectorSearch, Answered, store, handler, history
<1>1. TypeOK'
  BY DEF KbInv, TypeOK, Made
<1>2. TargetInv'
  BY DEF KbInv, TargetInv, TypeOK, Made
<1>3. WholeInv'
  BY DEF KbInv, WholeInv, TargetInv, TypeOK, Whole, At, Made
<1>4. OnceEach'
  BY DEF KbInv, OnceEach, AloneInv, TypeOK, ChunksOf, At
<1>5. AloneInv'
  BY DEF KbInv, AloneInv, TypeOK, TargetInv, Publishing, At, ChunksOf, Made
<1>6. NoDraftServed'
  BY DEF KbInv, NoDraftServed, TargetInv, TypeOK, At, Made
<1>7. SureInv'
  BY DEF KbInv, SureInv, TypeOK, TargetInv, Whole, Made
<1>8. NeverEmptyHanded'
  BY DEF KbInv, NeverEmptyHanded, SureInv, TypeOK
<1>9. VersionsDistinct'
  BY DEF KbInv, VersionsDistinct, NumberInv, TypeOK, Made
<1>10. LastInv'
  BY DEF KbInv, LastInv, TypeOK, Made
<1>11. NumberInv'
  BY DEF KbInv, NumberInv, VersionsDistinct, TypeOK, Made
<1> QED
  BY <1>1, <1>2, <1>3, <1>4, <1>5, <1>6, <1>7, <1>8, <1>9, <1>10, <1>11 DEF KbInv

\* The scan answers (vector-search.service.ts:76-92).
LEMMA FallbackCosineStep ==
    ASSUME NEW r \in Readers, KbInv, FallbackCosine(r)
    PROVE  KbInv'
<1> USE DEF FallbackCosine, Answered, Scanned, store, handler, history
<1>1. TypeOK'
  BY DEF KbInv, TypeOK, Made
<1>2. TargetInv'
  BY DEF KbInv, TargetInv, TypeOK, Made
<1>3. WholeInv'
  BY DEF KbInv, WholeInv, TargetInv, TypeOK, Whole, At, Made
<1>4. OnceEach'
  BY DEF KbInv, OnceEach, AloneInv, TypeOK, ChunksOf, At
<1>5. AloneInv'
  BY DEF KbInv, AloneInv, TypeOK, TargetInv, Publishing, At, ChunksOf, Made
<1>6. NoDraftServed'
  BY DEF KbInv, NoDraftServed, TargetInv, TypeOK, At, Made
<1>7. SureInv'
  BY ZenonT(30) DEF KbInv, SureInv, TypeOK, TargetInv, Whole, Made
<1>8. NeverEmptyHanded'
  <2> SUFFICES ASSUME NEW x \in Readers, empty'[x] PROVE sure'[x] = {}
    BY DEF NeverEmptyHanded
  <2>1. CASE chunks # {}
    BY <2>1 DEF KbInv, NeverEmptyHanded, TypeOK
  <2>2. CASE chunks = {}
    <3>1. sure[x] = {}
      <4> SUFFICES ASSUME NEW d \in sure[x] PROVE FALSE
        OBVIOUS
      <4>1. Whole(d) /\ pieces[d] # {}
        BY DEF KbInv, SureInv
      <4> QED
        BY <2>2, <4>1 DEF Whole
    <3> QED
      BY <2>2, <3>1
  <2> QED
    BY <2>1, <2>2
<1>9. VersionsDistinct'
  BY DEF KbInv, VersionsDistinct, NumberInv, TypeOK, Made
<1>10. LastInv'
  BY DEF KbInv, LastInv, TypeOK, Made
<1>11. NumberInv'
  BY DEF KbInv, NumberInv, VersionsDistinct, TypeOK, Made
<1> QED
  BY <1>1, <1>2, <1>3, <1>4, <1>5, <1>6, <1>7, <1>8, <1>9, <1>10, <1>11 DEF KbInv

\* A search fails (rag.service.ts:86-92).
LEMMA SearchFailsStep ==
    ASSUME NEW r \in Readers, KbInv, SearchFails(r)
    PROVE  KbInv'
<1> USE DEF SearchFails, Answered, store, handler, history
<1>1. TypeOK'
  BY DEF KbInv, TypeOK, Made
<1>2. TargetInv'
  BY DEF KbInv, TargetInv, TypeOK, Made
<1>3. WholeInv'
  BY DEF KbInv, WholeInv, TargetInv, TypeOK, Whole, At, Made
<1>4. OnceEach'
  BY DEF KbInv, OnceEach, AloneInv, TypeOK, ChunksOf, At
<1>5. AloneInv'
  BY DEF KbInv, AloneInv, TypeOK, TargetInv, Publishing, At, ChunksOf, Made
<1>6. NoDraftServed'
  BY DEF KbInv, NoDraftServed, TargetInv, TypeOK, At, Made
<1>7. SureInv'
  BY DEF KbInv, SureInv, TypeOK, TargetInv, Whole, Made
<1>8. NeverEmptyHanded'
  BY DEF KbInv, NeverEmptyHanded, SureInv, TypeOK
<1>9. VersionsDistinct'
  BY DEF KbInv, VersionsDistinct, NumberInv, TypeOK, Made
<1>10. LastInv'
  BY DEF KbInv, LastInv, TypeOK, Made
<1>11. NumberInv'
  BY DEF KbInv, NumberInv, VersionsDistinct, TypeOK, Made
<1> QED
  BY <1>1, <1>2, <1>3, <1>4, <1>5, <1>6, <1>7, <1>8, <1>9, <1>10, <1>11 DEF KbInv

-----------------------------------------------------------------------------
(* The chunker.  The loops of chunk() are functions on 0..n, each value     *)
(* given by the one before: such a function exists, and what its first      *)
(* value satisfies and each step keeps, all of them satisfy.                *)

\* A set of numbers has a least one.
LEMMA LeastElement ==
    ASSUME NEW T \in SUBSET Nat, T # {}
    PROVE  \E x \in T : \A y \in T : x <= y
<1> DEFINE R == OpToRel(<, Nat)
<1>1. IsWellFoundedOn(R, Nat)
  BY NatLessThanWellFounded
<1>2. \A x, y \in Nat : <<x, y>> \in R <=> x < y
  BY DEF OpToRel
<1> HIDE DEF R
<1>3. PICK x \in T : \A y \in T : ~ (<<y, x>> \in R)
  BY <1>1, WFMin
<1>4. \A y \in T : ~ (y < x)
  BY <1>2, <1>3
<1>5. \A y \in T : x <= y
  BY <1>4
<1> QED
  BY <1>5

\* What holds of 0, and of every number whose predecessor it holds of, holds up to n.
LEMMA Reaches ==
    ASSUME NEW n \in Nat, NEW T, 0 \in T,
           \A k \in 1..n : k - 1 \in T => k \in T
    PROVE  \A k \in 0..n : k \in T
<1> DEFINE missing == {k \in 0..n : k \notin T}
<1>1. SUFFICES ASSUME missing # {} PROVE FALSE
  OBVIOUS
<1>2. PICK m \in missing : \A y \in missing : m <= y
  <2>1. missing \in SUBSET Nat
    OBVIOUS
  <2> HIDE DEF missing
  <2> QED
    BY <1>1, <2>1, LeastElement
<1>3. m # 0 /\ m \in 0..n /\ m \notin T
  BY <1>2
<1>4. m - 1 \in 0..n /\ m - 1 \notin missing
  BY <1>2, <1>3
<1> QED
  BY <1>3, <1>4

\* g is the function of that recursion on 0..n.
PassesOf(g, s, ends, n) ==
    g = [k \in 0..n |-> IF k = 0 THEN s ELSE Cut(g[k - 1], ends)]

\* The hard split is defined.
LEMMA PassesExist ==
    ASSUME NEW s, NEW ends, NEW n \in Nat
    PROVE  \E g : PassesOf(g, s, ends, n)
<1> DEFINE T == {m \in Nat : \E g : PassesOf(g, s, ends, m)}
<1>1. 0 \in T
  <2> DEFINE g == [k \in 0..0 |-> s]
  <2>1. g = [k \in 0..0 |-> IF k = 0 THEN s ELSE Cut(g[k - 1], ends)]
    OBVIOUS
  <2> HIDE DEF g
  <2> QED
    BY <2>1 DEF PassesOf
<1>2. \A m \in 1..n : m - 1 \in T => m \in T
  <2> SUFFICES ASSUME NEW m \in 1..n, m - 1 \in T PROVE m \in T
    OBVIOUS
  <2>1. PICK g : PassesOf(g, s, ends, m - 1)
    OBVIOUS
  <2> DEFINE h == [k \in 0..m |-> IF k = m THEN Cut(g[m - 1], ends) ELSE g[k]]
  <2>2. \A k \in 0..m : h[k] = IF k = 0 THEN s ELSE Cut(h[k - 1], ends)
    <3> SUFFICES ASSUME NEW k \in 0..m
                 PROVE  h[k] = IF k = 0 THEN s ELSE Cut(h[k - 1], ends)
      OBVIOUS
    <3>1. CASE k = m
      BY <3>1
    <3>2. CASE k # m
      <4>1. k \in 0..(m - 1) /\ h[k] = g[k] /\ (k # 0 => h[k - 1] = g[k - 1])
        BY <3>2
      <4> HIDE DEF h
      <4> QED
        BY <2>1, <4>1 DEF PassesOf
    <3> QED
      BY <3>1, <3>2
  <2>3. h = [k \in 0..m |-> IF k = 0 THEN s ELSE Cut(h[k - 1], ends)]
    BY <2>2
  <2> HIDE DEF h
  <2> QED
    BY <2>3 DEF PassesOf
<1> HIDE DEF T
<1>3. \A k \in 0..n : k \in T
  BY <1>1, <1>2, Reaches
<1> QED
  BY <1>3 DEF T

\* Passes is that function (chunker.service.ts:42-47).
LEMMA PassesRecur ==
    ASSUME NEW s, NEW ends, Size(s.buffer) \in Nat
    PROVE  PassesOf(Passes(s, ends), s, ends, Size(s.buffer))
<1>1. \E g : PassesOf(g, s, ends, Size(s.buffer))
  BY PassesExist
<1> QED
  BY <1>1 DEF Passes, PassesOf

\* g is the function of the loop over the first n paragraphs.
Start == [out |-> {}, buffer |-> <<0, 0>>]
FilledOf(g, body0, n) ==
    g = [i \in 0..n |-> IF i = 0 THEN Start
                        ELSE AddParagraph(g[i - 1], body0.paras[i], body0.ends)]

\* The loop over the paragraphs is defined.
LEMMA FilledExists ==
    ASSUME NEW b, NEW n \in Nat
    PROVE  \E g : FilledOf(g, b, n)
<1> DEFINE Added(s, i) == AddParagraph(s, b.paras[i], b.ends)
           T == {m \in Nat : \E g : FilledOf(g, b, m)}
<1>1. 0 \in T
  <2> DEFINE g == [i \in 0..0 |-> Start]
  <2>1. g = [i \in 0..0 |-> IF i = 0 THEN Start ELSE Added(g[i - 1], i)]
    OBVIOUS
  <2> HIDE DEF g
  <2> QED
    BY <2>1 DEF FilledOf
<1>2. \A m \in 1..n : m - 1 \in T => m \in T
  <2> SUFFICES ASSUME NEW m \in 1..n, m - 1 \in T PROVE m \in T
    OBVIOUS
  <2>1. PICK g : FilledOf(g, b, m - 1)
    OBVIOUS
  <2> DEFINE h == [i \in 0..m |-> IF i = m THEN Added(g[m - 1], m) ELSE g[i]]
  <2>2. \A i \in 0..m : h[i] = IF i = 0 THEN Start ELSE Added(h[i - 1], i)
    <3> SUFFICES ASSUME NEW i \in 0..m
                 PROVE  h[i] = IF i = 0 THEN Start ELSE Added(h[i - 1], i)
      OBVIOUS
    <3>1. CASE i = m
      BY <3>1
    <3>2. CASE i # m
      <4>1. i \in 0..(m - 1) /\ h[i] = g[i] /\ (i # 0 => h[i - 1] = g[i - 1])
        BY <3>2
      <4> HIDE DEF h
      <4> QED
        BY <2>1, <4>1 DEF FilledOf
    <3> QED
      BY <3>1, <3>2
  <2>3. h = [i \in 0..m |-> IF i = 0 THEN Start ELSE Added(h[i - 1], i)]
    BY <2>2
  <2> HIDE DEF h
  <2> QED
    BY <2>3 DEF FilledOf
<1> HIDE DEF T
<1>3. \A k \in 0..n : k \in T
  BY <1>1, <1>2, Reaches
<1> QED
  BY <1>3 DEF T

\* Filled is that function (chunker.service.ts:36-48).
LEMMA FilledRecurs ==
    ASSUME NEW b, Len(b.paras) \in Nat
    PROVE  FilledOf(Filled(b), b, Len(b.paras))
<1>1. \E g : FilledOf(g, b, Len(b.paras))
  BY FilledExists
<1> QED
  BY <1>1 DEF Filled, FilledOf, Start

\* A bounded set of numbers has a greatest one.
LEMMA GreatestElement ==
    ASSUME NEW S \in SUBSET Nat, S # {}, NEW top \in Nat, \A x \in S : x <= top
    PROVE  Max(S) \in S /\ \A y \in S : Max(S) >= y
<1> DEFINE T == {top - x : x \in S}
<1>1. T \in SUBSET Nat /\ T # {}
  <2>1. \A x \in S : x \in Nat /\ x <= top /\ top - x \in T
    OBVIOUS
  <2>2. \A x \in S : top - x \in Nat
    BY <2>1
  <2>3. T \in SUBSET Nat
    BY <2>2
  <2> HIDE DEF T
  <2> QED
    BY <2>1, <2>3
<1>2. PICK d \in T : \A e \in T : d <= e
  <2> HIDE DEF T
  <2> QED
    BY <1>1, LeastElement
<1>3. PICK m \in S : d = top - m
  BY <1>2
<1>4. \A y \in S : m >= y
  <2> SUFFICES ASSUME NEW y \in S PROVE m >= y
    OBVIOUS
  <2>1. top - y \in T
    OBVIOUS
  <2>2. top - m <= top - y
    BY <1>2, <1>3, <2>1
  <2> QED
    BY <2>2
<1> QED
  BY <1>4 DEF Max

\* A buffer is cut in its second half, at most one past the target (chunker.service.ts:43-44).
LEMMA CutBounds ==
    ASSUME NEW first \in Nat, NEW ends \in SUBSET Nat
    PROVE  /\ CutAt(first, ends) \in Nat
           /\ 2 * CutAt(first, ends) > Target
           /\ CutAt(first, ends) <= Target + 1
<1> DEFINE near == {e \in ends : e - first <= Target /\ 2 * (e - first) > Target}
<1>1. CASE near = {}
  BY <1>1, ChunkerAssumption DEF CutAt
<1>2. CASE near # {}
  <2>1. near \in SUBSET Nat
    OBVIOUS
  <2>2. \A e \in near : e <= first + Target
    BY ChunkerAssumption
  <2>5. first + Target \in Nat
    BY ChunkerAssumption
  <2>6. Max(near) \in near
    <3> HIDE DEF near
    <3> QED
      BY <1>2, <2>1, <2>2, <2>5, GreatestElement
  <2>3. CutAt(first, ends) = Max(near) - first + 1
    BY <1>2 DEF CutAt
  <2> HIDE DEF near
  <2>4. Max(near) \in Nat /\ Max(near) - first <= Target /\ 2 * (Max(near) - first) > Target
    BY <2>6 DEF near
  <2> QED
    BY <2>3, <2>4, ChunkerAssumption
<1> QED
  BY <1>1, <1>2

\* The pieces are of bounded length, and the buffer is an interval.
Sound(s) ==
    /\ \A p \in s.out : 2 * Size(p) <= 3 * Target
    /\ s.buffer \in Nat \X Nat
    /\ s.buffer[1] <= s.buffer[2]
Within(x, piece) == piece[1] <= x /\ x < piece[2]
Covers(s, x) == Within(x, s.buffer) \/ \E p \in s.out : Within(x, p)

\* t is s after some passes of the hard split: the same end, and nothing lost.
Kept(s, t) ==
    /\ Sound(t)
    /\ t.buffer[2] = s.buffer[2]
    /\ \A x \in Nat : Covers(s, x) => Covers(t, x)

\* A pass of the hard split loses nothing and shortens the buffer (chunker.service.ts:42-47).
LEMMA CutKeeps ==
    ASSUME NEW s, Sound(s), NEW ends \in SUBSET Nat
    PROVE  /\ Kept(s, Cut(s, ends))
           /\ TooLong(s.buffer) => Size(Cut(s, ends).buffer) < Size(s.buffer)
           /\ ~ TooLong(s.buffer) => Cut(s, ends) = s
<1>1. CASE ~ TooLong(s.buffer)
  <2>1. Cut(s, ends) = s
    BY <1>1 DEF Cut
  <2> QED
    BY <1>1, <2>1 DEF Kept
<1>2. CASE TooLong(s.buffer)
  <2> DEFINE c == CutAt(s.buffer[1], ends)
             t == Cut(s, ends)
  <2>1. c \in Nat /\ 2 * c > Target /\ c <= Target + 1
    BY CutBounds DEF Sound
  <2>2. /\ t.out = s.out \cup {<<s.buffer[1], s.buffer[1] + c>>}
        /\ t.buffer = <<(s.buffer[1] + c) - Overlap, s.buffer[2]>>
    <3> DEFINE at == s.buffer[1] + c
               after == [out |-> s.out \cup {<<s.buffer[1], at>>},
                         buffer |-> <<Resume(at), s.buffer[2]>>]
    <3>1. t = after
      BY <1>2 DEF Cut
    <3>2. after.out = s.out \cup {<<s.buffer[1], at>>} /\ after.buffer = <<Resume(at), s.buffer[2]>>
      OBVIOUS
    <3>3. Resume(at) = (s.buffer[1] + c) - Overlap
      BY DEF Resume
    <3> HIDE DEF after, t
    <3> QED
      BY <3>1, <3>2, <3>3
  <2> HIDE DEF c, t
  <2>3. s.buffer[1] \in Nat /\ s.buffer[2] \in Nat /\ 2 * (s.buffer[2] - s.buffer[1]) > 3 * Target
    BY <1>2 DEF Sound, TooLong, Size
  <2>4. Sound(t)
    BY <2>1, <2>2, <2>3, ChunkerAssumption DEF Sound, Size
  <2>5. ASSUME NEW x \in Nat, Covers(s, x)
        PROVE  Covers(t, x)
    <3>1. CASE Within(x, s.buffer)
      <4>1. \/ Within(x, <<s.buffer[1], s.buffer[1] + c>>)
            \/ Within(x, t.buffer)
        BY <2>1, <2>2, <2>3, <3>1, ChunkerAssumption DEF Within
      <4> QED
        BY <2>2, <4>1 DEF Covers
    <3>2. CASE \E p \in s.out : Within(x, p)
      BY <2>2, <3>2 DEF Covers
    <3> QED
      BY <2>5, <3>1, <3>2 DEF Covers
  <2>6. Size(t.buffer) < Size(s.buffer)
    BY <2>1, <2>2, <2>3, ChunkerAssumption DEF Size
  <2>7. t.buffer[2] = s.buffer[2]
    BY <2>2
  <2> QED
    BY <1>2, <2>4, <2>5, <2>6, <2>7 DEF Kept, t
<1> QED
  BY <1>1, <1>2

\* The hard split ends: the buffer it leaves is not too long (chunker.service.ts:42-47).
LEMMA HardSplitKeeps ==
    ASSUME NEW s, Sound(s), NEW ends \in SUBSET Nat
    PROVE  Kept(s, HardSplit(s, ends)) /\ ~ TooLong(HardSplit(s, ends).buffer)
<1> DEFINE n == Size(s.buffer)
           g == Passes(s, ends)
<1>1. n \in Nat
  BY DEF Sound, Size
<1>2. PassesOf(g, s, ends, n)
  BY <1>1, PassesRecur
<1> HIDE DEF n, g
<1> DEFINE T == {k \in 0..n : /\ Kept(s, g[k])
                              /\ TooLong(g[k].buffer) => Size(g[k].buffer) <= n - k}
<1>3. 0 \in T
  <2>1. g[0] = s
    BY <1>1, <1>2 DEF PassesOf
  <2> QED
    BY <1>1, <2>1 DEF Kept, n
<1>4. \A k \in 1..n : k - 1 \in T => k \in T
  <2> SUFFICES ASSUME NEW k \in 1..n, k - 1 \in T PROVE k \in T
    OBVIOUS
  <2>1. g[k] = Cut(g[k - 1], ends)
    BY <1>1, <1>2 DEF PassesOf
  <2>2. Kept(s, g[k - 1]) /\ (TooLong(g[k - 1].buffer) => Size(g[k - 1].buffer) <= n - (k - 1))
    OBVIOUS
  <2>3. /\ Kept(g[k - 1], g[k])
        /\ TooLong(g[k - 1].buffer) => Size(g[k].buffer) < Size(g[k - 1].buffer)
        /\ ~ TooLong(g[k - 1].buffer) => g[k] = g[k - 1]
    BY <2>1, <2>2, CutKeeps DEF Kept
  <2>4. Kept(s, g[k])
    BY <2>2, <2>3 DEF Kept
  <2>5. Size(g[k].buffer) \in Int /\ Size(g[k - 1].buffer) \in Int
    BY <2>2, <2>4 DEF Kept, Sound, Size
  <2>6. TooLong(g[k].buffer) => Size(g[k].buffer) <= n - k
    BY <1>1, <2>2, <2>3, <2>5
  <2> QED
    BY <2>4, <2>6
<1> HIDE DEF T
<1>5. n \in T
  BY <1>1, <1>3, <1>4, Reaches
<1>6. Kept(s, g[n]) /\ (TooLong(g[n].buffer) => Size(g[n].buffer) <= 0)
  BY <1>1, <1>5 DEF T
<1>7. ~ TooLong(g[n].buffer)
  <2>1. Size(g[n].buffer) \in Int
    BY <1>6 DEF Kept, Sound, Size
  <2> QED
    BY <1>6, <2>1, ChunkerAssumption DEF TooLong
<1> QED
  BY <1>6, <1>7 DEF HardSplit, g, n

\* Flushing puts what the buffer held into a piece (chunker.service.ts:26-34).
LEMMA FlushKeeps ==
    ASSUME NEW s, Sound(s), ~ TooLong(s.buffer)
    PROVE  /\ Sound(Flush(s)) /\ ~ TooLong(Flush(s).buffer)
           /\ Flush(s).buffer[2] <= s.buffer[2]
           /\ \A x \in Nat : Covers(s, x) => \E p \in Flush(s).out : Within(x, p)
<1> DEFINE f == Flush(s)
<1>1. /\ f.out = IF Empty(s) THEN s.out ELSE s.out \cup {s.buffer}
      /\ f.buffer = IF Size(s.buffer) > Overlap
                      THEN <<s.buffer[2] - Overlap, s.buffer[2]>> ELSE <<0, 0>>
  BY DEF Flush
<1> HIDE DEF f
<1>2. s.buffer[1] \in Nat /\ s.buffer[2] \in Nat /\ s.buffer[1] <= s.buffer[2]
  BY DEF Sound
<1>3. f.buffer \in Nat \X Nat /\ f.buffer[1] <= f.buffer[2] /\ f.buffer[2] <= s.buffer[2]
  BY <1>1, <1>2, ChunkerAssumption DEF Size
<1>4. ~ TooLong(f.buffer)
  BY <1>1, <1>2, ChunkerAssumption DEF Size, TooLong
<1>5. \A p \in f.out : 2 * Size(p) <= 3 * Target
  <2>1. 2 * Size(s.buffer) <= 3 * Target
    BY <1>2, ChunkerAssumption DEF TooLong, Size
  <2> QED
    BY <1>1, <2>1 DEF Sound
<1>6. ASSUME NEW x \in Nat, Covers(s, x)
      PROVE  \E p \in f.out : Within(x, p)
  <2>1. CASE Within(x, s.buffer)
    <3>1. ~ Empty(s)
      BY <1>2, <2>1 DEF Empty, Size, Within
    <3> QED
      BY <1>1, <2>1, <3>1
  <2>2. CASE \E p \in s.out : Within(x, p)
    BY <1>1, <2>2
  <2> QED
    BY <1>6, <2>1, <2>2 DEF Covers
<1> QED
  BY <1>3, <1>4, <1>5, <1>6 DEF Sound, f

\* A paragraph that follows the buffer is added, and nothing is lost
\* (chunker.service.ts:36-48).
LEMMA ParagraphKept ==
    ASSUME NEW s, Sound(s), ~ TooLong(s.buffer), NEW ends \in SUBSET Nat,
           NEW p \in Nat \X Nat, p[1] < p[2], s.buffer[2] <= p[1]
    PROVE  LET t == AddParagraph(s, p, ends)
           IN  /\ Sound(t) /\ ~ TooLong(t.buffer) /\ t.buffer[2] = p[2]
               /\ \A x \in Nat : Covers(s, x) \/ Within(x, p) => Covers(t, x)
<1> DEFINE room == IF Full(s, p) THEN Flush(s) ELSE s
           first == IF Empty(room) THEN p[1] ELSE room.buffer[1]
           u == [out |-> room.out, buffer |-> <<first, p[2]>>]
           t == AddParagraph(s, p, ends)
<1>1. /\ Sound(room) /\ room.buffer[2] <= p[1]
      /\ \A x \in Nat : Covers(s, x) => Covers(room, x)
  <2>1. CASE Full(s, p)
    <3>1. room = Flush(s)
      BY <2>1
    <3> HIDE DEF room
    <3>2. Sound(room) /\ room.buffer[2] <= s.buffer[2]
      BY <3>1, FlushKeeps
    <3>3. \A x \in Nat : Covers(s, x) => Covers(room, x)
      BY <3>1, FlushKeeps DEF Covers
    <3>4. room.buffer[2] <= p[1]
      BY <3>2 DEF Sound
    <3> QED
      BY <3>2, <3>3, <3>4
  <2>2. CASE ~ Full(s, p)
    BY <2>2
  <2> QED
    BY <2>1, <2>2
<1>2. t = HardSplit(u, ends)
  BY DEF AddParagraph
<1> HIDE DEF room, t
<1>3. room.buffer[1] \in Nat /\ room.buffer[2] \in Nat /\ room.buffer[1] <= room.buffer[2]
  BY <1>1 DEF Sound
<1>4. first \in Nat /\ first <= p[1] /\ (~ Empty(room) => first = room.buffer[1])
  BY <1>1, <1>3
<1> HIDE DEF first
<1>5. Sound(u)
  BY <1>1, <1>4 DEF Sound
<1>6. ASSUME NEW x \in Nat, Covers(s, x) \/ Within(x, p)
      PROVE  Covers(u, x)
  <2>1. CASE Within(x, p)
    <3>1. Within(x, u.buffer)
      BY <1>4, <2>1 DEF Within
    <3> QED
      BY <3>1 DEF Covers
  <2>2. CASE Covers(s, x)
    <3>1. CASE Within(x, room.buffer)
      <4>1. ~ Empty(room)
        BY <1>3, <3>1 DEF Empty, Size, Within
      <4>2. Within(x, u.buffer)
        BY <1>1, <1>3, <1>4, <3>1, <4>1 DEF Within
      <4> QED
        BY <4>2 DEF Covers
    <3>2. CASE \E q \in room.out : Within(x, q)
      BY <3>2 DEF Covers
    <3> QED
      BY <1>1, <2>2, <3>1, <3>2 DEF Covers
  <2> QED
    BY <1>6, <2>1, <2>2
<1>7. u.buffer[2] = p[2]
  OBVIOUS
<1> HIDE DEF u
<1>8. Kept(u, t) /\ ~ TooLong(t.buffer)
  BY <1>2, <1>5, HardSplitKeeps
<1>9. \A x \in Nat : Covers(s, x) \/ Within(x, p) => Covers(t, x)
  BY <1>6, <1>8 DEF Kept
<1> QED
  BY <1>7, <1>8, <1>9 DEF Kept, t

\* The end of the last of the first i paragraphs.
EndOf(b, i) == IF i = 0 THEN 0 ELSE b.paras[i][2]

\* After i paragraphs, everything they hold is in a piece or in the buffer.
FilledTo(s, b, i) ==
    /\ Sound(s) /\ ~ TooLong(s.buffer)
    /\ s.buffer[2] <= EndOf(b, i)
    /\ \A j \in 1..i : \A x \in Nat : Within(x, b.paras[j]) => Covers(s, x)

\* Every passage of a text is in a piece of bounded length (chunker.service.ts:18-51).
LEMMA ChunkCovers ==
    ASSUME NEW b, IsText(b)
    PROVE  \A x \in Passages(b) :
               \E p \in Chunk(b) : Within(x, p) /\ 2 * Size(p) <= 3 * Target
<1> DEFINE n == Len(b.paras)
           g == Filled(b)
<1>1. n \in Nat /\ DOMAIN b.paras = 1..n /\ b.ends \in SUBSET Nat
  BY DEF IsText
<1>2. FilledOf(g, b, n)
  BY <1>1, FilledRecurs
<1>3. \A i \in 1..n :
        /\ b.paras[i] \in Nat \X Nat /\ b.paras[i][1] < b.paras[i][2]
        /\ EndOf(b, i - 1) <= b.paras[i][1]
  <2> SUFFICES ASSUME NEW i \in 1..n
               PROVE  /\ b.paras[i] \in Nat \X Nat /\ b.paras[i][1] < b.paras[i][2]
                      /\ EndOf(b, i - 1) <= b.paras[i][1]
    OBVIOUS
  <2>1. b.paras[i] \in Nat \X Nat /\ b.paras[i][1] < b.paras[i][2]
    BY <1>1 DEF IsText
  <2>2. b.paras[i][1] = IF i = 1 THEN 0 ELSE b.paras[i - 1][2] + Gap
    BY <1>1 DEF IsText
  <2>3. i # 1 => b.paras[i - 1] \in Nat \X Nat
    BY <1>1 DEF IsText
  <2>4. EndOf(b, i - 1) <= b.paras[i][1]
    BY <2>2, <2>3, ChunkerAssumption DEF EndOf
  <2> QED
    BY <2>1, <2>4
<1> HIDE DEF n, g
<1> DEFINE T == {i \in 0..n : FilledTo(g[i], b, i)}
<1>4. 0 \in T
  <2>1. g[0] = Start
    BY <1>1, <1>2 DEF FilledOf
  <2>2. Sound(Start) /\ ~ TooLong(Start.buffer) /\ Start.buffer[2] = 0
    BY ChunkerAssumption DEF Start, Sound, TooLong, Size
  <2>3. FilledTo(g[0], b, 0)
    BY <2>1, <2>2 DEF FilledTo, EndOf
  <2> QED
    BY <1>1, <2>3
<1>5. \A i \in 1..n : i - 1 \in T => i \in T
  <2> SUFFICES ASSUME NEW i \in 1..n, i - 1 \in T PROVE i \in T
    OBVIOUS
  <2> DEFINE s == g[i - 1]
             p == b.paras[i]
  <2>1. FilledTo(s, b, i - 1)
    OBVIOUS
  <2>2. g[i] = AddParagraph(s, p, b.ends)
    BY <1>1, <1>2 DEF FilledOf
  <2>3. p \in Nat \X Nat /\ p[1] < p[2] /\ EndOf(b, i - 1) <= p[1]
    BY <1>3
  <2>4. EndOf(b, i) = p[2]
    BY DEF EndOf
  <2> HIDE DEF s, p
  <2>5. s.buffer[2] <= p[1]
    <3>1. EndOf(b, i - 1) \in Nat
      <4>1. CASE i = 1
        BY <4>1 DEF EndOf
      <4>2. CASE i # 1
        <5>1. b.paras[i - 1] \in Nat \X Nat
          BY <1>1, <1>3, <4>2
        <5> QED
          BY <4>2, <5>1 DEF EndOf
      <4> QED
        BY <4>1, <4>2
    <3> QED
      BY <2>1, <2>3, <3>1 DEF FilledTo, Sound
  <2>6. /\ Sound(g[i]) /\ ~ TooLong(g[i].buffer) /\ g[i].buffer[2] = p[2]
        /\ \A x \in Nat : Covers(s, x) \/ Within(x, p) => Covers(g[i], x)
    BY <1>1, <2>1, <2>2, <2>3, <2>5, ParagraphKept DEF FilledTo
  <2>7. \A j \in 1..i : \A x \in Nat : Within(x, b.paras[j]) => Covers(g[i], x)
    <3> SUFFICES ASSUME NEW j \in 1..i, NEW x \in Nat, Within(x, b.paras[j])
                 PROVE  Covers(g[i], x)
      OBVIOUS
    <3>1. CASE j = i
      BY <2>6, <3>1 DEF p
    <3>2. CASE j # i
      <4>1. j \in 1..(i - 1)
        BY <3>2
      <4> QED
        BY <2>1, <2>6, <4>1 DEF FilledTo
    <3> QED
      BY <3>1, <3>2
  <2>8. g[i].buffer[2] <= EndOf(b, i)
    BY <2>3, <2>4, <2>6
  <2> QED
    BY <2>6, <2>7, <2>8 DEF FilledTo
<1> HIDE DEF T
<1>6. FilledTo(g[n], b, n)
  <2>1. n \in T
    BY <1>1, <1>4, <1>5, Reaches
  <2> QED
    BY <2>1 DEF T
<1> SUFFICES ASSUME NEW x \in Passages(b)
             PROVE  \E p \in Chunk(b) : Within(x, p) /\ 2 * Size(p) <= 3 * Target
  OBVIOUS
<1>7. PICK j \in 1..n : x \in b.paras[j][1]..(b.paras[j][2] - 1)
  BY <1>1 DEF Passages, ToSet
<1>8. x \in Nat /\ Within(x, b.paras[j])
  BY <1>3, <1>7 DEF Within
<1>9. Covers(g[n], x)
  BY <1>6, <1>8 DEF FilledTo
<1>10. Sound(Flush(g[n])) /\ \E p \in Flush(g[n]).out : Within(x, p)
  BY <1>6, <1>8, <1>9, FlushKeeps DEF FilledTo
<1>11. Chunk(b) = Flush(g[n]).out
  BY DEF Chunk, g, n
<1> QED
  BY <1>10, <1>11 DEF Sound

-----------------------------------------------------------------------------
(* The stored pieces are those of the text.                                 *)

\* What is stored of a text is decided when it is created (rag.service.ts:36-40).
LEMMA TextStep == KbInv /\ TextInv /\ [Next]_vars => TextInv'
<1> SUFFICES ASSUME KbInv, TextInv, [Next]_vars PROVE TextInv'
  OBVIOUS
<1>1. ASSUME NEW a \in Admins, Create(a)
      PROVE  TextInv'
  <2>1. PICK d \in Docs \ Made, b \in Bodies :
          /\ status' = [status EXCEPT ![d] = "draft"]
          /\ body' = [body EXCEPT ![d] = b]
          /\ pieces' = [pieces EXCEPT ![d] = Chunk(b)]
    BY <1>1 DEF Create
  <2>2. Made' = Made \cup {d}
    BY <2>1 DEF KbInv, TypeOK, Made
  <2>3. body'[d] = b /\ pieces'[d] = Chunk(b)
    BY <2>1 DEF KbInv, TypeOK
  <2>4. \A e \in Made : body'[e] = body[e] /\ pieces'[e] = pieces[e]
    BY <2>1 DEF KbInv, TypeOK, Made
  <2> QED
    BY <2>2, <2>3, <2>4 DEF TextInv
<1>2. ASSUME Made' = Made, UNCHANGED <<body, pieces>>
      PROVE  TextInv'
  BY <1>2 DEF TextInv
<1>3. ASSUME NEW a \in Admins, ReadLatest(a) \/ Load(a) \/ Delete(a) \/ Insert(a)
      PROVE  TextInv'
  <2>1. Made' = Made /\ UNCHANGED <<body, pieces>>
    BY <1>3 DEF ReadLatest, Load, Delete, Insert, store, Made
  <2> QED
    BY <1>2, <2>1
<1>4. ASSUME NEW a \in Admins, Save(a) \/ CutShort(a)
      PROVE  TextInv'
  <2>1. UNCHANGED <<body, pieces>> /\ (UNCHANGED status \/ status' = Marked(target[a]))
    BY <1>4 DEF Save, CutShort
  <2>2. status' = Marked(target[a]) => target[a] \in Made \/ UNCHANGED status
    <3>1. CASE pc[a] = "save"
      BY <3>1 DEF KbInv, TargetInv
    <3>2. CASE pc[a] # "save"
      BY <1>4, <3>2 DEF Save, CutShort
    <3> QED
      BY <3>1, <3>2
  <2>3. Made' = Made
    BY <2>1, <2>2 DEF KbInv, TypeOK, Made, Marked
  <2> QED
    BY <1>2, <2>1, <2>3
<1>5. ASSUME NEW r \in Readers, Search(r)
      PROVE  TextInv'
  <2>1. Made' = Made /\ UNCHANGED <<body, pieces>>
    BY <1>5 DEF Search, Ask, VectorSearch, FallbackCosine, SearchFails, store, Made
  <2> QED
    BY <1>2, <2>1
<1>6. CASE UNCHANGED vars
  BY <1>2, <1>6 DEF vars, store, Made
<1> QED
  BY <1>1, <1>3, <1>4, <1>5, <1>6 DEF Next, Publish

-----------------------------------------------------------------------------
(* The theorems.                                                            *)

\* The inductive invariant of the knowledge base.
THEOREM KbInvariant == Spec => []KbInv
<1>1. KbInv /\ [Next]_vars => KbInv'
  <2> SUFFICES ASSUME KbInv, [Next]_vars PROVE KbInv'
    OBVIOUS
  <2>1. ASSUME NEW a \in Admins, ReadLatest(a) PROVE KbInv'
    BY <2>1, ReadLatestStep
  <2>2. ASSUME NEW a \in Admins, Create(a) PROVE KbInv'
    BY <2>2, CreateStep
  <2>3. ASSUME NEW a \in Admins, Load(a) PROVE KbInv'
    BY <2>3, LoadStep
  <2>4. ASSUME NEW a \in Admins, Delete(a) PROVE KbInv'
    BY <2>4, DeleteStep
  <2>5. ASSUME NEW a \in Admins, Insert(a) PROVE KbInv'
    BY <2>5, InsertStep
  <2>6. ASSUME NEW a \in Admins, Save(a) PROVE KbInv'
    BY <2>6, SaveStep
  <2>7. ASSUME NEW a \in Admins, CutShort(a) PROVE KbInv'
    BY <2>7, CutShortStep
  <2>8. ASSUME NEW r \in Readers, Ask(r) PROVE KbInv'
    BY <2>8, AskStep
  <2>9. ASSUME NEW r \in Readers, VectorSearch(r) PROVE KbInv'
    BY <2>9, VectorSearchStep
  <2>10. ASSUME NEW r \in Readers, FallbackCosine(r) PROVE KbInv'
    BY <2>10, FallbackCosineStep
  <2>11. ASSUME NEW r \in Readers, SearchFails(r) PROVE KbInv'
    BY <2>11, SearchFailsStep
  <2>12. CASE UNCHANGED vars
    <3> USE <2>12 DEF vars, store, handler, search, history
    <3>1. TypeOK'
      BY DEF KbInv, TypeOK, Made
    <3>2. TargetInv'
      BY DEF KbInv, TargetInv, TypeOK, Made
    <3>3. WholeInv'
      BY DEF KbInv, WholeInv, TargetInv, TypeOK, Whole, At, Made
    <3>4. OnceEach'
      BY DEF KbInv, OnceEach, AloneInv, TypeOK, ChunksOf, At
    <3>5. AloneInv'
      BY DEF KbInv, AloneInv, TypeOK, TargetInv, Publishing, At, ChunksOf, Made
    <3>6. NoDraftServed'
      BY DEF KbInv, NoDraftServed, TargetInv, TypeOK, At, Made
    <3>7. SureInv'
      BY DEF KbInv, SureInv, TypeOK, TargetInv, Whole, Made
    <3>8. NeverEmptyHanded'
      BY DEF KbInv, NeverEmptyHanded, SureInv, TypeOK
    <3>9. VersionsDistinct'
      BY DEF KbInv, VersionsDistinct, NumberInv, TypeOK, Made
    <3>10. LastInv'
      BY DEF KbInv, LastInv, TypeOK, Made
    <3>11. NumberInv'
      BY DEF KbInv, NumberInv, VersionsDistinct, TypeOK, Made
    <3> QED
      BY <3>1, <3>2, <3>3, <3>4, <3>5, <3>6, <3>7, <3>8, <3>9, <3>10, <3>11 DEF KbInv
  <2> QED
    BY <2>1, <2>2, <2>3, <2>4, <2>5, <2>6, <2>7, <2>8, <2>9, <2>10, <2>11, <2>12 DEF Next, Publish, Search
<1> QED
  BY InitKbInv, <1>1, PTL DEF Spec

\* The state of the knowledge base stays in its types (kb-document.schema.ts:5-30).
THEOREM TypeCorrect == Spec => []TypeOK
<1>1. KbInv => TypeOK
  BY DEF KbInv
<1> QED
  BY KbInvariant, <1>1, PTL

\* A published document can be found whole, however publications overlap, except between
\* the deletion and the insertion of one or after one was cut short there (rag.service.ts:67-81).
THEOREM PublishedAreWhole == Spec => []PublishedWhole
<1>1. KbInv => PublishedWhole
  BY DEF KbInv, WholeInv, PublishedWhole, Visible
<1> QED
  BY KbInvariant, <1>1, PTL

\* While publications of a document did not overlap, no piece of it is stored twice
\* (rag.service.ts:67-77).
THEOREM RepublishIdempotent == Spec => []OnceEach
<1>1. KbInv => OnceEach
  BY DEF KbInv
<1> QED
  BY KbInvariant, <1>1, PTL

\* Chunks of a draft can be found only at the end of its publication, or after one was cut
\* short there (rag.service.ts:69-81).
THEOREM DraftsNotServed == Spec => []NoDraftServed
<1>1. KbInv => NoDraftServed
  BY DEF KbInv
<1> QED
  BY KbInvariant, <1>1, PTL

\* A search returns nothing only if no document could be found whole while it ran
\* (vector-search.service.ts:59-73).
THEOREM SearchFinds == Spec => []NeverEmptyHanded
<1>1. KbInv => NeverEmptyHanded
  BY DEF KbInv
<1> QED
  BY KbInvariant, <1>1, PTL

\* While creations do not overlap, versions are distinct (rag.service.ts:32-40).
THEOREM VersionsNumbered == Spec => []VersionsDistinct
<1>1. KbInv => VersionsDistinct
  BY DEF KbInv
<1> QED
  BY KbInvariant, <1>1, PTL

\* The pieces stored for a document are those of its text (rag.service.ts:36-40, 60).
LEMMA TextInvariant == Spec => []TextInv
<1>1. Init => TextInv
  BY DEF Init, TextInv, Made
<1> QED
  BY KbInvariant, <1>1, TextStep, PTL DEF Spec

\* Every passage of a published document is in a piece that can be found, and that is no
\* longer than one and a half times the target, whatever its paragraphs and sentences
\* (chunker.service.ts:18-51, rag.service.ts:67-81).
THEOREM PassagesFound == Spec => []EveryPassageFound
<1>1. KbInv /\ TextInv => EveryPassageFound
  <2> SUFFICES ASSUME KbInv, TextInv, NEW d \in Visible, NEW x \in Passages(body[d])
               PROVE  \E c \in ChunksOf(d) :
                         c[2][1] <= x /\ x < c[2][2] /\ 2 * Size(c[2]) <= 3 * Target
    BY DEF EveryPassageFound
  <2>1. Whole(d) /\ d \in Made
    BY DEF KbInv, WholeInv, Visible, Made
  <2>2. IsText(body[d]) /\ pieces[d] = Chunk(body[d])
    BY <2>1, KbAssumption DEF TextInv
  <2>3. PICK p \in pieces[d] : Within(x, p) /\ 2 * Size(p) <= 3 * Target
    BY <2>2, ChunkCovers
  <2>4. PICK a \in Admins : <<d, p, a>> \in ChunksOf(d)
    BY <2>1 DEF Whole, ChunksOf
  <2> QED
    BY <2>3, <2>4 DEF Within
<1> QED
  BY KbInvariant, TextInvariant, <1>1, PTL

================================================================================
