------------------------------ MODULE KnowledgeBase ------------------------------
(***************************************************************************)
(* ai-gateway, knowledge base: administrators add versions of one titled   *)
(* document and publish them (chunk, embed, replace the chunks, mark), the *)
(* assistant searches the chunks, by the Atlas index or, if that finds     *)
(* nothing, by a scan.  rag.service.ts, vector-search.service.ts,          *)
(* chunker.service.ts.  Every handler may be cut short at every await.     *)
(***************************************************************************)
EXTENDS Chunker

CONSTANTS
    Docs,       \* ids of the documents of the title, in one language
    Bodies,     \* texts, as the chunker sees them; the one without paragraphs is blank
    Admins,     \* createDocument() and publishDocument() handlers
    Readers,    \* search() handlers
    None

ASSUME KbAssumption == None \notin Docs /\ \A b \in Bodies : IsText(b)

VARIABLES
    status,     \* kb_documents: "none" until created, "draft", "published"
    version,    \* kb_documents: version
    body,       \* kb_documents: the text
    pieces,     \* what the chunker, whenever it is asked, makes of the text
    chunks,     \* kb_chunks: <<document, piece, handler that inserted it>>
    ever,       \* whether the Atlas index may hold anything
    pc, target, \* administrators: the await, the document published
    latest,     \* administrators: latest version read
    find,       \* searches: the await
    empty,      \* searches: whether the last one returned nothing
    raced,      \* history: whether two creations ever overlapped
    together,   \* history: documents of which two publications ever overlapped
    broken,     \* history: documents left between deletion and insertion
    unsaved,    \* history: documents left between insertion and status
    sure        \* history: documents that a search must be able to see

store == <<status, version, body, pieces, chunks, ever>>
handler == <<pc, target, latest>>
search == <<find, empty, sure>>
history == <<raced, together, broken, unsaved>>
vars == <<store, handler, search, history>>

Made == {d \in Docs : status[d] # "none"}
Publishing(a, d) == target[a] = d /\ pc[a] \in {"embed", "insert", "save"}
At(d, await) == \E a \in Admins : target[a] = d /\ pc[a] = await

\* Every piece of the body can be found.
Whole(d) == \A p \in pieces[d] : \E a \in Admins : <<d, p, a>> \in chunks

Init ==
    /\ status = [d \in Docs |-> "none"]
    /\ version = [d \in Docs |-> 0]
    /\ body = [d \in Docs |-> None]
    /\ pieces = [d \in Docs |-> {}]
    /\ chunks = {} /\ ever = FALSE
    /\ pc = [a \in Admins |-> "idle"]
    /\ target = [a \in Admins |-> None]
    /\ latest = [a \in Admins |-> 0]
    /\ find = [r \in Readers |-> "idle"]
    /\ empty = [r \in Readers |-> FALSE]
    /\ raced = FALSE
    /\ together = {} /\ broken = {} /\ unsaved = {}
    /\ sure = [r \in Readers |-> {}]

-----------------------------------------------------------------------------
(* createDocument(): no unique index on title and version.                  *)

Highest(D) == IF D = {} THEN 0 ELSE version[CHOOSE d \in D : \A e \in D : version[e] <= version[d]]

\* findOne().sort({ version: -1 }) on the title.
Latest == Highest(Made)

ReadLatest(a) ==
    /\ pc[a] = "idle"
    /\ latest' = [latest EXCEPT ![a] = Latest]
    /\ pc' = [pc EXCEPT ![a] = "create"]
    /\ raced' = (raced \/ \E b \in Admins : pc[b] = "create")
    /\ UNCHANGED <<store, target, search, together, broken, unsaved>>

Create(a) ==
    /\ pc[a] = "create"
    /\ \E d \in Docs \ Made, b \in Bodies :
         /\ status' = [status EXCEPT ![d] = "draft"]
         /\ version' = [version EXCEPT ![d] = latest[a] + 1]
         /\ body' = [body EXCEPT ![d] = b]
         /\ pieces' = [pieces EXCEPT ![d] = Chunk(b)]
    /\ pc' = [pc EXCEPT ![a] = "idle"]
    /\ latest' = [latest EXCEPT ![a] = 0]
    /\ UNCHANGED <<chunks, ever, target, search, history>>

-----------------------------------------------------------------------------
(* publishDocument().                                                       *)

\* A body without pieces is answered at once, and nothing is changed.
Load(a) ==
    /\ pc[a] = "idle"
    /\ \E d \in Made :
         /\ pieces[d] # {}
         /\ target' = [target EXCEPT ![a] = d]
         /\ together' = IF \E b \in Admins : Publishing(b, d) THEN together \cup {d} ELSE together
    /\ pc' = [pc EXCEPT ![a] = "embed"]
    /\ UNCHANGED <<store, latest, search, raced, broken, unsaved>>

ChunksOf(d) == {c \in chunks : c[1] = d}

\* deleteMany({ docId }).  (Mutated: not at all.)
NoChunks(d) == {}
Dropped(d) == ChunksOf(d)

\* (The embeddings of the pieces are awaited first.)
Delete(a) ==
    /\ pc[a] = "embed"
    /\ chunks' = chunks \ Dropped(target[a])
    /\ sure' = [r \in Readers |-> sure[r] \ {target[a]}]
    /\ pc' = [pc EXCEPT ![a] = "insert"]
    /\ UNCHANGED <<status, version, body, pieces, ever, target, latest, find, empty, history>>

Copies(a, P) == {<<target[a], p, a>> : p \in P}

Insert(a) ==
    /\ pc[a] = "insert"
    /\ chunks' = chunks \cup Copies(a, pieces[target[a]])
    /\ ever' = TRUE
    /\ broken' = broken \ {target[a]}
    /\ pc' = [pc EXCEPT ![a] = "save"]
    /\ UNCHANGED <<status, version, body, pieces, target, latest, search, raced, together, unsaved>>

\* save() of the document.  (Mutated: the status is forgotten.)
Unmarked(d) == status
Marked(d) == [status EXCEPT ![d] = "published"]

Save(a) ==
    /\ pc[a] = "save"
    /\ status' = Marked(target[a])
    /\ pc' = [pc EXCEPT ![a] = "idle"]
    /\ target' = [target EXCEPT ![a] = None]
    /\ UNCHANGED <<version, body, pieces, chunks, ever, latest, search, history>>

\* An await rejects, or the process stops: insertMany() may stop part way, and a save
\* that was not answered may have been executed.
CutShort(a) ==
    /\ pc[a] # "idle"
    /\ pc' = [pc EXCEPT ![a] = "idle"]
    /\ target' = [target EXCEPT ![a] = None]
    /\ latest' = [latest EXCEPT ![a] = 0]
    /\ \/ /\ pc[a] \notin {"insert", "save"}
          /\ UNCHANGED <<status, chunks, ever, broken, unsaved>>
       \/ /\ pc[a] = "insert"
          /\ \E i \in {0} \cup {p[2] : p \in pieces[target[a]]} :
               LET part == {p \in pieces[target[a]] : p[2] <= i} IN
               /\ chunks' = chunks \cup Copies(a, part)
               /\ ever' = (ever \/ part # {})
          /\ broken' = broken \cup {target[a]}
          /\ UNCHANGED <<status, unsaved>>
       \/ /\ pc[a] = "save"
          /\ status' \in {status, Marked(target[a])}
          /\ unsaved' = unsaved \cup {target[a]}
          /\ UNCHANGED <<chunks, ever, broken>>
    /\ UNCHANGED <<version, body, pieces, search, raced, together>>

-----------------------------------------------------------------------------
(* search().                                                                *)

Visible == {d \in Docs : status[d] = "published" /\ ~ At(d, "insert") /\ d \notin broken}

Ask(r) ==
    /\ find[r] = "idle"
    /\ find' = [find EXCEPT ![r] = "vector"]
    /\ empty' = [empty EXCEPT ![r] = FALSE]
    /\ sure' = [sure EXCEPT ![r] = Visible]
    /\ UNCHANGED <<store, handler, history>>

\* With hits or with an error.
Answered(r) ==
    /\ find' = [find EXCEPT ![r] = "idle"]
    /\ sure' = [sure EXCEPT ![r] = {}]
    /\ UNCHANGED empty

\* The query is embedded first.  The index follows the collection with an unknown
\* delay: it answers with what was stored at some time, with nothing, or not at all.
VectorSearch(r) ==
    /\ find[r] = "vector"
    /\ \/ ever /\ Answered(r)
       \/ find' = [find EXCEPT ![r] = "scan"] /\ UNCHANGED <<empty, sure>>
    /\ UNCHANGED <<store, handler, history>>

\* fallbackCosine() on the collection.  (Mutated: no fallback.)
NotScanned == {}
Scanned == chunks

FallbackCosine(r) ==
    /\ find[r] = "scan"
    /\ \/ /\ Scanned # {}
          /\ Answered(r)
       \/ /\ Scanned = {}
          /\ find' = [find EXCEPT ![r] = "idle"]
          /\ empty' = [empty EXCEPT ![r] = TRUE]
          /\ UNCHANGED sure
    /\ UNCHANGED <<store, handler, history>>

SearchFails(r) ==
    /\ find[r] # "idle"
    /\ Answered(r)
    /\ UNCHANGED <<store, handler, history>>

-----------------------------------------------------------------------------
Publish(a) == Load(a) \/ Delete(a) \/ Insert(a) \/ Save(a)
Search(r) == Ask(r) \/ VectorSearch(r) \/ FallbackCosine(r) \/ SearchFails(r)

Next ==
    \/ \E a \in Admins : ReadLatest(a) \/ Create(a) \/ Publish(a) \/ CutShort(a)
    \/ \E r \in Readers : Search(r)

Spec == Init /\ [][Next]_vars

-----------------------------------------------------------------------------
(* Properties.                                                              *)

TypeOK ==
    /\ status \in [Docs -> {"none", "draft", "published"}]
    /\ version \in [Docs -> Nat]
    /\ body \in [Docs -> Bodies \cup {None}]
    /\ DOMAIN pieces = Docs
    /\ \A c \in chunks : c[1] \in Made /\ c[2] \in pieces[c[1]] /\ c[3] \in Admins
    /\ ever \in BOOLEAN
    /\ pc \in [Admins -> {"idle", "create", "embed", "insert", "save"}]
    /\ target \in [Admins -> Docs \cup {None}]
    /\ latest \in [Admins -> Nat]
    /\ find \in [Readers -> {"idle", "vector", "scan"}]
    /\ empty \in [Readers -> BOOLEAN]
    /\ sure \in [Readers -> SUBSET Docs]
    /\ together \subseteq Docs /\ broken \subseteq Docs /\ unsaved \subseteq Docs

\* A published document can be found whole, however publications overlap, except
\* between the deletion and the insertion of one, or after one was cut short there
\* (rag.service.ts:67-81).
PublishedWhole == \A d \in Visible : Whole(d)

\* "Idempotent republish" (rag.service.ts:67): while two publications of a document
\* never overlapped, no piece of it is stored twice, whatever was cut short.
OnceEach ==
    \A d \in Docs \ together : \A c \in ChunksOf(d), e \in ChunksOf(d) : c[2] = e[2] => c = e

\* Chunks of a draft can be found only while its publication is about to end, or after
\* one was cut short (rag.service.ts:69-81).
NoDraftServed ==
    \A c \in chunks :
        \/ status[c[1]] = "published"
        \/ At(c[1], "save")
        \/ c[1] \in broken \cup unsaved

\* A search returns nothing only if no document could be found whole from its beginning
\* to its end, whatever the index holds (vector-search.service.ts:59-73).
NeverEmptyHanded == \A r \in Readers : empty[r] => sure[r] = {}

\* Every passage of a published document is in a piece that can be found, and that is no
\* longer than one and a half times the target (chunker.service.ts:36-49,
\* rag.service.ts:67-81).
EveryPassageFound ==
    \A d \in Visible : \A x \in Passages(body[d]) :
        \E c \in ChunksOf(d) :
            c[2][1] <= x /\ x < c[2][2] /\ 2 * Size(c[2]) <= 3 * Target

\* While creations do not overlap, versions are distinct (rag.service.ts:32-40).
VersionsDistinct ==
    ~ raced => \A d \in Made, e \in Made : version[d] = version[e] => d = e

\* What makes them inductive.
TargetInv ==
    /\ \A a \in Admins :
          pc[a] \in {"embed", "insert", "save"} =>
              target[a] \in Made /\ pieces[target[a]] # {}
    /\ \A d \in Docs : status[d] = "published" => pieces[d] # {}
WholeInv ==
    \A d \in Docs :
        (status[d] = "published" \/ At(d, "save")) /\ ~ At(d, "insert") /\ d \notin broken => Whole(d)
AloneInv ==
    \A d \in Docs \ together :
        /\ \A a \in Admins, b \in Admins : Publishing(a, d) /\ Publishing(b, d) => a = b
        /\ At(d, "insert") => ChunksOf(d) = {}
SureInv == \A r \in Readers : \A d \in sure[r] : d \in Made /\ Whole(d) /\ pieces[d] # {}
LastInv == Made # {} => \E d \in Made : \A e \in Made : version[e] <= version[d]
NumberInv ==
    ~ raced => \A a \in Admins :
        pc[a] = "create" => /\ \A d \in Made : version[d] <= latest[a]
                            /\ \A b \in Admins \ {a} : pc[b] # "create"
TextInv == \A d \in Made : body[d] \in Bodies /\ pieces[d] = Chunk(body[d])
KbInv ==
    /\ TypeOK /\ TargetInv /\ WholeInv /\ OnceEach /\ AloneInv /\ NoDraftServed
    /\ SureInv /\ NeverEmptyHanded /\ VersionsDistinct /\ LastInv /\ NumberInv

================================================================================
