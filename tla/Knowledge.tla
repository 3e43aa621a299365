----------------------------- MODULE Knowledge ------------------------------
(***************************************************************************)
(* A knowledge base (knowledgebase/knowledgebase.go) over one of its four  *)
(* backends: a list in memory, OpenSearch, Redis, and Viking, which reads  *)
(* its documents from an object store (integrations/ve_tos).               *)
(*                                                                         *)
(* Several goroutines add documents and search.  A document stands for a   *)
(* text or for a file; what it says is itself.  A query is the score that  *)
(* it gives to each document, 0 for none; one of white space is not asked. *)
(*                                                                         *)
(* External: the embedding model, the three remote indexes, the object     *)
(* store, and when Viking reads what it was told of.                       *)
(***************************************************************************)
EXTENDS Integers, Sequences, FiniteSets, SequencesExt

CONSTANTS
    Users,          \* goroutines that use the knowledge base
    Documents,
    Blank,          \* the documents with nothing but white space
    Lists,          \* the lists of documents that calls add
    FileKey,        \* document -> the last part of its object key as a file
    Queries,        \* each a function of documents to scores
    Requested,      \* the topK that searches ask for
    DefaultTopK,
    MaxUses,        \* bound: calls of a behaviour
    MaxTicks        \* bound: milliseconds of a behaviour

ASSUME KnowledgeAssumption ==
    /\ Blank \subseteq Documents
    /\ Lists \subseteq Seq(Documents) \ {<<>>}
    /\ Queries \subseteq [Documents -> Nat]
    /\ Requested \subseteq Int
    /\ DefaultTopK \in Nat \ {0} /\ MaxUses \in Nat /\ MaxTicks \in Nat

VARIABLES
    base,        \* the backend: its kind, and if it has an embedder
    index,       \* the remote index exists
    entries,     \* what is stored: the documents in order, each with its vector
    bucket,      \* the bucket exists
    objects,     \* the object store: key -> document
    registered,  \* the keys that Viking was told and has not read yet
    millis,      \* the clock that keys of texts are made from
    uses,        \* how many calls there were
    use,         \* what a goroutine is doing
    kept,        \* what was acknowledged: documents and their keys
    excused      \* what was refused silently, and the keys that were overwritten

baseVars == <<base, index, entries, bucket, objects, registered, millis, uses, use, kept,
              excused>>

Kinds == {"local", "opensearch", "redis", "viking"}
NoKey == <<>>
NoUse == [pc |-> "idle"]
Nothing == [documents |-> {}, keys |-> {}]
Stored == {entries[i].doc : i \in DOMAIN entries}

(***************************************************************************)
(* NewKnowledgeBase                                                        *)
(***************************************************************************)

\* A backend's configuration: "none", one of its own type or of another one; a
\* valid index name; a key for the embedding model.
Settings == [kind : Kinds \cup {"other"}, config : {"none", "own", "foreign"},
             name : BOOLEAN, key : BOOLEAN, embedder : BOOLEAN]

LocalOpens(s) == s.config # "foreign"
OpenSearchOpens(s) == s.config = "own" /\ s.name /\ s.key
RedisOpens(s) == s.config = "own" /\ s.name /\ s.key
\* Viking asks for its collection and makes it if it may; an answer with an
\* error code passes for success, so that there may be none.
VikingOpens(s) == s.config = "own" /\ s.name

Opens(s) ==
    \/ s.kind = "local" /\ LocalOpens(s)
    \/ s.kind = "opensearch" /\ OpenSearchOpens(s)
    \/ s.kind = "redis" /\ RedisOpens(s)
    \/ s.kind = "viking" /\ VikingOpens(s)

\* The bases that NewKnowledgeBase can return; remote ones have an embedder,
\* but Viking, which embeds by itself.
Bases == {[kind |-> s.kind,
           embedder |-> IF s.kind = "local" THEN s.embedder /\ s.config = "own"
                        ELSE s.kind # "viking"] : s \in {t \in Settings : Opens(t)}}

BaseInit ==
    /\ base \in Bases
    /\ index \in (IF base.kind = "viking" THEN BOOLEAN ELSE {FALSE})
    /\ entries = <<>>
    /\ bucket \in BOOLEAN /\ (base.kind # "viking" => ~ bucket)
    /\ objects = <<>>
    /\ registered = {}
    /\ millis = 0
    /\ uses = 0
    /\ use = [u \in Users |-> NoUse]
    /\ kept = {}
    /\ excused = Nothing

(***************************************************************************)
(* Adding                                                                  *)
(***************************************************************************)

At(u, pc) == use[u].pc = pc
Go(u, pc) == use' = [use EXCEPT ![u].pc = pc]

\* A call returns; an add without an error acknowledges its documents.
Fails(u) == use' = [use EXCEPT ![u] = NoUse] /\ UNCHANGED kept
Succeeds(u) ==
    /\ use' = [use EXCEPT ![u] = NoUse]
    /\ kept' = kept \cup use[u].asked

Storage == <<index, entries, bucket, objects, registered, millis, uses, excused>>

Adding(pc, source, todo, asked) ==
    [pc |-> pc, source |-> source, todo |-> todo, asked |-> asked,
     right |-> [d \in Documents |-> TRUE], key |-> NoKey]

Acknowledged(docs) == {[doc |-> d, key |-> NoKey] : d \in docs}

\* Those documents of a list that are in S, in their order.
Filtered(docs, S) ==
    LET f[n \in 0 .. Len(docs)] ==
          IF n = 0 THEN <<>>
          ELSE IF docs[n] \in S THEN Append(f[n - 1], docs[n]) ELSE f[n - 1]
    IN  f[Len(docs)]

\* AddFromText, AddFromFiles and AddFromDirectory of all but Viking skip what
\* is blank, and have read every file before they add the first of them.
Begin(u, pc, docs) ==
    LET todo == Filtered(docs, Documents \ Blank)
    IN  use' = [use EXCEPT ![u] =
            IF todo = <<>> THEN NoUse
            ELSE Adding(pc, "any", todo, Acknowledged(ToSet(todo)))]

LocalAdd(u, docs) ==
    base.kind = "local" /\ Begin(u, IF base.embedder THEN "embed" ELSE "store", docs)
OpenSearchAdd(u, docs) == base.kind = "opensearch" /\ Begin(u, "index", docs)
RedisAdd(u, docs) == base.kind = "redis" /\ Begin(u, "index", docs)

\* Viking takes every document as it is, one after the other.
VikingAddFromText(u, docs) ==
    base.kind = "viking" /\ use' = [use EXCEPT ![u] = Adding("key", "text", docs, {})]
VikingAddFromFiles(u, docs) ==
    base.kind = "viking" /\ use' = [use EXCEPT ![u] = Adding("key", "file", docs, {})]

\* A file or the directory cannot be read: nothing is added.
Add(u) ==
    /\ At(u, "idle") /\ uses < MaxUses
    /\ uses' = uses + 1
    /\ \E docs \in Lists :
          \/ LocalAdd(u, docs) \/ OpenSearchAdd(u, docs) \/ RedisAdd(u, docs)
          \/ VikingAddFromText(u, docs) \/ VikingAddFromFiles(u, docs)
          \/ UNCHANGED use
    /\ UNCHANGED <<base, index, entries, bucket, objects, registered, millis, kept, excused>>

\* The index is made unless it is there already, whoever made it.
MakeIndex(u) ==
    /\ At(u, "index")
    /\ \/ index' = TRUE /\ Go(u, "embed") /\ UNCHANGED kept
       \/ UNCHANGED index /\ Fails(u)
    /\ UNCHANGED <<base, entries, bucket, objects, registered, millis, uses, excused>>

OpenSearchEnsureIndex(u) == base.kind = "opensearch" /\ MakeIndex(u)
RedisEnsureIndex(u) == base.kind = "redis" /\ MakeIndex(u)

\* EmbedTexts fails, gives too few vectors, or a vector for each document, of
\* which one may be bad: empty, or of another dimension than the index.
Embed(u) ==
    /\ At(u, "embed")
    /\ \/ Fails(u)
       \/ \E wrong \in {{}, {Head(use[u].todo)}} :
             use' = [use EXCEPT ![u].pc = "store",
                                ![u].right = [d \in Documents |-> d \notin wrong]]
          /\ UNCHANGED kept
    /\ UNCHANGED <<base, Storage>>

LocalEmbed(u) == base.kind = "local" /\ Embed(u)
OpenSearchEmbed(u) == base.kind = "opensearch" /\ Embed(u)
RedisEmbed(u) == base.kind = "redis" /\ Embed(u)

EntryOf(u, d) == [doc |-> d, vector |-> base.embedder /\ use[u].right[d]]
EntriesOf(u, docs) == [i \in DOMAIN docs |-> EntryOf(u, docs[i])]

\* addEntries of the local backend, in one critical section.
LocalStore(u) ==
    /\ base.kind = "local" /\ At(u, "store")
    /\ entries' = entries \o EntriesOf(u, use[u].todo)
    /\ Succeeds(u)
    /\ UNCHANGED <<base, index, bucket, objects, registered, millis, uses, excused>>

\* One _bulk request.  A document that cannot be indexed is noted in the body
\* of the answer, which is not read when the status is 200.
OpenSearchBulk(u) ==
    /\ base.kind = "opensearch" /\ At(u, "store")
    /\ \E accepted \in SUBSET ToSet(use[u].todo) :
          /\ entries' = entries \o EntriesOf(u, Filtered(use[u].todo, accepted))
          /\ \/ /\ Succeeds(u)
                /\ excused' = [excused EXCEPT
                                  !.documents = @ \cup (ToSet(use[u].todo) \ accepted)]
             \/ Fails(u) /\ UNCHANGED excused
    /\ UNCHANGED <<base, index, bucket, objects, registered, millis, uses>>

\* Mutant of RedisWrite: a failed HSET is passed over.
RedisWriteOn(u) ==
    LET d == Head(use[u].todo) rest == Tail(use[u].todo)
    IN  /\ base.kind = "redis" /\ At(u, "store")
        /\ \/ ~ use[u].right[d] /\ Fails(u) /\ UNCHANGED entries
           \/ /\ use[u].right[d]
              /\ entries' \in {Append(entries, EntryOf(u, d)), entries}
              /\ IF rest = <<>> THEN Succeeds(u)
                 ELSE use' = [use EXCEPT ![u].todo = rest] /\ UNCHANGED kept
        /\ UNCHANGED <<base, index, bucket, objects, registered, millis, uses, excused>>

\* One HSET for each document; those before the one that fails stay.
RedisWrite(u) ==
    LET d == Head(use[u].todo) rest == Tail(use[u].todo)
    IN  /\ base.kind = "redis" /\ At(u, "store")
        /\ \/ ~ use[u].right[d] /\ Fails(u) /\ UNCHANGED entries
           \/ /\ use[u].right[d]
              /\ entries' = Append(entries, EntryOf(u, d))
              /\ IF rest = <<>> THEN Succeeds(u)
                 ELSE use' = [use EXCEPT ![u].todo = rest] /\ UNCHANGED kept
           \/ Fails(u) /\ entries' \in {Append(entries, EntryOf(u, d)), entries}
        /\ UNCHANGED <<base, index, bucket, objects, registered, millis, uses, excused>>

(***************************************************************************)
(* Adding to Viking, by way of the object store                            *)
(***************************************************************************)

\* BuildObjectKeyForText: the time in milliseconds.
TextKey == <<"text", millis>>
\* BuildObjectKeyForFile: the path below the working directory, but the base
\* name alone of a file elsewhere.
FileObjectKey(d) == <<"file", FileKey[d]>>

BuildKey(u) ==
    /\ At(u, "key")
    /\ use' = [use EXCEPT ![u].pc = "bucket",
                          ![u].key = IF use[u].source = "text" THEN TextKey
                                     ELSE FileObjectKey(Head(use[u].todo))]
    /\ UNCHANGED <<base, Storage, kept>>

\* ensureClientAndBucket: a bucket that is missing, or that cannot be asked
\* for, is created; that fails if there is one by now.
BucketExist(u) ==
    /\ At(u, "bucket")
    /\ \/ bucket /\ Go(u, "put")
       \/ Go(u, "create")
    /\ UNCHANGED <<base, Storage, kept>>

CreateBucket(u) ==
    /\ At(u, "create")
    /\ \/ ~ bucket /\ bucket' = TRUE /\ Go(u, "put") /\ UNCHANGED kept
       \/ bucket' \in {bucket, TRUE} /\ Fails(u)
    /\ UNCHANGED <<base, index, entries, objects, registered, millis, uses, excused>>

\* PutObjectV2 and PutObjectFromFile replace what the key had.
PutObject(u) ==
    LET key == use[u].key doc == Head(use[u].todo)
    IN  /\ At(u, "put")
        /\ \/ /\ objects' = [k \in DOMAIN objects \cup {key} |->
                               IF k = key THEN doc ELSE objects[k]]
              /\ excused' = IF key \in DOMAIN objects /\ objects[key] # doc
                            THEN [excused EXCEPT !.keys = @ \cup {key}] ELSE excused
              /\ Go(u, "register") /\ UNCHANGED kept
           \/ Fails(u) /\ UNCHANGED <<objects, excused>>
        /\ UNCHANGED <<base, index, entries, bucket, registered, millis, uses>>

\* DocumentAddTOS: the code in the answer is not looked at, so that Viking may
\* have refused the document.
DocumentAddTOS(u) ==
    LET now  == [doc |-> Head(use[u].todo), key |-> use[u].key]
        done == use[u].asked \cup {now}
        rest == Tail(use[u].todo)
    IN  /\ At(u, "register")
        /\ \/ /\ \/ /\ index
                    /\ registered' = registered \cup {use[u].key}
                    /\ UNCHANGED excused
                 \/ /\ excused' = [excused EXCEPT !.documents = @ \cup {now.doc}]
                    /\ UNCHANGED registered
              /\ IF rest = <<>>
                 THEN use' = [use EXCEPT ![u] = NoUse] /\ kept' = kept \cup done
                 ELSE /\ use' = [use EXCEPT ![u] = Adding("key", @.source, rest, done)]
                      /\ UNCHANGED kept
           \/ /\ Fails(u)
              /\ \/ UNCHANGED registered
                 \/ index /\ registered' = registered \cup {use[u].key}
              /\ UNCHANGED excused
        /\ UNCHANGED <<base, index, entries, bucket, objects, millis, uses>>

\* Viking reads a registered object, some time later.
Import(key) ==
    /\ key \in registered
    /\ entries' = Append(entries, [doc |-> objects[key], vector |-> TRUE])
    /\ registered' = registered \ {key}
    /\ UNCHANGED <<base, index, bucket, objects, millis, uses, use, kept, excused>>

Millisecond ==
    /\ millis < MaxTicks
    /\ \E u \in Users : At(u, "bucket")
    /\ millis' = millis + 1
    /\ UNCHANGED <<base, index, entries, bucket, objects, registered, uses, use, kept, excused>>

(***************************************************************************)
(* Searching                                                               *)
(***************************************************************************)

TopK(asked) == IF asked > 0 THEN asked ELSE DefaultTopK

\* A search copies the entries of a local base.
SearchBegin(u) ==
    /\ At(u, "idle") /\ uses < MaxUses
    /\ uses' = uses + 1
    /\ \E q \in Queries, asked \in Requested :
          use' = [use EXCEPT ![u] =
            [pc |-> "search", query |-> q, top |-> TopK(asked), result |-> <<>>,
             copy |-> IF base.kind = "local" THEN entries ELSE <<>>,
             before |-> {a.doc : a \in kept}]]
    /\ UNCHANGED <<base, index, entries, bucket, objects, registered, millis, kept, excused>>

\* With an embedder, and vectors for all, every entry is ranked by its vector;
\* else those in which a word of the query occurs.
Candidates(copy, query) ==
    IF base.embedder /\ \A i \in DOMAIN copy : copy[i].vector
    THEN DOMAIN copy
    ELSE {i \in DOMAIN copy : query[copy[i].doc] > 0}

\* Mutant of Better: the ranking is reversed.
BetterLast(copy, query, i, j) ==
    LET a == query[copy[i].doc] b == query[copy[j].doc]
    IN  a < b \/ (a = b /\ i < j)

Better(copy, query, i, j) ==
    LET a == query[copy[i].doc] b == query[copy[j].doc]
    IN  a > b \/ (a = b /\ i < j)

\* The n-th of the sorted candidates is the one that n - 1 are better than.
Ahead(copy, query, i) == {j \in Candidates(copy, query) : Better(copy, query, j, i)}
Nth(copy, query, n) ==
    CHOOSE i \in Candidates(copy, query) : Cardinality(Ahead(copy, query, i)) = n - 1

\* The best ones, as many as were asked for or as there are.
Foremost(copy, query, top) ==
    LET all == Cardinality(Candidates(copy, query))
    IN  [n \in 1 .. (IF top < all THEN top ELSE all) |-> copy[Nth(copy, query, n)].doc]

LocalSearch(u) ==
    /\ base.kind = "local" /\ At(u, "search")
    /\ use' = [use EXCEPT ![u].pc = "found",
                          ![u].result = Foremost(use[u].copy, use[u].query, use[u].top)]
    /\ UNCHANGED <<base, Storage, kept>>

\* What a remote index returns of its entries is its own affair.  Without an
\* index OpenSearch and Redis find nothing, and Viking fails.
OpenSearchSearch(u) == base.kind = "opensearch" /\ Go(u, "found")
RedisSearch(u) == base.kind = "redis" /\ Go(u, "found")
VikingSearch(u) == base.kind = "viking" /\ index /\ Go(u, "found")

RemoteSearch(u) ==
    /\ At(u, "search")
    /\ OpenSearchSearch(u) \/ RedisSearch(u) \/ VikingSearch(u)
    /\ UNCHANGED <<base, Storage, kept>>

\* The search fails (to embed its query, to ask the index), or its caller has
\* seen what it found.
SearchEnds(u) ==
    /\ At(u, "search") \/ At(u, "found")
    /\ Fails(u)
    /\ UNCHANGED <<base, Storage>>

UserStep(u) ==
    \/ Add(u) \/ OpenSearchEnsureIndex(u) \/ RedisEnsureIndex(u)
    \/ LocalEmbed(u) \/ OpenSearchEmbed(u) \/ RedisEmbed(u)
    \/ LocalStore(u) \/ OpenSearchBulk(u) \/ RedisWrite(u)
    \/ BuildKey(u) \/ BucketExist(u) \/ CreateBucket(u) \/ PutObject(u) \/ DocumentAddTOS(u)
    \/ SearchBegin(u) \/ LocalSearch(u) \/ RemoteSearch(u) \/ SearchEnds(u)

BaseNext ==
    \/ \E u \in Users : UserStep(u)
    \/ \E key \in DOMAIN objects : Import(key)
    \/ Millisecond

BaseSpec == BaseInit /\ [][BaseNext]_baseVars

(***************************************************************************)
(* Properties                                                              *)
(***************************************************************************)

\* What an add has acknowledged is there or on its way.  It is lost only if
\* the remote index refused it behind a good status, or if another document
\* was given the same object key: texts of one millisecond, or files of one
\* name outside of the working directory.
KnowledgeKept ==
    \A a \in kept :
        \/ a.doc \in Stored \cup excused.documents
        \/ a.key \in registered /\ objects[a.key] = a.doc
        \/ a.key \in excused.keys

\* A local search misses no document that was acknowledged before it began and
\* that has a word of the query, unless all that it found rank as high.
SearchComplete ==
    \A u \in Users : (base.kind = "local" /\ At(u, "found")) =>
        LET s == use[u]
        IN  \A d \in s.before : s.query[d] > 0 =>
                \/ d \in ToSet(s.result)
                \/ /\ Len(s.result) = s.top
                   /\ \A i \in DOMAIN s.result : s.query[s.result[i]] >= s.query[d]
=============================================================================
