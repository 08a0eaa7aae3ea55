------------------------- MODULE DocumentLifecycle -------------------------
(***************************************************************************)
(* The life of a document across the three stores that hold it: its row in *)
(* Postgres, its points in the organization's Qdrant collection and, when  *)
(* the deployment has a bucket, its bytes in object storage.               *)
(*                                                                         *)
(* Four kinds of process work on it.  API requests send, delete, retry and *)
(* retag a document (packages/api/src/adapters.ts).  Indexing passes claim *)
(* a pending row, read its source, embed it and write row and points       *)
(* (packages/worker/src/claim.ts, ingest.ts, retry.ts, adapters.ts).  The  *)
(* reaper takes back a claim whose lease lapsed.  The collector removes    *)
(* the points and the bytes of a deleted document (collect.ts).            *)
(*                                                                         *)
(* A Postgres transaction that also calls another store is split at the    *)
(* calls: the row change becomes visible at the commit, and until then     *)
(* `lock' holds the row lock the transaction took.  A single statement is  *)
(* one step.  Time is abstracted: a lease may be found lapsed, and a       *)
(* backoff or grace period elapsed, at any moment.                         *)
(***************************************************************************)
EXTENDS Naturals, FiniteSets

CONSTANTS
    Docs,            \* documents, by (layer, external_id)
    Texts,           \* document contents; a content stands for its own hash
    Empty,           \* the contents that chunk to nothing
    Urls,            \* references to content held elsewhere
    Metas,           \* metadata objects
    Workers,         \* indexing passes that may run at once
    Clients,         \* API requests that may be in flight at once
    Collectors,      \* collector passes that may run at once
    Tokens,          \* values of claimed_at
    None,            \* SQL NULL
    Key,             \* the documentKey a bucket-backed source_ref holds
    ObjectStorage,   \* whether the deployment has a bucket
    MaxAttempts,     \* NACRE_INDEX_MAX_ATTEMPTS
    MaxOps           \* bound: API requests in a behaviour

ASSUME ConstantsAssumption ==
    /\ Empty \subseteq Texts
    /\ Texts \cap Urls = {}
    /\ Texts /= {}
    /\ Workers \cap Clients = {}
    /\ None \notin Tokens \cup Texts \cup Urls \cup Workers \cup Clients \cup Docs
    /\ Key \notin Texts \cup Urls \cup {None}
    /\ ObjectStorage \in BOOLEAN
    /\ MaxAttempts \in Nat \ {0}
    /\ MaxOps \in Nat

VARIABLES
    row,        \* row[d]: the committed documents row, with its chunks
    lock,       \* lock[d]: the transaction that holds the row lock, or None
    points,     \* points[d]: the points whose payload names d
    object,     \* object[d]: the bytes at d's key in the bucket, or None
    worker,     \* worker[w]: the pass w is making
    client,     \* client[c]: the request c is serving
    collector,  \* collector[k]: the target k is purging
    ops,        \* API requests so far
    history     \* history[d]: what happened to d, for the properties only

vars == <<row, lock, points, object, worker, client, collector, ops, history>>

-----------------------------------------------------------------------------
(* State *)

Sources == Texts \cup Urls

Statuses == {"absent", "pending", "parsing", "indexed", "failed"}

\* One chunk stands for all the chunks of a pass: `chunks' is the id the pass
\* gave its points, None for a document without chunks.
Row == [status : Statuses,
        hash : Sources \cup {None},
        source : Sources \cup {Key, None},
        meta : Metas \cup {None},
        claim : Tokens \cup {None},
        attempts : Nat,
        error : {"none", "failure", "abandoned"},
        deleted : BOOLEAN,
        purged : BOOLEAN,
        chunks : Tokens \cup {None}]

NoRow == [status |-> "absent", hash |-> None, source |-> None, meta |-> None,
          claim |-> None, attempts |-> 0, error |-> "none",
          deleted |-> FALSE, purged |-> FALSE, chunks |-> None]

Point == [pass : Tokens, text : Texts, meta : Metas \cup {None}, deleted : BOOLEAN]

WorkerPCs == {"idle", "claimed", "parsed", "embedded", "upserted", "written",
              "swept", "failing"}

Pass == [pc : WorkerPCs,
         doc : Docs \cup {None},
         claim : Tokens \cup {None},
         source : Sources \cup {Key, None},
         meta : Metas \cup {None},
         text : Texts \cup {None}]

IdlePass == [pc |-> "idle", doc |-> None, claim |-> None, source |-> None,
             meta |-> None, text |-> None]

Request == [pc : {"idle", "sending", "removing", "retagging", "patching", "retrying"},
            doc : Docs \cup {None},
            source : Sources \cup {None},
            meta : Metas \cup {None}]

IdleRequest == [pc |-> "idle", doc |-> None, source |-> None, meta |-> None]

Target == [pc : {"idle", "claimed", "checked", "purged", "removed"},
           doc : Docs \cup {None},
           key : BOOLEAN]

IdleTarget == [pc |-> "idle", doc |-> None, key |-> FALSE]

\* latest: the source of the last request whose row committed.
\* torn: the requests that wrote to the points and whose row never committed.
\* raced: a send of the document overlapped a collector past its check of it,
\* and no pass has claimed it since with the collector gone and the bytes of
\* the row, and of the sends in flight, in place.
\* retagged: the metadata changed under a pass that had already read it.
\* tries, abandoned: claims, and claims that lapsed, since the last request.
History == [latest : Sources \cup {None},
            torn : SUBSET {"removing", "patching"},
            raced : BOOLEAN,
            retagged : BOOLEAN,
            tries : Nat,
            abandoned : Nat]

NoHistory == [latest |-> None, torn |-> {}, raced |-> FALSE, retagged |-> FALSE,
              tries |-> 0, abandoned |-> 0]

Live(d) == row[d].status /= "absent" /\ ~row[d].deleted

Unlocked(d) == lock[d] = None

\* Some collector has seen the document deleted and has not marked it yet.
BeingCollected(d) ==
    \E k \in Collectors :
        collector[k].doc = d /\ collector[k].pc \in {"checked", "purged", "removed"}

BeingSent(d) == \E c \in Clients : client[c].doc = d /\ client[c].pc = "sending"

Init ==
    /\ row = [d \in Docs |-> NoRow]
    /\ lock = [d \in Docs |-> None]
    /\ points = [d \in Docs |-> {}]
    /\ object = [d \in Docs |-> None]
    /\ worker = [w \in Workers |-> IdlePass]
    /\ client = [c \in Clients |-> IdleRequest]
    /\ collector = [k \in Collectors |-> IdleTarget]
    /\ ops = 0
    /\ history = [d \in Docs |-> NoHistory]

-----------------------------------------------------------------------------
(* API: NacreIngest.queue *)

\* Where the bytes of a source go: content into the bucket when there is one,
\* everything else into the row.
Ref(s) == IF ObjectStorage /\ s \in Texts THEN Key ELSE s

\* The bytes reach the bucket before the row does.
Send(c, d, s, m) ==
    /\ client[c].pc = "idle"
    /\ ops < MaxOps
    /\ ops' = ops + 1
    /\ client' = [client EXCEPT ![c] = [pc |-> "sending", doc |-> d, source |-> s, meta |-> m]]
    /\ object' = IF Ref(s) = Key THEN [object EXCEPT ![d] = s] ELSE object
    /\ history' = [history EXCEPT ![d].raced = @ \/ BeingCollected(d)]
    /\ UNCHANGED <<row, lock, points, worker, collector>>

\* Mutants of Requeue: the tombstone, the metadata forgotten.
RequeueNotDeleted(r, s, m) == r.hash /= s \/ r.meta /= m \/ r.status = "failed"
RequeueNotMeta(r, s, m) == r.hash /= s \/ r.status = "failed" \/ r.deleted

\* The REQUEUE predicate: which upsert puts the document back in the queue.
Requeue(r, s, m) == r.hash /= s \/ r.meta /= m \/ r.status = "failed" \/ r.deleted

\* Mutant of SentRow: vectors_purged_at survives the requeue.
SentRowStillPurged(r, s, m) ==
    LET requeue == Requeue(r, s, m) IN
    [status |-> IF requeue THEN "pending" ELSE r.status,
     hash |-> s,
     source |-> IF r.hash /= s THEN Ref(s) ELSE r.source,
     meta |-> m,
     claim |-> IF requeue THEN None ELSE r.claim,
     attempts |-> IF requeue THEN 0 ELSE r.attempts,
     error |-> IF requeue THEN "none" ELSE r.error,
     deleted |-> FALSE,
     purged |-> r.purged,
     chunks |-> r.chunks]

\* The row a send leaves.  The insert is the update of a row that has nothing
\* yet; the update puts the row back in the queue only when Requeue says so.
SentRow(r, s, m) ==
    LET requeue == Requeue(r, s, m) IN
    [status |-> IF requeue THEN "pending" ELSE r.status,
     hash |-> s,
     source |-> IF r.hash /= s THEN Ref(s) ELSE r.source,
     meta |-> m,
     claim |-> IF requeue THEN None ELSE r.claim,
     attempts |-> IF requeue THEN 0 ELSE r.attempts,
     error |-> IF requeue THEN "none" ELSE r.error,
     deleted |-> FALSE,
     purged |-> ~requeue /\ r.purged,
     chunks |-> r.chunks]

SendCommit(c) ==
    LET d == client[c].doc
        s == client[c].source
        m == client[c].meta IN
    /\ client[c].pc = "sending"
    /\ Unlocked(d)
    /\ row' = [row EXCEPT ![d] = SentRow(@, s, m)]
    /\ history' = [history EXCEPT ![d] =
           [latest |-> s,
            torn |-> @.torn,
            raced |-> @.raced \/ BeingCollected(d),
            retagged |-> @.retagged,
            tries |-> IF Requeue(row[d], s, m) THEN 0 ELSE @.tries,
            abandoned |-> IF Requeue(row[d], s, m) THEN 0 ELSE @.abandoned]]
    /\ client' = [client EXCEPT ![c] = IdleRequest]
    /\ UNCHANGED <<lock, points, object, worker, collector, ops>>

\* The request dies, or Postgres refuses it, before the row is written: after
\* the bytes were stored, or after the row was looked up.
Abort(c) ==
    /\ client[c].pc \in {"sending", "retagging", "retrying"}
    /\ client' = [client EXCEPT ![c] = IdleRequest]
    /\ UNCHANGED <<row, lock, points, object, worker, collector, ops, history>>

-----------------------------------------------------------------------------
(* API: NacreIngest.remove *)

Flagged(ps) == {[p EXCEPT !.deleted = TRUE] : p \in ps}

\* The row is locked and the points are flagged, before the row says deleted.
Remove(c, d) ==
    /\ client[c].pc = "idle"
    /\ ops < MaxOps
    /\ Live(d)
    /\ Unlocked(d)
    /\ ops' = ops + 1
    /\ lock' = [lock EXCEPT ![d] = c]
    /\ points' = [points EXCEPT ![d] = Flagged(@)]
    /\ client' = [client EXCEPT ![c] = [IdleRequest EXCEPT !.pc = "removing", !.doc = d]]
    /\ UNCHANGED <<row, object, worker, collector, history>>

RemoveCommit(c) ==
    LET d == client[c].doc IN
    /\ client[c].pc = "removing"
    /\ row' = [row EXCEPT ![d].deleted = TRUE]
    /\ lock' = [lock EXCEPT ![d] = None]
    /\ client' = [client EXCEPT ![c] = IdleRequest]
    /\ UNCHANGED <<points, object, worker, collector, ops, history>>

-----------------------------------------------------------------------------
(* API: PostgresDocuments.updateMetadata and retry *)

Retagged(ps, m) == {[p EXCEPT !.meta = m] : p \in ps}

\* Both look the document up, without a lock, and write to whatever the row is
\* by then.
Lookup(c, d, pc, m) ==
    /\ client[c].pc = "idle"
    /\ ops < MaxOps
    /\ Live(d)
    /\ ops' = ops + 1
    /\ client' = [client EXCEPT ![c] = [pc |-> pc, doc |-> d, source |-> None, meta |-> m]]
    /\ UNCHANGED <<row, lock, points, object, worker, collector, history>>

\* The row update takes the lock and commits only after the points are tagged.
UpdateMetadata(c) ==
    LET d == client[c].doc IN
    /\ client[c].pc = "retagging"
    /\ Unlocked(d)
    /\ lock' = [lock EXCEPT ![d] = c]
    /\ points' = [points EXCEPT ![d] = Retagged(@, client[c].meta)]
    /\ client' = [client EXCEPT ![c].pc = "patching"]
    /\ UNCHANGED <<row, object, worker, collector, ops, history>>

UpdateMetadataCommit(c) ==
    LET d == client[c].doc IN
    /\ client[c].pc = "patching"
    /\ row' = [row EXCEPT ![d].meta = client[c].meta]
    /\ lock' = [lock EXCEPT ![d] = None]
    /\ history' = [history EXCEPT ![d].retagged = @ \/ row[d].claim /= None]
    /\ client' = [client EXCEPT ![c] = IdleRequest]
    /\ UNCHANGED <<points, object, worker, collector, ops>>

\* A delete or a retag whose transaction never commits: the points keep what
\* was written to them, the row does not.
Rollback(c) ==
    LET d == client[c].doc IN
    /\ client[c].pc \in {"removing", "patching"}
    /\ lock' = [lock EXCEPT ![d] = None]
    /\ history' = [history EXCEPT ![d].torn = @ \cup {client[c].pc}]
    /\ client' = [client EXCEPT ![c] = IdleRequest]
    /\ UNCHANGED <<row, points, object, worker, collector, ops>>

RetriedRow(r) ==
    [r EXCEPT !.status = "pending", !.attempts = 0, !.error = "none", !.claim = None]

Retry(c) ==
    LET d == client[c].doc IN
    /\ client[c].pc = "retrying"
    /\ Unlocked(d)
    /\ IF row[d].status = "failed"
       THEN /\ row' = [row EXCEPT ![d] = RetriedRow(@)]
            /\ history' = [history EXCEPT ![d] = [@ EXCEPT !.tries = 0, !.abandoned = 0]]
       ELSE UNCHANGED <<row, history>>
    /\ client' = [client EXCEPT ![c] = IdleRequest]
    /\ UNCHANGED <<lock, points, object, worker, collector, ops>>

-----------------------------------------------------------------------------
(* Worker: an indexing pass *)

\* claimed_at is a timestamp to the microsecond: a new one differs from every
\* one that anything still refers to.
InUse == {row[d].claim : d \in Docs} \cup {row[d].chunks : d \in Docs}
         \cup {worker[w].claim : w \in Workers}
         \cup UNION {{p.pass : p \in points[d]} : d \in Docs}

FreshToken == CHOOSE t \in Tokens : t \notin InUse

ClaimedRow(r, t) ==
    [r EXCEPT !.status = "parsing", !.claim = t, !.attempts = @ + 1]

\* The bucket lacks the bytes that the row names or a send has put there.
BytesMissing(d) ==
    /\ object[d] = None
    /\ \/ row[d].source = Key
       \/ \E c \in Clients : /\ client[c].doc = d /\ client[c].pc = "sending"
                            /\ Ref(client[c].source) = Key

\* A claim ends the race of a send with a collector once no collector is left
\* and the bytes are in place.
StillRaced(d) == history[d].raced /\ (BeingCollected(d) \/ BytesMissing(d))

ClaimedHistory(h, raced) ==
    [h EXCEPT !.tries = @ + 1, !.retagged = FALSE, !.raced = raced]

\* claimNext.
Claim(w, d) ==
    /\ worker[w].pc = "idle"
    /\ row[d].status = "pending"
    /\ ~row[d].deleted
    /\ Unlocked(d)
    /\ Tokens \ InUse /= {}
    /\ row' = [row EXCEPT ![d] = ClaimedRow(@, FreshToken)]
    /\ worker' = [worker EXCEPT ![w] = [pc |-> "claimed", doc |-> d, claim |-> FreshToken,
                                        source |-> row[d].source, meta |-> row[d].meta,
                                        text |-> None]]
    /\ history' = [history EXCEPT ![d] = ClaimedHistory(@, StillRaced(d))]
    /\ UNCHANGED <<lock, points, object, client, collector, ops>>

\* Mutant of Readable: a missing object read as an empty one.
ReadableOrMissing(d, source) ==
    CASE source = Key -> {object[d]}
      [] source \in Urls -> Texts
      [] OTHER -> {source} \cap Texts

\* What reading a source may return: the bucket's copy, whatever the URL
\* answers with, or the row's own text.  A missing object returns nothing.
Readable(d, source) ==
    CASE source = Key -> {object[d]} \ {None}
      [] source \in Urls -> Texts
      [] OTHER -> {source} \cap Texts

\* The source is fetched and parsed.
Parse(w) ==
    /\ worker[w].pc = "claimed"
    /\ \E text \in Readable(worker[w].doc, worker[w].source) :
          worker' = [worker EXCEPT ![w].pc = "parsed", ![w].text = text]
    /\ UNCHANGED <<row, lock, points, object, client, collector, ops, history>>

\* `find', then chunking and embedding: content that is already indexed ends
\* the pass without a write.
Find(w) ==
    LET d == worker[w].doc
        unchanged == Live(d) /\ row[d].status = "indexed" /\ row[d].hash = worker[w].text IN
    /\ worker[w].pc = "parsed"
    /\ worker' = [worker EXCEPT ![w] = IF unchanged THEN IdlePass
                                       ELSE [@ EXCEPT !.pc = "embedded"]]
    /\ UNCHANGED <<row, lock, points, object, client, collector, ops, history>>

\* Mutants of Fenced: the delete, the lease forgotten.
FencedNotDeleted(w) ==
    LET r == row[worker[w].doc] IN r.claim = worker[w].claim /\ r.status = "parsing"
FencedNotClaim(w) ==
    LET r == row[worker[w].doc] IN r.status = "parsing" /\ ~r.deleted

\* The fence every write of a pass carries.
Fenced(w) ==
    LET r == row[worker[w].doc] IN
    r.claim = worker[w].claim /\ r.status = "parsing" /\ ~r.deleted

\* The upsert takes the row lock, or matches nothing and the pass is over
\* (ClaimLost).
Upsert(w) ==
    LET d == worker[w].doc IN
    /\ worker[w].pc = "embedded"
    /\ Unlocked(d)
    /\ IF Fenced(w)
       THEN /\ lock' = [lock EXCEPT ![d] = w]
            /\ worker' = [worker EXCEPT ![w].pc = "upserted"]
       ELSE /\ worker' = [worker EXCEPT ![w] = IdlePass]
            /\ UNCHANGED lock
    /\ UNCHANGED <<row, points, object, client, collector, ops, history>>

\* The points of a pass: fresh ids, unflagged, the metadata of the claim.
NewPoints(w) ==
    IF worker[w].text \in Empty THEN {}
    ELSE {[pass |-> worker[w].claim, text |-> worker[w].text,
           meta |-> worker[w].meta, deleted |-> FALSE]}

\* QdrantVectorWriter.write, first half, inside the upsert's transaction.
UpsertPoints(w) ==
    LET d == worker[w].doc IN
    /\ worker[w].pc = "upserted"
    /\ points' = [points EXCEPT ![d] = @ \cup NewPoints(w)]
    /\ worker' = [worker EXCEPT ![w].pc = "written"]
    /\ UNCHANGED <<row, lock, object, client, collector, ops, history>>

\* QdrantVectorWriter.write, second half: every other point of the document.
Sweep(w) ==
    LET d == worker[w].doc IN
    /\ worker[w].pc = "written"
    /\ points' = [points EXCEPT ![d] = {p \in @ : p.pass = worker[w].claim}]
    /\ worker' = [worker EXCEPT ![w].pc = "swept"]
    /\ UNCHANGED <<row, lock, object, client, collector, ops, history>>

\* PostgresDocumentStore.upsert: the row and its chunks.
IndexedRow(r, t, text) ==
    [r EXCEPT !.status = "indexed", !.hash = text, !.claim = None, !.attempts = 0,
              !.chunks = IF text \in Empty THEN None ELSE t]

\* They become visible.
Commit(w) ==
    LET d == worker[w].doc IN
    /\ worker[w].pc = "swept"
    /\ row' = [row EXCEPT ![d] = IndexedRow(@, worker[w].claim, worker[w].text)]
    /\ lock' = [lock EXCEPT ![d] = None]
    /\ history' = [history EXCEPT ![d] = [@ EXCEPT !.torn = {}, !.tries = 0, !.abandoned = 0]]
    /\ worker' = [worker EXCEPT ![w] = IdlePass]
    /\ UNCHANGED <<points, object, client, collector, ops>>

\* Transactions of a pass that a failure or a crash rolls back.
Release(w) == [d \in Docs |-> IF lock[d] = w THEN None ELSE lock[d]]

\* Any step of a pass may throw: a missing object, a refused parse or
\* embedding, a store that does not answer.
Throw(w) ==
    /\ worker[w].pc \in WorkerPCs \ {"idle", "failing"}
    /\ worker' = [worker EXCEPT ![w].pc = "failing"]
    /\ lock' = Release(w)
    /\ UNCHANGED <<row, points, object, client, collector, ops, history>>

\* Mutant of FailedRow: one attempt too many.
FailedRowOffByOne(r, retryable) ==
    [r EXCEPT !.status = IF retryable /\ r.attempts <= MaxAttempts THEN "pending" ELSE "failed",
              !.error = "failure",
              !.claim = None]

FailedRow(r, retryable) ==
    [r EXCEPT !.status = IF retryable /\ r.attempts < MaxAttempts THEN "pending" ELSE "failed",
              !.error = "failure",
              !.claim = None]

\* recordFailure.
RecordFailure(w, retryable) ==
    LET d == worker[w].doc IN
    /\ worker[w].pc = "failing"
    /\ Unlocked(d)
    /\ row' = IF Fenced(w) THEN [row EXCEPT ![d] = FailedRow(@, retryable)] ELSE row
    /\ worker' = [worker EXCEPT ![w] = IdlePass]
    /\ UNCHANGED <<lock, points, object, client, collector, ops, history>>

\* The process stops, or cannot record its failure: the row stays `parsing'.
Crash(w) ==
    /\ worker[w].pc /= "idle"
    /\ worker' = [worker EXCEPT ![w] = IdlePass]
    /\ lock' = Release(w)
    /\ UNCHANGED <<row, points, object, client, collector, ops, history>>

\* Mutant of ReapedRow: the lease is released and the status is not.
ReapedRowStuck(r) == [r EXCEPT !.attempts = @ + 1, !.claim = None]

ReapedRow(r) ==
    LET spent == r.attempts + 1 >= MaxAttempts IN
    [r EXCEPT !.attempts = @ + 1,
              !.status = IF spent THEN "failed" ELSE "pending",
              !.claim = None,
              !.error = IF spent THEN "abandoned" ELSE @]

\* claimStranded, which skips a locked row.
Reap(d) ==
    /\ row[d].status = "parsing"
    /\ row[d].claim /= None
    /\ Unlocked(d)
    /\ row' = [row EXCEPT ![d] = ReapedRow(@)]
    /\ history' = [history EXCEPT ![d].abandoned = @ + 1]
    /\ UNCHANGED <<lock, points, object, worker, client, collector, ops>>

-----------------------------------------------------------------------------
(* Worker: the collector *)

\* Mutant of CollectClaim: only documents that were indexed.
CollectClaimIndexed(k, d) ==
    /\ collector[k].pc = "idle"
    /\ row[d].status = "indexed"
    /\ row[d].deleted
    /\ ~row[d].purged
    /\ Unlocked(d)
    /\ collector' = [collector EXCEPT ![k] = [pc |-> "claimed", doc |-> d,
                                              key |-> row[d].source = Key]]
    /\ UNCHANGED <<row, lock, points, object, worker, client, ops, history>>

\* claimPurgeable.  sweep_claimed_at only rations the targets, since a lapsed
\* lease lets a second collector in; it is left out.
CollectClaim(k, d) ==
    /\ collector[k].pc = "idle"
    /\ row[d].deleted
    /\ ~row[d].purged
    /\ Unlocked(d)
    /\ collector' = [collector EXCEPT ![k] = [pc |-> "claimed", doc |-> d,
                                              key |-> row[d].source = Key]]
    /\ UNCHANGED <<row, lock, points, object, worker, client, ops, history>>

\* Mutant of StillDeleted: the answer of the claim is trusted.
StillDeletedAssumed(k) ==
    /\ collector[k].pc = "claimed"
    /\ collector' = [collector EXCEPT ![k].pc = "checked"]
    /\ UNCHANGED <<row, lock, points, object, worker, client, ops, history>>

\* stillDeleted: an unlocked read of the committed row.
StillDeleted(k) ==
    LET d == collector[k].doc IN
    /\ collector[k].pc = "claimed"
    /\ IF row[d].deleted
       THEN /\ collector' = [collector EXCEPT ![k].pc = "checked"]
            /\ history' = [history EXCEPT ![d].raced = @ \/ BeingSent(d)]
       ELSE /\ collector' = [collector EXCEPT ![k] = IdleTarget]
            /\ UNCHANGED history
    /\ UNCHANGED <<row, lock, points, object, worker, client, ops>>

Purge(k) ==
    /\ collector[k].pc = "checked"
    /\ points' = [points EXCEPT ![collector[k].doc] = {}]
    /\ collector' = [collector EXCEPT ![k].pc = "purged"]
    /\ UNCHANGED <<row, lock, object, worker, client, ops, history>>

RemoveObject(k) ==
    /\ collector[k].pc = "purged"
    /\ object' = IF collector[k].key THEN [object EXCEPT ![collector[k].doc] = None] ELSE object
    /\ collector' = [collector EXCEPT ![k].pc = "removed"]
    /\ UNCHANGED <<row, lock, points, worker, client, ops, history>>

MarkPurged(k) ==
    LET d == collector[k].doc IN
    /\ collector[k].pc = "removed"
    /\ Unlocked(d)
    /\ row' = IF row[d].deleted THEN [row EXCEPT ![d].purged = TRUE] ELSE row
    /\ collector' = [collector EXCEPT ![k] = IdleTarget]
    /\ UNCHANGED <<lock, points, object, worker, client, ops, history>>

\* A store call of the sweep fails, or the process stops: the row stays
\* unmarked and is claimed again.
CollectFail(k) ==
    /\ collector[k].pc /= "idle"
    /\ collector' = [collector EXCEPT ![k] = IdleTarget]
    /\ UNCHANGED <<row, lock, points, object, worker, client, ops, history>>

-----------------------------------------------------------------------------

ClientStep(c) ==
    \/ \E d \in Docs, s \in Sources, m \in Metas : Send(c, d, s, m)
    \/ SendCommit(c)
    \/ Abort(c)
    \/ \E d \in Docs : Remove(c, d)
    \/ RemoveCommit(c)
    \/ \E d \in Docs, m \in Metas : Lookup(c, d, "retagging", m)
    \/ UpdateMetadata(c)
    \/ UpdateMetadataCommit(c)
    \/ Rollback(c)
    \/ \E d \in Docs : Lookup(c, d, "retrying", None)
    \/ Retry(c)

WorkerStep(w) ==
    \/ \E d \in Docs : Claim(w, d)
    \/ Parse(w)
    \/ Find(w)
    \/ Upsert(w)
    \/ UpsertPoints(w)
    \/ Sweep(w)
    \/ Commit(w)
    \/ Throw(w)
    \/ \E retryable \in BOOLEAN : RecordFailure(w, retryable)
    \/ Crash(w)

CollectorStep(k) ==
    \/ \E d \in Docs : CollectClaim(k, d)
    \/ StillDeleted(k)
    \/ Purge(k)
    \/ RemoveObject(k)
    \/ MarkPurged(k)
    \/ CollectFail(k)

Next ==
    \/ \E c \in Clients : ClientStep(c)
    \/ \E w \in Workers : WorkerStep(w)
    \/ \E d \in Docs : Reap(d)
    \/ \E k \in Collectors : CollectorStep(k)

Spec == Init /\ [][Next]_vars

-----------------------------------------------------------------------------
(* Properties *)

\* Every variable keeps its type.
TypeOK ==
    /\ row \in [Docs -> Row]
    /\ lock \in [Docs -> Workers \cup Clients \cup {None}]
    /\ points \in [Docs -> SUBSET Point]
    /\ object \in [Docs -> Texts \cup {None}]
    /\ worker \in [Workers -> Pass]
    /\ client \in [Clients -> Request]
    /\ collector \in [Collectors -> Target]
    /\ ops \in 0 .. MaxOps
    /\ history \in [Docs -> History]

\* Invariant I5 as the index sees it: once a delete committed, every point of
\* the document carries deleted = true, those of a pass that died half way or
\* was writing when the delete arrived included.
TombstoneHolds ==
    \A d \in Docs : row[d].deleted => \A p \in points[d] : p.deleted

\* What a search can return: the query drops flagged points and the hydration
\* joins the rest to the chunks of a document that is not deleted.
Answers(d) ==
    {p \in points[d] : ~p.deleted /\ p.pass = row[d].chunks /\ ~row[d].deleted}

\* The abstract index: the source the row holds, the contents a search finds.
Wanted(d) == IF Live(d) THEN row[d].source ELSE None

Index == INSTANCE DocumentIndex WITH
             References <- Urls \cup {Key},
             wanted <- [d \in Docs |-> Wanted(d)],
             answer <- [d \in Docs |-> {p.text : p \in Answers(d)}]

\* Row, points, passes, requests and collector together behave as the abstract
\* index: a search finds what was accepted before it appeared, a replacement
\* never shows two contents, and sending a deleted document again brings
\* nothing back that was deleted.
ImplementsIndex == Index!Spec

\* Indexed and not deleted, with no transaction open on the row.
Settled(d) == row[d].status = "indexed" /\ ~row[d].deleted /\ Unlocked(d)

\* An indexed document answers searches.  Excepted are a delete that failed
\* after it flagged the points (its caller was told so) and a document sent
\* again while a collector was past its check.  Not excepted is the case of the
\* comment at packages/worker/src/main.ts:591, which says that "nothing fences
\* the original claimant", so that a pass stalled past its lease and the one
\* that replaced it can leave "a document whose hits hydrate to nothing": the
\* comment is older than the fence (Fenced) and than the points written under
\* the row lock.
IndexedAnswers ==
    \A d \in Docs :
        /\ Settled(d)
        /\ row[d].chunks /= None
        /\ "removing" \notin history[d].torn
        /\ ~history[d].raced
        => Answers(d) /= {}

\* What an indexed document answers with is the content its row names and, when
\* the row holds the content itself, that of the last request accepted: no pass
\* that read an earlier one gets its write in.
IndexedIsLatest ==
    \A d \in Docs : Settled(d) =>
        /\ \A p \in Answers(d) : p.text = row[d].hash
        /\ row[d].source \in Texts => row[d].hash = history[d].latest

\* The metadata a filter reads from the points is the row's, unless a retag
\* failed half way or reached the row while a pass held the claim.
MetadataAgrees ==
    \A d \in Docs :
        Settled(d) /\ "patching" \notin history[d].torn /\ ~history[d].retagged
        => \A p \in Answers(d) : p.meta = row[d].meta

\* A row marked purged, which nothing sweeps again, has no points left, unless
\* the document was sent again while a collector was past its check.
PurgedIsGone ==
    \A d \in Docs :
        row[d].deleted /\ row[d].purged /\ ~history[d].raced => points[d] = {}

\* A queued document whose bytes are in the bucket has them there, unless it was
\* sent while a collector was past its check.
SourceAvailable ==
    \A d \in Docs :
        /\ row[d].status \in {"pending", "parsing"}
        /\ ~row[d].deleted
        /\ row[d].source = Key
        /\ ~history[d].raced
        => object[d] /= None

\* However claims are lost, abandoned and failed, a document is tried at most
\* MaxAttempts times for one request.
TriesBounded == \A d \in Docs : history[d].tries <= MaxAttempts

-----------------------------------------------------------------------------
(* What the comments say without exception *)

\* collect.ts: a document re-ingested during the sweep is never purged.
IndexedAlwaysAnswers ==
    \A d \in Docs :
        Settled(d) /\ row[d].chunks /= None /\ "removing" \notin history[d].torn
        => Answers(d) /= {}

\* markPurged: losing the race against ingest is harmless.
PurgedIsAlwaysGone ==
    \A d \in Docs : row[d].deleted /\ row[d].purged => points[d] = {}

\* NacreIngest.queue: bytes before the row, so a row never names an object that
\* is not there.
SourceAlwaysAvailable ==
    \A d \in Docs :
        row[d].status = "pending" /\ ~row[d].deleted /\ row[d].source = Key
        => object[d] /= None

\* NacreIngest.queue: row and payload must not disagree on the metadata.
MetadataAlwaysAgrees ==
    \A d \in Docs :
        Settled(d) /\ "patching" \notin history[d].torn
        => \A p \in Answers(d) : p.meta = row[d].meta

\* docs/api.md: re-sending a URL is the only way to ask for it to be fetched
\* again.  So content sent as text is what the document answers with.
SentTextIsIndexed ==
    \A d \in Docs :
        Settled(d) /\ ~ObjectStorage /\ history[d].latest \in Texts
        => row[d].hash = history[d].latest

\* claimStranded: a document failed by the reaper was abandoned MaxAttempts times.
AbandonedAsReported ==
    \A d \in Docs : row[d].error = "abandoned" => history[d].abandoned = MaxAttempts

-----------------------------------------------------------------------------
(* Liveness *)

\* The worker's loop keeps claiming, keeps working and runs the reaper; a
\* request ends; the sweep comes back to a target until the stores answer.
Fairness ==
    /\ \A w \in Workers :
          /\ WF_vars(\E d \in Docs : Claim(w, d))
          /\ WF_vars(Parse(w) \/ Find(w) \/ Upsert(w) \/ UpsertPoints(w) \/ Sweep(w) \/ Commit(w))
          /\ WF_vars(\E retryable \in BOOLEAN : RecordFailure(w, retryable))
    /\ \A d \in Docs : WF_vars(Reap(d))
    /\ \A c \in Clients : WF_vars(SendCommit(c) \/ Abort(c) \/ RemoveCommit(c) \/ UpdateMetadata(c)
                                  \/ UpdateMetadataCommit(c) \/ Rollback(c) \/ Retry(c))
    /\ \A k \in Collectors :
          /\ \A d \in Docs : SF_vars(CollectClaim(k, d))
          /\ SF_vars(StillDeleted(k))
          /\ SF_vars(Purge(k))
          /\ SF_vars(RemoveObject(k))
          /\ SF_vars(MarkPurged(k))

FairSpec == Spec /\ Fairness

\* A queued document is eventually indexed, failed or deleted, whatever passes
\* crash: the reaper returns what a crash strands and the attempts run out.
QueueDrains ==
    \A d \in Docs :
        (row[d].status \in {"pending", "parsing"} /\ ~row[d].deleted)
        ~> (row[d].status \in {"indexed", "failed"} \/ row[d].deleted)

\* A deleted document is eventually purged, unless it is sent again.
DeletedIsCollected ==
    \A d \in Docs :
        (row[d].deleted /\ ~row[d].purged) ~> (row[d].purged \/ ~row[d].deleted)

=============================================================================
