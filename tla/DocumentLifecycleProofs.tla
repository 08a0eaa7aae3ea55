---------------------- MODULE DocumentLifecycleProofs ----------------------
(***************************************************************************)
(* What holds of DocumentLifecycle for every set of documents, passes,     *)
(* requests and collectors: its types, that a delete holds in the index    *)
(* (TombstoneHolds), that the fence keeps an indexed document at the last  *)
(* content accepted for it (IndexedIsLatest), that tries are bounded, that *)
(* what is collected is gone, that the bytes of a queued document are      *)
(* there, that an indexed document is found and filtered by its row's      *)
(* metadata, and that the whole implements the abstract index.             *)
(***************************************************************************)
EXTENDS DocumentLifecycle, TLAPS

\* The program counters between the fence and the commit.
Writing == {"upserted", "written", "swept"}

HasText == {"parsed", "embedded"} \cup Writing

\* A process that is not idle works on a document, a pass under a lease, and a
\* pass that has parsed holds a text.
WellFormed ==
    /\ \A w \in Workers : worker[w].pc /= "idle" =>
          worker[w].doc \in Docs /\ worker[w].claim \in Tokens
    /\ \A w \in Workers : worker[w].pc \in HasText => worker[w].text \in Texts
    /\ \A c \in Clients : client[c].pc /= "idle" => client[c].doc \in Docs
    /\ \A k \in Collectors : collector[k].pc /= "idle" => collector[k].doc \in Docs

TypeInv == TypeOK /\ WellFormed

-----------------------------------------------------------------------------

\* A claim takes a lease nothing refers to.
LEMMA FreshTokenIsFresh ==
    Tokens \ InUse /= {} => FreshToken \in Tokens /\ FreshToken \notin InUse
BY DEF FreshToken

\* The row a send leaves is a row.
LEMMA SentRowType ==
    ASSUME NEW r \in Row, NEW s \in Sources \cup {None}, NEW m \in Metas \cup {None}
    PROVE  SentRow(r, s, m) \in Row
<1> DEFINE q == Requeue(r, s, m)
<1>1. Ref(s) \in Sources \cup {Key, None}
  BY DEF Ref
<1>2. q \in BOOLEAN /\ (~q /\ r.purged) \in BOOLEAN
  BY DEF Requeue
<1> HIDE DEF q
<1> QED BY <1>1, <1>2 DEF SentRow, Row, Statuses, q

\* One field of a row changes.
LEMMA RowType ==
    ASSUME NEW r \in Row, NEW b \in BOOLEAN, NEW m \in Metas \cup {None}
    PROVE  /\ [r EXCEPT !.deleted = b] \in Row
           /\ [r EXCEPT !.purged = b] \in Row
           /\ [r EXCEPT !.meta = m] \in Row
BY DEF Row

\* One field of the history changes.
LEMMA HistoryType ==
    ASSUME NEW h \in History, NEW b \in BOOLEAN, NEW n \in Nat
    PROVE  /\ [h EXCEPT !.raced = b] \in History
           /\ [h EXCEPT !.retagged = b] \in History
           /\ [h EXCEPT !.abandoned = n] \in History
           /\ [h EXCEPT !.tries = 0, !.abandoned = 0] \in History
           /\ [h EXCEPT !.torn = {}, !.tries = 0, !.abandoned = 0] \in History
           /\ \A torn \in SUBSET {"removing", "patching"} : [h EXCEPT !.torn = torn] \in History
           /\ ClaimedHistory(h, b) \in History
<1> DEFINE m == h.tries + 1
<1>1. m \in Nat
  BY DEF History
<1>2. ClaimedHistory(h, b) = [h EXCEPT !.tries = m, !.retagged = FALSE, !.raced = b]
  BY DEF ClaimedHistory
<1> HIDE DEF m
<1> QED BY <1>1, <1>2 DEF History

\* What a delete and a retag write to the points.
LEMMA FlaggedType == ASSUME NEW ps \in SUBSET Point PROVE Flagged(ps) \in SUBSET Point
BY DEF Flagged, Point

\* What a retag writes to the points.
LEMMA RetaggedType ==
    ASSUME NEW ps \in SUBSET Point, NEW m \in Metas \cup {None}
    PROVE  Retagged(ps, m) \in SUBSET Point
BY DEF Retagged, Point

\* The types hold at first.
LEMMA InitType == Init => TypeInv
BY ConstantsAssumption
   DEF Init, TypeInv, TypeOK, WellFormed, Row, NoRow, Statuses, Pass, IdlePass, WorkerPCs,
       Request, IdleRequest, Target, IdleTarget, History, NoHistory, HasText, Writing

\* The rows the queue writes are rows.
LEMMA QueueRowType ==
    ASSUME NEW r \in Row
    PROVE  /\ \A t \in Tokens : ClaimedRow(r, t) \in Row
           /\ \A t \in Tokens, text \in Texts : IndexedRow(r, t, text) \in Row
           /\ \A retryable \in BOOLEAN : FailedRow(r, retryable) \in Row
           /\ ReapedRow(r) \in Row
           /\ RetriedRow(r) \in Row
<1> DEFINE n == r.attempts + 1
<1>0. n \in Nat
  BY DEF Row
<1> HIDE DEF n
<1>1. ASSUME NEW t \in Tokens PROVE ClaimedRow(r, t) \in Row
  <2>1. ClaimedRow(r, t) = [r EXCEPT !.status = "parsing", !.claim = t, !.attempts = n]
    BY DEF ClaimedRow, n
  <2> QED BY <1>0, <2>1 DEF Row, Statuses
<1>2. ASSUME NEW t \in Tokens, NEW text \in Texts PROVE IndexedRow(r, t, text) \in Row
  BY DEF IndexedRow, Row, Statuses, Sources
<1>3. ASSUME NEW retryable \in BOOLEAN PROVE FailedRow(r, retryable) \in Row
  BY DEF FailedRow, Row, Statuses
<1>4. ReapedRow(r) \in Row
  <2> DEFINE spent == n >= MaxAttempts
  <2>1. ReapedRow(r) = [r EXCEPT !.attempts = n,
                                 !.status = IF spent THEN "failed" ELSE "pending",
                                 !.claim = None,
                                 !.error = IF spent THEN "abandoned" ELSE r.error]
    BY DEF ReapedRow, n
  <2> HIDE DEF spent
  <2> QED BY <1>0, <2>1 DEF Row, Statuses
<1>5. RetriedRow(r) \in Row
  BY DEF RetriedRow, Row, Statuses
<1> QED BY <1>1, <1>2, <1>3, <1>4, <1>5

\* Requests keep the types.
LEMMA ClientType ==
    ASSUME TypeInv, NEW c \in Clients, ClientStep(c)
    PROVE  TypeInv'
<1> USE ConstantsAssumption DEF TypeInv, TypeOK, WellFormed
<1>1. ASSUME NEW d \in Docs, NEW s \in Sources, NEW m \in Metas, Send(c, d, s, m) PROVE TypeInv'
  <2>1. client' \in [Clients -> Request]
    BY <1>1 DEF Send, Request
  <2>2. object' \in [Docs -> Texts \cup {None}]
    BY <1>1 DEF Send, Ref, Sources
  <2>3. history' \in [Docs -> History]
    <3> DEFINE b == history[d].raced \/ BeingCollected(d)
    <3>1. b \in BOOLEAN
      OBVIOUS
    <3>2. history' = [history EXCEPT ![d] = [@ EXCEPT !.raced = b]]
      BY <1>1 DEF Send
    <3> HIDE DEF b
    <3> QED BY <3>1, <3>2, HistoryType
  <2>4. \A b \in Clients : client'[b].pc /= "idle" => client'[b].doc \in Docs
    BY <1>1 DEF Send
  <2>5. ops' \in 0 .. MaxOps
    BY <1>1 DEF Send
  <2> QED BY <1>1, <2>1, <2>2, <2>3, <2>4, <2>5 DEF Send
<1>2. CASE SendCommit(c)
  <2>1. row' \in [Docs -> Row]
    BY <1>2, SentRowType DEF SendCommit, Request
  <2>2. history' \in [Docs -> History]
    <3> DEFINE d == client[c].doc
              b == history[d].raced \/ BeingCollected(d)
              q == Requeue(row[d], client[c].source, client[c].meta)
    <3>1. d \in Docs /\ client[c].source \in Sources \cup {None} /\ b \in BOOLEAN
      BY <1>2 DEF SendCommit, Request
    <3>2. history' = [history EXCEPT ![d] =
             [latest |-> client[c].source, torn |-> history[d].torn, raced |-> b,
              retagged |-> history[d].retagged,
              tries |-> IF q THEN 0 ELSE history[d].tries,
              abandoned |-> IF q THEN 0 ELSE history[d].abandoned]]
      BY <1>2 DEF SendCommit
    <3> HIDE DEF b, q, d
    <3>3. [latest |-> client[c].source, torn |-> history[d].torn, raced |-> b,
           retagged |-> history[d].retagged,
           tries |-> IF q THEN 0 ELSE history[d].tries,
           abandoned |-> IF q THEN 0 ELSE history[d].abandoned] \in History
      BY <3>1 DEF History
    <3> QED BY <3>1, <3>2, <3>3
  <2>3. client' \in [Clients -> Request]
    BY <1>2 DEF SendCommit, Request, IdleRequest
  <2>4. \A b \in Clients : client'[b].pc /= "idle" => client'[b].doc \in Docs
    BY <1>2 DEF SendCommit, IdleRequest
  <2> QED BY <1>2, <2>1, <2>2, <2>3, <2>4 DEF SendCommit
<1>3. CASE Abort(c)
  BY <1>3 DEF Abort, Request, IdleRequest
<1>4. ASSUME NEW d \in Docs, Remove(c, d) PROVE TypeInv'
  <2>1. points' \in [Docs -> SUBSET Point]
    BY <1>4, FlaggedType DEF Remove
  <2>2. client' \in [Clients -> Request]
    BY <1>4 DEF Remove, Request, IdleRequest
  <2>3. \A b \in Clients : client'[b].pc /= "idle" => client'[b].doc \in Docs
    BY <1>4 DEF Remove, IdleRequest
  <2>4. lock' \in [Docs -> Workers \cup Clients \cup {None}] /\ ops' \in 0 .. MaxOps
    BY <1>4 DEF Remove
  <2> QED BY <1>4, <2>1, <2>2, <2>3, <2>4 DEF Remove
<1>5. CASE RemoveCommit(c)
  <2>1. row' \in [Docs -> Row]
    BY <1>5, RowType DEF RemoveCommit
  <2> QED BY <1>5, <2>1 DEF RemoveCommit, Request, IdleRequest
<1>6. CASE UpdateMetadata(c)
  <2>1. points' \in [Docs -> SUBSET Point]
    <3>1. client[c].meta \in Metas \cup {None}
      BY DEF Request
    <3> QED BY <1>6, <3>1, RetaggedType DEF UpdateMetadata
  <2>2. client' \in [Clients -> Request]
    BY <1>6 DEF UpdateMetadata, Request
  <2>3. \A b \in Clients : client'[b].pc /= "idle" => client'[b].doc \in Docs
    BY <1>6 DEF UpdateMetadata
  <2>4. lock' \in [Docs -> Workers \cup Clients \cup {None}]
    BY <1>6 DEF UpdateMetadata
  <2> QED BY <1>6, <2>1, <2>2, <2>3, <2>4 DEF UpdateMetadata
<1>7. CASE UpdateMetadataCommit(c)
  <2>1. row' \in [Docs -> Row]
    <3>1. client[c].meta \in Metas \cup {None}
      BY DEF Request
    <3> QED BY <1>7, <3>1, RowType DEF UpdateMetadataCommit
  <2>2. history' \in [Docs -> History]
    <3> DEFINE d == client[c].doc
              b == history[d].retagged \/ row[d].claim /= None
    <3>1. d \in Docs /\ b \in BOOLEAN
      BY <1>7 DEF UpdateMetadataCommit
    <3>2. history' = [history EXCEPT ![d] = [@ EXCEPT !.retagged = b]]
      BY <1>7 DEF UpdateMetadataCommit
    <3> HIDE DEF b, d
    <3> QED BY <3>1, <3>2, HistoryType
  <2> QED BY <1>7, <2>1, <2>2 DEF UpdateMetadataCommit, Request, IdleRequest
<1>8. CASE Rollback(c)
  <2>1. history' \in [Docs -> History]
    <3> DEFINE d == client[c].doc
               torn == history[d].torn \cup {client[c].pc}
    <3>1. d \in Docs /\ torn \in SUBSET {"removing", "patching"}
      BY <1>8 DEF Rollback, History
    <3>2. history' = [history EXCEPT ![d] = [history[d] EXCEPT !.torn = torn]]
      BY <1>8 DEF Rollback
    <3> HIDE DEF d, torn
    <3>3. [history[d] EXCEPT !.torn = torn] \in History
      BY <3>1, HistoryType
    <3> QED BY <3>1, <3>2, <3>3
  <2> QED BY <1>8, <2>1 DEF Rollback, Request, IdleRequest
<1>9. ASSUME NEW d \in Docs, NEW m \in Metas, Lookup(c, d, "retagging", m) PROVE TypeInv'
  BY <1>9 DEF Lookup, Request
<1>10. ASSUME NEW d \in Docs, Lookup(c, d, "retrying", None) PROVE TypeInv'
  BY <1>10 DEF Lookup, Request
<1>11. CASE Retry(c)
  <2> DEFINE d == client[c].doc
  <2>1. /\ d \in Docs
        /\ \/ /\ row' = [row EXCEPT ![d] = RetriedRow(row[d])]
              /\ history' = [history EXCEPT ![d] = [history[d] EXCEPT !.tries = 0, !.abandoned = 0]]
           \/ UNCHANGED <<row, history>>
        /\ client' = [client EXCEPT ![c] = IdleRequest]
        /\ UNCHANGED <<lock, points, object, worker, collector, ops>>
    BY <1>11 DEF Retry
  <2>2. RetriedRow(row[d]) \in Row
    BY <2>1, QueueRowType
  <2>3. [history[d] EXCEPT !.tries = 0, !.abandoned = 0] \in History
    BY <2>1, HistoryType
  <2> HIDE DEF d
  <2>4. row' \in [Docs -> Row] /\ history' \in [Docs -> History]
    BY <2>1, <2>2, <2>3
  <2> QED BY <2>1, <2>4 DEF Request, IdleRequest
<1> QED
  BY <1>1, <1>2, <1>3, <1>4, <1>5, <1>6, <1>7, <1>8, <1>9, <1>10, <1>11 DEF ClientStep

\* A pass and a collector at rest.
LEMMA IdleTypes == IdlePass \in Pass /\ IdleTarget \in Target
BY DEF IdlePass, Pass, WorkerPCs, IdleTarget, Target

\* What a pass may move to keeps the types of its fields.
LEMMA PassType ==
    ASSUME NEW p \in Pass, NEW pc \in WorkerPCs
    PROVE  /\ [p EXCEPT !.pc = pc] \in Pass
           /\ \A text \in Texts : [p EXCEPT !.pc = pc, !.text = text] \in Pass
BY DEF Pass

\* Passes keep the types.
LEMMA WorkerType ==
    ASSUME TypeInv, NEW w \in Workers, WorkerStep(w)
    PROVE  TypeInv'
<1> USE ConstantsAssumption DEF TypeInv, TypeOK, WellFormed, HasText, Writing
<1>1. ASSUME NEW d \in Docs, Claim(w, d) PROVE TypeInv'
  <2>1. FreshToken \in Tokens
    BY <1>1, FreshTokenIsFresh DEF Claim
  <2>2. row' \in [Docs -> Row]
    <3>1. ClaimedRow(row[d], FreshToken) \in Row
      BY <2>1, QueueRowType
    <3> QED BY <1>1, <3>1 DEF Claim
  <2>3. worker' \in [Workers -> Pass]
    <3>1. row[d].source \in Sources \cup {Key, None} /\ row[d].meta \in Metas \cup {None}
      BY DEF Row
    <3> QED BY <1>1, <2>1, <3>1 DEF Claim, Pass, WorkerPCs
  <2>4. history' \in [Docs -> History]
    <3>1. StillRaced(d) \in BOOLEAN
      BY DEF StillRaced
    <3>2. ClaimedHistory(history[d], StillRaced(d)) \in History
      BY <3>1, HistoryType
    <3> QED BY <1>1, <3>2 DEF Claim
  <2>5. /\ \A v \in Workers : worker'[v].pc /= "idle" =>
              worker'[v].doc \in Docs /\ worker'[v].claim \in Tokens
        /\ \A v \in Workers : worker'[v].pc \in HasText => worker'[v].text \in Texts
    BY <1>1, <2>1 DEF Claim
  <2> QED BY <1>1, <2>2, <2>3, <2>4, <2>5 DEF Claim
<1>2. CASE Parse(w)
  <2> PICK text \in Readable(worker[w].doc, worker[w].source) :
           worker' = [worker EXCEPT ![w] = [@ EXCEPT !.pc = "parsed", !.text = text]]
    BY <1>2 DEF Parse
  <2>1. text \in Texts
    BY <1>2 DEF Readable, Parse
  <2>2. worker' \in [Workers -> Pass]
    BY <2>1, PassType, IdleTypes DEF WorkerPCs
  <2> QED BY <1>2, <2>1, <2>2 DEF Parse
<1>3. CASE Find(w)
  <2>1. \/ worker' = [worker EXCEPT ![w] = IdlePass]
        \/ worker' = [worker EXCEPT ![w] = [@ EXCEPT !.pc = "embedded"]]
    BY <1>3 DEF Find
  <2>2. worker' \in [Workers -> Pass]
    <3>1. [worker[w] EXCEPT !.pc = "embedded"] \in Pass /\ IdlePass \in Pass
      BY PassType, IdleTypes DEF WorkerPCs
    <3> QED BY <2>1, <3>1
  <2> QED BY <1>3, <2>1, <2>2 DEF Find, IdlePass
<1>4. CASE Upsert(w)
  <2>1. worker' = [worker EXCEPT ![w] = IdlePass] \/ worker' = [worker EXCEPT ![w].pc = "upserted"]
    BY <1>4 DEF Upsert
  <2>2. worker' \in [Workers -> Pass]
    <3>1. [worker[w] EXCEPT !.pc = "upserted"] \in Pass /\ IdlePass \in Pass
      BY PassType, IdleTypes DEF WorkerPCs
    <3> QED BY <2>1, <3>1
  <2>3. lock' \in [Docs -> Workers \cup Clients \cup {None}]
    BY <1>4 DEF Upsert
  <2>4. /\ \A v \in Workers : worker'[v].pc /= "idle" =>
              worker'[v].doc \in Docs /\ worker'[v].claim \in Tokens
        /\ \A v \in Workers : worker'[v].pc \in HasText => worker'[v].text \in Texts
    <3>1. worker[w].pc = "embedded"
      BY <1>4 DEF Upsert
    <3>2. CASE worker' = [worker EXCEPT ![w] = IdlePass]
      BY <3>2 DEF IdlePass
    <3>3. CASE worker' = [worker EXCEPT ![w].pc = "upserted"]
      BY <3>1, <3>3
    <3> QED BY <2>1, <3>2, <3>3
  <2> QED BY <1>4, <2>2, <2>3, <2>4 DEF Upsert
<1>5. CASE UpsertPoints(w)
  <2>1. NewPoints(w) \in SUBSET Point
    <3>1. /\ worker[w].claim \in Tokens /\ worker[w].text \in Texts
          /\ worker[w].meta \in Metas \cup {None}
      BY <1>5 DEF UpsertPoints, Pass
    <3> QED BY <3>1 DEF NewPoints, Point
  <2>2. worker' \in [Workers -> Pass]
    BY <1>5, PassType DEF UpsertPoints, WorkerPCs
  <2> QED BY <1>5, <2>1, <2>2 DEF UpsertPoints
<1>6. CASE Sweep(w)
  <2>1. worker' \in [Workers -> Pass]
    BY <1>6, PassType DEF Sweep, WorkerPCs
  <2> QED BY <1>6, <2>1 DEF Sweep
<1>7. CASE Commit(w)
  <2>1. row' \in [Docs -> Row]
    BY <1>7, QueueRowType DEF Commit
  <2>2. worker' \in [Workers -> Pass]
    BY <1>7, IdleTypes DEF Commit
  <2>3. history' \in [Docs -> History]
    BY <1>7, HistoryType DEF Commit
  <2> QED BY <1>7, <2>1, <2>2, <2>3 DEF Commit, IdlePass
<1>8. CASE Throw(w)
  <2>1. worker' \in [Workers -> Pass]
    BY <1>8, PassType DEF Throw, WorkerPCs
  <2> QED BY <1>8, <2>1 DEF Throw, Release, WorkerPCs
<1>9. ASSUME NEW retryable \in BOOLEAN, RecordFailure(w, retryable) PROVE TypeInv'
  <2>1. row' \in [Docs -> Row]
    BY <1>9, QueueRowType DEF RecordFailure
  <2>2. worker' \in [Workers -> Pass]
    BY <1>9, IdleTypes DEF RecordFailure
  <2> QED BY <1>9, <2>1, <2>2 DEF RecordFailure, IdlePass
<1>10. CASE Crash(w)
  <2>1. worker' \in [Workers -> Pass]
    BY <1>10, IdleTypes DEF Crash
  <2> QED BY <1>10, <2>1 DEF Crash, Release, IdlePass
<1> QED
  BY <1>1, <1>2, <1>3, <1>4, <1>5, <1>6, <1>7, <1>8, <1>9, <1>10 DEF WorkerStep

\* Collectors keep the types.
LEMMA CollectorType ==
    ASSUME TypeInv, NEW k \in Collectors, CollectorStep(k)
    PROVE  TypeInv'
<1> USE ConstantsAssumption DEF TypeInv, TypeOK, WellFormed
<1>1. ASSUME NEW d \in Docs, CollectClaim(k, d) PROVE TypeInv'
  <2> DEFINE b == row[d].source = Key
  <2>1. collector' = [collector EXCEPT ![k] = [pc |-> "claimed", doc |-> d, key |-> b]] /\ b \in BOOLEAN
    BY <1>1 DEF CollectClaim
  <2> HIDE DEF b
  <2>2. collector' \in [Collectors -> Target]
    BY <2>1 DEF Target
  <2> QED BY <1>1, <2>1, <2>2 DEF CollectClaim
<1>2. CASE StillDeleted(k)
  <2> DEFINE d == collector[k].doc
             b == history[d].raced \/ BeingSent(d)
  <2>1. /\ \/ collector' = [collector EXCEPT ![k].pc = "checked"]
           \/ collector' = [collector EXCEPT ![k] = IdleTarget]
        /\ history' = [history EXCEPT ![d] = [@ EXCEPT !.raced = b]] \/ UNCHANGED history
        /\ d \in Docs
        /\ b \in BOOLEAN
    BY <1>2 DEF StillDeleted
  <2> HIDE DEF b, d
  <2>2. history' \in [Docs -> History]
    <3>1. [history[d] EXCEPT !.raced = b] \in History
      BY <2>1, HistoryType
    <3> QED BY <2>1, <3>1
  <2>3. collector' \in [Collectors -> Target]
    <3>1. [collector[k] EXCEPT !.pc = "checked"] \in Target /\ IdleTarget \in Target
      BY IdleTypes DEF Target
    <3> QED BY <2>1, <3>1
  <2>4. \A j \in Collectors : collector'[j].pc /= "idle" => collector'[j].doc \in Docs
    <3>1. collector[k].pc = "claimed"
      BY <1>2 DEF StillDeleted
    <3>2. CASE collector' = [collector EXCEPT ![k] = IdleTarget]
      BY <3>2 DEF IdleTarget
    <3>3. CASE collector' = [collector EXCEPT ![k].pc = "checked"]
      BY <3>1, <3>3
    <3> QED BY <2>1, <3>2, <3>3
  <2> QED BY <1>2, <2>2, <2>3, <2>4 DEF StillDeleted
<1>3. CASE Purge(k)
  BY <1>3 DEF Purge, Target
<1>4. CASE RemoveObject(k)
  BY <1>4 DEF RemoveObject, Target
<1>5. CASE MarkPurged(k)
  <2>1. row' \in [Docs -> Row]
    BY <1>5, RowType DEF MarkPurged
  <2> QED BY <1>5, <2>1 DEF MarkPurged, Target, IdleTarget
<1>6. CASE CollectFail(k)
  BY <1>6 DEF CollectFail, Target, IdleTarget
<1> QED
  BY <1>1, <1>2, <1>3, <1>4, <1>5, <1>6 DEF CollectorStep

\* Every step keeps the types.
LEMMA NextType == TypeInv /\ [Next]_vars => TypeInv'
<1> SUFFICES ASSUME TypeInv, [Next]_vars PROVE TypeInv'
  OBVIOUS
<1>1. ASSUME NEW d \in Docs, Reap(d) PROVE TypeInv'
  <2>1. row' \in [Docs -> Row]
    BY <1>1, QueueRowType DEF Reap, TypeInv, TypeOK
  <2>2. history' \in [Docs -> History]
    <3>1. history[d] \in History /\ history[d].abandoned + 1 \in Nat
      BY DEF History, TypeInv, TypeOK
    <3> QED BY <1>1, <3>1, HistoryType DEF Reap, TypeInv, TypeOK
  <2> QED BY <1>1, <2>1, <2>2 DEF Reap, TypeInv, TypeOK, WellFormed
<1>2. CASE UNCHANGED vars
  BY <1>2 DEF vars, TypeInv, TypeOK, WellFormed
<1> QED
  BY <1>1, <1>2, ClientType, WorkerType, CollectorType DEF Next

\* Every variable keeps its type, for every value of the constants.
THEOREM TypeCorrect == Spec => []TypeOK
<1>1. TypeInv => TypeOK
  BY DEF TypeInv
<1> QED BY <1>1, InitType, NextType, PTL DEF Spec

-----------------------------------------------------------------------------
(* A delete holds in the index *)

\* The row lock is held by whoever writes to the points in a transaction: a
\* pass past its fence, on a row that is not deleted; a delete, which has
\* flagged the points; a retag.
LockInv ==
    /\ \A w \in Workers : worker[w].pc \in Writing =>
          lock[worker[w].doc] = w /\ ~row[worker[w].doc].deleted
    /\ \A c \in Clients : client[c].pc \in {"removing", "patching"} =>
          lock[client[c].doc] = c
    /\ \A c \in Clients : client[c].pc = "removing" =>
          \A p \in points[client[c].doc] : p.deleted

DeleteInv == TypeInv /\ LockInv /\ TombstoneHolds

\* What the writes to a row do to the tombstone.
LEMMA RowDeleted ==
    ASSUME NEW r \in Row
    PROVE  /\ \A s, m : ~SentRow(r, s, m).deleted
           /\ \A t : ClaimedRow(r, t).deleted = r.deleted
           /\ \A t, text : IndexedRow(r, t, text).deleted = r.deleted
           /\ \A retryable : FailedRow(r, retryable).deleted = r.deleted
           /\ ReapedRow(r).deleted = r.deleted
           /\ RetriedRow(r).deleted = r.deleted
BY DEF Row, SentRow, ClaimedRow, IndexedRow, FailedRow, ReapedRow, RetriedRow

\* Nothing is deleted at first.
LEMMA InitDelete == Init => DeleteInv
<1> SUFFICES ASSUME Init PROVE DeleteInv
  OBVIOUS
<1>1. TypeInv
  BY InitType
<1> QED BY <1>1 DEF Init, DeleteInv, LockInv, TombstoneHolds, NoRow, IdlePass, IdleRequest, Writing

\* Requests keep what a delete rests on.
LEMMA DeleteClient ==
    ASSUME DeleteInv, NEW c \in Clients, ClientStep(c)
    PROVE  LockInv' /\ TombstoneHolds'
<1> USE ConstantsAssumption DEF DeleteInv, TypeInv, TypeOK, WellFormed, LockInv, TombstoneHolds, Writing
<1>1. ASSUME NEW d \in Docs, NEW s \in Sources, NEW m \in Metas, Send(c, d, s, m)
      PROVE  LockInv' /\ TombstoneHolds'
  BY <1>1 DEF Send
<1>2. CASE SendCommit(c)
  <2> DEFINE d == client[c].doc
             r == SentRow(row[d], client[c].source, client[c].meta)
  <2>1. d \in Docs /\ lock[d] = None /\ row' = [row EXCEPT ![d] = r] /\ ~r.deleted
    BY <1>2, RowDeleted DEF SendCommit, Unlocked
  <2> HIDE DEF d, r
  <2> QED BY <1>2, <2>1 DEF SendCommit, IdleRequest
<1>3. CASE Abort(c)
  BY <1>3 DEF Abort, IdleRequest
<1>4. ASSUME NEW d \in Docs, Remove(c, d) PROVE LockInv' /\ TombstoneHolds'
  <2>1. \A p \in Flagged(points[d]) : p.deleted
    BY DEF Flagged, Point
  <2> QED BY <1>4, <2>1 DEF Remove, Unlocked, IdleRequest
<1>5. CASE RemoveCommit(c)
  BY <1>5 DEF RemoveCommit, IdleRequest, Row
<1>6. CASE UpdateMetadata(c)
  <2> DEFINE d == client[c].doc
             m == client[c].meta
  <2>1. (\A p \in points[d] : p.deleted) => \A p \in Retagged(points[d], m) : p.deleted
    BY <1>6 DEF UpdateMetadata, Retagged, Point
  <2>2. /\ d \in Docs /\ lock[d] = None /\ client[c].pc = "retagging"
        /\ lock' = [lock EXCEPT ![d] = c]
        /\ points' = [points EXCEPT ![d] = Retagged(points[d], m)]
        /\ client' = [client EXCEPT ![c] = [@ EXCEPT !.pc = "patching"]]
        /\ UNCHANGED <<row, worker>>
    BY <1>6 DEF UpdateMetadata, Unlocked
  <2>3. \A b \in Clients : client'[b].doc = client[b].doc
    BY <2>2
  <2> HIDE DEF d, m
  <2> QED BY <2>1, <2>2, <2>3 DEF d
<1>7. CASE UpdateMetadataCommit(c)
  BY <1>7 DEF UpdateMetadataCommit, IdleRequest, Row
<1>8. CASE Rollback(c)
  BY <1>8 DEF Rollback, IdleRequest
<1>9. ASSUME NEW d \in Docs, NEW m \in Metas, Lookup(c, d, "retagging", m)
      PROVE  LockInv' /\ TombstoneHolds'
  BY <1>9 DEF Lookup
<1>10. ASSUME NEW d \in Docs, Lookup(c, d, "retrying", None) PROVE LockInv' /\ TombstoneHolds'
  BY <1>10 DEF Lookup
<1>11. CASE Retry(c)
  <2>1. \A e \in Docs : row'[e].deleted = row[e].deleted
    BY <1>11, RowDeleted DEF Retry
  <2> QED BY <1>11, <2>1 DEF Retry, IdleRequest
<1> QED
  BY <1>1, <1>2, <1>3, <1>4, <1>5, <1>6, <1>7, <1>8, <1>9, <1>10, <1>11 DEF ClientStep

\* Passes keep what a delete rests on.
LEMMA DeleteWorker ==
    ASSUME DeleteInv, NEW w \in Workers, WorkerStep(w)
    PROVE  LockInv' /\ TombstoneHolds'
<1> USE ConstantsAssumption DEF DeleteInv, TypeInv, TypeOK, WellFormed, LockInv, TombstoneHolds, Writing
<1>1. ASSUME NEW d \in Docs, Claim(w, d) PROVE LockInv' /\ TombstoneHolds'
  <2>1. \A e \in Docs : row'[e].deleted = row[e].deleted
    BY <1>1, RowDeleted DEF Claim
  <2> QED BY <1>1, <2>1 DEF Claim
<1>2. CASE Parse(w)
  BY <1>2 DEF Parse
<1>3. CASE Find(w)
  BY <1>3 DEF Find, IdlePass
<1>4. CASE Upsert(w)
  <2>1. CASE Fenced(w)
    <3> DEFINE d == worker[w].doc
    <3>1. /\ d \in Docs /\ lock[d] = None /\ ~row[d].deleted
          /\ lock' = [lock EXCEPT ![d] = w]
          /\ worker' = [worker EXCEPT ![w] = [@ EXCEPT !.pc = "upserted"]]
          /\ UNCHANGED <<row, points, client>>
      BY <1>4, <2>1 DEF Upsert, Unlocked, Fenced
    <3>2. \A v \in Workers : worker'[v].doc = worker[v].doc
      BY <3>1
    <3> HIDE DEF d
    <3> QED BY <3>1, <3>2 DEF d
  <2>2. CASE ~Fenced(w)
    BY <1>4, <2>2 DEF Upsert, IdlePass
  <2> QED BY <2>1, <2>2
<1>5. CASE UpsertPoints(w)
  BY <1>5 DEF UpsertPoints
<1>6. CASE Sweep(w)
  BY <1>6 DEF Sweep
<1>7. CASE Commit(w)
  <2>1. \A e \in Docs : row'[e].deleted = row[e].deleted
    BY <1>7, RowDeleted DEF Commit
  <2> QED BY <1>7, <2>1 DEF Commit, IdlePass
<1>8. CASE Throw(w)
  BY <1>8 DEF Throw, Release
<1>9. ASSUME NEW retryable \in BOOLEAN, RecordFailure(w, retryable)
      PROVE  LockInv' /\ TombstoneHolds'
  <2>1. \A e \in Docs : row'[e].deleted = row[e].deleted
    BY <1>9, RowDeleted DEF RecordFailure
  <2> QED BY <1>9, <2>1 DEF RecordFailure, IdlePass
<1>10. CASE Crash(w)
  BY <1>10 DEF Crash, Release, IdlePass
<1> QED
  BY <1>1, <1>2, <1>3, <1>4, <1>5, <1>6, <1>7, <1>8, <1>9, <1>10 DEF WorkerStep

\* Collectors keep what a delete rests on.
LEMMA DeleteCollector ==
    ASSUME DeleteInv, NEW k \in Collectors, CollectorStep(k)
    PROVE  LockInv' /\ TombstoneHolds'
<1> USE ConstantsAssumption DEF DeleteInv, TypeInv, TypeOK, WellFormed, LockInv, TombstoneHolds
<1>1. ASSUME NEW d \in Docs, CollectClaim(k, d) PROVE LockInv' /\ TombstoneHolds'
  BY <1>1 DEF CollectClaim
<1>2. CASE StillDeleted(k)
  BY <1>2 DEF StillDeleted
<1>3. CASE Purge(k)
  BY <1>3 DEF Purge
<1>4. CASE RemoveObject(k)
  BY <1>4 DEF RemoveObject
<1>5. CASE MarkPurged(k)
  <2>1. \A e \in Docs : row'[e].deleted = row[e].deleted
    BY <1>5 DEF MarkPurged, Row
  <2> QED BY <1>5, <2>1 DEF MarkPurged
<1>6. CASE CollectFail(k)
  BY <1>6 DEF CollectFail
<1> QED
  BY <1>1, <1>2, <1>3, <1>4, <1>5, <1>6 DEF CollectorStep

\* Every step keeps what a delete rests on.
LEMMA NextDelete == DeleteInv /\ [Next]_vars => DeleteInv'
<1> SUFFICES ASSUME DeleteInv, [Next]_vars PROVE LockInv' /\ TombstoneHolds'
  BY NextType DEF DeleteInv
<1> USE DEF DeleteInv, TypeInv, TypeOK, WellFormed, LockInv, TombstoneHolds
<1>1. ASSUME NEW d \in Docs, Reap(d) PROVE LockInv' /\ TombstoneHolds'
  <2>1. \A e \in Docs : row'[e].deleted = row[e].deleted
    BY <1>1, RowDeleted DEF Reap
  <2> QED BY <1>1, <2>1 DEF Reap
<1>2. CASE UNCHANGED vars
  BY <1>2 DEF vars
<1> QED
  BY <1>1, <1>2, DeleteClient, DeleteWorker, DeleteCollector DEF Next

\* Once a delete committed, no point of the document is left unflagged, however
\* passes, deletes and retags interleave, crash and roll back.
THEOREM DeleteHolds == Spec => []TombstoneHolds
<1>1. DeleteInv => TombstoneHolds
  BY DEF DeleteInv
<1> QED BY <1>1, InitDelete, NextDelete, PTL DEF Spec

-----------------------------------------------------------------------------
(* What is indexed is what was sent last *)

\* A pass past its fence still holds the claim, and two passes never hold the
\* same one.
FenceInv ==
    /\ \A w \in Workers : worker[w].pc \in Writing =>
          /\ row[worker[w].doc].claim = worker[w].claim
          /\ row[worker[w].doc].status = "parsing"
    /\ \A v, w \in Workers :
          worker[v].pc /= "idle" /\ worker[w].pc /= "idle" /\ worker[v].claim = worker[w].claim
          => v = w

\* A row that holds its own content holds the last content sent, and a pass
\* that holds the claim read the source the row still names.
SourceInv ==
    /\ \A d \in Docs : row[d].source \in Texts =>
          row[d].hash = row[d].source /\ row[d].source = history[d].latest
    /\ \A w \in Workers :
          worker[w].pc /= "idle" /\ worker[w].claim = row[worker[w].doc].claim
          => worker[w].source = row[worker[w].doc].source
    /\ \A w \in Workers : worker[w].pc \in HasText /\ worker[w].source \in Texts
          => worker[w].text = worker[w].source

\* The points a pass wrote hold the text it read, and the chunks of an indexed
\* row are points of the content the row names.
PointsInv ==
    /\ \A w \in Workers, d \in Docs :
          worker[w].pc \in {"claimed", "parsed", "embedded", "upserted"}
          => \A p \in points[d] : p.pass /= worker[w].claim
    /\ \A w \in Workers : worker[w].pc \in {"written", "swept"} =>
          \A p \in points[worker[w].doc] :
             p.pass = worker[w].claim => p.text = worker[w].text
    /\ \A d \in Docs : row[d].status = "indexed" =>
          \A p \in points[d] : p.pass = row[d].chunks => p.text = row[d].hash

LatestInv == DeleteInv /\ FenceInv /\ SourceInv /\ PointsInv

\* What the writes to a row do to its content and its claim.
LEMMA SentRowFields ==
    ASSUME NEW r \in Row, NEW s \in Sources \cup {None}, NEW m \in Metas \cup {None},
           r.source \in Texts => r.hash = r.source
    PROVE  LET q == SentRow(r, s, m) IN
           /\ q.source \in Texts => q.hash = q.source /\ q.source = s
           /\ q.claim /= None => q.claim = r.claim /\ q.source = r.source
           /\ q.status = "indexed" => r.status = "indexed" /\ q.hash = r.hash
           /\ q.chunks = r.chunks
<1> DEFINE q == SentRow(r, s, m)
<1>1. /\ q.hash = s
      /\ q.source = IF r.hash /= s THEN Ref(s) ELSE r.source
      /\ q.claim = IF Requeue(r, s, m) THEN None ELSE r.claim
      /\ q.status = IF Requeue(r, s, m) THEN "pending" ELSE r.status
      /\ q.chunks = r.chunks
  BY DEF SentRow
<1>2. ~Requeue(r, s, m) => r.hash = s
  BY DEF Requeue
<1>3. Ref(s) = s \/ Ref(s) \notin Texts
  BY ConstantsAssumption DEF Ref
<1> QED BY <1>1, <1>2, <1>3

\* What the statements of the queue do to the content, the source and the claim.
LEMMA QueueRowFields ==
    ASSUME NEW r \in Row
    PROVE  /\ \A t : LET q == ClaimedRow(r, t) IN
                /\ q.hash = r.hash /\ q.source = r.source
                /\ q.claim = t /\ q.status = "parsing"
           /\ \A t, text : LET q == IndexedRow(r, t, text) IN
                /\ q.hash = text /\ q.source = r.source
                /\ q.claim = None /\ q.status = "indexed"
                /\ q.chunks \in {t, None}
           /\ \A retryable : LET q == FailedRow(r, retryable) IN
                /\ q.hash = r.hash /\ q.source = r.source
                /\ q.claim = None /\ q.status /= "indexed"
           /\ LET q == ReapedRow(r) IN
                /\ q.hash = r.hash /\ q.source = r.source
                /\ q.claim = None /\ q.status /= "indexed"
           /\ LET q == RetriedRow(r) IN
                /\ q.hash = r.hash /\ q.source = r.source
                /\ q.claim = None /\ q.status /= "indexed"
BY DEF Row, ClaimedRow, IndexedRow, FailedRow, ReapedRow, RetriedRow

\* Flagging and retagging leave the content of a point and the pass that wrote it.
LEMMA FlaggedFields ==
    ASSUME NEW ps \in SUBSET Point, NEW m
    PROVE  /\ \A p \in Flagged(ps) : \E q \in ps : q.pass = p.pass /\ q.text = p.text
           /\ \A p \in Retagged(ps, m) : \E q \in ps : q.pass = p.pass /\ q.text = p.text
BY DEF Flagged, Retagged, Point

\* Nothing is indexed at first.
LEMMA InitLatest == Init => LatestInv
<1> SUFFICES ASSUME Init PROVE LatestInv
  OBVIOUS
<1>1. DeleteInv
  BY InitDelete
<1> QED BY <1>1, ConstantsAssumption
        DEF Init, LatestInv, FenceInv, SourceInv, PointsInv, NoRow, IdlePass, Writing, HasText

\* A row put back in the queue, or failed, from outside a pass: no pass is past
\* its fence on it, and its claim is gone.
LEMMA RequeueLatest ==
    ASSUME LatestInv, NEW d \in Docs, NEW r, lock[d] = None,
           row' = [row EXCEPT ![d] = r], UNCHANGED <<points, worker>>,
           r.hash = row[d].hash, r.source = row[d].source, r.claim = None, r.status /= "indexed",
           \A e \in Docs : history'[e].latest = history[e].latest
    PROVE  FenceInv' /\ SourceInv' /\ PointsInv'
BY ConstantsAssumption
   DEF LatestInv, DeleteInv, TypeInv, TypeOK, WellFormed, LockInv, FenceInv, SourceInv, PointsInv,
       Writing, HasText

\* Requests keep what the latest content rests on.
LEMMA LatestClient ==
    ASSUME LatestInv, NEW c \in Clients, ClientStep(c)
    PROVE  FenceInv' /\ SourceInv' /\ PointsInv'
<1> USE ConstantsAssumption
    DEF LatestInv, DeleteInv, TypeInv, TypeOK, WellFormed, LockInv, FenceInv, SourceInv, PointsInv,
        Writing, HasText
<1>1. ASSUME NEW d \in Docs, NEW s \in Sources, NEW m \in Metas, Send(c, d, s, m)
      PROVE  FenceInv' /\ SourceInv' /\ PointsInv'
  <2>1. \A e \in Docs : history'[e].latest = history[e].latest
    BY <1>1 DEF Send, History
  <2> QED BY <1>1, <2>1 DEF Send
<1>2. CASE SendCommit(c)
  <2> DEFINE d == client[c].doc
             s == client[c].source
             r == SentRow(row[d], s, client[c].meta)
  <2>1. /\ d \in Docs /\ lock[d] = None /\ row' = [row EXCEPT ![d] = r]
        /\ UNCHANGED <<points, worker, lock>>
    BY <1>2 DEF SendCommit, Unlocked
  <2>2. \A e \in Docs : history'[e].latest = IF e = d THEN s ELSE history[e].latest
    BY <1>2 DEF SendCommit
  <2>3. /\ r.source \in Texts => r.hash = r.source /\ r.source = s
        /\ r.claim /= None => r.claim = row[d].claim /\ r.source = row[d].source
        /\ r.status = "indexed" => row[d].status = "indexed" /\ r.hash = row[d].hash
        /\ r.chunks = row[d].chunks
    <3>1. row[d] \in Row /\ s \in Sources \cup {None} /\ client[c].meta \in Metas \cup {None}
      BY <2>1 DEF Request
    <3>2. row[d].source \in Texts => row[d].hash = row[d].source
      BY <2>1
    <3> HIDE DEF d, s
    <3> QED BY ONLY <3>1, <3>2, SentRowFields
  <2> HIDE DEF d, s, r
  <2>4. FenceInv'
    BY <2>1
  <2>5. SourceInv'
    BY <2>1, <2>2, <2>3
  <2>6. PointsInv'
    BY <2>1, <2>3
  <2> QED BY <2>4, <2>5, <2>6
<1>3. CASE Abort(c)
  BY <1>3 DEF Abort
<1>4. ASSUME NEW d \in Docs, Remove(c, d) PROVE FenceInv' /\ SourceInv' /\ PointsInv'
  <2>1. \A e \in Docs : \A p \in points'[e] : \E q \in points[e] : q.pass = p.pass /\ q.text = p.text
    <3>1. points' = [points EXCEPT ![d] = Flagged(points[d])] /\ points[d] \in SUBSET Point
      BY <1>4 DEF Remove
    <3>2. \A p \in Flagged(points[d]) : \E q \in points[d] : q.pass = p.pass /\ q.text = p.text
      BY <3>1, FlaggedFields
    <3> QED BY <3>1, <3>2
  <2> QED BY <1>4, <2>1 DEF Remove
<1>5. CASE RemoveCommit(c)
  <2>1. \A e \in Docs : /\ row'[e].hash = row[e].hash /\ row'[e].source = row[e].source
                        /\ row'[e].claim = row[e].claim /\ row'[e].status = row[e].status
                        /\ row'[e].chunks = row[e].chunks
    BY <1>5 DEF RemoveCommit, Row
  <2> QED BY <1>5, <2>1 DEF RemoveCommit
<1>6. CASE UpdateMetadata(c)
  <2> DEFINE d == client[c].doc
             m == client[c].meta
  <2>1. \A e \in Docs : \A p \in points'[e] : \E q \in points[e] : q.pass = p.pass /\ q.text = p.text
    <3>1. points' = [points EXCEPT ![d] = Retagged(points[d], m)] /\ points[d] \in SUBSET Point /\ d \in Docs
      BY <1>6 DEF UpdateMetadata
    <3> HIDE DEF d, m
    <3>2. \A p \in Retagged(points[d], m) : \E q \in points[d] : q.pass = p.pass /\ q.text = p.text
      BY ONLY <3>1, FlaggedFields
    <3> QED BY <3>1, <3>2
  <2> QED BY <1>6, <2>1 DEF UpdateMetadata
<1>7. CASE UpdateMetadataCommit(c)
  <2>1. \A e \in Docs : /\ row'[e].hash = row[e].hash /\ row'[e].source = row[e].source
                        /\ row'[e].claim = row[e].claim /\ row'[e].status = row[e].status
                        /\ row'[e].chunks = row[e].chunks
                        /\ history'[e].latest = history[e].latest
    BY <1>7 DEF UpdateMetadataCommit, Row, History
  <2> QED BY <1>7, <2>1 DEF UpdateMetadataCommit
<1>8. CASE Rollback(c)
  <2>1. \A e \in Docs : history'[e].latest = history[e].latest
    BY <1>8 DEF Rollback, History
  <2> QED BY <1>8, <2>1 DEF Rollback
<1>9. ASSUME NEW d \in Docs, NEW m \in Metas, Lookup(c, d, "retagging", m)
      PROVE  FenceInv' /\ SourceInv' /\ PointsInv'
  BY <1>9 DEF Lookup
<1>10. ASSUME NEW d \in Docs, Lookup(c, d, "retrying", None)
       PROVE  FenceInv' /\ SourceInv' /\ PointsInv'
  BY <1>10 DEF Lookup
<1>11. CASE Retry(c)
  <2> DEFINE d == client[c].doc
             r == RetriedRow(row[d])
  <2>1. d \in Docs /\ row[d] \in Row
    BY <1>11 DEF Retry
  <2>2. CASE row[d].status = "failed"
    <3>1. \A e \in Docs : history'[e].latest = history[e].latest
      <4>1. history' = [history EXCEPT ![d] = [history[d] EXCEPT !.tries = 0, !.abandoned = 0]]
        BY <1>11, <2>2 DEF Retry
      <4>2. history \in [Docs -> History]
        OBVIOUS
      <4> HIDE DEF d
      <4> QED BY ONLY <2>1, <4>1, <4>2 DEF History
    <3>2. /\ lock[d] = None /\ row' = [row EXCEPT ![d] = r] /\ UNCHANGED <<points, worker>>
      BY <1>11, <2>2 DEF Retry, Unlocked
    <3>3. r.hash = row[d].hash /\ r.source = row[d].source /\ r.claim = None /\ r.status /= "indexed"
      BY ONLY <2>1, QueueRowFields
    <3>4. LatestInv
      OBVIOUS
    <3> HIDE DEF r, d, LatestInv, FenceInv, SourceInv, PointsInv
    <3> QED BY ONLY <2>1, <3>1, <3>2, <3>3, <3>4, RequeueLatest
  <2>3. CASE row[d].status /= "failed"
    BY <1>11, <2>3 DEF Retry
  <2> QED BY <2>2, <2>3
<1> QED
  BY <1>1, <1>2, <1>3, <1>4, <1>5, <1>6, <1>7, <1>8, <1>9, <1>10, <1>11 DEF ClientStep

\* A pass moves on without a write of its own.
LEMMA MovedPass ==
    ASSUME LatestInv, NEW w \in Workers, UNCHANGED <<row, points, history>>,
           \/ /\ worker[w].pc = "parsed"
              /\ worker' = [worker EXCEPT ![w] = [@ EXCEPT !.pc = "embedded"]]
           \/ /\ worker[w].pc = "embedded"
              /\ worker' = [worker EXCEPT ![w] = [@ EXCEPT !.pc = "upserted"]]
              /\ row[worker[w].doc].claim = worker[w].claim
              /\ row[worker[w].doc].status = "parsing"
    PROVE  FenceInv' /\ SourceInv' /\ PointsInv'
<1> USE DEF LatestInv, DeleteInv, TypeInv, TypeOK, FenceInv, SourceInv, PointsInv, Writing, HasText
<1>1. /\ \A v \in Workers : /\ worker'[v].doc = worker[v].doc /\ worker'[v].claim = worker[v].claim
                            /\ worker'[v].source = worker[v].source /\ worker'[v].text = worker[v].text
      /\ \A v \in Workers \ {w} : worker'[v] = worker[v]
      /\ \/ worker[w].pc = "parsed" /\ worker'[w].pc = "embedded"
         \/ /\ worker[w].pc = "embedded" /\ worker'[w].pc = "upserted"
            /\ row[worker[w].doc].claim = worker[w].claim
            /\ row[worker[w].doc].status = "parsing"
  BY DEF Pass
<1>2. FenceInv'
  BY <1>1
<1>3. SourceInv'
  BY <1>1
<1>4. PointsInv'
  BY <1>1
<1> QED BY <1>2, <1>3, <1>4

\* Passes keep it: the fence stops one that lost its claim.
LEMMA LatestWorker ==
    ASSUME LatestInv, NEW w \in Workers, WorkerStep(w)
    PROVE  FenceInv' /\ SourceInv' /\ PointsInv'
<1> USE ConstantsAssumption
    DEF LatestInv, DeleteInv, TypeInv, TypeOK, WellFormed, LockInv, FenceInv, SourceInv, PointsInv,
        Writing, HasText
<1>1. ASSUME NEW d \in Docs, Claim(w, d) PROVE FenceInv' /\ SourceInv' /\ PointsInv'
  <2> DEFINE t == FreshToken
             r == ClaimedRow(row[d], t)
  <2>1. /\ lock[d] = None /\ row' = [row EXCEPT ![d] = r]
        /\ worker' = [worker EXCEPT ![w] = [pc |-> "claimed", doc |-> d, claim |-> t,
                                            source |-> row[d].source, meta |-> row[d].meta,
                                            text |-> None]]
        /\ UNCHANGED <<points, lock>>
    BY <1>1 DEF Claim, Unlocked
  <2>2. \A e \in Docs : history'[e].latest = history[e].latest
    BY <1>1 DEF Claim, ClaimedHistory, History
  <2>3. /\ r.hash = row[d].hash /\ r.source = row[d].source
        /\ r.claim = t /\ r.status = "parsing"
    BY QueueRowFields
  <2>4. /\ t \in Tokens
        /\ \A e \in Docs : row[e].claim /= t
        /\ \A v \in Workers : worker[v].claim /= t
        /\ \A e \in Docs : \A p \in points[e] : p.pass /= t
    BY <1>1, FreshTokenIsFresh DEF Claim, InUse
  <2> HIDE DEF t, r
  <2>5. FenceInv'
    BY <2>1, <2>4
  <2>6. SourceInv'
    BY <2>1, <2>2, <2>3, <2>4
  <2>7. PointsInv'
    BY <2>1, <2>3, <2>4
  <2> QED BY <2>5, <2>6, <2>7
<1>2. CASE Parse(w)
  <2> DEFINE Texts1 == Readable(worker[w].doc, worker[w].source)
  <2>0. \E text \in Texts1 :
           worker' = [worker EXCEPT ![w] = [@ EXCEPT !.pc = "parsed", !.text = text]]
    BY ONLY <1>2 DEF Parse
  <2> HIDE DEF Texts1
  <2> PICK text \in Texts1 :
           worker' = [worker EXCEPT ![w] = [@ EXCEPT !.pc = "parsed", !.text = text]]
    BY <2>0
  <2>1. worker[w].pc = "claimed" /\ UNCHANGED <<row, points, lock, history>>
    BY <1>2 DEF Parse
  <2>2. worker[w].source \in Texts => text = worker[w].source
    BY DEF Readable, Texts1
  <2>3. /\ \A v \in Workers : worker'[v].doc = worker[v].doc /\ worker'[v].claim = worker[v].claim
                              /\ worker'[v].source = worker[v].source
        /\ \A v \in Workers \ {w} : worker'[v] = worker[v]
        /\ worker'[w].pc = "parsed" /\ worker'[w].text = text
    BY DEF Pass
  <2>4. FenceInv'
    BY <2>1, <2>3
  <2>5. SourceInv'
    BY <2>1, <2>2, <2>3
  <2>6. PointsInv'
    BY <2>1, <2>3
  <2> QED BY <2>4, <2>5, <2>6
<1>3. CASE Find(w)
  <2>1. CASE worker' = [worker EXCEPT ![w] = IdlePass]
    BY <1>3, <2>1 DEF Find, IdlePass
  <2>2. CASE worker' = [worker EXCEPT ![w] = [@ EXCEPT !.pc = "embedded"]]
    <3>1. worker[w].pc = "parsed" /\ UNCHANGED <<row, points, lock, history>>
      BY <1>3 DEF Find
    <3> QED BY <2>2, <3>1, MovedPass
  <2> QED BY <1>3, <2>1, <2>2 DEF Find
<1>4. CASE Upsert(w)
  <2>1. CASE Fenced(w)
    <3>1. /\ worker[w].pc = "embedded" /\ UNCHANGED <<row, points, history>>
          /\ worker' = [worker EXCEPT ![w] = [@ EXCEPT !.pc = "upserted"]]
          /\ row[worker[w].doc].claim = worker[w].claim /\ row[worker[w].doc].status = "parsing"
      BY <1>4, <2>1 DEF Upsert, Fenced
    <3> QED BY <3>1, MovedPass
  <2>2. CASE ~Fenced(w)
    <3>1. /\ UNCHANGED <<row, points, history>>
          /\ worker' = [worker EXCEPT ![w] = IdlePass]
      BY <1>4, <2>2 DEF Upsert
    <3> QED BY <3>1 DEF IdlePass
  <2> QED BY <2>1, <2>2
<1>5. CASE UpsertPoints(w)
  <2> DEFINE d == worker[w].doc
  <2>1. /\ worker[w].pc = "upserted" /\ d \in Docs
        /\ worker' = [worker EXCEPT ![w] = [@ EXCEPT !.pc = "written"]]
        /\ points' = [points EXCEPT ![d] = @ \cup NewPoints(w)]
        /\ UNCHANGED <<row, lock, history>>
    BY <1>5 DEF UpsertPoints
  <2>2. \A p \in NewPoints(w) : p.pass = worker[w].claim /\ p.text = worker[w].text
    BY DEF NewPoints
  <2> HIDE DEF d
  <2>3. FenceInv' /\ SourceInv'
    BY <2>1
  <2>4. PointsInv'
    BY <2>1, <2>2 DEF d
  <2> QED BY <2>3, <2>4
<1>6. CASE Sweep(w)
  <2>1. \A e \in Docs : points'[e] \subseteq points[e]
    BY <1>6 DEF Sweep
  <2>2. /\ worker[w].pc = "written"
        /\ worker' = [worker EXCEPT ![w] = [@ EXCEPT !.pc = "swept"]]
        /\ UNCHANGED <<row, lock, history>>
    BY <1>6 DEF Sweep
  <2> QED BY <2>1, <2>2
<1>7. CASE Commit(w)
  <2> DEFINE d == worker[w].doc
             r == IndexedRow(row[d], worker[w].claim, worker[w].text)
  <2>1. /\ worker[w].pc = "swept" /\ d \in Docs /\ lock[d] = w
        /\ row' = [row EXCEPT ![d] = r]
        /\ worker' = [worker EXCEPT ![w] = IdlePass]
        /\ UNCHANGED points
    BY <1>7 DEF Commit
  <2>2. \A e \in Docs : history'[e].latest = history[e].latest
    BY <1>7 DEF Commit, History
  <2>3. /\ r.hash = worker[w].text /\ r.source = row[d].source /\ r.claim = None
        /\ r.status = "indexed" /\ r.chunks \in {worker[w].claim, None}
    BY <2>1, QueueRowFields
  <2>4. /\ worker[w].source = row[d].source
        /\ worker[w].source \in Texts => worker[w].text = worker[w].source
        /\ \A p \in points[d] : p.pass = worker[w].claim => p.text = worker[w].text
        /\ \A p \in points[d] : p.pass /= None
    BY <2>1 DEF Point
  <2> HIDE DEF d, r
  <2>5. FenceInv'
    BY <2>1 DEF IdlePass
  <2>6. SourceInv'
    BY <2>1, <2>2, <2>3, <2>4 DEF IdlePass
  <2>7. PointsInv'
    BY <2>1, <2>3, <2>4 DEF IdlePass
  <2> QED BY <2>5, <2>6, <2>7
<1>8. CASE Throw(w)
  BY <1>8 DEF Throw, WorkerPCs
<1>9. ASSUME NEW retryable \in BOOLEAN, RecordFailure(w, retryable)
      PROVE  FenceInv' /\ SourceInv' /\ PointsInv'
  <2> DEFINE d == worker[w].doc
             r == FailedRow(row[d], retryable)
  <2>1. /\ d \in Docs /\ lock[d] = None
        /\ row' = row \/ row' = [row EXCEPT ![d] = r]
        /\ worker' = [worker EXCEPT ![w] = IdlePass]
        /\ UNCHANGED <<points, lock, history>>
    BY <1>9 DEF RecordFailure, Unlocked
  <2>2. /\ r.hash = row[d].hash /\ r.source = row[d].source
        /\ r.claim = None /\ r.status /= "indexed"
    BY <2>1, QueueRowFields
  <2> HIDE DEF d, r
  <2>3. CASE row' = row
    BY <2>1, <2>3 DEF IdlePass
  <2>4. CASE row' = [row EXCEPT ![d] = r]
    BY <2>1, <2>2, <2>4 DEF IdlePass
  <2> QED BY <2>1, <2>3, <2>4
<1>10. CASE Crash(w)
  BY <1>10 DEF Crash, IdlePass
<1> QED
  BY <1>1, <1>2, <1>3, <1>4, <1>5, <1>6, <1>7, <1>8, <1>9, <1>10 DEF WorkerStep

\* Collectors keep it.
LEMMA LatestCollector ==
    ASSUME LatestInv, NEW k \in Collectors, CollectorStep(k)
    PROVE  FenceInv' /\ SourceInv' /\ PointsInv'
<1> USE ConstantsAssumption
    DEF LatestInv, DeleteInv, TypeInv, TypeOK, WellFormed, LockInv, FenceInv, SourceInv, PointsInv
<1>1. ASSUME NEW d \in Docs, CollectClaim(k, d) PROVE FenceInv' /\ SourceInv' /\ PointsInv'
  BY <1>1 DEF CollectClaim
<1>2. CASE StillDeleted(k)
  <2>1. \A e \in Docs : history'[e].latest = history[e].latest
    <3>1. CASE row[collector[k].doc].deleted
      BY <1>2, <3>1 DEF StillDeleted, History
    <3>2. CASE ~row[collector[k].doc].deleted
      BY <1>2, <3>2 DEF StillDeleted
    <3> QED BY <3>1, <3>2
  <2> QED BY <1>2, <2>1 DEF StillDeleted
<1>3. CASE Purge(k)
  BY <1>3 DEF Purge
<1>4. CASE RemoveObject(k)
  BY <1>4 DEF RemoveObject
<1>5. CASE MarkPurged(k)
  <2>1. \A e \in Docs : /\ row'[e].hash = row[e].hash /\ row'[e].source = row[e].source
                        /\ row'[e].claim = row[e].claim /\ row'[e].status = row[e].status
                        /\ row'[e].chunks = row[e].chunks
    BY <1>5 DEF MarkPurged, Row
  <2> QED BY <1>5, <2>1 DEF MarkPurged
<1>6. CASE CollectFail(k)
  BY <1>6 DEF CollectFail
<1> QED
  BY <1>1, <1>2, <1>3, <1>4, <1>5, <1>6 DEF CollectorStep

\* Every step keeps it.
LEMMA NextLatest == LatestInv /\ [Next]_vars => LatestInv'
<1> SUFFICES ASSUME LatestInv, [Next]_vars PROVE FenceInv' /\ SourceInv' /\ PointsInv'
  BY NextDelete DEF LatestInv
<1>0. row \in [Docs -> Row] /\ history \in [Docs -> History]
  BY DEF LatestInv, DeleteInv, TypeInv, TypeOK
<1>1. ASSUME NEW d \in Docs, Reap(d) PROVE FenceInv' /\ SourceInv' /\ PointsInv'
  <2>1. \A e \in Docs : history'[e].latest = history[e].latest
    BY <1>0, <1>1 DEF Reap, History
  <2> DEFINE r == ReapedRow(row[d])
  <2>2. /\ lock[d] = None /\ row' = [row EXCEPT ![d] = r] /\ UNCHANGED <<points, worker>>
    BY <1>1 DEF Reap, Unlocked
  <2>3. r.hash = row[d].hash /\ r.source = row[d].source /\ r.claim = None /\ r.status /= "indexed"
    BY <1>0, QueueRowFields
  <2> HIDE DEF r
  <2> QED BY <2>1, <2>2, <2>3, RequeueLatest
<1>2. CASE UNCHANGED vars
  BY <1>2 DEF vars, LatestInv, FenceInv, SourceInv, PointsInv
<1> QED
  BY <1>1, <1>2, LatestClient, LatestWorker, LatestCollector DEF Next

\* An indexed document answers with the content its row names, and a row that
\* holds its content answers with the last one accepted: a pass that read an
\* older source loses its claim before it can write.
THEOREM LatestIndexed == Spec => []IndexedIsLatest
<1>1. LatestInv => IndexedIsLatest
  BY ConstantsAssumption
     DEF LatestInv, SourceInv, PointsInv, IndexedIsLatest, Settled, Answers
<1> QED BY <1>1, InitLatest, NextLatest, PTL DEF Spec

-----------------------------------------------------------------------------
(* What the remaining properties rest on *)

\* A collector that has seen the document deleted and has not marked it yet.
PastCheck == {"checked", "purged", "removed"}

\* The tries of a request are counted by the attempts of the row, and a row
\* that may be claimed has an attempt left.
TriesInv ==
    \A d \in Docs :
        /\ history[d].tries <= MaxAttempts
        /\ history[d].tries <= row[d].attempts
        /\ row[d].status = "pending" => row[d].attempts < MaxAttempts

\* While no send raced it, a document stays deleted under a collector past its
\* check, so that what the collector purged stays purged; only a deleted row is
\* marked.
CollectInv ==
    /\ \A d \in Docs : row[d].purged => row[d].deleted
    /\ \A k \in Collectors :
          collector[k].pc \in PastCheck /\ ~history[collector[k].doc].raced
          => row[collector[k].doc].deleted
    /\ \A k \in Collectors :
          collector[k].pc \in {"purged", "removed"} /\ ~history[collector[k].doc].raced
          => points[collector[k].doc] = {}
    /\ PurgedIsGone

\* A row names the bucket for content only; a send that overlaps a collector
\* past its check is on record; otherwise the bytes a send stored, and those a
\* row names, are there.
ObjectInv ==
    /\ \A d \in Docs : row[d].source = Key => ObjectStorage /\ row[d].hash \in Texts
    /\ \A c \in Clients : client[c].pc = "sending" => client[c].source \in Sources
    /\ \A c \in Clients, k \in Collectors :
          client[c].pc = "sending" /\ collector[k].pc \in PastCheck
          /\ client[c].doc = collector[k].doc
          => history[client[c].doc].raced
    /\ \A c \in Clients :
          client[c].pc = "sending" /\ Ref(client[c].source) = Key
          /\ ~history[client[c].doc].raced
          => object[client[c].doc] /= None
    /\ \A d \in Docs :
          row[d].source = Key /\ ~row[d].deleted /\ ~history[d].raced => object[d] /= None

\* A request is about to flag, or has flagged, the points of the document; one
\* has retagged them.
BeingRemoved(d) == \E c \in Clients : client[c].pc = "removing" /\ client[c].doc = d
BeingPatched(d) == \E c \in Clients : client[c].pc = "patching" /\ client[c].doc = d

\* The points a pass wrote are still there to be committed, and those of an
\* indexed row to be found.
AnswerInv ==
    /\ \A w \in Workers :
          worker[w].pc \in {"written", "swept"} /\ worker[w].text \notin Empty
          /\ ~history[worker[w].doc].raced
          => \E p \in points[worker[w].doc] : p.pass = worker[w].claim /\ ~p.deleted
    /\ \A d \in Docs :
          /\ row[d].status = "indexed" /\ ~row[d].deleted /\ row[d].chunks /= None
          /\ "removing" \notin history[d].torn /\ ~history[d].raced /\ ~BeingRemoved(d)
          => \E p \in points[d] : p.pass = row[d].chunks /\ ~p.deleted

\* The metadata a pass read is the row's while it holds the claim, unless a
\* retag came in between; the points carry it.
MetaInv ==
    /\ \A w \in Workers :
          /\ worker[w].pc /= "idle" /\ worker[w].claim = row[worker[w].doc].claim
          /\ ~history[worker[w].doc].retagged
          => worker[w].meta = row[worker[w].doc].meta
    /\ \A w \in Workers : worker[w].pc \in {"written", "swept"} =>
          \A p \in points[worker[w].doc] : p.pass = worker[w].claim => p.meta = worker[w].meta
    /\ \A c \in Clients : client[c].pc = "patching" =>
          \A p \in points[client[c].doc] : p.meta = client[c].meta
    /\ \A d \in Docs :
          /\ row[d].status = "indexed" /\ "patching" \notin history[d].torn
          /\ ~history[d].retagged /\ ~BeingPatched(d)
          => \A p \in points[d] : p.pass = row[d].chunks => p.meta = row[d].meta

\* The points a pass is writing are not yet the row's chunks, and a row that
\* exists names a source.
ChunkInv ==
    /\ \A w \in Workers, d \in Docs : worker[w].pc /= "idle" => row[d].chunks /= worker[w].claim
    /\ \A d \in Docs : row[d].status = "absent" => row[d].hash = None
    /\ \A d \in Docs : row[d].status /= "absent" => row[d].source /= None

\* What the writes of the queue leave alone in a row.
LEMMA QueueRowKeeps ==
    ASSUME NEW r \in Row
    PROVE  /\ \A t : LET q == ClaimedRow(r, t) IN
                /\ q.meta = r.meta /\ q.chunks = r.chunks /\ q.purged = r.purged
                /\ q.attempts = r.attempts + 1
           /\ \A t, text : LET q == IndexedRow(r, t, text) IN
                /\ q.meta = r.meta /\ q.purged = r.purged /\ q.attempts = 0
                /\ q.chunks = IF text \in Empty THEN None ELSE t
           /\ \A retryable : LET q == FailedRow(r, retryable) IN
                /\ q.meta = r.meta /\ q.chunks = r.chunks /\ q.purged = r.purged
                /\ q.attempts = r.attempts /\ q.status \in {"pending", "failed"}
                /\ q.status = "pending" => r.attempts < MaxAttempts
           /\ LET q == ReapedRow(r) IN
                /\ q.meta = r.meta /\ q.chunks = r.chunks /\ q.purged = r.purged
                /\ q.attempts = r.attempts + 1 /\ q.status \in {"pending", "failed"}
                /\ q.status = "pending" => ~(r.attempts + 1 >= MaxAttempts)
           /\ LET q == RetriedRow(r) IN
                /\ q.meta = r.meta /\ q.chunks = r.chunks /\ q.purged = r.purged
                /\ q.attempts = 0 /\ q.status = "pending"
BY DEF Row, ClaimedRow, IndexedRow, FailedRow, ReapedRow, RetriedRow

\* A send either puts the row back in the queue, or finds the content and the
\* metadata there already and leaves everything as it is.
LEMMA SentRowCases ==
    ASSUME NEW r \in Row, NEW s, NEW m
    PROVE  LET q == SentRow(r, s, m) IN
           /\ q.hash = s /\ q.meta = m /\ ~q.deleted /\ q.chunks = r.chunks
           /\ q.source = IF r.hash /= s THEN Ref(s) ELSE r.source
           /\ Requeue(r, s, m) => /\ q.status = "pending" /\ q.claim = None
                                  /\ q.attempts = 0 /\ ~q.purged
           /\ ~Requeue(r, s, m) => /\ q.status = r.status /\ q.claim = r.claim
                                   /\ q.attempts = r.attempts /\ q.purged = r.purged
                                   /\ r.hash = s /\ r.meta = m /\ ~r.deleted
BY DEF Row, SentRow, Requeue

\* What a request, a pass and the reaper record about the document.
LEMMA HistoryKeeps ==
    ASSUME NEW h \in History
    PROVE  /\ LET g == [h EXCEPT !.tries = 0, !.abandoned = 0] IN
                /\ g.tries = 0 /\ g.raced = h.raced /\ g.torn = h.torn /\ g.retagged = h.retagged
           /\ LET g == [h EXCEPT !.torn = {}, !.tries = 0, !.abandoned = 0] IN
                /\ g.tries = 0 /\ g.raced = h.raced /\ g.torn = {} /\ g.retagged = h.retagged
BY DEF History

\* What a claim does to the history of a document.
LEMMA ClaimedHistoryKeeps ==
    ASSUME NEW h \in History, NEW b \in BOOLEAN
    PROVE  LET g == ClaimedHistory(h, b) IN
           /\ g.tries = h.tries + 1 /\ g.raced = b /\ g.torn = h.torn /\ g.retagged = FALSE
BY DEF History, ClaimedHistory

\* Apart from a send and a retry, a request changes no more of a row than its
\* tombstone and its metadata, and of the document's history no counter.
LEMMA ClientKeeps ==
    ASSUME TypeInv, NEW c \in Clients, ClientStep(c), ~SendCommit(c), ~Retry(c)
    PROVE  /\ \A e \in Docs :
                /\ row'[e].status = row[e].status /\ row'[e].hash = row[e].hash
                /\ row'[e].source = row[e].source /\ row'[e].claim = row[e].claim
                /\ row'[e].attempts = row[e].attempts /\ row'[e].purged = row[e].purged
                /\ row'[e].chunks = row[e].chunks
           /\ \A e \in Docs : history'[e].tries = history[e].tries
<1>0. row \in [Docs -> Row] /\ history \in [Docs -> History]
  BY DEF TypeInv, TypeOK
<1> DEFINE Kept == /\ \A e \in Docs :
                        /\ row'[e].status = row[e].status /\ row'[e].hash = row[e].hash
                        /\ row'[e].source = row[e].source /\ row'[e].claim = row[e].claim
                        /\ row'[e].attempts = row[e].attempts /\ row'[e].purged = row[e].purged
                        /\ row'[e].chunks = row[e].chunks
                   /\ \A e \in Docs : history'[e].tries = history[e].tries
<1>1. CASE UNCHANGED <<row, history>>
  BY <1>1
<1>2. CASE RemoveCommit(c)
  BY <1>0, <1>2 DEF RemoveCommit, Row
<1>3. CASE UpdateMetadataCommit(c)
  BY <1>0, <1>3 DEF UpdateMetadataCommit, Row, History
<1>4. CASE Rollback(c)
  BY <1>0, <1>4 DEF Rollback, History
<1>5. ASSUME NEW d \in Docs, NEW s \in Sources, NEW m \in Metas, Send(c, d, s, m) PROVE Kept
  BY <1>0, <1>5 DEF Send, History
<1>6. ASSUME NEW d \in Docs, Remove(c, d) PROVE Kept
  BY <1>1, <1>6 DEF Remove
<1>7. ASSUME NEW d \in Docs, NEW m \in Metas, Lookup(c, d, "retagging", m) PROVE Kept
  BY <1>1, <1>7 DEF Lookup
<1>8. ASSUME NEW d \in Docs, Lookup(c, d, "retrying", None) PROVE Kept
  BY <1>1, <1>8 DEF Lookup
<1>9. CASE Abort(c) \/ UpdateMetadata(c)
  BY <1>1, <1>9 DEF Abort, UpdateMetadata
<1> HIDE DEF Kept
<1>10. Kept
  BY <1>2, <1>3, <1>4, <1>5, <1>6, <1>7, <1>8, <1>9 DEF ClientStep, Kept
<1> QED BY <1>10 DEF Kept

-----------------------------------------------------------------------------
(* What single steps change, field by field *)

\* What POST .../retry does to the rows and to their history.
LEMMA RetryEffect ==
    ASSUME TypeInv, NEW c \in Clients, Retry(c)
    PROVE  \A e \in Docs :
             /\ history'[e].raced = history[e].raced /\ history'[e].torn = history[e].torn
             /\ history'[e].retagged = history[e].retagged
             /\ row'[e].purged = row[e].purged /\ row'[e].deleted = row[e].deleted
             /\ row'[e].source = row[e].source /\ row'[e].hash = row[e].hash
             /\ row'[e].chunks = row[e].chunks /\ row'[e].meta = row[e].meta
             /\ \/ row'[e] = row[e]
                \/ /\ e = client[c].doc /\ lock[e] = None
                   /\ row[e].status = "failed" /\ row'[e].status = "pending" /\ row'[e].claim = None
<1>0. /\ row \in [Docs -> Row] /\ history \in [Docs -> History]
  BY DEF TypeInv, TypeOK
<1> DEFINE d == client[c].doc
           r == RetriedRow(row[d])
           h == [history[d] EXCEPT !.tries = 0, !.abandoned = 0]
<1>1. /\ d \in Docs /\ lock[d] = None
      /\ \/ /\ row[d].status = "failed"
            /\ row' = [row EXCEPT ![d] = r] /\ history' = [history EXCEPT ![d] = h]
         \/ UNCHANGED <<row, history>>
  BY DEF Retry, TypeInv, WellFormed, Unlocked
<1>2. /\ h.raced = history[d].raced /\ h.torn = history[d].torn /\ h.retagged = history[d].retagged
  BY <1>0, <1>1, HistoryKeeps
<1>3. /\ r.purged = row[d].purged /\ r.meta = row[d].meta /\ r.chunks = row[d].chunks
      /\ r.status = "pending"
  BY <1>0, <1>1, QueueRowKeeps
<1>4. r.source = row[d].source /\ r.hash = row[d].hash /\ r.claim = None
  BY <1>0, <1>1, QueueRowFields
<1>5. r.deleted = row[d].deleted
  BY <1>0, <1>1, RowDeleted
<1> HIDE DEF d, r, h
<1>6. CASE UNCHANGED <<row, history>>
  BY <1>6
<1>7. CASE /\ row[d].status = "failed"
           /\ row' = [row EXCEPT ![d] = r] /\ history' = [history EXCEPT ![d] = h]
  BY <1>0, <1>1, <1>2, <1>3, <1>4, <1>5, <1>7 DEF d
<1> QED BY <1>1, <1>6, <1>7

\* What a claim does to the rows and to their history.
LEMMA ClaimEffect ==
    ASSUME TypeInv, NEW w \in Workers, NEW d \in Docs, Claim(w, d)
    PROVE  /\ \A e \in Docs :
                /\ e /= d => row'[e] = row[e] /\ history'[e].raced = history[e].raced
                /\ e /= d => history'[e].retagged = history[e].retagged
                /\ history'[e].torn = history[e].torn
                /\ row'[e].purged = row[e].purged /\ row'[e].deleted = row[e].deleted
                /\ row'[e].source = row[e].source /\ row'[e].hash = row[e].hash
                /\ row'[e].chunks = row[e].chunks /\ row'[e].meta = row[e].meta
           /\ row'[d].status = "parsing" /\ row'[d].claim = FreshToken
           /\ history'[d].retagged = FALSE
           /\ history'[d].raced => history[d].raced
           /\ history[d].raced /\ BeingCollected(d) => history'[d].raced
           /\ history[d].raced /\ BytesMissing(d) => history'[d].raced
<1>0. /\ row \in [Docs -> Row] /\ history \in [Docs -> History]
  BY DEF TypeInv, TypeOK
<1> DEFINE r == ClaimedRow(row[d], FreshToken)
           b == StillRaced(d)
           h == ClaimedHistory(history[d], b)
<1>1. row' = [row EXCEPT ![d] = r] /\ history' = [history EXCEPT ![d] = h]
  BY DEF Claim
<1>2. /\ b \in BOOLEAN
      /\ b => history[d].raced
      /\ history[d].raced /\ BeingCollected(d) => b
      /\ history[d].raced /\ BytesMissing(d) => b
  BY DEF StillRaced
<1> HIDE DEF b
<1>3. h.torn = history[d].torn /\ h.raced = b /\ h.retagged = FALSE
  BY <1>0, <1>2, ClaimedHistoryKeeps
<1>4. r.purged = row[d].purged /\ r.meta = row[d].meta /\ r.chunks = row[d].chunks
  BY <1>0, QueueRowKeeps
<1>5. /\ r.source = row[d].source /\ r.hash = row[d].hash /\ r.claim = FreshToken
      /\ r.status = "parsing"
  BY <1>0, QueueRowFields
<1>6. r.deleted = row[d].deleted
  BY <1>0, RowDeleted
<1> HIDE DEF r, h
<1>7. history'[d] = h /\ row'[d] = r /\ \A e \in Docs : e /= d => row'[e] = row[e] /\ history'[e] = history[e]
  BY <1>0, <1>1
<1> QED BY <1>2, <1>3, <1>4, <1>5, <1>6, <1>7

\* What the commit of a pass does to them.
LEMMA CommitEffect ==
    ASSUME TypeInv, NEW w \in Workers, Commit(w)
    PROVE  LET d == worker[w].doc IN
           /\ \A e \in Docs :
                /\ history'[e].raced = history[e].raced
                /\ history'[e].retagged = history[e].retagged
                /\ row'[e].purged = row[e].purged /\ row'[e].deleted = row[e].deleted
                /\ row'[e].source = row[e].source /\ row'[e].meta = row[e].meta
                /\ e /= d => row'[e] = row[e] /\ history'[e].torn = history[e].torn
           /\ row'[d].status = "indexed" /\ row'[d].claim = None /\ row'[d].hash = worker[w].text
           /\ row'[d].chunks = IF worker[w].text \in Empty THEN None ELSE worker[w].claim
           /\ history'[d].torn = {}
<1>0. /\ row \in [Docs -> Row] /\ history \in [Docs -> History]
  BY DEF TypeInv, TypeOK
<1> DEFINE d == worker[w].doc
           r == IndexedRow(row[d], worker[w].claim, worker[w].text)
           h == [history[d] EXCEPT !.torn = {}, !.tries = 0, !.abandoned = 0]
<1>1. d \in Docs /\ row' = [row EXCEPT ![d] = r] /\ history' = [history EXCEPT ![d] = h]
  BY DEF Commit, TypeInv, WellFormed
<1>2. h.raced = history[d].raced /\ h.torn = {} /\ h.retagged = history[d].retagged
  BY <1>0, <1>1, HistoryKeeps
<1>3. /\ r.purged = row[d].purged /\ r.meta = row[d].meta
      /\ r.chunks = IF worker[w].text \in Empty THEN None ELSE worker[w].claim
  BY <1>0, <1>1, QueueRowKeeps
<1>4. /\ r.source = row[d].source /\ r.hash = worker[w].text /\ r.claim = None
      /\ r.status = "indexed"
  BY <1>0, <1>1, QueueRowFields
<1>5. r.deleted = row[d].deleted
  BY <1>0, <1>1, RowDeleted
<1> HIDE DEF d, r, h
<1>6. history'[d] = h /\ row'[d] = r /\ \A e \in Docs : e /= d => row'[e] = row[e] /\ history'[e] = history[e]
  BY <1>0, <1>1
<1> QED BY <1>1, <1>2, <1>3, <1>4, <1>5, <1>6 DEF d

\* What the failure of a pass does to them.
LEMMA RecordFailureEffect ==
    ASSUME TypeInv, NEW w \in Workers, NEW retryable \in BOOLEAN, RecordFailure(w, retryable)
    PROVE  \A e \in Docs :
             /\ row'[e].purged = row[e].purged /\ row'[e].deleted = row[e].deleted
             /\ row'[e].source = row[e].source /\ row'[e].hash = row[e].hash
             /\ row'[e].chunks = row[e].chunks /\ row'[e].meta = row[e].meta
             /\ \/ row'[e] = row[e]
                \/ /\ row[e].status = "parsing" /\ row'[e].status \in {"pending", "failed"}
                   /\ row'[e].claim = None
<1>0. row \in [Docs -> Row]
  BY DEF TypeInv, TypeOK
<1> DEFINE d == worker[w].doc
           r == FailedRow(row[d], retryable)
<1>1. /\ d \in Docs
      /\ row' = row \/ (row[d].status = "parsing" /\ row' = [row EXCEPT ![d] = r])
  BY DEF RecordFailure, TypeInv, WellFormed, Fenced
<1>2. /\ r.purged = row[d].purged /\ r.meta = row[d].meta /\ r.chunks = row[d].chunks
      /\ r.status \in {"pending", "failed"}
  BY <1>0, <1>1, QueueRowKeeps
<1>3. r.source = row[d].source /\ r.hash = row[d].hash /\ r.claim = None
  BY <1>0, <1>1, QueueRowFields
<1>4. r.deleted = row[d].deleted
  BY <1>0, <1>1, RowDeleted
<1> HIDE DEF d, r
<1>5. CASE row' = row
  BY <1>5
<1>6. CASE row[d].status = "parsing" /\ row' = [row EXCEPT ![d] = r]
  BY <1>0, <1>1, <1>2, <1>3, <1>4, <1>6
<1> QED BY <1>1, <1>5, <1>6

\* What the lease reaper does to them.
LEMMA ReapEffect ==
    ASSUME TypeInv, NEW d \in Docs, Reap(d)
    PROVE  \A e \in Docs :
             /\ history'[e].raced = history[e].raced /\ history'[e].torn = history[e].torn
             /\ history'[e].retagged = history[e].retagged
             /\ row'[e].purged = row[e].purged /\ row'[e].deleted = row[e].deleted
             /\ row'[e].source = row[e].source /\ row'[e].hash = row[e].hash
             /\ row'[e].chunks = row[e].chunks /\ row'[e].meta = row[e].meta
             /\ \/ row'[e] = row[e]
                \/ /\ row[e].status = "parsing" /\ row'[e].status \in {"pending", "failed"}
                   /\ row'[e].claim = None
<1>0. row \in [Docs -> Row] /\ history \in [Docs -> History]
  BY DEF TypeInv, TypeOK
<1> DEFINE r == ReapedRow(row[d])
<1>1. row' = [row EXCEPT ![d] = r] /\ row[d].status = "parsing"
  BY DEF Reap
<1>2. /\ r.purged = row[d].purged /\ r.meta = row[d].meta /\ r.chunks = row[d].chunks
      /\ r.status \in {"pending", "failed"}
  BY <1>0, QueueRowKeeps
<1>3. r.source = row[d].source /\ r.hash = row[d].hash /\ r.claim = None
  BY <1>0, QueueRowFields
<1>4. r.deleted = row[d].deleted
  BY <1>0, RowDeleted
<1>5. \A e \in Docs :
         /\ history'[e].raced = history[e].raced /\ history'[e].torn = history[e].torn
         /\ history'[e].retagged = history[e].retagged
  BY <1>0 DEF Reap, History
<1> HIDE DEF r
<1> QED BY <1>0, <1>1, <1>2, <1>3, <1>4, <1>5

\* Flagging and retagging keep the points of a document, one for one.
LEMMA RetaggedKeeps ==
    ASSUME NEW ps \in SUBSET Point, NEW m
    PROVE  /\ \A p \in ps : \E q \in Retagged(ps, m) :
                 q.pass = p.pass /\ q.text = p.text /\ q.deleted = p.deleted
           /\ \A q \in Retagged(ps, m) : q.meta = m /\ \E p \in ps :
                 q.pass = p.pass /\ q.text = p.text /\ q.deleted = p.deleted
<1>1. ASSUME NEW p \in ps
      PROVE  \E q \in Retagged(ps, m) : q.pass = p.pass /\ q.text = p.text /\ q.deleted = p.deleted
  <2> DEFINE q == [p EXCEPT !.meta = m]
  <2>1. q \in Retagged(ps, m)
    BY DEF Retagged
  <2>2. q.pass = p.pass /\ q.text = p.text /\ q.deleted = p.deleted
    BY DEF Point
  <2> QED BY <2>1, <2>2
<1>2. ASSUME NEW q \in Retagged(ps, m)
      PROVE  q.meta = m /\ \E p \in ps : q.pass = p.pass /\ q.text = p.text /\ q.deleted = p.deleted
  <2>1. PICK p \in ps : q = [p EXCEPT !.meta = m]
    BY DEF Retagged
  <2> QED BY <2>1 DEF Point
<1> QED BY <1>1, <1>2

-----------------------------------------------------------------------------
(* The tries of a document *)

\* Nothing has been tried at first.
LEMMA InitTries == Init => TriesInv
BY ConstantsAssumption DEF Init, TriesInv, NoRow, NoHistory

\* Every step keeps the tries within the attempts.
LEMMA NextTries == TypeInv /\ TriesInv /\ [Next]_vars => TriesInv'
<1> SUFFICES ASSUME TypeInv, TriesInv, [Next]_vars PROVE TriesInv'
  OBVIOUS
<1>0. row \in [Docs -> Row] /\ history \in [Docs -> History]
  BY DEF TypeInv, TypeOK
<1>a. MaxAttempts \in Nat \ {0} /\ \A d \in Docs : row[d].attempts \in Nat /\ history[d].tries \in Nat
  BY <1>0, ConstantsAssumption DEF Row, History
<1>1. CASE \A d \in Docs : /\ history'[d].tries = history[d].tries
                           /\ row'[d].attempts = row[d].attempts /\ row'[d].status = row[d].status
  BY <1>1 DEF TriesInv
<1>2. ASSUME NEW c \in Clients, SendCommit(c) PROVE TriesInv'
  <2> DEFINE d == client[c].doc
             s == client[c].source
             m == client[c].meta
             r == SentRow(row[d], s, m)
             h == [latest |-> s, torn |-> history[d].torn, raced |-> history[d].raced \/ BeingCollected(d),
                   retagged |-> history[d].retagged,
                   tries |-> IF Requeue(row[d], s, m) THEN 0 ELSE history[d].tries,
                   abandoned |-> IF Requeue(row[d], s, m) THEN 0 ELSE history[d].abandoned]
  <2>1. d \in Docs /\ row' = [row EXCEPT ![d] = r] /\ history' = [history EXCEPT ![d] = h]
    BY <1>2 DEF SendCommit, TypeInv, WellFormed
  <2>2. \/ r.attempts = 0 /\ h.tries = 0
        \/ r.attempts = row[d].attempts /\ h.tries = history[d].tries /\ r.status = row[d].status
    <3>1. row[d] \in Row
      BY <1>0, <2>1
    <3> QED BY <3>1, SentRowCases
  <2> HIDE DEF d, r, h
  <2> QED BY <1>0, <1>a, <2>1, <2>2 DEF TriesInv
<1>3. ASSUME NEW c \in Clients, Retry(c) PROVE TriesInv'
  <2> DEFINE d == client[c].doc
             h == [history[d] EXCEPT !.tries = 0, !.abandoned = 0]
  <2>1. /\ d \in Docs
        /\ \/ row' = [row EXCEPT ![d] = RetriedRow(row[d])] /\ history' = [history EXCEPT ![d] = h]
           \/ UNCHANGED <<row, history>>
    BY <1>3 DEF Retry, TypeInv, WellFormed
  <2>2. RetriedRow(row[d]).attempts = 0 /\ h.tries = 0
    BY <1>0, <2>1, QueueRowKeeps, HistoryKeeps
  <2> HIDE DEF d, h
  <2>3. CASE UNCHANGED <<row, history>>
    BY <2>3 DEF TriesInv
  <2>4. CASE row' = [row EXCEPT ![d] = RetriedRow(row[d])] /\ history' = [history EXCEPT ![d] = h]
    BY <1>0, <1>a, <2>1, <2>2, <2>4 DEF TriesInv
  <2> QED BY <2>1, <2>3, <2>4
<1>4. ASSUME NEW w \in Workers, NEW d \in Docs, Claim(w, d) PROVE TriesInv'
  <2> DEFINE r == ClaimedRow(row[d], FreshToken)
             b == StillRaced(d)
             h == ClaimedHistory(history[d], b)
  <2>1. row' = [row EXCEPT ![d] = r] /\ history' = [history EXCEPT ![d] = h] /\ row[d].status = "pending"
    BY <1>4 DEF Claim
  <2>2. /\ r.attempts = row[d].attempts + 1 /\ r.status = "parsing"
        /\ h.tries = history[d].tries + 1
    <3>1. b \in BOOLEAN
      BY DEF StillRaced
    <3> HIDE DEF b
    <3>2. r.attempts = row[d].attempts + 1
      BY <1>0, QueueRowKeeps
    <3>3. r.status = "parsing"
      BY <1>0, QueueRowFields
    <3>4. h.tries = history[d].tries + 1
      BY <1>0, <3>1, ClaimedHistoryKeeps
    <3> QED BY <3>2, <3>3, <3>4
  <2> HIDE DEF r, h
  <2> QED BY <1>0, <1>a, <2>1, <2>2 DEF TriesInv
<1>5. ASSUME NEW w \in Workers, Commit(w) PROVE TriesInv'
  <2> DEFINE d == worker[w].doc
             r == IndexedRow(row[d], worker[w].claim, worker[w].text)
             h == [history[d] EXCEPT !.torn = {}, !.tries = 0, !.abandoned = 0]
  <2>1. d \in Docs /\ row' = [row EXCEPT ![d] = r] /\ history' = [history EXCEPT ![d] = h]
    BY <1>5 DEF Commit, TypeInv, WellFormed
  <2>2. r.attempts = 0 /\ h.tries = 0
    BY <1>0, <2>1, QueueRowKeeps, HistoryKeeps
  <2> HIDE DEF d, r, h
  <2> QED BY <1>0, <1>a, <2>1, <2>2 DEF TriesInv
<1>6. ASSUME NEW w \in Workers, NEW retryable \in BOOLEAN, RecordFailure(w, retryable) PROVE TriesInv'
  <2> DEFINE d == worker[w].doc
             r == FailedRow(row[d], retryable)
  <2>1. d \in Docs /\ (row' = [row EXCEPT ![d] = r] \/ row' = row) /\ history' = history
    BY <1>6 DEF RecordFailure, TypeInv, WellFormed
  <2>2. r.attempts = row[d].attempts /\ (r.status = "pending" => row[d].attempts < MaxAttempts)
    BY <1>0, <2>1, QueueRowKeeps
  <2> HIDE DEF d, r
  <2> QED BY <1>0, <1>a, <2>1, <2>2 DEF TriesInv
<1>7. ASSUME NEW d \in Docs, Reap(d) PROVE TriesInv'
  <2> DEFINE r == ReapedRow(row[d])
  <2>1. row' = [row EXCEPT ![d] = r] /\ \A e \in Docs : history'[e].tries = history[e].tries
    BY <1>0, <1>7 DEF Reap, History
  <2>2. r.attempts = row[d].attempts + 1 /\ (r.status = "pending" => ~(row[d].attempts + 1 >= MaxAttempts))
    BY <1>0, QueueRowKeeps
  <2> HIDE DEF r
  <2> QED BY <1>0, <1>a, <2>1, <2>2 DEF TriesInv
<1>8. ASSUME NEW c \in Clients, ClientStep(c), ~SendCommit(c), ~Retry(c) PROVE TriesInv'
  <2>1. /\ \A d \in Docs : row'[d].attempts = row[d].attempts /\ row'[d].status = row[d].status
        /\ \A d \in Docs : history'[d].tries = history[d].tries
    BY <1>8, ClientKeeps
  <2> QED BY <1>1, <2>1
<1>9. ASSUME NEW w \in Workers, WorkerStep(w), ~Commit(w), \A d \in Docs : ~Claim(w, d),
             \A retryable \in BOOLEAN : ~RecordFailure(w, retryable)
      PROVE  TriesInv'
  BY <1>1, <1>9 DEF WorkerStep, Parse, Find, Upsert, UpsertPoints, Sweep, Throw, Crash
<1>10. ASSUME NEW k \in Collectors, CollectorStep(k) PROVE TriesInv'
  <2>1. \A d \in Docs : history'[d].tries = history[d].tries
    BY <1>0, <1>10 DEF CollectorStep, CollectClaim, StillDeleted, Purge, RemoveObject, MarkPurged,
                       CollectFail, History
  <2>2. \A d \in Docs : row'[d].attempts = row[d].attempts /\ row'[d].status = row[d].status
    BY <1>0, <1>10 DEF CollectorStep, CollectClaim, StillDeleted, Purge, RemoveObject, MarkPurged,
                       CollectFail, Row
  <2> QED BY <1>1, <2>1, <2>2
<1>11. CASE UNCHANGED vars
  BY <1>1, <1>11 DEF vars
<1>12. CASE \E c \in Clients : ClientStep(c)
  BY <1>12, <1>2, <1>3, <1>8
<1>13. CASE \E w \in Workers : WorkerStep(w)
  BY <1>13, <1>4, <1>5, <1>6, <1>9
<1> QED BY <1>7, <1>10, <1>11, <1>12, <1>13 DEF Next

\* However claims are lost, abandoned and failed, and whoever requeues it, a
\* document is tried at most MaxAttempts times for one request.
THEOREM TriesAreBounded == Spec => []TriesBounded
<1>1. TypeInv /\ TriesInv => TriesBounded
  BY DEF TriesInv, TriesBounded
<1>2. Init => TypeInv /\ TriesInv
  BY InitType, InitTries
<1>3. TypeInv /\ TriesInv /\ [Next]_vars => (TypeInv /\ TriesInv)'
  BY NextType, NextTries
<1> QED BY <1>1, <1>2, <1>3, PTL DEF Spec

-----------------------------------------------------------------------------
(* What a collector purged stays purged *)

\* Nothing is collected at first.
LEMMA InitCollect == Init => CollectInv
BY DEF Init, CollectInv, PurgedIsGone, NoRow, IdleTarget, PastCheck

\* A step that marks no row, brings no document back, forgets no race and adds
\* no points to a document that has none.
CollectKept ==
    /\ UNCHANGED collector
    /\ \A e \in Docs :
          /\ row'[e].purged => row[e].purged
          /\ row[e].deleted => row'[e].deleted
          /\ history[e].raced => history'[e].raced
          /\ points[e] = {} => points'[e] = {}

\* A step that touches none of it keeps CollectInv.
LEMMA CollectFrame ==
    ASSUME TypeInv, CollectInv, CollectKept
    PROVE  CollectInv'
BY DEF TypeInv, WellFormed, CollectInv, PurgedIsGone, CollectKept, PastCheck

\* Requests keep CollectInv: a send that overlaps a collector is on record.
LEMMA CollectClient ==
    ASSUME DeleteInv, CollectInv, NEW c \in Clients, ClientStep(c)
    PROVE  CollectInv'
<1>0. /\ TypeInv /\ row \in [Docs -> Row] /\ history \in [Docs -> History]
      /\ points \in [Docs -> SUBSET Point]
  BY DEF DeleteInv, TypeInv, TypeOK
<1>1. ASSUME NEW d \in Docs, NEW s \in Sources, NEW m \in Metas, Send(c, d, s, m) PROVE CollectInv'
  <2>1. \A e \in Docs : history[e].raced => history'[e].raced
    BY <1>0, <1>1 DEF Send, History
  <2> QED BY <1>0, <1>1, <2>1, CollectFrame DEF Send, CollectKept
<1>2. CASE SendCommit(c)
  <2> DEFINE d == client[c].doc
             r == SentRow(row[d], client[c].source, client[c].meta)
  <2>1. d \in Docs /\ row' = [row EXCEPT ![d] = r] /\ UNCHANGED <<points, collector>>
    BY <1>0, <1>2 DEF SendCommit, TypeInv, WellFormed
  <2>2. /\ \A e \in Docs : history[e].raced => history'[e].raced
        /\ BeingCollected(d) => history'[d].raced
    BY <1>0, <1>2, <2>1 DEF SendCommit
  <2>3. ~r.purged
    <3>1. row[d] \in Row /\ (row[d].purged => row[d].deleted)
      BY <1>0, <2>1 DEF CollectInv
    <3> QED BY <3>1, SentRowCases
  <2>4. \A k \in Collectors : collector[k].pc \in PastCheck /\ collector[k].doc = d => BeingCollected(d)
    BY DEF BeingCollected, PastCheck
  <2> HIDE DEF d, r
  <2>5. \A e \in Docs : e /= d => row'[e] = row[e]
    BY <1>0, <2>1
  <2>6. row'[d] = r
    BY <1>0, <2>1
  <2> QED BY <1>0, <2>1, <2>2, <2>3, <2>4, <2>5, <2>6
          DEF TypeInv, WellFormed, CollectInv, PurgedIsGone, PastCheck
<1>3. CASE Abort(c)
  BY <1>0, <1>3, CollectFrame DEF Abort, CollectKept
<1>4. ASSUME NEW d \in Docs, Remove(c, d) PROVE CollectInv'
  <2>1. \A e \in Docs : points[e] = {} => points'[e] = {}
    BY <1>0, <1>4 DEF Remove, Flagged
  <2> QED BY <1>0, <1>4, <2>1, CollectFrame DEF Remove, CollectKept
<1>5. CASE RemoveCommit(c)
  <2>1. \A e \in Docs : row'[e].purged = row[e].purged /\ (row[e].deleted => row'[e].deleted)
    BY <1>0, <1>5 DEF RemoveCommit, Row
  <2> QED BY <1>0, <1>5, <2>1, CollectFrame DEF RemoveCommit, CollectKept
<1>6. CASE UpdateMetadata(c)
  <2>1. \A e \in Docs : points[e] = {} => points'[e] = {}
    BY <1>0, <1>6 DEF UpdateMetadata, Retagged
  <2> QED BY <1>0, <1>6, <2>1, CollectFrame DEF UpdateMetadata, CollectKept
<1>7. CASE UpdateMetadataCommit(c)
  <2>1. \A e \in Docs : /\ row'[e].purged = row[e].purged /\ row'[e].deleted = row[e].deleted
                        /\ history'[e].raced = history[e].raced
    BY <1>0, <1>7 DEF UpdateMetadataCommit, Row, History
  <2> QED BY <1>0, <1>7, <2>1, CollectFrame DEF UpdateMetadataCommit, CollectKept
<1>8. CASE Rollback(c)
  <2>1. \A e \in Docs : history'[e].raced = history[e].raced
    BY <1>0, <1>8 DEF Rollback, History
  <2> QED BY <1>0, <1>8, <2>1, CollectFrame DEF Rollback, CollectKept
<1>9. ASSUME NEW d \in Docs, NEW m \in Metas, Lookup(c, d, "retagging", m) PROVE CollectInv'
  BY <1>0, <1>9, CollectFrame DEF Lookup, CollectKept
<1>10. ASSUME NEW d \in Docs, Lookup(c, d, "retrying", None) PROVE CollectInv'
  BY <1>0, <1>10, CollectFrame DEF Lookup, CollectKept
<1>11. CASE Retry(c)
  <2>1. \A e \in Docs : /\ row'[e].purged = row[e].purged /\ row'[e].deleted = row[e].deleted
                        /\ history'[e].raced = history[e].raced
    BY <1>0, <1>11, RetryEffect
  <2> QED BY <1>0, <1>11, <2>1, CollectFrame DEF Retry, CollectKept
<1> QED
  BY <1>1, <1>2, <1>3, <1>4, <1>5, <1>6, <1>7, <1>8, <1>9, <1>10, <1>11 DEF ClientStep

\* Passes keep CollectInv: a deleted document is not written to.
LEMMA CollectWorker ==
    ASSUME DeleteInv, CollectInv, NEW w \in Workers, WorkerStep(w)
    PROVE  CollectInv'
<1>0. /\ TypeInv /\ row \in [Docs -> Row] /\ history \in [Docs -> History]
      /\ points \in [Docs -> SUBSET Point]
  BY DEF DeleteInv, TypeInv, TypeOK
<1>1. ASSUME NEW d \in Docs, Claim(w, d) PROVE CollectInv'
  <2>1. /\ \A e \in Docs : /\ row'[e].purged = row[e].purged /\ row'[e].deleted = row[e].deleted
                           /\ e /= d => history'[e].raced = history[e].raced
        /\ history[d].raced /\ BeingCollected(d) => history'[d].raced
    BY <1>0, <1>1, ClaimEffect
  <2>2. \A k \in Collectors : collector[k].pc \in PastCheck /\ collector[k].doc = d => BeingCollected(d)
    BY DEF BeingCollected, PastCheck
  <2>3. ~row[d].deleted /\ UNCHANGED <<points, collector>>
    BY <1>1 DEF Claim
  <2> QED BY <1>0, <2>1, <2>2, <2>3 DEF TypeInv, WellFormed, CollectInv, PurgedIsGone, PastCheck
<1>2. CASE UpsertPoints(w)
  <2> DEFINE d == worker[w].doc
  <2>1. /\ d \in Docs /\ ~row[d].deleted
        /\ points' = [points EXCEPT ![d] = @ \cup NewPoints(w)]
        /\ UNCHANGED <<row, collector, history>>
    BY <1>2 DEF UpsertPoints, DeleteInv, LockInv, TypeInv, WellFormed, Writing
  <2> HIDE DEF d
  <2> QED BY <1>0, <2>1 DEF TypeInv, WellFormed, CollectInv, PurgedIsGone, PastCheck
<1>3. CASE Sweep(w)
  <2>1. \A e \in Docs : points[e] = {} => points'[e] = {}
    BY <1>0, <1>3 DEF Sweep
  <2> QED BY <1>0, <1>3, <2>1, CollectFrame DEF Sweep, CollectKept
<1>4. CASE Commit(w)
  <2>1. \A e \in Docs : /\ row'[e].purged = row[e].purged /\ row'[e].deleted = row[e].deleted
                        /\ history'[e].raced = history[e].raced
    BY <1>0, <1>4, CommitEffect
  <2> QED BY <1>0, <1>4, <2>1, CollectFrame DEF Commit, CollectKept
<1>5. ASSUME NEW retryable \in BOOLEAN, RecordFailure(w, retryable) PROVE CollectInv'
  <2>1. \A e \in Docs : row'[e].purged = row[e].purged /\ row'[e].deleted = row[e].deleted
    BY <1>0, <1>5, RecordFailureEffect
  <2> QED BY <1>0, <1>5, <2>1, CollectFrame DEF RecordFailure, CollectKept
<1>6. CASE Parse(w) \/ Find(w) \/ Upsert(w) \/ Throw(w) \/ Crash(w)
  BY <1>0, <1>6, CollectFrame DEF Parse, Find, Upsert, Throw, Crash, CollectKept
<1> QED
  BY <1>1, <1>2, <1>3, <1>4, <1>5, <1>6 DEF WorkerStep

\* Collectors keep CollectInv.
LEMMA CollectCollector ==
    ASSUME DeleteInv, CollectInv, NEW k \in Collectors, CollectorStep(k)
    PROVE  CollectInv'
<1>0. /\ TypeInv /\ row \in [Docs -> Row] /\ history \in [Docs -> History]
      /\ points \in [Docs -> SUBSET Point] /\ collector \in [Collectors -> Target]
  BY DEF DeleteInv, TypeInv, TypeOK
<1> USE DEF TypeInv, WellFormed, CollectInv, PurgedIsGone, PastCheck
<1>1. ASSUME NEW d \in Docs, CollectClaim(k, d) PROVE CollectInv'
  BY <1>0, <1>1 DEF CollectClaim
<1>2. CASE StillDeleted(k)
  <2> DEFINE d == collector[k].doc
  <2>1. CASE row[d].deleted
    <3>1. \A e \in Docs : history[e].raced => history'[e].raced
      BY <1>0, <1>2, <2>1 DEF StillDeleted, History
    <3>2. /\ collector' = [collector EXCEPT ![k].pc = "checked"] /\ d \in Docs
          /\ UNCHANGED <<row, points>>
      BY <1>0, <1>2, <2>1 DEF StillDeleted
    <3> QED BY <1>0, <2>1, <3>1, <3>2
  <2>2. CASE ~row[d].deleted
    <3>1. collector' = [collector EXCEPT ![k] = IdleTarget] /\ UNCHANGED <<row, points, history>>
      BY <1>2, <2>2 DEF StillDeleted
    <3> QED BY <1>0, <3>1 DEF IdleTarget
  <2> QED BY <2>1, <2>2
<1>3. CASE Purge(k)
  BY <1>0, <1>3 DEF Purge
<1>4. CASE RemoveObject(k)
  BY <1>0, <1>4 DEF RemoveObject
<1>5. CASE MarkPurged(k)
  <2> DEFINE d == collector[k].doc
  <2>1. /\ d \in Docs /\ collector[k].pc = "removed"
        /\ collector' = [collector EXCEPT ![k] = IdleTarget] /\ UNCHANGED <<points, history>>
        /\ \/ row' = row
           \/ row[d].deleted /\ row' = [row EXCEPT ![d] = [@ EXCEPT !.purged = TRUE]]
    BY <1>0, <1>5 DEF MarkPurged
  <2>2. /\ \A e \in Docs : row'[e].deleted = row[e].deleted
        /\ \A e \in Docs : row'[e].purged => row[e].purged \/ (e = d /\ row[d].deleted)
    BY <1>0, <2>1 DEF Row
  <2> QED BY <1>0, <2>1, <2>2 DEF IdleTarget
<1>6. CASE CollectFail(k)
  BY <1>0, <1>6 DEF CollectFail, IdleTarget
<1> QED
  BY <1>1, <1>2, <1>3, <1>4, <1>5, <1>6 DEF CollectorStep

\* Every step keeps CollectInv.
LEMMA NextCollect == DeleteInv /\ CollectInv /\ [Next]_vars => CollectInv'
<1> SUFFICES ASSUME DeleteInv, CollectInv, [Next]_vars PROVE CollectInv'
  OBVIOUS
<1>0. TypeInv
  BY DEF DeleteInv
<1>1. ASSUME NEW d \in Docs, Reap(d) PROVE CollectInv'
  <2>1. \A e \in Docs : /\ row'[e].purged = row[e].purged /\ row'[e].deleted = row[e].deleted
                        /\ history'[e].raced = history[e].raced
    BY <1>0, <1>1, ReapEffect
  <2> QED BY <1>0, <1>1, <2>1, CollectFrame DEF Reap, CollectKept
<1>2. CASE UNCHANGED vars
  BY <1>0, <1>2, CollectFrame DEF vars, CollectKept
<1> QED BY <1>1, <1>2, CollectClient, CollectWorker, CollectCollector DEF Next

\* What the sweep marked as purged has no points left, unless a send raced the
\* collector, however deletes, sends and passes interleave with it.
THEOREM PurgedHolds == Spec => []PurgedIsGone
<1>1. DeleteInv /\ CollectInv => PurgedIsGone
  BY DEF CollectInv
<1>2. Init => DeleteInv /\ CollectInv
  BY InitDelete, InitCollect
<1>3. DeleteInv /\ CollectInv /\ [Next]_vars => (DeleteInv /\ CollectInv)'
  BY NextDelete, NextCollect
<1> QED BY <1>1, <1>2, <1>3, PTL DEF Spec

-----------------------------------------------------------------------------
(* The bytes a queued document names are in the bucket *)

\* No row names the bucket at first.
LEMMA InitObject == Init => ObjectInv
BY ConstantsAssumption DEF Init, ObjectInv, NoRow, IdleRequest, IdleTarget, PastCheck, Sources

\* A step that starts no send, passes no check, brings no document back, forgets
\* no race and leaves the bucket alone.
ObjectKept ==
    /\ \A c \in Clients : client'[c].pc = "sending" => client'[c] = client[c]
    /\ \A k \in Collectors : collector'[k].pc \in PastCheck =>
          collector[k].pc \in PastCheck /\ collector'[k].doc = collector[k].doc
    /\ \A e \in Docs :
          /\ row'[e].source = row[e].source
          /\ row'[e].hash = row[e].hash \/ row'[e].hash \in Texts
          /\ row[e].deleted => row'[e].deleted
          /\ history[e].raced => history'[e].raced
          /\ object'[e] = object[e]

\* A step that touches none of it keeps ObjectInv.
LEMMA ObjectFrame ==
    ASSUME TypeInv, ObjectInv, ObjectKept
    PROVE  ObjectInv'
<1> USE DEF TypeInv, WellFormed, ObjectInv, ObjectKept
<1>1. \A d \in Docs : row'[d].source = Key => ObjectStorage /\ row'[d].hash \in Texts
  OBVIOUS
<1>2. \A c \in Clients : client'[c].pc = "sending" => client'[c].source \in Sources
  OBVIOUS
<1>3. \A c \in Clients, k \in Collectors :
         client'[c].pc = "sending" /\ collector'[k].pc \in PastCheck
         /\ client'[c].doc = collector'[k].doc
         => history'[client'[c].doc].raced
  OBVIOUS
<1>4. \A c \in Clients :
         client'[c].pc = "sending" /\ Ref(client'[c].source) = Key
         /\ ~history'[client'[c].doc].raced
         => object'[client'[c].doc] /= None
  OBVIOUS
<1>5. \A d \in Docs :
         row'[d].source = Key /\ ~row'[d].deleted /\ ~history'[d].raced => object'[d] /= None
  OBVIOUS
<1> QED BY <1>1, <1>2, <1>3, <1>4, <1>5 DEF Ref

\* A source goes to the bucket exactly when it is content and there is one.
LEMMA RefIsKey ==
    ASSUME NEW s \in Sources
    PROVE  Ref(s) = Key <=> ObjectStorage /\ s \in Texts
BY ConstantsAssumption DEF Ref, Sources

\* A send stores its bytes before its row.
LEMMA ObjectSend ==
    ASSUME TypeInv, ObjectInv, NEW c \in Clients, NEW d \in Docs, NEW s \in Sources, NEW m \in Metas,
           Send(c, d, s, m)
    PROVE  ObjectInv'
<1>0. /\ history \in [Docs -> History] /\ client \in [Clients -> Request]
      /\ object \in [Docs -> Texts \cup {None}]
  BY DEF TypeInv, TypeOK
<1>1. /\ \A e \in Docs : history[e].raced => history'[e].raced
      /\ BeingCollected(d) => history'[d].raced
  BY <1>0 DEF Send, History
<1>2. /\ Ref(s) = Key => object'[d] /= None
      /\ \A e \in Docs : object[e] /= None => object'[e] /= None
  <2>1. s \in Texts => s /= None
    BY ConstantsAssumption
  <2> QED BY <1>0, <2>1, RefIsKey DEF Send
<1>3. /\ client'[c].doc = d /\ client'[c].source = s
      /\ \A b \in Clients : b /= c => client'[b] = client[b]
      /\ UNCHANGED <<row, collector>>
  BY <1>0 DEF Send
<1>4. \A k \in Collectors : collector[k].pc \in PastCheck /\ collector[k].doc = d => BeingCollected(d)
  BY DEF BeingCollected, PastCheck
<1> USE DEF TypeInv, WellFormed, ObjectInv
<1>5. \A e \in Docs : row'[e].source = Key => ObjectStorage /\ row'[e].hash \in Texts
  BY <1>3
<1>6. \A b \in Clients : client'[b].pc = "sending" => client'[b].source \in Sources
  BY <1>3
<1>7. \A b \in Clients, k \in Collectors :
         client'[b].pc = "sending" /\ collector'[k].pc \in PastCheck
         /\ client'[b].doc = collector'[k].doc
         => history'[client'[b].doc].raced
  BY <1>1, <1>3, <1>4
<1>8. \A b \in Clients :
         client'[b].pc = "sending" /\ Ref(client'[b].source) = Key
         /\ ~history'[client'[b].doc].raced
         => object'[client'[b].doc] /= None
  BY <1>1, <1>2, <1>3
<1>9. \A e \in Docs :
         row'[e].source = Key /\ ~row'[e].deleted /\ ~history'[e].raced => object'[e] /= None
  BY <1>1, <1>2, <1>3
<1> QED BY <1>5, <1>6, <1>7, <1>8, <1>9 DEF Ref

\* The row of a send names the bytes it stored.
LEMMA ObjectSendCommit ==
    ASSUME TypeInv, ObjectInv, NEW c \in Clients, SendCommit(c)
    PROVE  ObjectInv'
<1>0. /\ history \in [Docs -> History] /\ client \in [Clients -> Request] /\ row \in [Docs -> Row]
  BY DEF TypeInv, TypeOK
<1> DEFINE d == client[c].doc
           s == client[c].source
           r == SentRow(row[d], s, client[c].meta)
<1>1. /\ client[c].pc = "sending" /\ d \in Docs /\ s \in Sources
      /\ row' = [row EXCEPT ![d] = r] /\ UNCHANGED <<object, collector>>
  BY DEF SendCommit, TypeInv, WellFormed, ObjectInv
<1>2. \A e \in Docs : history[e].raced => history'[e].raced
  BY <1>0, <1>1 DEF SendCommit
<1>3. /\ \A b \in Clients : client'[b].pc = "sending" => client'[b] = client[b]
  BY <1>0 DEF SendCommit, IdleRequest
<1>4. r.source = Key => r.hash \in Texts /\ ObjectStorage /\ Ref(s) = Key
  <2>1. row[d] \in Row /\ (row[d].source = Key => ObjectStorage /\ row[d].hash \in Texts)
    BY <1>0, <1>1 DEF ObjectInv
  <2>2. r.hash = s /\ r.source = IF row[d].hash /= s THEN Ref(s) ELSE row[d].source
    BY <2>1, SentRowCases
  <2> QED BY <1>1, <2>1, <2>2, RefIsKey
<1> HIDE DEF r
<1>5. \A e \in Docs : e /= d => row'[e] = row[e]
  BY <1>0, <1>1
<1>6. row'[d] = r
  BY <1>0, <1>1
<1> USE DEF TypeInv, WellFormed, ObjectInv
<1>7. \A e \in Docs : row'[e].source = Key => ObjectStorage /\ row'[e].hash \in Texts
  BY <1>4, <1>5, <1>6
<1>8. \A b \in Clients : client'[b].pc = "sending" => client'[b].source \in Sources
  BY <1>3
<1>9. \A b \in Clients, k \in Collectors :
         client'[b].pc = "sending" /\ collector'[k].pc \in PastCheck
         /\ client'[b].doc = collector'[k].doc
         => history'[client'[b].doc].raced
  BY <1>1, <1>2, <1>3
<1>10. \A b \in Clients :
         client'[b].pc = "sending" /\ Ref(client'[b].source) = Key
         /\ ~history'[client'[b].doc].raced
         => object'[client'[b].doc] /= None
  BY <1>1, <1>2, <1>3
<1>11. \A e \in Docs :
         row'[e].source = Key /\ ~row'[e].deleted /\ ~history'[e].raced => object'[e] /= None
  BY <1>1, <1>2, <1>4, <1>5, <1>6
<1> QED BY <1>7, <1>8, <1>9, <1>10, <1>11 DEF Ref

\* Requests keep ObjectInv.
LEMMA ObjectClient ==
    ASSUME TypeInv, ObjectInv, NEW c \in Clients, ClientStep(c)
    PROVE  ObjectInv'
<1>0. /\ row \in [Docs -> Row] /\ history \in [Docs -> History] /\ client \in [Clients -> Request]
  BY DEF TypeInv, TypeOK
<1>2. CASE SendCommit(c)
  BY <1>2, ObjectSendCommit
<1>3. CASE Abort(c)
  BY <1>0, <1>3, ObjectFrame DEF Abort, IdleRequest, ObjectKept
<1>4. ASSUME NEW d \in Docs, Remove(c, d) PROVE ObjectInv'
  BY <1>0, <1>4, ObjectFrame DEF Remove, IdleRequest, ObjectKept
<1>5. CASE RemoveCommit(c)
  <2>1. \A e \in Docs : /\ row[e].deleted => row'[e].deleted
                        /\ row'[e].source = row[e].source /\ row'[e].hash = row[e].hash
    BY <1>0, <1>5 DEF RemoveCommit, Row
  <2> QED BY <1>0, <1>5, <2>1, ObjectFrame DEF RemoveCommit, IdleRequest, ObjectKept
<1>6. CASE UpdateMetadata(c)
  BY <1>0, <1>6, ObjectFrame DEF UpdateMetadata, ObjectKept
<1>7. CASE UpdateMetadataCommit(c)
  <2>1. \A e \in Docs : /\ row'[e].deleted = row[e].deleted
                        /\ row'[e].source = row[e].source /\ row'[e].hash = row[e].hash
                        /\ history'[e].raced = history[e].raced
    BY <1>0, <1>7 DEF UpdateMetadataCommit, Row, History
  <2> QED BY <1>0, <1>7, <2>1, ObjectFrame DEF UpdateMetadataCommit, IdleRequest, ObjectKept
<1>8. CASE Rollback(c)
  <2>1. \A e \in Docs : history'[e].raced = history[e].raced
    BY <1>0, <1>8 DEF Rollback, History
  <2> QED BY <1>0, <1>8, <2>1, ObjectFrame DEF Rollback, IdleRequest, ObjectKept
<1>9. ASSUME NEW d \in Docs, NEW m \in Metas, Lookup(c, d, "retagging", m) PROVE ObjectInv'
  BY <1>0, <1>9, ObjectFrame DEF Lookup, ObjectKept
<1>10. ASSUME NEW d \in Docs, Lookup(c, d, "retrying", None) PROVE ObjectInv'
  BY <1>0, <1>10, ObjectFrame DEF Lookup, ObjectKept
<1>11. CASE Retry(c)
  <2>1. \A e \in Docs : /\ row'[e].deleted = row[e].deleted
                        /\ row'[e].source = row[e].source /\ row'[e].hash = row[e].hash
                        /\ history'[e].raced = history[e].raced
    BY <1>11, RetryEffect
  <2> QED BY <1>0, <1>11, <2>1, ObjectFrame DEF Retry, IdleRequest, ObjectKept
<1> QED
  BY <1>2, <1>3, <1>4, <1>5, <1>6, <1>7, <1>8, <1>9, <1>10, <1>11, ObjectSend DEF ClientStep

\* Passes keep ObjectInv: they leave the bytes alone.
LEMMA ObjectWorker ==
    ASSUME TypeInv, ObjectInv, NEW w \in Workers, WorkerStep(w)
    PROVE  ObjectInv'
<1>1. ASSUME NEW d \in Docs, Claim(w, d) PROVE ObjectInv'
  <2>1. /\ \A e \in Docs : /\ row'[e].source = row[e].source /\ row'[e].hash = row[e].hash
                           /\ row'[e].deleted = row[e].deleted
                           /\ e /= d => history'[e].raced = history[e].raced
        /\ history[d].raced /\ BeingCollected(d) => history'[d].raced
        /\ history[d].raced /\ BytesMissing(d) => history'[d].raced
    BY <1>1, ClaimEffect
  <2>2. \A k \in Collectors : collector[k].pc \in PastCheck /\ collector[k].doc = d => BeingCollected(d)
    BY DEF BeingCollected, PastCheck
  <2>3. UNCHANGED <<client, collector, object>>
    BY <1>1 DEF Claim
  <2>4. object[d] = None /\ row[d].source = Key => BytesMissing(d)
    BY DEF BytesMissing
  <2>5. \A c \in Clients : object[d] = None /\ client[c].pc = "sending" /\ client[c].doc = d
                           /\ Ref(client[c].source) = Key => BytesMissing(d)
    BY DEF BytesMissing
  <2> USE DEF TypeInv, WellFormed, ObjectInv
  <2>6. \A c \in Clients, k \in Collectors :
           client'[c].pc = "sending" /\ collector'[k].pc \in PastCheck
           /\ client'[c].doc = collector'[k].doc
           => history'[client'[c].doc].raced
    BY <2>1, <2>2, <2>3
  <2>7. \A c \in Clients :
           client'[c].pc = "sending" /\ Ref(client'[c].source) = Key
           /\ ~history'[client'[c].doc].raced
           => object'[client'[c].doc] /= None
    BY <2>1, <2>3, <2>5
  <2>8. \A e \in Docs :
           row'[e].source = Key /\ ~row'[e].deleted /\ ~history'[e].raced => object'[e] /= None
    BY <2>1, <2>3, <2>4
  <2> QED BY <2>1, <2>3, <2>6, <2>7, <2>8 DEF Ref
<1>2. CASE Commit(w)
  <2>1. \A e \in Docs : /\ row'[e].deleted = row[e].deleted /\ row'[e].source = row[e].source
                        /\ row'[e].hash = row[e].hash \/ row'[e].hash \in Texts
                        /\ history'[e].raced = history[e].raced
    <3>1. worker[w].text \in Texts
      BY <1>2 DEF Commit, TypeInv, WellFormed, HasText, Writing
    <3> QED BY <1>2, <3>1, CommitEffect
  <2> QED BY <1>2, <2>1, ObjectFrame DEF Commit, ObjectKept
<1>3. ASSUME NEW retryable \in BOOLEAN, RecordFailure(w, retryable) PROVE ObjectInv'
  <2>1. \A e \in Docs : /\ row'[e].deleted = row[e].deleted
                        /\ row'[e].source = row[e].source /\ row'[e].hash = row[e].hash
    BY <1>3, RecordFailureEffect
  <2> QED BY <1>3, <2>1, ObjectFrame DEF RecordFailure, ObjectKept
<1>4. CASE Parse(w) \/ Find(w) \/ Upsert(w) \/ UpsertPoints(w) \/ Sweep(w) \/ Throw(w) \/ Crash(w)
  BY <1>4, ObjectFrame DEF Parse, Find, Upsert, UpsertPoints, Sweep, Throw, Crash, ObjectKept
<1> QED BY <1>1, <1>2, <1>3, <1>4 DEF WorkerStep

\* Collectors keep ObjectInv: the bytes they remove are of a deleted row, or a send raced them.
LEMMA ObjectCollector ==
    ASSUME TypeInv, CollectInv, ObjectInv, NEW k \in Collectors, CollectorStep(k)
    PROVE  ObjectInv'
<1>0. /\ row \in [Docs -> Row] /\ history \in [Docs -> History]
      /\ collector \in [Collectors -> Target] /\ object \in [Docs -> Texts \cup {None}]
  BY DEF TypeInv, TypeOK
<1>1. ASSUME NEW d \in Docs, CollectClaim(k, d) PROVE ObjectInv'
  BY <1>0, <1>1, ObjectFrame DEF CollectClaim, ObjectKept, PastCheck
<1>2. CASE StillDeleted(k)
  <2> DEFINE d == collector[k].doc
  <2>1. CASE row[d].deleted
    <3>1. \A e \in Docs : history[e].raced => history'[e].raced
      BY <1>0, <1>2, <2>1 DEF StillDeleted, History
    <3>2. /\ collector' = [collector EXCEPT ![k].pc = "checked"] /\ d \in Docs
          /\ UNCHANGED <<row, client, object>>
      BY <1>2, <2>1 DEF StillDeleted, TypeInv, WellFormed
    <3>3. \A c \in Clients : client[c].pc = "sending" /\ client[c].doc = d => history'[d].raced
      <4> DEFINE b == history[d].raced \/ BeingSent(d)
      <4>1. history' = [history EXCEPT ![d] = [@ EXCEPT !.raced = b]]
        BY <1>2, <2>1 DEF StillDeleted
      <4>2. \A c \in Clients : client[c].pc = "sending" /\ client[c].doc = d => b
        BY DEF BeingSent
      <4> HIDE DEF b
      <4> QED BY <1>0, <3>2, <4>1, <4>2 DEF History
    <3>4. \A j \in Collectors : collector'[j].doc = collector[j].doc /\ (j /= k => collector'[j] = collector[j])
      BY <1>0, <3>2 DEF Target
    <3> HIDE DEF d
    <3> USE DEF TypeInv, WellFormed, ObjectInv
    <3>5. \A c \in Clients, j \in Collectors :
             client'[c].pc = "sending" /\ collector'[j].pc \in PastCheck
             /\ client'[c].doc = collector'[j].doc
             => history'[client'[c].doc].raced
      BY <3>1, <3>2, <3>3, <3>4 DEF d
    <3>6. \A c \in Clients :
             client'[c].pc = "sending" /\ Ref(client'[c].source) = Key
             /\ ~history'[client'[c].doc].raced
             => object'[client'[c].doc] /= None
      BY <3>1, <3>2
    <3> QED BY <3>1, <3>2, <3>5, <3>6 DEF Ref
  <2>2. CASE ~row[d].deleted
    <3>1. collector' = [collector EXCEPT ![k] = IdleTarget] /\ UNCHANGED <<row, client, object, history>>
      BY <1>2, <2>2 DEF StillDeleted
    <3> QED BY <1>0, <3>1, ObjectFrame DEF IdleTarget, ObjectKept, PastCheck
  <2> QED BY <2>1, <2>2
<1>3. CASE Purge(k)
  BY <1>0, <1>3, ObjectFrame DEF Purge, ObjectKept, PastCheck
<1>4. CASE RemoveObject(k)
  <2> DEFINE d == collector[k].doc
  <2>1. /\ collector[k].pc \in PastCheck /\ d \in Docs /\ UNCHANGED <<row, client, history>>
        /\ \A e \in Docs : e /= d => object'[e] = object[e]
    BY <1>0, <1>4 DEF RemoveObject, PastCheck, TypeInv, WellFormed
  <2>2. \A j \in Collectors : collector'[j].pc \in PastCheck =>
           collector[j].pc \in PastCheck /\ collector'[j].doc = collector[j].doc
    BY <1>0, <1>4 DEF RemoveObject, PastCheck
  <2>3. ~history[d].raced => row[d].deleted
    BY <2>1 DEF CollectInv
  <2>4. \A c \in Clients : client[c].pc = "sending" /\ client[c].doc = d => history[d].raced
    BY <2>1 DEF ObjectInv
  <2> HIDE DEF d
  <2> USE DEF TypeInv, WellFormed, ObjectInv
  <2>5. \A c \in Clients, j \in Collectors :
           client'[c].pc = "sending" /\ collector'[j].pc \in PastCheck
           /\ client'[c].doc = collector'[j].doc
           => history'[client'[c].doc].raced
    BY <2>1, <2>2
  <2>6. \A c \in Clients :
           client'[c].pc = "sending" /\ Ref(client'[c].source) = Key
           /\ ~history'[client'[c].doc].raced
           => object'[client'[c].doc] /= None
    BY <2>1, <2>4
  <2>7. \A e \in Docs :
           row'[e].source = Key /\ ~row'[e].deleted /\ ~history'[e].raced => object'[e] /= None
    BY <2>1, <2>3
  <2> QED BY <2>1, <2>5, <2>6, <2>7 DEF Ref
<1>5. CASE MarkPurged(k)
  <2>1. \A e \in Docs : /\ row'[e].deleted = row[e].deleted
                        /\ row'[e].source = row[e].source /\ row'[e].hash = row[e].hash
    BY <1>0, <1>5 DEF MarkPurged, Row
  <2> QED BY <1>0, <1>5, <2>1, ObjectFrame DEF MarkPurged, ObjectKept, IdleTarget, PastCheck
<1>6. CASE CollectFail(k)
  BY <1>0, <1>6, ObjectFrame DEF CollectFail, ObjectKept, IdleTarget, PastCheck
<1> QED
  BY <1>1, <1>2, <1>3, <1>4, <1>5, <1>6 DEF CollectorStep

\* Every step keeps ObjectInv.
LEMMA NextObject == DeleteInv /\ CollectInv /\ ObjectInv /\ [Next]_vars => ObjectInv'
<1> SUFFICES ASSUME DeleteInv, CollectInv, ObjectInv, [Next]_vars PROVE ObjectInv'
  OBVIOUS
<1>0. TypeInv
  BY DEF DeleteInv
<1>1. ASSUME NEW d \in Docs, Reap(d) PROVE ObjectInv'
  <2>1. \A e \in Docs : /\ row'[e].deleted = row[e].deleted
                        /\ row'[e].source = row[e].source /\ row'[e].hash = row[e].hash
                        /\ history'[e].raced = history[e].raced
    BY <1>0, <1>1, ReapEffect
  <2> QED BY <1>0, <1>1, <2>1, ObjectFrame DEF Reap, ObjectKept
<1>2. CASE UNCHANGED vars
  BY <1>0, <1>2, ObjectFrame DEF vars, ObjectKept
<1> QED BY <1>0, <1>1, <1>2, ObjectClient, ObjectWorker, ObjectCollector DEF Next

\* A document in the queue whose bytes are in the bucket has them there, unless
\* a send raced a collector: neither the collector nor a request that overlaps
\* another leaves a row that names a missing object.
THEOREM SourceHolds == Spec => []SourceAvailable
<1>1. DeleteInv /\ CollectInv /\ ObjectInv => SourceAvailable
  BY DEF ObjectInv, SourceAvailable
<1>2. Init => DeleteInv /\ CollectInv /\ ObjectInv
  BY InitDelete, InitCollect, InitObject
<1>3. DeleteInv /\ CollectInv /\ ObjectInv /\ [Next]_vars => (DeleteInv /\ CollectInv /\ ObjectInv)'
  BY NextDelete, NextCollect, NextObject
<1> QED BY <1>1, <1>2, <1>3, PTL DEF Spec

-----------------------------------------------------------------------------
(* An indexed document answers *)

\* Nothing is indexed at first.
LEMMA InitAnswer == Init => AnswerInv
BY DEF Init, AnswerInv, NoRow, IdlePass

\* A step of other processes than the pass past its sweep and the delete: no
\* unflagged point is lost, no failed delete and no race forgotten, and nothing
\* becomes indexed.
AnswerKept ==
    /\ \A w \in Workers : worker'[w].pc \in {"written", "swept"} => worker'[w] = worker[w]
    /\ \A c \in Clients : client[c].pc = "removing" => client'[c] = client[c]
    /\ \A e \in Docs :
          /\ row'[e].status = "indexed" /\ ~row'[e].deleted =>
                /\ row[e].status = "indexed" /\ ~row[e].deleted /\ row'[e].chunks = row[e].chunks
          /\ history[e].torn \subseteq history'[e].torn
          /\ history[e].raced => history'[e].raced
          /\ \A p \in points[e] : ~p.deleted => \E q \in points'[e] : q.pass = p.pass /\ ~q.deleted

\* A step that touches none of it keeps AnswerInv.
LEMMA AnswerFrame ==
    ASSUME TypeInv, AnswerInv, AnswerKept
    PROVE  AnswerInv'
<1>1. ASSUME NEW w \in Workers, worker'[w].pc \in {"written", "swept"}, worker'[w].text \notin Empty,
             ~history'[worker'[w].doc].raced
      PROVE  \E p \in points'[worker'[w].doc] : p.pass = worker'[w].claim /\ ~p.deleted
  BY <1>1 DEF TypeInv, WellFormed, AnswerInv, AnswerKept
<1>2. ASSUME NEW d \in Docs, row'[d].status = "indexed", ~row'[d].deleted, row'[d].chunks /= None,
             "removing" \notin history'[d].torn, ~history'[d].raced, ~BeingRemoved(d)'
      PROVE  \E p \in points'[d] : p.pass = row'[d].chunks /\ ~p.deleted
  <2>1. ~BeingRemoved(d)
    BY <1>2 DEF AnswerKept, BeingRemoved
  <2> QED BY <1>2, <2>1 DEF AnswerInv, AnswerKept
<1> QED BY <1>1, <1>2 DEF AnswerInv

\* Requests keep AnswerInv.
LEMMA AnswerClient ==
    ASSUME LatestInv, AnswerInv, NEW c \in Clients, ClientStep(c)
    PROVE  AnswerInv'
<1>0. /\ TypeInv /\ row \in [Docs -> Row] /\ history \in [Docs -> History]
      /\ client \in [Clients -> Request] /\ points \in [Docs -> SUBSET Point]
  BY DEF LatestInv, DeleteInv, TypeInv, TypeOK
<1>a. \A w \in Workers : worker[w].pc \in Writing => worker[w].doc \in Docs /\ lock[worker[w].doc] /= None
  BY ConstantsAssumption DEF LatestInv, DeleteInv, LockInv, TypeInv, WellFormed, Writing
<1>1. ASSUME NEW d \in Docs, NEW s \in Sources, NEW m \in Metas, Send(c, d, s, m) PROVE AnswerInv'
  <2>1. \A e \in Docs : (history[e].raced => history'[e].raced) /\ history'[e].torn = history[e].torn
    BY <1>0, <1>1 DEF Send, History
  <2> QED BY <1>0, <1>1, <2>1, AnswerFrame DEF Send, AnswerKept
<1>2. CASE SendCommit(c)
  <2> DEFINE d == client[c].doc
             r == SentRow(row[d], client[c].source, client[c].meta)
  <2>1. /\ d \in Docs /\ row' = [row EXCEPT ![d] = r] /\ UNCHANGED <<points, worker>>
        /\ client[c].pc = "sending"
    BY <1>0, <1>2 DEF SendCommit, TypeInv, WellFormed
  <2>2. \A e \in Docs : (history[e].raced => history'[e].raced) /\ history'[e].torn = history[e].torn
    BY <1>0, <1>2, <2>1 DEF SendCommit
  <2>3. r.status = "indexed" => row[d].status = "indexed" /\ ~row[d].deleted /\ r.chunks = row[d].chunks
    BY <1>0, <2>1, SentRowCases
  <2>4. \A b \in Clients : client[b].pc = "removing" => client'[b] = client[b]
    BY <1>0, <1>2, <2>1 DEF SendCommit
  <2> HIDE DEF d, r
  <2> QED BY <1>0, <2>1, <2>2, <2>3, <2>4, AnswerFrame DEF AnswerKept
<1>3. CASE Abort(c)
  BY <1>0, <1>3, AnswerFrame DEF Abort, AnswerKept
<1>4. ASSUME NEW d \in Docs, Remove(c, d) PROVE AnswerInv'
  <2>1. /\ lock[d] = None /\ UNCHANGED <<row, worker, history>>
        /\ \A e \in Docs : e /= d => points'[e] = points[e]
        /\ client[c].pc = "idle" /\ client'[c].pc = "removing" /\ client'[c].doc = d
        /\ \A b \in Clients : b /= c => client'[b] = client[b]
    BY <1>0, <1>4 DEF Remove, Unlocked
  <2>2. ASSUME NEW w \in Workers, worker'[w].pc \in {"written", "swept"}, worker'[w].text \notin Empty,
               ~history'[worker'[w].doc].raced
        PROVE  \E p \in points'[worker'[w].doc] : p.pass = worker'[w].claim /\ ~p.deleted
    BY <1>a, <2>1, <2>2 DEF AnswerInv, Writing
  <2>3. BeingRemoved(d)' /\ \A e \in Docs : BeingRemoved(e) => BeingRemoved(e)'
    BY <2>1 DEF BeingRemoved
  <2>4. ASSUME NEW e \in Docs, row'[e].status = "indexed", ~row'[e].deleted, row'[e].chunks /= None,
               "removing" \notin history'[e].torn, ~history'[e].raced, ~BeingRemoved(e)'
        PROVE  \E p \in points'[e] : p.pass = row'[e].chunks /\ ~p.deleted
    BY <2>1, <2>3, <2>4 DEF AnswerInv
  <2> QED BY <2>2, <2>4 DEF AnswerInv
<1>5. CASE RemoveCommit(c)
  <2> DEFINE d == client[c].doc
  <2>1. /\ d \in Docs /\ UNCHANGED <<points, worker, history>>
        /\ row'[d].deleted
        /\ \A e \in Docs : e /= d => row'[e] = row[e]
        /\ \A b \in Clients : b /= c => client'[b] = client[b]
    BY <1>0, <1>5 DEF RemoveCommit, TypeInv, WellFormed, Row
  <2>2. \A e \in Docs : e /= d /\ BeingRemoved(e) => BeingRemoved(e)'
    BY <2>1 DEF BeingRemoved
  <2> HIDE DEF d
  <2>3. ASSUME NEW e \in Docs, row'[e].status = "indexed", ~row'[e].deleted, row'[e].chunks /= None,
               "removing" \notin history'[e].torn, ~history'[e].raced, ~BeingRemoved(e)'
        PROVE  \E p \in points'[e] : p.pass = row'[e].chunks /\ ~p.deleted
    BY <2>1, <2>2, <2>3 DEF AnswerInv
  <2> QED BY <2>1, <2>3 DEF AnswerInv
<1>6. CASE UpdateMetadata(c)
  <2>1. \A e \in Docs : \A p \in points[e] : ~p.deleted =>
           \E q \in points'[e] : q.pass = p.pass /\ ~q.deleted
    <3> DEFINE d == client[c].doc
               m == client[c].meta
    <3>1. d \in Docs /\ points' = [points EXCEPT ![d] = Retagged(points[d], m)]
      BY <1>0, <1>6 DEF UpdateMetadata, TypeInv, WellFormed
    <3>2. points[d] \in SUBSET Point
      BY <1>0, <3>1
    <3> HIDE DEF d, m
    <3>3. \A p \in points[d] : ~p.deleted => \E q \in Retagged(points[d], m) : q.pass = p.pass /\ ~q.deleted
      BY <3>2, RetaggedKeeps
    <3> QED BY <1>0, <3>1, <3>3
  <2> QED BY <1>0, <1>6, <2>1, AnswerFrame DEF UpdateMetadata, AnswerKept
<1>7. CASE UpdateMetadataCommit(c)
  <2>1. \A e \in Docs : /\ row'[e].deleted = row[e].deleted /\ row'[e].status = row[e].status
                        /\ row'[e].chunks = row[e].chunks
                        /\ history'[e].raced = history[e].raced /\ history'[e].torn = history[e].torn
    BY <1>0, <1>7 DEF UpdateMetadataCommit, Row, History
  <2> QED BY <1>0, <1>7, <2>1, AnswerFrame DEF UpdateMetadataCommit, AnswerKept
<1>8. CASE Rollback(c)
  <2> DEFINE d == client[c].doc
  <2>1. /\ d \in Docs /\ client[c].pc \in {"removing", "patching"}
        /\ UNCHANGED <<points, worker, row>>
        /\ \A b \in Clients : b /= c => client'[b] = client[b]
    BY <1>0, <1>8 DEF Rollback, TypeInv, WellFormed
  <2>2. /\ \A e \in Docs : history'[e].raced = history[e].raced /\ history[e].torn \subseteq history'[e].torn
        /\ client[c].pc \in history'[d].torn
    BY <1>0, <1>8, <2>1 DEF Rollback, History
  <2>3. \A e \in Docs : BeingRemoved(e) => BeingRemoved(e)' \/ (e = d /\ client[c].pc = "removing")
    BY <2>1 DEF BeingRemoved
  <2> HIDE DEF d
  <2>4. ASSUME NEW e \in Docs, row'[e].status = "indexed", ~row'[e].deleted, row'[e].chunks /= None,
               "removing" \notin history'[e].torn, ~history'[e].raced, ~BeingRemoved(e)'
        PROVE  \E p \in points'[e] : p.pass = row'[e].chunks /\ ~p.deleted
    BY <2>1, <2>2, <2>3, <2>4 DEF AnswerInv
  <2>5. ASSUME NEW w \in Workers, worker'[w].pc \in {"written", "swept"}, worker'[w].text \notin Empty,
               ~history'[worker'[w].doc].raced
        PROVE  \E p \in points'[worker'[w].doc] : p.pass = worker'[w].claim /\ ~p.deleted
    BY <1>a, <2>1, <2>2, <2>5 DEF AnswerInv, Writing
  <2> QED BY <2>4, <2>5 DEF AnswerInv
<1>9. ASSUME NEW d \in Docs, NEW m \in Metas, Lookup(c, d, "retagging", m) PROVE AnswerInv'
  BY <1>0, <1>9, AnswerFrame DEF Lookup, AnswerKept
<1>10. ASSUME NEW d \in Docs, Lookup(c, d, "retrying", None) PROVE AnswerInv'
  BY <1>0, <1>10, AnswerFrame DEF Lookup, AnswerKept
<1>11. CASE Retry(c)
  <2>1. \A e \in Docs :
           /\ history'[e].raced = history[e].raced /\ history'[e].torn = history[e].torn
           /\ row'[e].deleted = row[e].deleted /\ row'[e].chunks = row[e].chunks
           /\ row'[e].status = "indexed" => row[e].status = "indexed"
    BY <1>0, <1>11, RetryEffect
  <2> QED BY <1>0, <1>11, <2>1, AnswerFrame DEF Retry, AnswerKept
<1> QED
  BY <1>1, <1>2, <1>3, <1>4, <1>5, <1>6, <1>7, <1>8, <1>9, <1>10, <1>11 DEF ClientStep

\* Passes keep AnswerInv: only the one with the claim writes and sweeps.
LEMMA AnswerWorker ==
    ASSUME LatestInv, AnswerInv, NEW w \in Workers, WorkerStep(w)
    PROVE  AnswerInv'
<1>0. /\ TypeInv /\ row \in [Docs -> Row] /\ history \in [Docs -> History]
      /\ worker \in [Workers -> Pass] /\ points \in [Docs -> SUBSET Point]
  BY DEF LatestInv, DeleteInv, TypeInv, TypeOK
<1>a. \A v \in Workers : worker[v].pc \in Writing =>
         worker[v].doc \in Docs /\ lock[worker[v].doc] = v /\ lock[worker[v].doc] /= None
  BY ConstantsAssumption DEF LatestInv, DeleteInv, LockInv, TypeInv, WellFormed, Writing
<1>1. ASSUME NEW d \in Docs, Claim(w, d) PROVE AnswerInv'
  <2>1. /\ \A e \in Docs : /\ e /= d => row'[e] = row[e] /\ history'[e].raced = history[e].raced
                           /\ history'[e].torn = history[e].torn
        /\ row'[d].status = "parsing"
    BY <1>0, <1>1, ClaimEffect
  <2>2. /\ lock[d] = None /\ UNCHANGED <<points, client>>
        /\ worker'[w].pc = "claimed" /\ \A v \in Workers : v /= w => worker'[v] = worker[v]
    BY <1>0, <1>1 DEF Claim, Unlocked
  <2>3. ASSUME NEW v \in Workers, worker'[v].pc \in {"written", "swept"}, worker'[v].text \notin Empty,
               ~history'[worker'[v].doc].raced
        PROVE  \E p \in points'[worker'[v].doc] : p.pass = worker'[v].claim /\ ~p.deleted
    BY <1>a, <2>1, <2>2, <2>3 DEF AnswerInv, Writing
  <2>4. ASSUME NEW e \in Docs, row'[e].status = "indexed", ~row'[e].deleted, row'[e].chunks /= None,
               "removing" \notin history'[e].torn, ~history'[e].raced, ~BeingRemoved(e)'
        PROVE  \E p \in points'[e] : p.pass = row'[e].chunks /\ ~p.deleted
    BY <2>1, <2>2, <2>4 DEF AnswerInv, BeingRemoved
  <2> QED BY <2>3, <2>4 DEF AnswerInv
<1>2. CASE UpsertPoints(w)
  <2> DEFINE d == worker[w].doc
  <2>1. /\ d \in Docs /\ worker[w].pc = "upserted" /\ UNCHANGED <<row, client, history>>
        /\ points' = [points EXCEPT ![d] = @ \cup NewPoints(w)]
        /\ worker' = [worker EXCEPT ![w] = [@ EXCEPT !.pc = "written"]]
    BY <1>2 DEF UpsertPoints, LatestInv, DeleteInv, TypeInv, WellFormed
  <2>2. worker[w].text \notin Empty => \E p \in NewPoints(w) : p.pass = worker[w].claim /\ ~p.deleted
    BY DEF NewPoints
  <2>3. /\ worker'[w].doc = d /\ worker'[w].claim = worker[w].claim /\ worker'[w].text = worker[w].text
        /\ \A v \in Workers : v /= w => worker'[v] = worker[v]
        /\ \A e \in Docs : points[e] \subseteq points'[e]
        /\ NewPoints(w) \subseteq points'[d]
    BY <1>0, <2>1 DEF Pass
  <2> HIDE DEF d
  <2>4. ASSUME NEW v \in Workers, worker'[v].pc \in {"written", "swept"}, worker'[v].text \notin Empty,
               ~history'[worker'[v].doc].raced
        PROVE  \E p \in points'[worker'[v].doc] : p.pass = worker'[v].claim /\ ~p.deleted
    <3>1. CASE v = w
      BY <2>2, <2>3, <2>4, <3>1
    <3>2. CASE v /= w
      BY <1>a, <2>1, <2>3, <2>4, <3>2 DEF AnswerInv, Writing
    <3> QED BY <3>1, <3>2
  <2>5. ASSUME NEW e \in Docs, row'[e].status = "indexed", ~row'[e].deleted, row'[e].chunks /= None,
               "removing" \notin history'[e].torn, ~history'[e].raced, ~BeingRemoved(e)'
        PROVE  \E p \in points'[e] : p.pass = row'[e].chunks /\ ~p.deleted
    BY <2>1, <2>3, <2>5 DEF AnswerInv, BeingRemoved
  <2> QED BY <2>4, <2>5 DEF AnswerInv
<1>3. CASE Sweep(w)
  <2> DEFINE d == worker[w].doc
  <2>1. /\ d \in Docs /\ worker[w].pc = "written" /\ UNCHANGED <<row, client, history>>
        /\ points' = [points EXCEPT ![d] = {p \in @ : p.pass = worker[w].claim}]
        /\ worker' = [worker EXCEPT ![w] = [@ EXCEPT !.pc = "swept"]]
        /\ row[d].status = "parsing"
    BY <1>3 DEF Sweep, LatestInv, DeleteInv, FenceInv, TypeInv, WellFormed, Writing
  <2>2. /\ worker'[w].doc = d /\ worker'[w].claim = worker[w].claim /\ worker'[w].text = worker[w].text
        /\ \A v \in Workers : v /= w => worker'[v] = worker[v]
        /\ \A e \in Docs : e /= d => points'[e] = points[e]
        /\ points'[d] = {p \in points[d] : p.pass = worker[w].claim}
    BY <1>0, <2>1 DEF Pass
  <2> HIDE DEF d
  <2>3. ASSUME NEW v \in Workers, worker'[v].pc \in {"written", "swept"}, worker'[v].text \notin Empty,
               ~history'[worker'[v].doc].raced
        PROVE  \E p \in points'[worker'[v].doc] : p.pass = worker'[v].claim /\ ~p.deleted
    <3>1. CASE v = w
      BY <2>1, <2>2, <2>3, <3>1 DEF AnswerInv, d
    <3>2. CASE v /= w
      <4>1. worker[v].doc \in Docs /\ worker[v].doc /= d
        BY <1>a, <2>1, <2>2, <2>3, <3>2 DEF Writing, d
      <4> QED BY <2>1, <2>2, <2>3, <3>2, <4>1 DEF AnswerInv
    <3> QED BY <3>1, <3>2
  <2>4. ASSUME NEW e \in Docs, row'[e].status = "indexed", ~row'[e].deleted, row'[e].chunks /= None,
               "removing" \notin history'[e].torn, ~history'[e].raced, ~BeingRemoved(e)'
        PROVE  \E p \in points'[e] : p.pass = row'[e].chunks /\ ~p.deleted
    BY <2>1, <2>2, <2>4 DEF AnswerInv, BeingRemoved
  <2> QED BY <2>3, <2>4 DEF AnswerInv
<1>4. CASE Commit(w)
  <2> DEFINE d == worker[w].doc
  <2>1. /\ \A e \in Docs : /\ history'[e].raced = history[e].raced
                           /\ e /= d => row'[e] = row[e] /\ history'[e].torn = history[e].torn
        /\ row'[d].chunks = IF worker[w].text \in Empty THEN None ELSE worker[w].claim
    BY <1>0, <1>4, CommitEffect
  <2>2. /\ d \in Docs /\ worker[w].pc = "swept" /\ UNCHANGED <<points, client>>
        /\ worker'[w].pc = "idle" /\ \A v \in Workers : v /= w => worker'[v] = worker[v]
    BY <1>0, <1>4 DEF Commit, IdlePass, TypeInv, WellFormed
  <2>3. worker[w].text \notin Empty /\ ~history[d].raced =>
           \E p \in points[d] : p.pass = worker[w].claim /\ ~p.deleted
    BY <2>2 DEF AnswerInv
  <2> HIDE DEF d
  <2>4. ASSUME NEW v \in Workers, worker'[v].pc \in {"written", "swept"}, worker'[v].text \notin Empty,
               ~history'[worker'[v].doc].raced
        PROVE  \E p \in points'[worker'[v].doc] : p.pass = worker'[v].claim /\ ~p.deleted
    BY <1>a, <2>1, <2>2, <2>4 DEF AnswerInv, Writing
  <2>5. ASSUME NEW e \in Docs, row'[e].status = "indexed", ~row'[e].deleted, row'[e].chunks /= None,
               "removing" \notin history'[e].torn, ~history'[e].raced, ~BeingRemoved(e)'
        PROVE  \E p \in points'[e] : p.pass = row'[e].chunks /\ ~p.deleted
    BY <2>1, <2>2, <2>3, <2>5 DEF AnswerInv, BeingRemoved
  <2> QED BY <2>4, <2>5 DEF AnswerInv
<1>5. ASSUME NEW retryable \in BOOLEAN, RecordFailure(w, retryable) PROVE AnswerInv'
  <2>1. \A e \in Docs : /\ row'[e].deleted = row[e].deleted /\ row'[e].chunks = row[e].chunks
                        /\ row'[e].status = "indexed" => row[e].status = "indexed"
    BY <1>0, <1>5, RecordFailureEffect
  <2> QED BY <1>0, <1>5, <2>1, AnswerFrame DEF RecordFailure, IdlePass, AnswerKept
<1>6. CASE Parse(w)
  BY <1>0, <1>6, AnswerFrame DEF Parse, AnswerKept
<1>7. CASE Find(w)
  BY <1>0, <1>7, AnswerFrame DEF Find, IdlePass, AnswerKept
<1>8. CASE Upsert(w)
  <2>1. /\ UNCHANGED <<row, points, client, history>>
        /\ \/ worker' = [worker EXCEPT ![w] = IdlePass]
           \/ worker' = [worker EXCEPT ![w].pc = "upserted"]
    BY <1>8 DEF Upsert
  <2>2. \A v \in Workers : worker'[v].pc \in {"written", "swept"} => worker'[v] = worker[v]
    <3>1. CASE worker' = [worker EXCEPT ![w] = IdlePass]
      BY <1>0, <3>1 DEF IdlePass
    <3>2. CASE worker' = [worker EXCEPT ![w].pc = "upserted"]
      BY <1>0, <3>2
    <3> QED BY <2>1, <3>1, <3>2
  <2> QED BY <1>0, <2>1, <2>2, AnswerFrame DEF AnswerKept
<1>9. CASE Throw(w)
  BY <1>0, <1>9, AnswerFrame DEF Throw, AnswerKept
<1>10. CASE Crash(w)
  BY <1>0, <1>10, AnswerFrame DEF Crash, IdlePass, AnswerKept
<1> QED
  BY <1>1, <1>2, <1>3, <1>4, <1>5, <1>6, <1>7, <1>8, <1>9, <1>10 DEF WorkerStep

\* Collectors keep AnswerInv.
LEMMA AnswerCollector ==
    ASSUME LatestInv, CollectInv, AnswerInv, NEW k \in Collectors, CollectorStep(k)
    PROVE  AnswerInv'
<1>0. /\ TypeInv /\ row \in [Docs -> Row] /\ history \in [Docs -> History]
      /\ points \in [Docs -> SUBSET Point]
  BY DEF LatestInv, DeleteInv, TypeInv, TypeOK
<1>1. CASE Purge(k)
  <2> DEFINE d == collector[k].doc
  <2>1. /\ d \in Docs /\ UNCHANGED <<row, client, worker, history>>
        /\ ~history[d].raced => row[d].deleted
        /\ \A e \in Docs : e /= d => points'[e] = points[e]
    BY <1>0, <1>1 DEF Purge, TypeInv, WellFormed, CollectInv, PastCheck
  <2>2. \A w \in Workers : worker[w].pc \in Writing => worker[w].doc \in Docs /\ ~row[worker[w].doc].deleted
    BY DEF LatestInv, DeleteInv, LockInv, TypeInv, WellFormed, Writing
  <2> HIDE DEF d
  <2>3. ASSUME NEW w \in Workers, worker'[w].pc \in {"written", "swept"}, worker'[w].text \notin Empty,
               ~history'[worker'[w].doc].raced
        PROVE  \E p \in points'[worker'[w].doc] : p.pass = worker'[w].claim /\ ~p.deleted
    BY <2>1, <2>2, <2>3 DEF AnswerInv, Writing
  <2>4. ASSUME NEW e \in Docs, row'[e].status = "indexed", ~row'[e].deleted, row'[e].chunks /= None,
               "removing" \notin history'[e].torn, ~history'[e].raced, ~BeingRemoved(e)'
        PROVE  \E p \in points'[e] : p.pass = row'[e].chunks /\ ~p.deleted
    BY <2>1, <2>4 DEF AnswerInv, BeingRemoved
  <2> QED BY <2>3, <2>4 DEF AnswerInv
<1>2. CASE StillDeleted(k)
  <2>1. \A e \in Docs : (history[e].raced => history'[e].raced) /\ history'[e].torn = history[e].torn
    <3>1. CASE row[collector[k].doc].deleted
      BY <1>0, <1>2, <3>1 DEF StillDeleted, History
    <3>2. CASE ~row[collector[k].doc].deleted
      BY <1>2, <3>2 DEF StillDeleted
    <3> QED BY <3>1, <3>2
  <2> QED BY <1>0, <1>2, <2>1, AnswerFrame DEF StillDeleted, AnswerKept
<1>3. CASE MarkPurged(k)
  <2>1. \A e \in Docs : /\ row'[e].deleted = row[e].deleted /\ row'[e].chunks = row[e].chunks
                        /\ row'[e].status = row[e].status
    BY <1>0, <1>3 DEF MarkPurged, Row
  <2> QED BY <1>0, <1>3, <2>1, AnswerFrame DEF MarkPurged, AnswerKept
<1>4. CASE RemoveObject(k) \/ CollectFail(k) \/ \E d \in Docs : CollectClaim(k, d)
  BY <1>0, <1>4, AnswerFrame DEF RemoveObject, CollectFail, CollectClaim, AnswerKept
<1> QED
  BY <1>1, <1>2, <1>3, <1>4 DEF CollectorStep

\* Every step keeps AnswerInv.
LEMMA NextAnswer == LatestInv /\ CollectInv /\ AnswerInv /\ [Next]_vars => AnswerInv'
<1> SUFFICES ASSUME LatestInv, CollectInv, AnswerInv, [Next]_vars PROVE AnswerInv'
  OBVIOUS
<1>0. TypeInv
  BY DEF LatestInv, DeleteInv
<1>1. ASSUME NEW d \in Docs, Reap(d) PROVE AnswerInv'
  <2>1. \A e \in Docs : /\ row'[e].deleted = row[e].deleted /\ row'[e].chunks = row[e].chunks
                        /\ row'[e].status = "indexed" => row[e].status = "indexed"
                        /\ history'[e].raced = history[e].raced /\ history'[e].torn = history[e].torn
    BY <1>0, <1>1, ReapEffect
  <2> QED BY <1>0, <1>1, <2>1, AnswerFrame DEF Reap, AnswerKept
<1>2. CASE UNCHANGED vars
  BY <1>0, <1>2, AnswerFrame DEF vars, AnswerKept
<1> QED BY <1>0, <1>1, <1>2, AnswerClient, AnswerWorker, AnswerCollector DEF Next

\* An indexed document with chunks answers searches, unless a delete failed half
\* way on it or a send raced a collector: no pass, crash, retag, refused upsert
\* or sweep of another document takes its points away.
THEOREM IndexedFound == Spec => []IndexedAnswers
<1>1. LatestInv /\ CollectInv /\ AnswerInv => IndexedAnswers
  <2> SUFFICES ASSUME LatestInv, AnswerInv, NEW d \in Docs, Settled(d), row[d].chunks /= None,
                      "removing" \notin history[d].torn, ~history[d].raced
               PROVE  Answers(d) /= {}
    BY DEF IndexedAnswers
  <2>1. ~BeingRemoved(d)
    BY ConstantsAssumption DEF BeingRemoved, LatestInv, DeleteInv, LockInv, Settled, Unlocked
  <2> QED BY <2>1 DEF AnswerInv, Settled, Answers
<1>2. Init => LatestInv /\ CollectInv /\ AnswerInv
  BY InitLatest, InitCollect, InitAnswer
<1>3. LatestInv /\ CollectInv /\ AnswerInv /\ [Next]_vars => (LatestInv /\ CollectInv /\ AnswerInv)'
  <2>1. LatestInv => DeleteInv
    BY DEF LatestInv
  <2> QED BY <2>1, NextLatest, NextCollect, NextAnswer
<1> QED BY <1>1, <1>2, <1>3, PTL DEF Spec

-----------------------------------------------------------------------------
(* The metadata of the points is the row's *)

\* Nothing is tagged at first.
LEMMA InitMeta == Init => MetaInv
BY ConstantsAssumption DEF Init, MetaInv, NoRow, IdlePass, IdleRequest

\* A step that starts no pass and no retag, indexes nothing, and leaves the
\* metadata of a row alone unless it takes the claim away.
MetaKept ==
    /\ \A w \in Workers : worker'[w].pc /= "idle" =>
          /\ worker[w].pc /= "idle" /\ worker'[w].doc = worker[w].doc
          /\ worker'[w].claim = worker[w].claim /\ worker'[w].meta = worker[w].meta
          /\ worker'[w].pc \in {"written", "swept"} => worker[w].pc \in {"written", "swept"}
    /\ \A c \in Clients : client[c].pc = "patching" \/ client'[c].pc = "patching"
                          => client'[c] = client[c]
    /\ \A e \in Docs :
          /\ row'[e].claim = None \/ (row'[e].claim = row[e].claim /\ row'[e].meta = row[e].meta)
          /\ row'[e].status = "indexed" =>
                /\ row[e].status = "indexed" /\ row'[e].chunks = row[e].chunks
                /\ row'[e].meta = row[e].meta
          /\ history[e].torn \subseteq history'[e].torn
          /\ history[e].retagged => history'[e].retagged
          /\ \A p \in points'[e] : \E q \in points[e] : q.pass = p.pass /\ q.meta = p.meta

\* A step that touches none of it keeps MetaInv.
LEMMA MetaFrame ==
    ASSUME TypeInv, MetaInv, MetaKept
    PROVE  MetaInv'
<1>1. ASSUME NEW w \in Workers, worker'[w].pc /= "idle",
             worker'[w].claim = row'[worker'[w].doc].claim, ~history'[worker'[w].doc].retagged
      PROVE  worker'[w].meta = row'[worker'[w].doc].meta
  BY <1>1, ConstantsAssumption DEF TypeInv, WellFormed, MetaInv, MetaKept
<1>2. ASSUME NEW w \in Workers, worker'[w].pc \in {"written", "swept"},
             NEW p \in points'[worker'[w].doc], p.pass = worker'[w].claim
      PROVE  p.meta = worker'[w].meta
  BY <1>2 DEF TypeInv, WellFormed, MetaInv, MetaKept
<1>3. ASSUME NEW c \in Clients, client'[c].pc = "patching", NEW p \in points'[client'[c].doc]
      PROVE  p.meta = client'[c].meta
  BY <1>3 DEF TypeInv, WellFormed, MetaInv, MetaKept
<1>4. ASSUME NEW d \in Docs, row'[d].status = "indexed", "patching" \notin history'[d].torn,
             ~history'[d].retagged, ~BeingPatched(d)', NEW p \in points'[d], p.pass = row'[d].chunks
      PROVE  p.meta = row'[d].meta
  <2>1. ~BeingPatched(d)
    BY <1>4 DEF MetaKept, BeingPatched
  <2> QED BY <1>4, <2>1 DEF MetaInv, MetaKept
<1> QED BY <1>1, <1>2, <1>3, <1>4 DEF MetaInv

\* Requests keep MetaInv.
LEMMA MetaClient ==
    ASSUME LatestInv, MetaInv, NEW c \in Clients, ClientStep(c)
    PROVE  MetaInv'
<1>0. /\ TypeInv /\ row \in [Docs -> Row] /\ history \in [Docs -> History]
      /\ client \in [Clients -> Request] /\ points \in [Docs -> SUBSET Point]
  BY DEF LatestInv, DeleteInv, TypeInv, TypeOK
<1>a. /\ \A w \in Workers : worker[w].pc \in Writing => worker[w].doc \in Docs /\ lock[worker[w].doc] /= None
      /\ \A b \in Clients : client[b].pc = "patching" =>
            client[b].doc \in Docs /\ lock[client[b].doc] = b /\ lock[client[b].doc] /= None
  BY ConstantsAssumption DEF LatestInv, DeleteInv, LockInv, TypeInv, WellFormed, Writing
<1>1. ASSUME NEW d \in Docs, NEW s \in Sources, NEW m \in Metas, Send(c, d, s, m) PROVE MetaInv'
  <2>1. \A e \in Docs : history'[e].retagged = history[e].retagged /\ history'[e].torn = history[e].torn
    BY <1>0, <1>1 DEF Send, History
  <2> QED BY <1>0, <1>1, <2>1, MetaFrame DEF Send, MetaKept
<1>2. CASE SendCommit(c)
  <2> DEFINE d == client[c].doc
             r == SentRow(row[d], client[c].source, client[c].meta)
  <2>1. /\ d \in Docs /\ row' = [row EXCEPT ![d] = r] /\ UNCHANGED <<points, worker>>
        /\ client[c].pc = "sending"
    BY <1>0, <1>2 DEF SendCommit, TypeInv, WellFormed
  <2>2. \A e \in Docs : history'[e].retagged = history[e].retagged /\ history'[e].torn = history[e].torn
    BY <1>0, <1>2, <2>1 DEF SendCommit
  <2>3. /\ r.claim = None \/ (r.claim = row[d].claim /\ r.meta = row[d].meta)
        /\ r.status = "indexed" =>
              row[d].status = "indexed" /\ r.chunks = row[d].chunks /\ r.meta = row[d].meta
    BY <1>0, <2>1, SentRowCases
  <2>4. \A b \in Clients : client[b].pc = "patching" \/ client'[b].pc = "patching"
                           => client'[b] = client[b]
    BY <1>0, <1>2, <2>1 DEF SendCommit, IdleRequest
  <2> HIDE DEF d, r
  <2> QED BY <1>0, <2>1, <2>2, <2>3, <2>4, MetaFrame DEF MetaKept
<1>3. CASE Abort(c)
  BY <1>0, <1>3, MetaFrame DEF Abort, IdleRequest, MetaKept
<1>4. ASSUME NEW d \in Docs, Remove(c, d) PROVE MetaInv'
  <2>1. \A e \in Docs : \A p \in points'[e] : \E q \in points[e] : q.pass = p.pass /\ q.meta = p.meta
    <3>1. points' = [points EXCEPT ![d] = Flagged(points[d])] /\ points[d] \in SUBSET Point
      BY <1>0, <1>4 DEF Remove
    <3>2. \A p \in Flagged(points[d]) : \E q \in points[d] : q.pass = p.pass /\ q.meta = p.meta
      BY <3>1 DEF Flagged, Point
    <3> QED BY <1>0, <3>1, <3>2
  <2> QED BY <1>0, <1>4, <2>1, MetaFrame DEF Remove, IdleRequest, MetaKept
<1>5. CASE RemoveCommit(c)
  <2>1. \A e \in Docs : /\ row'[e].claim = row[e].claim /\ row'[e].meta = row[e].meta
                        /\ row'[e].status = row[e].status /\ row'[e].chunks = row[e].chunks
    BY <1>0, <1>5 DEF RemoveCommit, Row
  <2> QED BY <1>0, <1>5, <2>1, MetaFrame DEF RemoveCommit, IdleRequest, MetaKept
<1>6. CASE UpdateMetadata(c)
  <2> DEFINE d == client[c].doc
             m == client[c].meta
  <2>1. /\ d \in Docs /\ lock[d] = None /\ UNCHANGED <<row, worker, history>>
        /\ points' = [points EXCEPT ![d] = Retagged(points[d], m)]
        /\ client' = [client EXCEPT ![c] = [@ EXCEPT !.pc = "patching"]]
    BY <1>0, <1>6 DEF UpdateMetadata, TypeInv, WellFormed, Unlocked
  <2>2. /\ client'[c].pc = "patching" /\ client'[c].doc = d /\ client'[c].meta = m
        /\ \A b \in Clients : b /= c => client'[b] = client[b]
        /\ \A e \in Docs : e /= d => points'[e] = points[e]
        /\ points'[d] = Retagged(points[d], m)
    BY <1>0, <2>1 DEF Request
  <2>3. \A p \in points'[d] : p.meta = m
    <3>1. points[d] \in SUBSET Point
      BY <1>0, <2>1
    <3> HIDE DEF d, m
    <3> QED BY <2>2, <3>1, RetaggedKeeps
  <2>4. \A e \in Docs : e = d \/ BeingPatched(e) => BeingPatched(e)'
    BY <2>2 DEF BeingPatched
  <2> HIDE DEF d, m
  <2>5. ASSUME NEW w \in Workers, worker'[w].pc \in {"written", "swept"},
               NEW p \in points'[worker'[w].doc], p.pass = worker'[w].claim
        PROVE  p.meta = worker'[w].meta
    BY <1>a, <2>1, <2>2, <2>5 DEF MetaInv, Writing
  <2>6. ASSUME NEW b \in Clients, client'[b].pc = "patching", NEW p \in points'[client'[b].doc]
        PROVE  p.meta = client'[b].meta
    BY <1>a, <2>1, <2>2, <2>3, <2>6 DEF MetaInv
  <2>7. ASSUME NEW e \in Docs, row'[e].status = "indexed", "patching" \notin history'[e].torn,
               ~history'[e].retagged, ~BeingPatched(e)', NEW p \in points'[e], p.pass = row'[e].chunks
        PROVE  p.meta = row'[e].meta
    <3>1. e /= d
      BY <2>4, <2>7
    <3>2. ~BeingPatched(e) /\ points'[e] = points[e] /\ row' = row /\ history' = history
      BY <2>1, <2>2, <2>4, <2>7, <3>1
    <3> QED BY <2>7, <3>2 DEF MetaInv
  <2> QED BY <2>1, <2>5, <2>6, <2>7 DEF MetaInv
<1>7. CASE UpdateMetadataCommit(c)
  <2> DEFINE d == client[c].doc
             m == client[c].meta
             b == history[d].retagged \/ row[d].claim /= None
  <2>1. /\ d \in Docs /\ client[c].pc = "patching" /\ UNCHANGED <<points, worker>>
        /\ row' = [row EXCEPT ![d] = [@ EXCEPT !.meta = m]]
        /\ history' = [history EXCEPT ![d] = [@ EXCEPT !.retagged = b]]
        /\ client' = [client EXCEPT ![c] = IdleRequest]
    BY <1>0, <1>7 DEF UpdateMetadataCommit, TypeInv, WellFormed
  <2>2. (history[d].retagged => b) /\ (row[d].claim /= None => b)
    OBVIOUS
  <2> HIDE DEF d, m, b
  <2>3. /\ \A e \in Docs : /\ row'[e].claim = row[e].claim /\ row'[e].status = row[e].status
                           /\ row'[e].chunks = row[e].chunks
                           /\ e /= d => row'[e] = row[e] /\ history'[e] = history[e]
                           /\ history'[e].torn = history[e].torn
        /\ row'[d].meta = m /\ history'[d].retagged = b
        /\ client'[c].pc = "idle" /\ \A a \in Clients : a /= c => client'[a] = client[a]
    BY <1>0, <2>1 DEF Row, History, IdleRequest
  <2>4. \A e \in Docs : e /= d /\ BeingPatched(e) => BeingPatched(e)'
    BY <2>3 DEF BeingPatched, d
  <2>5. ASSUME NEW w \in Workers, worker'[w].pc /= "idle",
               worker'[w].claim = row'[worker'[w].doc].claim, ~history'[worker'[w].doc].retagged
        PROVE  worker'[w].meta = row'[worker'[w].doc].meta
    <3>1. worker[w].doc \in Docs /\ worker[w].claim \in Tokens
      BY <1>0, <2>1, <2>5 DEF TypeInv, WellFormed
    <3> QED BY <2>1, <2>2, <2>3, <2>5, <3>1, ConstantsAssumption DEF MetaInv
  <2>6. ASSUME NEW a \in Clients, client'[a].pc = "patching", NEW p \in points'[client'[a].doc]
        PROVE  p.meta = client'[a].meta
    BY <2>1, <2>3, <2>6 DEF MetaInv
  <2>7. ASSUME NEW e \in Docs, row'[e].status = "indexed", "patching" \notin history'[e].torn,
               ~history'[e].retagged, ~BeingPatched(e)', NEW p \in points'[e], p.pass = row'[e].chunks
        PROVE  p.meta = row'[e].meta
    <3>1. CASE e = d
      BY <2>1, <2>3, <2>7, <3>1 DEF MetaInv, d, m
    <3>2. CASE e /= d
      BY <2>1, <2>3, <2>4, <2>7, <3>2 DEF MetaInv
    <3> QED BY <3>1, <3>2
  <2> QED BY <2>1, <2>5, <2>6, <2>7 DEF MetaInv
<1>8. CASE Rollback(c)
  <2> DEFINE d == client[c].doc
  <2>1. /\ d \in Docs /\ client[c].pc \in {"removing", "patching"}
        /\ UNCHANGED <<points, worker, row>>
        /\ client'[c].pc = "idle" /\ \A b \in Clients : b /= c => client'[b] = client[b]
    BY <1>0, <1>8 DEF Rollback, TypeInv, WellFormed, IdleRequest
  <2>2. /\ \A e \in Docs : history'[e].retagged = history[e].retagged /\ history[e].torn \subseteq history'[e].torn
        /\ client[c].pc \in history'[d].torn
    BY <1>0, <1>8, <2>1 DEF Rollback, History
  <2>3. \A e \in Docs : BeingPatched(e) => BeingPatched(e)' \/ (e = d /\ client[c].pc = "patching")
    BY <2>1 DEF BeingPatched
  <2> HIDE DEF d
  <2>4. ASSUME NEW w \in Workers, worker'[w].pc /= "idle",
               worker'[w].claim = row'[worker'[w].doc].claim, ~history'[worker'[w].doc].retagged
        PROVE  worker'[w].meta = row'[worker'[w].doc].meta
    BY <1>0, <2>1, <2>2, <2>4 DEF MetaInv, TypeInv, WellFormed
  <2>5. ASSUME NEW b \in Clients, client'[b].pc = "patching", NEW p \in points'[client'[b].doc]
        PROVE  p.meta = client'[b].meta
    BY <2>1, <2>5 DEF MetaInv
  <2>6. ASSUME NEW e \in Docs, row'[e].status = "indexed", "patching" \notin history'[e].torn,
               ~history'[e].retagged, ~BeingPatched(e)', NEW p \in points'[e], p.pass = row'[e].chunks
        PROVE  p.meta = row'[e].meta
    BY <2>1, <2>2, <2>3, <2>6 DEF MetaInv
  <2> QED BY <2>1, <2>4, <2>5, <2>6 DEF MetaInv
<1>9. ASSUME NEW d \in Docs, NEW m \in Metas, Lookup(c, d, "retagging", m) PROVE MetaInv'
  BY <1>0, <1>9, MetaFrame DEF Lookup, MetaKept
<1>10. ASSUME NEW d \in Docs, Lookup(c, d, "retrying", None) PROVE MetaInv'
  BY <1>0, <1>10, MetaFrame DEF Lookup, MetaKept
<1>11. CASE Retry(c)
  <2>1. \A e \in Docs :
           /\ history'[e].retagged = history[e].retagged /\ history'[e].torn = history[e].torn
           /\ row'[e].meta = row[e].meta /\ row'[e].chunks = row[e].chunks
           /\ row'[e].claim = None \/ row'[e].claim = row[e].claim
           /\ row'[e].status = "indexed" => row[e].status = "indexed"
    BY <1>0, <1>11, RetryEffect
  <2> QED BY <1>0, <1>11, <2>1, MetaFrame DEF Retry, IdleRequest, MetaKept
<1> QED
  BY <1>1, <1>2, <1>3, <1>4, <1>5, <1>6, <1>7, <1>8, <1>9, <1>10, <1>11 DEF ClientStep

\* A pass that only moves on, or ends, keeps what it read.
LEMMA PassMoves ==
    ASSUME TypeInv, NEW w \in Workers,
           Parse(w) \/ Find(w) \/ Upsert(w) \/ Throw(w) \/ Crash(w)
    PROVE  /\ UNCHANGED <<row, points, object, client, collector, history>>
           /\ \A v \in Workers : worker'[v].pc /= "idle" =>
                 /\ worker[v].pc /= "idle" /\ worker'[v].doc = worker[v].doc
                 /\ worker'[v].claim = worker[v].claim /\ worker'[v].meta = worker[v].meta
                 /\ worker'[v].pc \in {"written", "swept"} => worker[v].pc \in {"written", "swept"}
<1>0. worker \in [Workers -> Pass]
  BY DEF TypeInv, TypeOK
<1> DEFINE Moves == \A v \in Workers : worker'[v].pc /= "idle" =>
                 /\ worker[v].pc /= "idle" /\ worker'[v].doc = worker[v].doc
                 /\ worker'[v].claim = worker[v].claim /\ worker'[v].meta = worker[v].meta
                 /\ worker'[v].pc \in {"written", "swept"} => worker[v].pc \in {"written", "swept"}
<1>1. ASSUME worker' = [worker EXCEPT ![w] = IdlePass] PROVE Moves
  BY <1>0, <1>1 DEF IdlePass
<1>2. ASSUME NEW pc \in {"embedded", "upserted", "failing"}, worker[w].pc /= "idle",
             worker' = [worker EXCEPT ![w] = [@ EXCEPT !.pc = pc]]
      PROVE  Moves
  BY <1>0, <1>2 DEF Pass
<1>3. ASSUME NEW text, worker[w].pc /= "idle",
             worker' = [worker EXCEPT ![w] = [@ EXCEPT !.pc = "parsed", !.text = text]]
      PROVE  Moves
  BY <1>0, <1>3 DEF Pass
<1>4. CASE Parse(w)
  BY <1>3, <1>4 DEF Parse
<1>5. CASE Find(w)
  BY <1>1, <1>2, <1>5 DEF Find
<1>6. CASE Upsert(w)
  BY <1>1, <1>2, <1>6 DEF Upsert
<1>7. CASE Throw(w)
  BY <1>2, <1>7 DEF Throw
<1>8. CASE Crash(w)
  BY <1>1, <1>8 DEF Crash
<1> QED BY <1>4, <1>5, <1>6, <1>7, <1>8 DEF Parse, Find, Upsert, Throw, Crash

\* Passes keep MetaInv.
LEMMA MetaWorker ==
    ASSUME LatestInv, MetaInv, NEW w \in Workers, WorkerStep(w)
    PROVE  MetaInv'
<1>0. /\ TypeInv /\ row \in [Docs -> Row] /\ history \in [Docs -> History]
      /\ worker \in [Workers -> Pass] /\ points \in [Docs -> SUBSET Point]
  BY DEF LatestInv, DeleteInv, TypeInv, TypeOK
<1>a. /\ \A v \in Workers : worker[v].pc /= "idle" => worker[v].doc \in Docs /\ worker[v].claim \in Tokens
      /\ None \notin Tokens
      /\ \A v \in Workers : worker[v].pc \in Writing =>
            /\ lock[worker[v].doc] = v /\ row[worker[v].doc].claim = worker[v].claim
            /\ row[worker[v].doc].status = "parsing"
      /\ \A c \in Clients : client[c].pc = "patching" => lock[client[c].doc] = c
      /\ Workers \cap Clients = {}
  BY ConstantsAssumption DEF LatestInv, DeleteInv, LockInv, FenceInv, TypeInv, WellFormed, Writing
<1>1. ASSUME NEW d \in Docs, Claim(w, d) PROVE MetaInv'
  <2>1. /\ \A e \in Docs : /\ e /= d => row'[e] = row[e] /\ history'[e].retagged = history[e].retagged
                           /\ history'[e].torn = history[e].torn /\ row'[e].meta = row[e].meta
        /\ row'[d].status = "parsing" /\ row'[d].claim = FreshToken
    BY <1>0, <1>1, ClaimEffect
  <2>2. /\ UNCHANGED <<points, client>>
        /\ worker'[w].pc = "claimed" /\ worker'[w].doc = d /\ worker'[w].claim = FreshToken
        /\ worker'[w].meta = row[d].meta
        /\ \A v \in Workers : v /= w => worker'[v] = worker[v]
    BY <1>0, <1>1 DEF Claim
  <2>3. FreshToken \in Tokens /\ \A v \in Workers : worker[v].claim /= FreshToken
    BY <1>1, FreshTokenIsFresh DEF Claim, InUse
  <2>4. ASSUME NEW v \in Workers, worker'[v].pc /= "idle",
               worker'[v].claim = row'[worker'[v].doc].claim, ~history'[worker'[v].doc].retagged
        PROVE  worker'[v].meta = row'[worker'[v].doc].meta
    BY <1>a, <2>1, <2>2, <2>3, <2>4 DEF MetaInv
  <2>5. ASSUME NEW v \in Workers, worker'[v].pc \in {"written", "swept"},
               NEW p \in points'[worker'[v].doc], p.pass = worker'[v].claim
        PROVE  p.meta = worker'[v].meta
    BY <2>2, <2>5 DEF MetaInv
  <2>6. ASSUME NEW e \in Docs, row'[e].status = "indexed", "patching" \notin history'[e].torn,
               ~history'[e].retagged, ~BeingPatched(e)', NEW p \in points'[e], p.pass = row'[e].chunks
        PROVE  p.meta = row'[e].meta
    BY <2>1, <2>2, <2>6 DEF MetaInv, BeingPatched
  <2> QED BY <2>2, <2>4, <2>5, <2>6 DEF MetaInv
<1>2. CASE UpsertPoints(w)
  <2> DEFINE d == worker[w].doc
  <2>1. /\ d \in Docs /\ worker[w].pc = "upserted" /\ UNCHANGED <<row, client, history>>
        /\ points' = [points EXCEPT ![d] = @ \cup NewPoints(w)]
        /\ worker' = [worker EXCEPT ![w] = [@ EXCEPT !.pc = "written"]]
        /\ lock[d] = w /\ row[d].status = "parsing"
    BY <1>a, <1>2 DEF UpsertPoints, Writing
  <2>2. \A p \in NewPoints(w) : p.pass = worker[w].claim /\ p.meta = worker[w].meta
    BY DEF NewPoints
  <2>3. /\ \A v \in Workers : worker'[v].doc = worker[v].doc /\ worker'[v].claim = worker[v].claim
                              /\ worker'[v].meta = worker[v].meta
        /\ \A v \in Workers : v /= w => worker'[v] = worker[v]
        /\ \A e \in Docs : e /= d => points'[e] = points[e]
        /\ \A p \in points'[d] : p \in points[d] \/ p \in NewPoints(w)
    BY <1>0, <2>1 DEF Pass
  <2>4. \A p \in points[d] : p.pass /= worker[w].claim
    BY <2>1 DEF LatestInv, PointsInv
  <2> HIDE DEF d
  <2>5. ASSUME NEW v \in Workers, worker'[v].pc \in {"written", "swept"},
               NEW p \in points'[worker'[v].doc], p.pass = worker'[v].claim
        PROVE  p.meta = worker'[v].meta
    <3>1. CASE v = w
      BY <2>2, <2>3, <2>4, <2>5, <3>1 DEF d
    <3>2. CASE v /= w
      <4>1. worker[v].doc /= d
        BY <1>a, <2>1, <2>3, <2>5, <3>2 DEF Writing
      <4>2. worker[v].doc \in Docs
        BY <1>a, <2>3, <2>5, <3>2
      <4> QED BY <2>3, <2>5, <3>2, <4>1, <4>2 DEF MetaInv
    <3> QED BY <3>1, <3>2
  <2>6. ASSUME NEW c \in Clients, client'[c].pc = "patching", NEW p \in points'[client'[c].doc]
        PROVE  p.meta = client'[c].meta
    <3>1. client[c].doc \in Docs /\ client[c].doc /= d
      BY <1>0, <1>a, <2>1, <2>6 DEF TypeInv, WellFormed
    <3> QED BY <2>1, <2>3, <2>6, <3>1 DEF MetaInv
  <2>7. ASSUME NEW e \in Docs, row'[e].status = "indexed", "patching" \notin history'[e].torn,
               ~history'[e].retagged, ~BeingPatched(e)', NEW p \in points'[e], p.pass = row'[e].chunks
        PROVE  p.meta = row'[e].meta
    BY <2>1, <2>3, <2>7 DEF MetaInv, BeingPatched
  <2>8. ASSUME NEW v \in Workers, worker'[v].pc /= "idle",
               worker'[v].claim = row'[worker'[v].doc].claim, ~history'[worker'[v].doc].retagged
        PROVE  worker'[v].meta = row'[worker'[v].doc].meta
    BY <2>1, <2>3, <2>8 DEF MetaInv
  <2> QED BY <2>5, <2>6, <2>7, <2>8 DEF MetaInv
<1>3. CASE Sweep(w)
  <2>1. /\ worker[w].pc = "written" /\ UNCHANGED <<row, client, history>>
        /\ worker' = [worker EXCEPT ![w] = [@ EXCEPT !.pc = "swept"]]
        /\ \A e \in Docs : points'[e] \subseteq points[e]
    BY <1>0, <1>3 DEF Sweep
  <2>2. \A v \in Workers : /\ worker'[v].doc = worker[v].doc /\ worker'[v].claim = worker[v].claim
                           /\ worker'[v].meta = worker[v].meta
                           /\ v /= w => worker'[v] = worker[v]
    BY <1>0, <2>1 DEF Pass
  <2> QED BY <1>0, <2>1, <2>2, MetaFrame DEF MetaKept
<1>4. CASE Commit(w)
  <2> DEFINE d == worker[w].doc
  <2>1. /\ \A e \in Docs : /\ history'[e].retagged = history[e].retagged
                           /\ row'[e].meta = row[e].meta
                           /\ e /= d => row'[e] = row[e] /\ history'[e].torn = history[e].torn
        /\ row'[d].chunks = IF worker[w].text \in Empty THEN None ELSE worker[w].claim
        /\ row'[d].claim = None
    BY <1>0, <1>4, CommitEffect
  <2>2. /\ d \in Docs /\ worker[w].pc = "swept" /\ UNCHANGED <<points, client>>
        /\ worker'[w].pc = "idle" /\ \A v \in Workers : v /= w => worker'[v] = worker[v]
        /\ row[d].claim = worker[w].claim
    BY <1>0, <1>a, <1>4 DEF Commit, IdlePass, Writing
  <2>3. /\ \A p \in points[d] : p.pass = worker[w].claim => p.meta = worker[w].meta
        /\ ~history[d].retagged => worker[w].meta = row[d].meta
        /\ \A p \in points[d] : p.pass /= None
    BY <1>0, <1>a, <2>2 DEF MetaInv, Point
  <2> HIDE DEF d
  <2>4. ASSUME NEW v \in Workers, worker'[v].pc /= "idle",
               worker'[v].claim = row'[worker'[v].doc].claim, ~history'[worker'[v].doc].retagged
        PROVE  worker'[v].meta = row'[worker'[v].doc].meta
    BY <1>a, <2>1, <2>2, <2>4 DEF MetaInv
  <2>5. ASSUME NEW v \in Workers, worker'[v].pc \in {"written", "swept"},
               NEW p \in points'[worker'[v].doc], p.pass = worker'[v].claim
        PROVE  p.meta = worker'[v].meta
    BY <2>2, <2>5 DEF MetaInv
  <2>6. ASSUME NEW e \in Docs, row'[e].status = "indexed", "patching" \notin history'[e].torn,
               ~history'[e].retagged, ~BeingPatched(e)', NEW p \in points'[e], p.pass = row'[e].chunks
        PROVE  p.meta = row'[e].meta
    <3>1. CASE e = d
      BY <2>1, <2>2, <2>3, <2>6, <3>1
    <3>2. CASE e /= d
      BY <2>1, <2>2, <2>6, <3>2 DEF MetaInv, BeingPatched
    <3> QED BY <3>1, <3>2
  <2> QED BY <2>2, <2>4, <2>5, <2>6 DEF MetaInv
<1>5. ASSUME NEW retryable \in BOOLEAN, RecordFailure(w, retryable) PROVE MetaInv'
  <2>1. \A e \in Docs : /\ row'[e].meta = row[e].meta /\ row'[e].chunks = row[e].chunks
                        /\ row'[e].claim = None \/ row'[e].claim = row[e].claim
                        /\ row'[e].status = "indexed" => row[e].status = "indexed"
    BY <1>0, <1>5, RecordFailureEffect
  <2> QED BY <1>0, <1>5, <2>1, MetaFrame DEF RecordFailure, IdlePass, MetaKept
<1>6. CASE Parse(w) \/ Find(w) \/ Upsert(w) \/ Throw(w) \/ Crash(w)
  BY <1>0, <1>6, PassMoves, MetaFrame DEF MetaKept
<1> QED
  BY <1>1, <1>2, <1>3, <1>4, <1>5, <1>6 DEF WorkerStep

\* Collectors keep MetaInv.
LEMMA MetaCollector ==
    ASSUME LatestInv, MetaInv, NEW k \in Collectors, CollectorStep(k)
    PROVE  MetaInv'
<1>0. /\ TypeInv /\ row \in [Docs -> Row] /\ history \in [Docs -> History]
      /\ points \in [Docs -> SUBSET Point]
  BY DEF LatestInv, DeleteInv, TypeInv, TypeOK
<1>1. CASE Purge(k)
  <2>1. \A e \in Docs : points'[e] \subseteq points[e]
    BY <1>0, <1>1 DEF Purge
  <2> QED BY <1>0, <1>1, <2>1, MetaFrame DEF Purge, MetaKept
<1>2. CASE StillDeleted(k)
  <2>1. \A e \in Docs : history'[e].retagged = history[e].retagged /\ history'[e].torn = history[e].torn
    <3>1. CASE row[collector[k].doc].deleted
      BY <1>0, <1>2, <3>1 DEF StillDeleted, History
    <3>2. CASE ~row[collector[k].doc].deleted
      BY <1>2, <3>2 DEF StillDeleted
    <3> QED BY <3>1, <3>2
  <2> QED BY <1>0, <1>2, <2>1, MetaFrame DEF StillDeleted, MetaKept
<1>3. CASE MarkPurged(k)
  <2>1. \A e \in Docs : /\ row'[e].meta = row[e].meta /\ row'[e].chunks = row[e].chunks
                        /\ row'[e].status = row[e].status /\ row'[e].claim = row[e].claim
    BY <1>0, <1>3 DEF MarkPurged, Row
  <2> QED BY <1>0, <1>3, <2>1, MetaFrame DEF MarkPurged, MetaKept
<1>4. CASE RemoveObject(k) \/ CollectFail(k) \/ \E d \in Docs : CollectClaim(k, d)
  BY <1>0, <1>4, MetaFrame DEF RemoveObject, CollectFail, CollectClaim, MetaKept
<1> QED
  BY <1>1, <1>2, <1>3, <1>4 DEF CollectorStep

\* Every step keeps MetaInv.
LEMMA NextMeta == LatestInv /\ MetaInv /\ [Next]_vars => MetaInv'
<1> SUFFICES ASSUME LatestInv, MetaInv, [Next]_vars PROVE MetaInv'
  OBVIOUS
<1>0. TypeInv
  BY DEF LatestInv, DeleteInv
<1>1. ASSUME NEW d \in Docs, Reap(d) PROVE MetaInv'
  <2>1. \A e \in Docs : /\ row'[e].meta = row[e].meta /\ row'[e].chunks = row[e].chunks
                        /\ row'[e].claim = None \/ row'[e].claim = row[e].claim
                        /\ row'[e].status = "indexed" => row[e].status = "indexed"
                        /\ history'[e].retagged = history[e].retagged /\ history'[e].torn = history[e].torn
    BY <1>0, <1>1, ReapEffect
  <2> QED BY <1>0, <1>1, <2>1, MetaFrame DEF Reap, MetaKept
<1>2. CASE UNCHANGED vars
  BY <1>0, <1>2, MetaFrame DEF vars, MetaKept
<1> QED BY <1>0, <1>1, <1>2, MetaClient, MetaWorker, MetaCollector DEF Next

\* What a filter reads from the points of an indexed document is the row's
\* metadata, unless a retag failed half way or overlapped a claim: a pass that
\* read older metadata has lost its claim to the send that changed it.
THEOREM MetadataHolds == Spec => []MetadataAgrees
<1>1. LatestInv /\ MetaInv => MetadataAgrees
  <2> SUFFICES ASSUME LatestInv, MetaInv, NEW d \in Docs, Settled(d),
                      "patching" \notin history[d].torn, ~history[d].retagged, NEW p \in Answers(d)
               PROVE  p.meta = row[d].meta
    BY DEF MetadataAgrees
  <2>1. ~BeingPatched(d)
    BY ConstantsAssumption DEF BeingPatched, LatestInv, DeleteInv, LockInv, Settled, Unlocked
  <2> QED BY <2>1 DEF MetaInv, Settled, Answers
<1>2. Init => LatestInv /\ MetaInv
  BY InitLatest, InitMeta
<1>3. LatestInv /\ MetaInv /\ [Next]_vars => (LatestInv /\ MetaInv)'
  BY NextLatest, NextMeta
<1> QED BY <1>1, <1>2, <1>3, PTL DEF Spec

-----------------------------------------------------------------------------
(* The stores and processes together implement the abstract index *)

\* No row has chunks at first.
LEMMA InitChunk == Init => ChunkInv
BY DEF Init, ChunkInv, NoRow, IdlePass

\* A step after which every pass still has the lease it had, every row the
\* chunks and the source it had, and no row has gone.
ChunkKept ==
    /\ \A w \in Workers : worker'[w].pc /= "idle" =>
          worker[w].pc /= "idle" /\ worker'[w].claim = worker[w].claim
    /\ \A e \in Docs :
          /\ row'[e].chunks = row[e].chunks /\ row'[e].source = row[e].source
          /\ row'[e].hash = row[e].hash
          /\ row'[e].status = "absent" <=> row[e].status = "absent"

\* A step that touches none of it keeps ChunkInv.
LEMMA ChunkFrame == ASSUME ChunkInv, ChunkKept PROVE ChunkInv'
BY DEF ChunkInv, ChunkKept

\* Requests keep ChunkInv.
LEMMA ChunkClient ==
    ASSUME LatestInv, ObjectInv, ChunkInv, NEW c \in Clients, ClientStep(c)
    PROVE  ChunkInv'
<1>0. TypeInv /\ row \in [Docs -> Row]
  BY DEF LatestInv, DeleteInv, TypeInv, TypeOK
<1>1. CASE SendCommit(c)
  <2> DEFINE d == client[c].doc
             s == client[c].source
             r == SentRow(row[d], s, client[c].meta)
  <2>1. d \in Docs /\ s \in Sources /\ row' = [row EXCEPT ![d] = r] /\ UNCHANGED worker
    BY <1>0, <1>1 DEF SendCommit, TypeInv, WellFormed, ObjectInv
  <2>2. s /= None /\ Ref(s) /= None
    BY <2>1, ConstantsAssumption DEF Sources, Ref
  <2>3. r.chunks = row[d].chunks /\ r.status /= "absent" /\ r.source /= None
    <3>1. /\ row[d] \in Row /\ (row[d].status = "absent" => row[d].hash = None)
          /\ row[d].status /= "absent" => row[d].source /= None
      BY <1>0, <2>1 DEF ChunkInv
    <3> HIDE DEF d, s
    <3> QED BY <2>2, <3>1, SentRowCases
  <2> HIDE DEF d, s, r
  <2> QED BY <1>0, <2>1, <2>3 DEF ChunkInv
<1>2. CASE Retry(c)
  <2>1. \A e \in Docs : /\ row'[e].chunks = row[e].chunks /\ row'[e].source = row[e].source
                        /\ row'[e].hash = row[e].hash
                        /\ row'[e].status = "absent" <=> row[e].status = "absent"
    BY <1>0, <1>2, RetryEffect
  <2> QED BY <1>2, <2>1, ChunkFrame DEF Retry, ChunkKept
<1>3. CASE ~SendCommit(c) /\ ~Retry(c)
  <2>1. \A e \in Docs : /\ row'[e].chunks = row[e].chunks /\ row'[e].source = row[e].source
                        /\ row'[e].hash = row[e].hash /\ row'[e].status = row[e].status
    BY <1>0, <1>3, ClientKeeps
  <2>2. UNCHANGED worker
    BY <1>3 DEF ClientStep, Send, Abort, Remove, RemoveCommit, Lookup, UpdateMetadata,
                UpdateMetadataCommit, Rollback
  <2> QED BY <2>1, <2>2, ChunkFrame DEF ChunkKept
<1> QED BY <1>1, <1>2, <1>3

\* Passes keep ChunkInv: a claim takes a lease of its own.
LEMMA ChunkWorker ==
    ASSUME LatestInv, ChunkInv, NEW w \in Workers, WorkerStep(w)
    PROVE  ChunkInv'
<1>0. TypeInv /\ row \in [Docs -> Row] /\ worker \in [Workers -> Pass] /\ None \notin Tokens
  BY ConstantsAssumption DEF LatestInv, DeleteInv, TypeInv, TypeOK
<1>1. ASSUME NEW d \in Docs, Claim(w, d) PROVE ChunkInv'
  <2>1. /\ \A e \in Docs : /\ row'[e].chunks = row[e].chunks /\ row'[e].source = row[e].source
                           /\ row'[e].hash = row[e].hash
                           /\ e /= d => row'[e] = row[e]
        /\ row'[d].status = "parsing" /\ row[d].status = "pending"
    BY <1>0, <1>1, ClaimEffect DEF Claim
  <2>2. /\ worker'[w].claim = FreshToken
        /\ \A v \in Workers : v /= w => worker'[v] = worker[v]
        /\ \A e \in Docs : row[e].chunks /= FreshToken
    BY <1>0, <1>1, FreshTokenIsFresh DEF Claim, InUse
  <2> QED BY <2>1, <2>2 DEF ChunkInv
<1>2. CASE Commit(w)
  <2> DEFINE d == worker[w].doc
  <2>1. /\ \A e \in Docs : /\ row'[e].source = row[e].source
                           /\ e /= d => row'[e] = row[e]
        /\ row'[d].chunks \in {None, worker[w].claim} /\ row'[d].status = "indexed"
    BY <1>0, <1>2, CommitEffect
  <2>2. /\ d \in Docs /\ row[d].status = "parsing" /\ worker[w].pc /= "idle"
        /\ worker'[w].pc = "idle" /\ \A v \in Workers : v /= w => worker'[v] = worker[v]
    BY <1>0, <1>2 DEF Commit, IdlePass, TypeInv, WellFormed, LatestInv, FenceInv, Writing
  <2>3. \A v \in Workers : v /= w /\ worker[v].pc /= "idle" =>
           worker[v].claim \in Tokens /\ worker[v].claim /= worker[w].claim
    BY <1>0, <2>2 DEF LatestInv, FenceInv, TypeInv, WellFormed
  <2> HIDE DEF d
  <2>4. \A v \in Workers, e \in Docs : worker'[v].pc /= "idle" => row'[e].chunks /= worker'[v].claim
    BY <1>0, <2>1, <2>2, <2>3 DEF ChunkInv
  <2> QED BY <2>1, <2>2, <2>4 DEF ChunkInv
<1>3. ASSUME NEW retryable \in BOOLEAN, RecordFailure(w, retryable) PROVE ChunkInv'
  <2>1. \A e \in Docs : /\ row'[e].chunks = row[e].chunks /\ row'[e].source = row[e].source
                        /\ row'[e].hash = row[e].hash
                        /\ row'[e].status = "absent" <=> row[e].status = "absent"
    BY <1>0, <1>3, RecordFailureEffect
  <2> QED BY <1>0, <1>3, <2>1, ChunkFrame DEF RecordFailure, IdlePass, ChunkKept
<1>4. CASE UpsertPoints(w) \/ Sweep(w)
  <2>1. /\ UNCHANGED row /\ worker[w].pc /= "idle"
        /\ \E pc \in WorkerPCs : worker' = [worker EXCEPT ![w] = [@ EXCEPT !.pc = pc]]
    BY <1>4 DEF UpsertPoints, Sweep, WorkerPCs
  <2>2. \A v \in Workers : worker'[v].claim = worker[v].claim /\ (v /= w => worker'[v] = worker[v])
    BY <1>0, <2>1 DEF Pass
  <2> QED BY <2>1, <2>2, ChunkFrame DEF ChunkKept
<1>5. CASE Parse(w) \/ Find(w) \/ Upsert(w) \/ Throw(w) \/ Crash(w)
  BY <1>0, <1>5, PassMoves, ChunkFrame DEF ChunkKept
<1> QED BY <1>1, <1>2, <1>3, <1>4, <1>5 DEF WorkerStep

\* Every step keeps ChunkInv.
LEMMA NextChunk == LatestInv /\ ObjectInv /\ ChunkInv /\ [Next]_vars => ChunkInv'
<1> SUFFICES ASSUME LatestInv, ObjectInv, ChunkInv, [Next]_vars PROVE ChunkInv'
  OBVIOUS
<1>0. TypeInv /\ row \in [Docs -> Row]
  BY DEF LatestInv, DeleteInv, TypeInv, TypeOK
<1>1. ASSUME NEW d \in Docs, Reap(d) PROVE ChunkInv'
  <2>1. \A e \in Docs : /\ row'[e].chunks = row[e].chunks /\ row'[e].source = row[e].source
                        /\ row'[e].hash = row[e].hash
                        /\ row'[e].status = "absent" <=> row[e].status = "absent"
    BY <1>0, <1>1, ReapEffect
  <2> QED BY <1>1, <2>1, ChunkFrame DEF Reap, ChunkKept
<1>2. ASSUME NEW k \in Collectors, CollectorStep(k) PROVE ChunkInv'
  <2>1. \A e \in Docs : /\ row'[e].chunks = row[e].chunks /\ row'[e].source = row[e].source
                        /\ row'[e].hash = row[e].hash /\ row'[e].status = row[e].status
    <3>1. CASE MarkPurged(k)
      BY <1>0, <3>1 DEF MarkPurged, Row
    <3>2. CASE ~MarkPurged(k)
      BY <1>2, <3>2 DEF CollectorStep, CollectClaim, StillDeleted, Purge, RemoveObject, CollectFail
    <3> QED BY <3>1, <3>2
  <2>2. UNCHANGED worker
    BY <1>2 DEF CollectorStep, CollectClaim, StillDeleted, Purge, RemoveObject, MarkPurged, CollectFail
  <2> QED BY <2>1, <2>2, ChunkFrame DEF ChunkKept
<1>3. CASE UNCHANGED vars
  BY <1>3, ChunkFrame DEF vars, ChunkKept
<1> QED BY <1>1, <1>2, <1>3, ChunkClient, ChunkWorker DEF Next

\* The contents a search finds.
Found(d) == {p.text : p \in Answers(d)}

\* A step that changes neither what is wanted nor what is found.
LEMMA IndexStutter ==
    ASSUME \A e \in Docs : Wanted(e)' = Wanted(e) /\ Found(e)' = Found(e)
    PROVE  [Index!Next]_<<[d \in Docs |-> Wanted(d)], [d \in Docs |-> {p.text : p \in Answers(d)}]>>
BY DEF Found

\* A step after which one document is found no more.
LEMMA IndexWithdraw ==
    ASSUME NEW d \in Docs, Found(d)' = {},
           \A e \in Docs : Wanted(e)' = Wanted(e),
           \A e \in Docs : e /= d => Found(e)' = Found(e)
    PROVE  Index!Next
<1>1. Index!Withdraw(d)
  BY DEF Index!Withdraw, Found
<1> QED BY <1>1 DEF Index!Next

\* A step that changes what one document is wanted to hold accepts it.
LEMMA IndexAccept ==
    ASSUME NEW d \in Docs, Wanted(d)' \in Sources \cup {Key},
           \A e \in Docs : Found(e)' = Found(e),
           \A e \in Docs : e /= d => Wanted(e)' = Wanted(e)
    PROVE  Index!Next
<1>1. Index!Accept(d, Wanted(d)')
  BY DEF Index!Accept, Found
<1> QED BY <1>1 DEF Index!Next, Sources

\* A step that changes what one document answers publishes it.
LEMMA IndexPublish ==
    ASSUME NEW d \in Docs, NEW t \in Texts, Wanted(d) \in Urls \cup {Key} \cup {t}, Found(d)' = {t},
           \A e \in Docs : Wanted(e)' = Wanted(e),
           \A e \in Docs : e /= d => Found(e)' = Found(e)
    PROVE  Index!Next
<1>1. Index!Publish(d, t)
  BY DEF Index!Publish, Found
<1> QED BY <1>1 DEF Index!Next

\* A step after which a document is neither wanted nor found deletes it.
LEMMA IndexDelete ==
    ASSUME NEW d \in Docs, Wanted(d)' = None, Found(d)' = {},
           \A e \in Docs : e /= d => Wanted(e)' = Wanted(e) /\ Found(e)' = Found(e)
    PROVE  Index!Next
<1>1. Index!Delete(d)
  BY DEF Index!Delete, Found
<1> QED BY <1>1 DEF Index!Next

\* A row whose tombstone, source and chunks are kept, with its points, is wanted
\* and found as before.
LEMMA WantedKept ==
    ASSUME NEW e \in Docs, row'[e].deleted = row[e].deleted, row'[e].source = row[e].source,
           row'[e].status = "absent" <=> row[e].status = "absent"
    PROVE  Wanted(e)' = Wanted(e)
BY DEF Wanted, Live

\* What a search finds of a document depends on its row and its points only.
LEMMA FoundKept ==
    ASSUME NEW e \in Docs, row'[e].deleted = row[e].deleted, row'[e].chunks = row[e].chunks,
           points'[e] = points[e]
    PROVE  Found(e)' = Found(e)
BY DEF Found, Answers

\* The variables of the abstract index.
IndexVars == <<[d \in Docs |-> Wanted(d)], [d \in Docs |-> {p.text : p \in Answers(d)}]>>

\* Requests accept, delete, or leave the index alone.
LEMMA IndexClient ==
    ASSUME LatestInv, ObjectInv, ChunkInv, NEW c \in Clients, ClientStep(c)
    PROVE  [Index!Next]_IndexVars
<1> USE DEF IndexVars
<1>0. /\ TypeInv /\ row \in [Docs -> Row] /\ points \in [Docs -> SUBSET Point]
      /\ client \in [Clients -> Request]
  BY DEF LatestInv, DeleteInv, TypeInv, TypeOK
<1>1. ASSUME UNCHANGED <<row, points>> PROVE [Index!Next]_IndexVars
  BY <1>1, IndexStutter, WantedKept, FoundKept
<1>2. ASSUME NEW d \in Docs, NEW s \in Sources, NEW m \in Metas, Send(c, d, s, m)
      PROVE  [Index!Next]_IndexVars
  BY <1>1, <1>2 DEF Send
<1>3. CASE SendCommit(c)
  <2> DEFINE d == client[c].doc
             s == client[c].source
             r == SentRow(row[d], s, client[c].meta)
  <2>1. /\ d \in Docs /\ s \in Sources /\ row' = [row EXCEPT ![d] = r] /\ UNCHANGED points
    BY <1>0, <1>3 DEF SendCommit, TypeInv, WellFormed, ObjectInv
  <2>2. s /= None /\ Ref(s) \in Sources \cup {Key}
    BY <2>1, ConstantsAssumption DEF Sources, Ref
  <2>3. /\ ~r.deleted /\ r.chunks = row[d].chunks /\ r.status /= "absent"
        /\ r.source \in Sources \cup {Key}
    <3>1. /\ row[d] \in Row /\ (row[d].status = "absent" => row[d].hash = None)
          /\ row[d].status /= "absent" => row[d].source \in Sources \cup {Key}
      BY <1>0, <2>1 DEF ChunkInv, Row
    <3> HIDE DEF d, s
    <3> QED BY <2>2, <3>1, SentRowCases
  <2>4. row[d].deleted => \A p \in points[d] : p.deleted
    BY <2>1 DEF LatestInv, DeleteInv, TombstoneHolds
  <2> PICK e \in Docs : e = d
    BY <2>1
  <2> HIDE DEF d, s, r
  <2>5. row'[e] = r /\ \A f \in Docs : f /= e => row'[f] = row[f]
    BY <1>0, <2>1
  <2>6. Wanted(e)' \in Sources \cup {Key}
    BY <2>3, <2>5 DEF Wanted, Live
  <2>7. Found(e)' = Found(e)
    BY <2>1, <2>3, <2>4, <2>5 DEF Found, Answers
  <2>8. \A f \in Docs : f /= e => Wanted(f)' = Wanted(f) /\ Found(f)' = Found(f)
    BY <2>1, <2>5, WantedKept, FoundKept
  <2>9. \A f \in Docs : Found(f)' = Found(f)
    BY <2>7, <2>8
  <2> QED BY <2>6, <2>8, <2>9, IndexAccept
<1>4. CASE Abort(c)
  BY <1>1, <1>4 DEF Abort
<1>5. ASSUME NEW d \in Docs, Remove(c, d) PROVE [Index!Next]_IndexVars
  <2>1. /\ UNCHANGED row /\ points' = [points EXCEPT ![d] = Flagged(points[d])]
    BY <1>5 DEF Remove
  <2>2. \A p \in points'[d] : p.deleted
    BY <1>0, <2>1 DEF Flagged, Point
  <2>3. Found(d)' = {}
    BY <2>2 DEF Found, Answers
  <2>4. \A e \in Docs : Wanted(e)' = Wanted(e)
    BY <2>1, WantedKept
  <2>5. \A e \in Docs : e /= d => Found(e)' = Found(e)
    BY <1>0, <2>1, FoundKept
  <2> QED BY <2>3, <2>4, <2>5, IndexWithdraw
<1>6. CASE RemoveCommit(c)
  <2> PICK d \in Docs : d = client[c].doc
    BY <1>0, <1>6 DEF RemoveCommit, TypeInv, WellFormed
  <2>1. /\ row'[d].deleted /\ UNCHANGED points
        /\ \A e \in Docs : e /= d => row'[e] = row[e]
    BY <1>0, <1>6 DEF RemoveCommit, Row
  <2>2. Wanted(d)' = None /\ Found(d)' = {}
    BY <2>1 DEF Wanted, Live, Found, Answers
  <2>3. \A e \in Docs : e /= d => Wanted(e)' = Wanted(e) /\ Found(e)' = Found(e)
    BY <2>1, WantedKept, FoundKept
  <2> QED BY <2>2, <2>3, IndexDelete
<1>7. CASE UpdateMetadata(c)
  <2> PICK d \in Docs : d = client[c].doc
    BY <1>0, <1>7 DEF UpdateMetadata, TypeInv, WellFormed
  <2> PICK m : m = client[c].meta
    OBVIOUS
  <2>1. UNCHANGED row /\ points' = [points EXCEPT ![d] = Retagged(points[d], m)] /\ points[d] \in SUBSET Point
    BY <1>0, <1>7 DEF UpdateMetadata
  <2>2. points'[d] = Retagged(points[d], m)
    BY <1>0, <2>1
  <2>3. Found(d)' = Found(d)
    <3>1. /\ \A p \in points[d] : \E q \in points'[d] :
                q.pass = p.pass /\ q.text = p.text /\ q.deleted = p.deleted
          /\ \A q \in points'[d] : \E p \in points[d] :
                q.pass = p.pass /\ q.text = p.text /\ q.deleted = p.deleted
      BY <2>1, <2>2, RetaggedKeeps
    <3>2. ASSUME NEW q \in Answers(d)' PROVE q.text \in Found(d)
      <4>1. q \in points'[d] /\ ~q.deleted /\ q.pass = row[d].chunks /\ ~row[d].deleted
        BY <2>1, <3>2 DEF Answers
      <4>2. PICK p \in points[d] : q.pass = p.pass /\ q.text = p.text /\ q.deleted = p.deleted
        BY <3>1, <4>1
      <4>3. p \in Answers(d)
        BY <4>1, <4>2 DEF Answers
      <4> QED BY <4>2, <4>3 DEF Found
    <3>3. ASSUME NEW p \in Answers(d) PROVE p.text \in Found(d)'
      <4>1. p \in points[d] /\ ~p.deleted /\ p.pass = row[d].chunks /\ ~row[d].deleted
        BY <3>3 DEF Answers
      <4>2. PICK q \in points'[d] : q.pass = p.pass /\ q.text = p.text /\ q.deleted = p.deleted
        BY <3>1, <4>1
      <4>3. q \in Answers(d)'
        BY <2>1, <4>1, <4>2 DEF Answers
      <4> QED BY <4>2, <4>3 DEF Found
    <3> QED BY <3>2, <3>3 DEF Found
  <2>4. \A e \in Docs : Wanted(e)' = Wanted(e)
    BY <2>1, WantedKept
  <2>5. \A e \in Docs : e /= d => Found(e)' = Found(e)
    BY <1>0, <2>1, FoundKept
  <2> QED BY <2>3, <2>4, <2>5, IndexStutter
<1>8. CASE UpdateMetadataCommit(c)
  <2>1. /\ UNCHANGED points
        /\ \A e \in Docs : /\ row'[e].deleted = row[e].deleted /\ row'[e].source = row[e].source
                           /\ row'[e].chunks = row[e].chunks /\ row'[e].status = row[e].status
    BY <1>0, <1>8 DEF UpdateMetadataCommit, Row
  <2> QED BY <2>1, WantedKept, FoundKept, IndexStutter
<1>9. CASE Rollback(c)
  BY <1>1, <1>9 DEF Rollback
<1>10. ASSUME NEW d \in Docs, NEW m \in Metas, Lookup(c, d, "retagging", m)
       PROVE  [Index!Next]_IndexVars
  BY <1>1, <1>10 DEF Lookup
<1>11. ASSUME NEW d \in Docs, Lookup(c, d, "retrying", None) PROVE [Index!Next]_IndexVars
  BY <1>1, <1>11 DEF Lookup
<1>12. CASE Retry(c)
  <2>1. /\ UNCHANGED points
        /\ \A e \in Docs : /\ row'[e].deleted = row[e].deleted /\ row'[e].source = row[e].source
                           /\ row'[e].chunks = row[e].chunks
                           /\ row'[e].status = "absent" <=> row[e].status = "absent"
    BY <1>0, <1>12, RetryEffect DEF Retry
  <2> QED BY <2>1, WantedKept, FoundKept, IndexStutter
<1> HIDE DEF IndexVars
<1> QED
  BY <1>2, <1>3, <1>4, <1>5, <1>6, <1>7, <1>8, <1>9, <1>10, <1>11, <1>12 DEF ClientStep

\* Passes hide what is being replaced, publish, or leave the index alone.
LEMMA IndexWorker ==
    ASSUME LatestInv, ChunkInv, NEW w \in Workers, WorkerStep(w)
    PROVE  [Index!Next]_IndexVars
<1> USE DEF IndexVars
<1>0. /\ TypeInv /\ row \in [Docs -> Row] /\ points \in [Docs -> SUBSET Point]
  BY DEF LatestInv, DeleteInv, TypeInv, TypeOK
<1>1. ASSUME NEW d \in Docs, Claim(w, d) PROVE [Index!Next]_IndexVars
  <2>1. /\ UNCHANGED points /\ row[d].status = "pending"
        /\ \A e \in Docs : /\ row'[e].deleted = row[e].deleted /\ row'[e].source = row[e].source
                           /\ row'[e].chunks = row[e].chunks
                           /\ row'[e].status = "absent" <=> row[e].status = "absent"
    BY <1>0, <1>1, ClaimEffect DEF Claim
  <2> QED BY <2>1, WantedKept, FoundKept, IndexStutter
<1>2. CASE UpsertPoints(w)
  <2> PICK d \in Docs : d = worker[w].doc
    BY <1>0, <1>2 DEF UpsertPoints, TypeInv, WellFormed
  <2>1. /\ UNCHANGED row /\ points' = [points EXCEPT ![d] = @ \cup NewPoints(w)]
        /\ row[d].chunks /= worker[w].claim
    BY <1>2 DEF UpsertPoints, ChunkInv
  <2>2. \A p \in NewPoints(w) : p.pass = worker[w].claim
    BY DEF NewPoints
  <2>3. points'[d] = points[d] \cup NewPoints(w)
    BY <1>0, <2>1
  <2>4. Found(d)' = Found(d)
    BY <2>1, <2>2, <2>3 DEF Found, Answers
  <2>5. \A e \in Docs : e /= d => Found(e)' = Found(e)
    BY <1>0, <2>1, FoundKept
  <2>6. \A e \in Docs : Wanted(e)' = Wanted(e)
    BY <2>1, WantedKept
  <2> QED BY <2>4, <2>5, <2>6, IndexStutter
<1>3. CASE Sweep(w)
  <2> PICK d \in Docs : d = worker[w].doc
    BY <1>0, <1>3 DEF Sweep, TypeInv, WellFormed
  <2>1. /\ UNCHANGED row /\ points' = [points EXCEPT ![d] = {p \in @ : p.pass = worker[w].claim}]
        /\ row[d].chunks /= worker[w].claim
    BY <1>3 DEF Sweep, ChunkInv
  <2>2. \A p \in points'[d] : p.pass /= row'[d].chunks
    BY <1>0, <2>1
  <2>3. Found(d)' = {}
    BY <2>2 DEF Found, Answers
  <2>4. \A e \in Docs : e /= d => Found(e)' = Found(e)
    BY <1>0, <2>1, FoundKept
  <2>5. \A e \in Docs : Wanted(e)' = Wanted(e)
    BY <2>1, WantedKept
  <2> QED BY <2>3, <2>4, <2>5, IndexWithdraw
<1>4. CASE Commit(w)
  <2> PICK d \in Docs : d = worker[w].doc
    BY <1>0, <1>4 DEF Commit, TypeInv, WellFormed
  <2> PICK t \in Texts : t = worker[w].text
    BY <1>0, <1>4 DEF Commit, TypeInv, WellFormed, HasText, Writing
  <2>1. /\ \A e \in Docs : /\ row'[e].deleted = row[e].deleted /\ row'[e].source = row[e].source
                           /\ e /= d => row'[e] = row[e]
        /\ row'[d].chunks \in {None, worker[w].claim} /\ row'[d].status = "indexed"
    BY <1>0, <1>4, CommitEffect
  <2>2. /\ worker[w].pc = "swept" /\ UNCHANGED points
        /\ row[d].status = "parsing" /\ ~row[d].deleted
        /\ worker[w].source = row[d].source
        /\ worker[w].source \in Texts => t = worker[w].source
        /\ \A p \in points[d] : p.pass = worker[w].claim => p.text = t
        /\ row[d].source \in Sources \cup {Key, None} /\ row[d].source /= None
    BY <1>0, <1>4 DEF Commit, LatestInv, DeleteInv, LockInv, FenceInv, SourceInv, PointsInv, ChunkInv,
                      Row, Writing, HasText
  <2>3. Wanted(d) \in Urls \cup {Key} \cup {t}
    BY <2>2 DEF Wanted, Live, Sources
  <2>4. \A p \in Answers(d)' : p.text = t
    <3>1. \A p \in points[d] : p.pass /= None
      BY <1>0, ConstantsAssumption DEF Point
    <3> QED BY <2>1, <2>2, <3>1 DEF Answers
  <2>5. Found(d)' = {} \/ Found(d)' = {t}
    BY <2>4 DEF Found
  <2>6. \A e \in Docs : e /= d => Found(e)' = Found(e)
    BY <2>1, <2>2, FoundKept
  <2>7. \A e \in Docs : Wanted(e)' = Wanted(e)
    <3>1. \A e \in Docs : row'[e].status = "absent" <=> row[e].status = "absent"
      BY <2>1, <2>2
    <3> QED BY <2>1, <3>1, WantedKept
  <2> QED BY <2>3, <2>5, <2>6, <2>7, IndexWithdraw, IndexPublish
<1>5. ASSUME NEW retryable \in BOOLEAN, RecordFailure(w, retryable) PROVE [Index!Next]_IndexVars
  <2>1. /\ UNCHANGED points
        /\ \A e \in Docs : /\ row'[e].deleted = row[e].deleted /\ row'[e].source = row[e].source
                           /\ row'[e].chunks = row[e].chunks
                           /\ row'[e].status = "absent" <=> row[e].status = "absent"
    BY <1>0, <1>5, RecordFailureEffect DEF RecordFailure
  <2> QED BY <2>1, WantedKept, FoundKept, IndexStutter
<1>6. CASE Parse(w) \/ Find(w) \/ Upsert(w) \/ Throw(w) \/ Crash(w)
  <2>1. UNCHANGED <<row, points>>
    BY <1>0, <1>6, PassMoves
  <2> QED BY <2>1, WantedKept, FoundKept, IndexStutter
<1> HIDE DEF IndexVars
<1> QED BY <1>1, <1>2, <1>3, <1>4, <1>5, <1>6 DEF WorkerStep

\* Collectors leave the index alone: what they remove no search finds.
LEMMA IndexCollector ==
    ASSUME LatestInv, NEW k \in Collectors, CollectorStep(k)
    PROVE  [Index!Next]_IndexVars
<1> USE DEF IndexVars
<1>0. /\ TypeInv /\ row \in [Docs -> Row] /\ points \in [Docs -> SUBSET Point]
  BY DEF LatestInv, DeleteInv, TypeInv, TypeOK
<1>1. CASE Purge(k)
  <2> PICK d \in Docs : d = collector[k].doc
    BY <1>0, <1>1 DEF Purge, TypeInv, WellFormed
  <2>1. UNCHANGED row /\ points'[d] = {} /\ \A e \in Docs : e /= d => points'[e] = points[e]
    BY <1>0, <1>1 DEF Purge
  <2>2. Found(d)' = {}
    BY <2>1 DEF Found, Answers
  <2>3. \A e \in Docs : e /= d => Found(e)' = Found(e)
    BY <2>1, FoundKept
  <2>4. \A e \in Docs : Wanted(e)' = Wanted(e)
    BY <2>1, WantedKept
  <2> QED BY <2>2, <2>3, <2>4, IndexWithdraw
<1>2. CASE MarkPurged(k)
  <2>1. /\ UNCHANGED points
        /\ \A e \in Docs : /\ row'[e].deleted = row[e].deleted /\ row'[e].source = row[e].source
                           /\ row'[e].chunks = row[e].chunks /\ row'[e].status = row[e].status
    BY <1>0, <1>2 DEF MarkPurged, Row
  <2> QED BY <2>1, WantedKept, FoundKept, IndexStutter
<1>3. CASE StillDeleted(k) \/ RemoveObject(k) \/ CollectFail(k) \/ \E d \in Docs : CollectClaim(k, d)
  <2>1. UNCHANGED <<row, points>>
    BY <1>3 DEF StillDeleted, RemoveObject, CollectFail, CollectClaim
  <2> QED BY <2>1, WantedKept, FoundKept, IndexStutter
<1> HIDE DEF IndexVars
<1> QED BY <1>1, <1>2, <1>3 DEF CollectorStep

\* Every step is a step of the abstract index or leaves it alone.
LEMMA IndexStep == LatestInv /\ ObjectInv /\ ChunkInv /\ [Next]_vars => [Index!Next]_IndexVars
<1> SUFFICES ASSUME LatestInv, ObjectInv, ChunkInv, [Next]_vars PROVE [Index!Next]_IndexVars
  OBVIOUS
<1>0. TypeInv
  BY DEF LatestInv, DeleteInv
<1>1. ASSUME NEW d \in Docs, Reap(d) PROVE [Index!Next]_IndexVars
  <2>1. /\ UNCHANGED points
        /\ \A e \in Docs : /\ row'[e].deleted = row[e].deleted /\ row'[e].source = row[e].source
                           /\ row'[e].chunks = row[e].chunks
                           /\ row'[e].status = "absent" <=> row[e].status = "absent"
    BY <1>0, <1>1, ReapEffect DEF Reap
  <2> QED BY <2>1, WantedKept, FoundKept, IndexStutter DEF IndexVars
<1>2. CASE UNCHANGED vars
  BY <1>2, WantedKept, FoundKept, IndexStutter DEF vars, IndexVars
<1> QED BY <1>1, <1>2, IndexClient, IndexWorker, IndexCollector DEF Next

\* The index starts empty.
LEMMA InitIndex == Init => Index!Init
BY DEF Init, Index!Init, Wanted, Live, NoRow, Answers

\* The detailed specification implements the abstract index: every step of a
\* request, a pass, the reaper or a collector is one of its steps or leaves it
\* alone, so a search finds only what was accepted before it appeared, never two
\* contents of a document, and nothing of a deleted one.
THEOREM Refinement == Spec => ImplementsIndex
<1> DEFINE Inv == LatestInv /\ CollectInv /\ ObjectInv /\ ChunkInv
<1>1. Init => Inv
  BY InitLatest, InitCollect, InitObject, InitChunk
<1>2. Inv /\ [Next]_vars => Inv'
  <2>1. LatestInv => DeleteInv
    BY DEF LatestInv
  <2> QED BY <2>1, NextLatest, NextCollect, NextObject, NextChunk
<1>3. Inv /\ [Next]_vars => [Index!Next]_IndexVars
  BY IndexStep
<1> HIDE DEF Inv
<1> QED BY <1>1, <1>2, <1>3, InitIndex, PTL DEF Spec, ImplementsIndex, Index!Spec, IndexVars

=============================================================================
