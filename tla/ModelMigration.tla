--------------------------- MODULE ModelMigration ---------------------------
(***************************************************************************)
(* Moving an organization's layers onto another embedding model while its  *)
(* documents keep changing.                                                *)
(*                                                                         *)
(* A collection cannot be given a new vector slot, so a replica of the     *)
(* worker copies it into one that has the slot and moves the pointer       *)
(* (copyOnce, finishCopy), repairs what changed under the copy             *)
(* (repairAfterCopy), embeds the layer's documents into the new slot       *)
(* (reindexOnce), scores the layer's reference queries (recallOnce) and    *)
(* moves the layer onto the slot (finishReindexIfDone).  Superseded        *)
(* collections and slots are swept later (retire.ts).  An operator may     *)
(* rebuild the collection from the database (core/rebuild.ts).             *)
(*                                                                         *)
(* A replica does one thing at a time; several replicas run at once.  What *)
(* a replica read when it claimed its work may be out of date when it      *)
(* writes.  The indexing pass itself is DocumentLifecycle's; here it is    *)
(* its claim, its points and its commit.  Time is abstracted: a lease may  *)
(* lapse and a retention window close at any moment.  `clock' counts the   *)
(* migrations begun and stands for the timestamps the repair compares.     *)
(***************************************************************************)
EXTENDS Naturals, Sequences, FiniteSets

CONSTANTS
    Docs,          \* documents
    Layers,        \* layers
    Home,          \* Home[d]: the layer of d
    Vectors,       \* vector slots, one for each embedding model
    First,         \* the slot of the layers and the collection at the start
    Created,       \* the layers an operator creates later
    Replicas,      \* worker processes
    Ids,           \* ids of points
    FirstId,       \* the id of the points there at the start
    None,          \* SQL NULL
    FailureBound,  \* REINDEX_FAILURE_BOUND
    MaxClock,      \* bound: migrations begun and rebuilds run
    MaxStarting,   \* bound: starts in flight at once
    MaxOps,        \* bound: documents sent and deleted, reference sets written
    MaxFaults      \* bound: crashes, errors and leases that lapse

ASSUME MigrationAssumption ==
    /\ Home \in [Docs -> Layers \ Created]
    /\ Created \subseteq Layers
    /\ First \in Vectors
    /\ FirstId \in Ids
    /\ None \notin Docs \cup Layers \cup Vectors \cup Replicas \cup Ids
    /\ None \notin Nat /\ None /= "delete" /\ "delete" \notin Replicas
    /\ FailureBound \in Nat \ {0}
    /\ MaxClock \in Nat
    /\ MaxStarting \in Nat
    /\ MaxOps \in Nat
    /\ MaxFaults \in Nat

VARIABLES
    doc,        \* doc[d]: the documents row, with its chunks
    lock,       \* lock[d]: who holds the row lock: a replica, "delete" or None
    layer,      \* layer[l]: the layers row with its reindex_state
    gate,       \* gate[l]: whether the layer has reference queries
    live,       \* organizations.vector_collection
    coll,       \* the collections that exist, by name
    retired,    \* retired_collections
    starting,   \* starting[l]: a start that has decided and not yet written
    deleting,   \* the delete in progress
    rebuild,    \* the rebuild of the collection from the database
    replica,    \* replica[w]: what w is doing, with what it read
    clock,      \* migrations begun
    ops,        \* requests so far
    faults,     \* faults so far
    missed,     \* a repair was lost to a crash or an error; for the properties only
    overrun,    \* a replica wrote to a copy it had lost, or swept a slot in use
                \* again; likewise
    overlap,    \* a copy was asked for before another was made and repaired, or the
                \* collection rebuilt during a migration; likewise
    drift,      \* drift[d]: what was last written of d came from a stale read; likewise
    resent      \* resent[w]: the document w has purged was sent again; likewise

vars == <<doc, lock, layer, gate, live, coll, retired, starting, deleting, rebuild,
          replica, clock, ops, faults, missed, overrun,
          overlap, drift, resent>>

-----------------------------------------------------------------------------
(* State *)

\* A copy is named after the collection it was made from and the slot it adds.
Names == Seq(Vectors)

Clock == 0 .. MaxClock

\* One chunk stands for all the chunks of a pass.
Doc == [status : {"pending", "parsing", "indexed"},
        claim : Replicas \cup {None},
        chunks : Ids \cup {None},
        reindexed : Vectors \cup {None},
        updated : Clock,
        deleted : Clock \cup {None},
        purged : Clock \cup {None}]

\* A document indexed before the behaviour begins, its points under id i.
IndexedDoc(i) == [status |-> "indexed", claim |-> None, chunks |-> i, reindexed |-> None,
                  updated |-> 0, deleted |-> None, purged |-> None]

Layer == [exists : BOOLEAN,
          vector : Vectors,
          status : {"none", "running", "failed", "complete"},
          phase : {"none", "copying", "embedding"},
          shadow : Vectors \cup {None},
          since : Clock,
          claim : Replicas \cup {None},
          failures : Nat,
          check : {"none", "passed", "failed"},
          previous : Vectors \cup {None}]

NewLayer(exists) ==
    [exists |-> exists, vector |-> First, status |-> "none", phase |-> "none",
     shadow |-> None, since |-> 0, claim |-> None, failures |-> 0,
     check |-> "none", previous |-> None]

Point == [id : Ids, vecs : SUBSET Vectors, deleted : BOOLEAN]

Collection == [slots : SUBSET Vectors, points : [Docs -> SUBSET Point]]

Replica == [pc : {"idle", "indexing", "written", "copying", "repairing", "tombstoning",
                  "embedding", "added", "marking", "marked", "erred", "switching",
                  "scoring", "judging", "dropping", "forgetting", "reclaiming", "reclaimed",
                  "purging", "purged"},
            doc : Docs \cup {None},
            layer : Layers \cup {None},
            from : Names,
            slot : Vectors \cup {None},
            id : Ids \cup {None},
            began : Clock,
            copied : SUBSET Docs,
            ready : BOOLEAN]

Idle == [pc |-> "idle", doc |-> None, layer |-> None, from |-> <<>>, slot |-> None,
         id |-> None, began |-> 0, copied |-> {}, ready |-> FALSE]

NoDelete == [doc |-> None, from |-> <<>>, began |-> 0]

NoRebuild == [pc |-> "idle", from |-> <<>>, slots |-> {}, runs |-> 0]

NotRebuilding == rebuild.pc = "idle"

Unlocked(d) == lock[d] = None

Deleted(d) == doc[d].deleted /= None

Copying(l) == layer[l].status = "running" /\ layer[l].phase = "copying"

Embedding(l) == layer[l].status = "running" /\ layer[l].phase = "embedding"

AnyCopying == \E l \in Layers : Copying(l)

Repairing == \E w \in Replicas : replica[w].pc \in {"repairing", "tombstoning"}

\* Live documents of the layer that have chunks and no marker for the slot.
Outstanding(l) ==
    {d \in Docs : /\ Home[d] = l
                  /\ ~Deleted(d)
                  /\ doc[d].chunks /= None
                  /\ doc[d].reindexed /= layer[l].shadow}

CopyName(w) == Append(replica[w].from, replica[w].slot)

Exists(c) == c \in DOMAIN coll

\* The collections after c gets, or no longer has, a value.
WithCollection(c, value) ==
    [n \in DOMAIN coll \cup {c} |-> IF n = c THEN value ELSE coll[n]]

WithPoints(c, d, ps) == [coll EXCEPT ![c].points[d] = ps]

Without(c) == [n \in DOMAIN coll \ {c} |-> coll[n]]

Init ==
    /\ doc = [d \in Docs |-> IndexedDoc(FirstId)]
    /\ lock = [d \in Docs |-> None]
    /\ layer = [l \in Layers |-> NewLayer(l \notin Created)]
    /\ gate = [l \in Layers |-> FALSE]
    /\ live = <<>>
    /\ coll = [c \in {<<>>} |->
          [slots |-> {First},
           points |-> [d \in Docs |->
                          {[id |-> FirstId, vecs |-> {First}, deleted |-> FALSE]}]]]
    /\ retired = {}
    /\ starting = [l \in Layers |-> None]
    /\ deleting = NoDelete
    /\ rebuild = NoRebuild
    /\ replica = [w \in Replicas |-> Idle]
    /\ clock = 0
    /\ ops = 0
    /\ faults = 0
    /\ missed = FALSE
    /\ overrun = FALSE
    /\ overlap = FALSE
    /\ drift = [d \in Docs |-> FALSE]
    /\ resent = [w \in Replicas |-> FALSE]


marks == <<missed, overrun, overlap, drift, resent>>

\* A step the environment makes for the worst.
Fault == faults < MaxFaults /\ faults' = faults + 1

-----------------------------------------------------------------------------
(* Requests to the API *)

\* A document is accepted, with other content or after a delete: its row waits
\* for an indexing pass, as if never claimed, deleted or purged.
Send(d) ==
    /\ ops < MaxOps
    /\ Unlocked(d)
    /\ doc' = [doc EXCEPT ![d] = [@ EXCEPT !.status = "pending", !.claim = None,
                                           !.updated = clock, !.deleted = None, !.purged = None]]
    /\ resent' = [w \in Replicas |-> resent[w] \/ (replica[w].pc = "purged" /\ replica[w].doc = d)]
    /\ ops' = ops + 1
    /\ UNCHANGED <<lock, layer, gate, live, coll, retired, starting, deleting, replica, clock,
                   faults, rebuild, missed, overrun, overlap, drift>>

\* The same content again: only the date moves, to when the transaction began,
\* which may be before the pass whose row it waited for.
SendUnchanged(d, began) ==
    /\ ops < MaxOps
    /\ Unlocked(d) /\ ~Deleted(d) /\ began <= clock
    /\ doc' = [doc EXCEPT ![d].updated = began]
    /\ drift' = [drift EXCEPT ![d] = @ \/ began < clock]
    /\ ops' = ops + 1
    /\ UNCHANGED <<lock, layer, gate, live, coll, retired, starting, deleting, replica, clock,
                   faults, rebuild, missed, overrun, overlap, resent>>

Flagged(ps) == {[p EXCEPT !.deleted = TRUE] : p \in ps}

\* A delete locks the row, flags the points of the collection it finds live and
\* commits.  deleted_at is the time its transaction began.
Delete(d) ==
    /\ ops < MaxOps
    /\ deleting = NoDelete
    /\ ~Deleted(d) /\ Unlocked(d)
    /\ Exists(live)
    /\ lock' = [lock EXCEPT ![d] = "delete"]
    /\ coll' = WithPoints(live, d, Flagged(coll[live].points[d]))
    /\ deleting' = [doc |-> d, from |-> live, began |-> clock]
    /\ ops' = ops + 1
    /\ UNCHANGED <<doc, layer, gate, live, retired, starting, replica, clock, faults, marks, rebuild>>

DeleteCommit ==
    /\ deleting /= NoDelete
    /\ LET d == deleting.doc IN
        /\ doc' = [doc EXCEPT ![d].deleted = deleting.began]
        /\ lock' = [lock EXCEPT ![d] = None]
        /\ drift' = [drift EXCEPT ![d] = deleting.from /= live \/ deleting.began < clock]
    /\ deleting' = NoDelete
    /\ UNCHANGED <<layer, gate, live, coll, retired, starting, replica, clock, rebuild, ops, faults,
                   missed, overrun, overlap, resent>>

\* An operator writes or removes the reference queries of a layer.
SetReferences(l) ==
    /\ ops < MaxOps
    /\ layer[l].exists
    /\ gate' = [gate EXCEPT ![l] = ~@]
    /\ ops' = ops + 1
    /\ UNCHANGED <<doc, lock, layer, live, coll, retired, starting, deleting,
                   replica, clock, faults, marks, rebuild>>

\* The operator's budget.
MayOperate == clock + rebuild.runs < MaxClock

MayStart(l) ==
    /\ starting[l] = None
    /\ Cardinality({k \in Layers : starting[k] /= None}) < MaxStarting

\* A start holds the row of its own layer, and only that, from its decision to
\* its write.
StartRead(l, v) ==
    /\ MayOperate
    /\ MayStart(l)
    /\ layer[l].exists /\ layer[l].status /= "running" /\ v /= layer[l].vector
    /\ Exists(live)
    /\ v \notin coll[live].slots => ~AnyCopying
    /\ starting' = [starting EXCEPT ![l] =
          [slot |-> v,
           phase |-> IF v \in coll[live].slots THEN "embedding" ELSE "copying"]]
    /\ UNCHANGED <<doc, lock, layer, gate, live, coll, retired, deleting, replica,
                   clock, rebuild, ops, faults, marks>>

\* Creating a layer on a model without a slot asks for a copy too.
CreateRead(l, v) ==
    /\ MayOperate
    /\ MayStart(l)
    /\ l \in Created /\ ~layer[l].exists
    /\ Exists(live)
    /\ starting' = [starting EXCEPT ![l] =
          [slot |-> v, phase |-> IF v \in coll[live].slots THEN "none" ELSE "copying"]]
    /\ UNCHANGED <<doc, lock, layer, gate, live, coll, retired, deleting, replica,
                   clock, rebuild, ops, faults, marks>>

\* The layers row after a start or a creation: a whole new reindex_state.
Started(r, s) ==
    [r EXCEPT !.exists = TRUE,
              !.vector = IF r.exists THEN @ ELSE s.slot,
              !.status = IF s.phase = "none" THEN "none" ELSE "running",
              !.phase = s.phase,
              !.shadow = IF s.phase = "none" THEN None ELSE s.slot,
              !.since = clock + 1, !.claim = None, !.failures = 0,
              !.check = "none", !.previous = None]

StartWrite(l) ==
    /\ starting[l] /= None
    /\ layer' = [layer EXCEPT ![l] = Started(@, starting[l])]
    /\ clock < MaxClock
    /\ clock' = clock + 1
    /\ overlap' = (overlap \/ (starting[l].phase = "copying" /\ (AnyCopying \/ Repairing))
                         \/ ~NotRebuilding)
    /\ starting' = [starting EXCEPT ![l] = None]
    /\ UNCHANGED <<doc, lock, gate, live, coll, retired, deleting, replica, rebuild, ops, faults,
                   missed, overrun, drift, resent>>

-----------------------------------------------------------------------------
(* Rebuilding the collection *)

\* Something of a migration is under way that a rebuild does not know of.
Migrating ==
    \/ \E l \in Layers : layer[l].status = "running" \/ starting[l] /= None
    \/ \E w \in Replicas :
          replica[w].pc \in {"copying", "repairing", "tombstoning", "embedding", "added",
                            "marking", "marked", "erred", "switching", "scoring", "judging"}

Step(pc) ==
    /\ rebuild' = [rebuild EXCEPT !.pc = pc]
    /\ overlap' = (overlap \/ Migrating)

\* An operator rebuilds a collection that was lost or does not match the
\* database: its name and the slots of the layers are read, ...  A rebuild that
\* died is run again.
RebuildRead ==
    /\ rebuild.pc = "died" \/ (NotRebuilding /\ MayOperate)
    /\ rebuild' = [pc |-> "dropping", from |-> live,
                   slots |-> {layer[l].vector : l \in {k \in Layers : layer[k].exists}},
                   runs |-> rebuild.runs + 1]
    /\ overlap' = (overlap \/ Migrating)
    /\ UNCHANGED <<doc, lock, layer, gate, live, coll, retired, starting, deleting,
                   replica, clock, ops, faults, missed, overrun, drift, resent>>

\* ... what is there is dropped, ...
RebuildDrop ==
    /\ rebuild.pc = "dropping"
    /\ coll' = Without(rebuild.from)
    /\ Step("creating")
    /\ UNCHANGED <<doc, lock, layer, gate, live, retired, starting, deleting,
                   replica, clock, ops, faults, missed, overrun, drift, resent>>

\* ... the collection is made anew, ...
RebuildCreate ==
    /\ rebuild.pc = "creating" /\ ~Exists(rebuild.from)
    /\ coll' = WithCollection(rebuild.from, [slots |-> rebuild.slots,
                                             points |-> [d \in Docs |-> {}]])
    /\ Step("requeueing")
    /\ UNCHANGED <<doc, lock, layer, gate, live, retired, starting, deleting,
                   replica, clock, ops, faults, missed, overrun, drift, resent>>

\* ... and every document that is not deleted goes back to the queue, with no
\* claim and no marker.
Restored(r) == [r EXCEPT !.status = "pending", !.claim = None, !.reindexed = None]

RebuildRequeue ==
    /\ rebuild.pc = "requeueing"
    /\ \A d \in Docs : Deleted(d) \/ Unlocked(d)
    /\ doc' = [d \in Docs |-> IF Deleted(d) THEN doc[d] ELSE Restored(doc[d])]
    /\ rebuild' = [NoRebuild EXCEPT !.runs = rebuild.runs]
    /\ overlap' = (overlap \/ Migrating)
    /\ UNCHANGED <<lock, layer, gate, live, coll, retired, starting, deleting,
                   replica, clock, ops, faults, missed, overrun, drift, resent>>

RebuildDies ==
    /\ Fault
    /\ rebuild.pc \in {"dropping", "creating", "requeueing"}
    /\ rebuild' = [NoRebuild EXCEPT !.pc = "died", !.runs = rebuild.runs]
    /\ UNCHANGED <<doc, lock, layer, gate, live, coll, retired, starting, deleting,
                   replica, clock, ops, marks>>

-----------------------------------------------------------------------------
(* Indexing *)

\* A pass is not claimed while a layer waits for a copy.
IngestClaim(w, d) ==
    /\ replica[w].pc = "idle"
    /\ doc[d].status = "pending" /\ ~Deleted(d) /\ Unlocked(d)
    /\ ~AnyCopying
    /\ doc' = [doc EXCEPT ![d] = [@ EXCEPT !.status = "parsing", !.claim = w,
                                           !.updated = clock]]
    /\ replica' = [replica EXCEPT ![w] =
          [Idle EXCEPT !.pc = "indexing", !.doc = d, !.layer = Home[d], !.from = live,
                       !.slot = layer[Home[d]].vector]]
    /\ UNCHANGED <<lock, layer, gate, live, coll, retired, starting, deleting,
                   clock, rebuild, ops, faults, marks>>

InUse ==
    {doc[d].chunks : d \in Docs} \cup {replica[w].id : w \in Replicas}
    \cup {p.id : p \in UNION {coll[c].points[d] : c \in DOMAIN coll, d \in Docs}}

FreshId == CHOOSE i \in Ids : i \notin InUse

\* The transaction of a pass: the fenced row, the new points, the sweep of the
\* others.
IngestWrite(w) ==
    LET r == replica[w] IN
    /\ r.pc = "indexing"
    /\ Unlocked(r.doc)
    /\ doc[r.doc].claim = w /\ doc[r.doc].status = "parsing" /\ ~Deleted(r.doc)
    /\ Exists(r.from) /\ r.slot \in coll[r.from].slots
    /\ Ids \ InUse /= {}
    /\ lock' = [lock EXCEPT ![r.doc] = w]
    /\ coll' = WithPoints(r.from, r.doc,
                          {[id |-> FreshId, vecs |-> {r.slot}, deleted |-> FALSE]})
    /\ replica' = [replica EXCEPT ![w].pc = "written", ![w].id = FreshId, ![w].began = clock]
    /\ drift' = [drift EXCEPT ![r.doc] = FALSE]
    /\ UNCHANGED <<doc, layer, gate, live, retired, starting, deleting, clock, rebuild, ops, faults,
                   missed, overrun, overlap, resent>>

\* Mutant of Indexed: the marker of a vector the new points lack is kept.
IndexedKeepsMarker(r, i, t) ==
    [r EXCEPT !.status = "indexed", !.claim = None, !.chunks = i, !.updated = t]

\* The row a pass commits, dated when its transaction began.  Its points carry
\* no shadow vector.
Indexed(r, i, t) ==
    [r EXCEPT !.status = "indexed", !.claim = None, !.chunks = i, !.updated = t,
              !.reindexed = None]

IngestCommit(w) ==
    LET r == replica[w] IN
    /\ r.pc = "written"
    /\ doc' = [doc EXCEPT ![r.doc] = Indexed(@, r.id, r.began)]
    /\ lock' = [lock EXCEPT ![r.doc] = None]
    /\ drift' = [drift EXCEPT ![r.doc] =
          @ \/ r.from /= live \/ r.slot /= layer[r.layer].vector \/ r.began < clock]
    /\ replica' = [replica EXCEPT ![w] = Idle]
    /\ UNCHANGED <<layer, gate, live, coll, retired, starting, deleting, clock, rebuild, ops, faults,
                   missed, overrun, overlap, resent>>

\* A pass that fails, or has lost its claim, leaves the row to be tried again.
IngestFail(w) ==
    LET r == replica[w] IN
    /\ Fault
    /\ r.pc \in {"indexing", "written"}
    /\ r.pc = "indexing" => Unlocked(r.doc)
    /\ doc' = IF doc[r.doc].claim = w
              THEN [doc EXCEPT ![r.doc] = [@ EXCEPT !.status = "pending", !.claim = None,
                                                    !.updated = clock]]
              ELSE doc
    /\ lock' = [lock EXCEPT ![r.doc] = IF @ = w THEN None ELSE @]
    /\ replica' = [replica EXCEPT ![w] = Idle]
    /\ UNCHANGED <<layer, gate, live, coll, retired, starting, deleting, clock, rebuild, ops,
                   marks>>

\* A lease may lapse under a pass that still runs.
Reap(d) ==
    /\ Fault
    /\ doc[d].status = "parsing" /\ Unlocked(d) /\ ~Deleted(d)
    /\ doc' = [doc EXCEPT ![d] = [@ EXCEPT !.status = "pending", !.claim = None,
                                           !.updated = clock]]
    /\ UNCHANGED <<lock, layer, gate, live, coll, retired, starting, deleting,
                   replica, clock, rebuild, ops, marks>>

-----------------------------------------------------------------------------
(* The copy *)

\* The lease of a copy may lapse while its replica is still at it.  The replica
\* stands for its fencing token.
CopyClaim(w, l) ==
    /\ replica[w].pc = "idle"
    /\ Copying(l)
    /\ IF layer[l].claim = None THEN UNCHANGED faults ELSE Fault
    /\ layer' = [layer EXCEPT ![l].claim = w]
    /\ replica' = [replica EXCEPT ![w] =
          [Idle EXCEPT !.pc = "copying", !.layer = l, !.from = live,
                       !.slot = layer[l].shadow, !.began = layer[l].since]]
    /\ UNCHANGED <<doc, lock, gate, live, coll, retired, starting, deleting, clock,
                   rebuild, ops, marks>>

\* The fence: the claim is still this replica's.
HoldsCopy(w) ==
    /\ Copying(replica[w].layer)
    /\ layer[replica[w].layer].claim = w

\* Mutant of CopySlots: the slots of the source are forgotten.
CopySlotsNewOnly(w) == {replica[w].slot}

\* A copy has the slots of what it is made from, and the new one.
CopySlots(w) == coll[replica[w].from].slots \cup {replica[w].slot}

\* What is called like the copy is deleted and made anew.  No other organization
\* has the name; this one's own are not asked about.
CopyCreate(w) ==
    LET r == replica[w] IN
    /\ r.pc = "copying" /\ ~r.ready
    /\ Exists(r.from) /\ r.slot \notin coll[r.from].slots
    /\ coll' = WithCollection(CopyName(w), [slots |-> CopySlots(w),
                                            points |-> [d \in Docs |-> {}]])
    /\ replica' = [replica EXCEPT ![w].ready = TRUE]
    /\ overrun' = (overrun \/ ~HoldsCopy(w))
    /\ UNCHANGED <<doc, lock, layer, gate, live, retired, starting, deleting, clock,
                   rebuild, ops, faults, missed, overlap, drift, resent>>

\* The scroll reads with no snapshot: each document as it is when its page comes.
CopyPage(w, d) ==
    LET r == replica[w]
        to == CopyName(w)
    IN
    /\ r.pc = "copying" /\ r.ready /\ d \notin r.copied
    /\ Exists(r.from) /\ Exists(to)
    /\ LET read == coll[r.from].points[d]
           kept == {p \in coll[to].points[d] : \A q \in read : q.id /= p.id}
       IN coll' = WithPoints(to, d, kept \cup read)
    /\ replica' = [replica EXCEPT ![w].copied = @ \cup {d}]
    /\ overrun' = (overrun \/ to = live)
    /\ UNCHANGED <<doc, lock, layer, gate, live, retired, starting, deleting, clock,
                   rebuild, ops, faults, missed, overlap, drift, resent>>

\* A renewal that finds the claim gone abandons the copy.
CopyAbandon(w) ==
    /\ replica[w].pc = "copying" /\ ~HoldsCopy(w)
    /\ replica' = [replica EXCEPT ![w] = Idle]
    /\ UNCHANGED <<doc, lock, layer, gate, live, coll, retired, starting, deleting,
                   clock, rebuild, ops, faults, marks>>

\* A layer whose collection now has the slot: on to embedding, or straight onto
\* the slot when nothing holds it back.
Copied(l, r) ==
    IF Outstanding(l) /= {} \/ gate[l]
    THEN [r EXCEPT !.phase = "embedding"]
    ELSE [r EXCEPT !.phase = "embedding", !.status = "complete", !.vector = r.shadow]

\* Mutant of Superseded: the new name is put on record.
SupersededNew(w) == {CopyName(w)}

\* The name the pointer moves off, unless it moves onto itself.
Superseded(w) == {live} \ {CopyName(w)}

\* The pointer, the retired name and the phase of every waiting layer move in
\* one transaction.
CopyFinish(w) ==
    LET r == replica[w] IN
    /\ r.pc = "copying" /\ r.ready /\ r.copied = Docs
    /\ HoldsCopy(w)
    /\ live' = CopyName(w)
    /\ retired' = retired \cup Superseded(w)
    /\ layer' = [l \in Layers |-> IF Copying(l) THEN Copied(l, layer[l]) ELSE layer[l]]
    /\ replica' = [replica EXCEPT ![w].pc = "repairing", ![w].copied = {}, ![w].ready = FALSE]
    /\ UNCHANGED <<doc, lock, gate, coll, starting, deleting, clock, rebuild, ops, faults, marks>>

\* What changed since the migration began, by the columns the repair reads.
Requeued(since) ==
    {d \in Docs : /\ doc[d].status = "indexed" /\ ~Deleted(d)
                  /\ doc[d].updated >= since}

\* Mutant of Revived: a purge during the copy is not looked for.
RevivedUnpurged(since) ==
    {d \in Docs : Deleted(d) /\ doc[d].deleted >= since}

Revived(since) ==
    {d \in Docs : /\ Deleted(d)
                  /\ \/ doc[d].deleted >= since
                     \/ doc[d].purged /= None /\ doc[d].purged >= since}

\* The repair waits for the rows it changes.
Repair(w) ==
    LET since == replica[w].began IN
    /\ replica[w].pc = "repairing"
    /\ \A d \in Requeued(since) \cup Revived(since) : Unlocked(d)
    /\ doc' = [d \in Docs |->
          IF d \in Requeued(since)
            THEN [doc[d] EXCEPT !.status = "pending", !.updated = clock]
          ELSE IF d \in Revived(since) THEN [doc[d] EXCEPT !.purged = None]
          ELSE doc[d]]
    /\ replica' = [replica EXCEPT ![w] =
          IF Revived(since) = {} THEN Idle
          ELSE [@ EXCEPT !.pc = "tombstoning", !.copied = Revived(since)]]
    /\ UNCHANGED <<lock, layer, gate, live, coll, retired, starting, deleting, clock,
                   rebuild, ops, faults, marks>>

\* The tombstone is set again in the new collection, whatever has become of the
\* document since the repair; a failure is passed over.
ReTombstone(w, d, ok) ==
    LET r == replica[w]
        left == r.copied \ {d}
    IN
    /\ r.pc = "tombstoning" /\ d \in r.copied
    /\ IF ok THEN UNCHANGED faults ELSE Fault
    /\ ok => Exists(CopyName(w))
    /\ coll' = IF ok
               THEN WithPoints(CopyName(w), d, Flagged(coll[CopyName(w)].points[d]))
               ELSE coll
    /\ drift' = [drift EXCEPT ![d] = @ \/ ok /= Deleted(d)]
    /\ replica' = [replica EXCEPT ![w] = IF left = {} THEN Idle ELSE [@ EXCEPT !.copied = left]]
    /\ UNCHANGED <<doc, lock, layer, gate, live, retired, starting, deleting, clock,
                   rebuild, ops, missed, overrun, overlap, resent>>

\* An error in the copy fails the migration, if it is still this replica's; one
\* in the repair is logged.
CopyThrow(w) ==
    LET r == replica[w] IN
    /\ Fault
    /\ r.pc \in {"copying", "repairing"}
    /\ layer' = IF HoldsCopy(w) THEN [layer EXCEPT ![r.layer].status = "failed"] ELSE layer
    /\ missed' = (missed \/ r.pc = "repairing")
    /\ replica' = [replica EXCEPT ![w] = Idle]
    /\ UNCHANGED <<doc, lock, gate, live, coll, retired, starting, deleting, clock,
                   rebuild, ops, overrun, overlap, drift, resent>>

-----------------------------------------------------------------------------
(* Embedding into the new slot *)

\* Documents that an embedding pass may claim.
Claimable == {d \in Docs : Embedding(Home[d]) /\ ~AnyCopying /\ d \in Outstanding(Home[d])}

EmbedClaim(w, d) ==
    /\ replica[w].pc = "idle"
    /\ d \in Claimable
    /\ replica' = [replica EXCEPT ![w] =
          [Idle EXCEPT !.pc = "embedding", !.doc = d, !.layer = Home[d], !.from = live,
                       !.slot = layer[Home[d]].shadow, !.id = doc[d].chunks,
                       !.began = layer[Home[d]].since]]
    /\ UNCHANGED <<doc, lock, layer, gate, live, coll, retired, starting, deleting,
                   clock, rebuild, ops, faults, marks>>

\* The vector goes onto points that exist, into a slot that exists.
EmbedAdd(w) ==
    LET r == replica[w] IN
    /\ r.pc = "embedding"
    /\ Exists(r.from) /\ r.slot \in coll[r.from].slots
    /\ \E p \in coll[r.from].points[r.doc] :
          /\ p.id = r.id
          /\ coll' = WithPoints(r.from, r.doc,
                (coll[r.from].points[r.doc] \ {p}) \cup {[p EXCEPT !.vecs = @ \cup {r.slot}]})
    /\ replica' = [replica EXCEPT ![w].pc = "added"]
    /\ UNCHANGED <<doc, lock, layer, gate, live, retired, starting, deleting, clock,
                   rebuild, ops, faults, marks>>

\* The points the vector went onto are still the document's.
SamePoints(w) == doc[replica[w].doc].chunks = replica[w].id

\* Of a pass that ended only its layer and slot matter.
Ended(r, pc) == [Idle EXCEPT !.pc = pc, !.layer = r.layer, !.slot = r.slot]

\* markReindexed is one UPDATE, but it compares with the chunks committed when it
\* began.  A pass it then waits for is not among them.
EmbedCompare(w) ==
    /\ replica[w].pc = "added"
    /\ replica' = [replica EXCEPT ![w] = IF SamePoints(w) THEN [@ EXCEPT !.pc = "marking"] ELSE Idle]
    /\ UNCHANGED <<doc, lock, layer, gate, live, coll, retired, starting, deleting, clock,
                   rebuild, ops, faults, marks>>

EmbedMark(w) ==
    LET r == replica[w] IN
    /\ r.pc = "marking"
    /\ Unlocked(r.doc)
    /\ doc' = [doc EXCEPT ![r.doc].reindexed = r.slot]
    /\ drift' = [drift EXCEPT ![r.doc] = @ \/ ~SamePoints(w) \/ r.from /= live \/ AnyCopying
                                            \/ r.began /= layer[r.layer].since]
    /\ replica' = [replica EXCEPT ![w] = Ended(r, "marked")]
    /\ UNCHANGED <<lock, layer, gate, live, coll, retired, starting, deleting, clock,
                   rebuild, ops, faults, missed, overrun, overlap, resent>>

EmbedFail(w) ==
    /\ Fault
    /\ replica[w].pc \in {"embedding", "added", "marking"}
    /\ replica' = [replica EXCEPT ![w] = Ended(@, "erred")]
    /\ UNCHANGED <<doc, lock, layer, gate, live, coll, retired, starting, deleting,
                   clock, rebuild, ops, marks>>

\* The migration a replica works for is still the layer's.
SameMigration(w) ==
    /\ layer[replica[w].layer].status = "running"
    /\ layer[replica[w].layer].shadow = replica[w].slot

\* Failures are counted in a row: a pass that got anywhere starts over.
RecordPass(w) ==
    LET r == replica[w]
        failures == layer[r.layer].failures + 1
    IN
    /\ r.pc \in {"marked", "erred"}
    /\ layer' =
          IF ~SameMigration(w) THEN layer
          ELSE IF r.pc = "marked" THEN [layer EXCEPT ![r.layer].failures = 0]
          ELSE [layer EXCEPT ![r.layer] =
                  [@ EXCEPT !.failures = failures,
                            !.status = IF failures >= FailureBound THEN "failed" ELSE "running"]]
    /\ replica' = [replica EXCEPT ![w].pc = "switching"]
    /\ UNCHANGED <<doc, lock, gate, live, coll, retired, starting, deleting, clock,
                   rebuild, ops, faults, marks>>

\* With nothing to embed, the layers that may be done are asked all the same.
PendingSwitch(w, l) ==
    /\ replica[w].pc = "idle"
    /\ Claimable = {} /\ Embedding(l)
    /\ replica' = [replica EXCEPT ![w] =
          [Idle EXCEPT !.pc = "switching", !.layer = l, !.slot = layer[l].shadow]]
    /\ UNCHANGED <<doc, lock, layer, gate, live, coll, retired, starting, deleting,
                   clock, rebuild, ops, faults, marks>>

\* Nothing outstanding and, for a layer with reference queries, a passed check.
Done(w) ==
    LET l == replica[w].layer IN
    /\ SameMigration(w)
    /\ \A d \in Docs : Home[d] = l /\ ~Deleted(d) /\ doc[d].chunks /= None
                          => doc[d].reindexed = replica[w].slot
    /\ gate[l] => layer[l].check = "passed"

\* The documents are those committed when the UPDATE began; a pass that commits
\* while it waits for the row of the layer might as well have committed after it.
Switch(w) ==
    LET l == replica[w].layer IN
    /\ replica[w].pc = "switching"
    /\ layer' = IF Done(w)
                THEN [layer EXCEPT ![l] = [@ EXCEPT !.status = "complete",
                                                    !.vector = replica[w].slot,
                                                    !.previous = layer[l].vector]]
                ELSE layer
    /\ replica' = [replica EXCEPT ![w] = Idle]
    /\ UNCHANGED <<doc, lock, gate, live, coll, retired, starting, deleting, clock,
                   rebuild, ops, faults, marks>>

-----------------------------------------------------------------------------
(* The recall check *)

RecallBegin(w, l) ==
    /\ replica[w].pc = "idle"
    /\ Embedding(l) /\ layer[l].check = "none" /\ gate[l] /\ Outstanding(l) = {}
    /\ replica' = [replica EXCEPT ![w] =
          [Idle EXCEPT !.pc = "scoring", !.layer = l, !.slot = layer[l].shadow]]
    /\ UNCHANGED <<doc, lock, layer, gate, live, coll, retired, starting, deleting,
                   clock, rebuild, ops, faults, marks>>

\* Any score may come out.  The verdict is written before anything acts on it.
RecallRecord(w, verdict) ==
    /\ replica[w].pc = "scoring"
    /\ layer' = IF SameMigration(w)
                THEN [layer EXCEPT ![replica[w].layer].check = verdict] ELSE layer
    /\ replica' = [replica EXCEPT ![w].pc =
          IF verdict = "passed" THEN "switching" ELSE "judging"]
    /\ UNCHANGED <<doc, lock, gate, live, coll, retired, starting, deleting, clock,
                   rebuild, ops, faults, marks>>

\* failReindex asks for a running migration, not for this one.
RecallFail(w) ==
    LET l == replica[w].layer IN
    /\ replica[w].pc = "judging"
    /\ layer' = IF layer[l].status = "running"
                THEN [layer EXCEPT ![l].status = "failed"] ELSE layer
    /\ replica' = [replica EXCEPT ![w] = Idle]
    /\ UNCHANGED <<doc, lock, gate, live, coll, retired, starting, deleting, clock,
                   rebuild, ops, faults, marks>>

-----------------------------------------------------------------------------
(* Sweeping what a migration leaves, and what a delete leaves *)

\* A retired collection whose window has closed: forgotten if it is live again,
\* else dropped and then forgotten.
RetireDue(w, c) ==
    /\ replica[w].pc = "idle"
    /\ c \in retired
    /\ IF c = live
       THEN retired' = retired \ {c} /\ UNCHANGED replica
       ELSE /\ replica' = [replica EXCEPT ![w] = [Idle EXCEPT !.pc = "dropping", !.from = c]]
            /\ UNCHANGED retired
    /\ UNCHANGED <<doc, lock, layer, gate, live, coll, starting, deleting, clock, rebuild, ops, faults, marks>>

RetireDrop(w) ==
    /\ replica[w].pc = "dropping"
    /\ coll' = Without(replica[w].from)
    /\ replica' = [replica EXCEPT ![w].pc = "forgetting"]
    /\ UNCHANGED <<doc, lock, layer, gate, live, retired, starting, deleting, clock,
                   rebuild, ops, faults, marks>>

RetireForget(w) ==
    /\ replica[w].pc = "forgetting"
    /\ retired' = retired \ {replica[w].from}
    /\ replica' = [replica EXCEPT ![w] = Idle]
    /\ UNCHANGED <<doc, lock, layer, gate, live, coll, starting, deleting, clock, rebuild, ops, faults, marks>>

\* The slot a finished migration moved the layer off, never the one it searches.
Reclaimable(l) ==
    /\ layer[l].status = "complete"
    /\ layer[l].previous \notin {None, layer[l].vector}

ReclaimDue(w, l) ==
    /\ replica[w].pc = "idle"
    /\ Reclaimable(l)
    /\ replica' = [replica EXCEPT ![w] =
          [Idle EXCEPT !.pc = "reclaiming", !.layer = l, !.from = live,
                       !.slot = layer[l].previous]]
    /\ UNCHANGED <<doc, lock, layer, gate, live, coll, retired, starting, deleting,
                   clock, rebuild, ops, faults, marks>>

\* The slot's data goes from the layer's points.  Nothing is asked again first.
ReclaimDrop(w) ==
    LET r == replica[w]
        mine == {d \in Docs : Home[d] = r.layer}
    IN
    /\ r.pc = "reclaiming"
    /\ Exists(r.from)
    /\ coll' = [coll EXCEPT ![r.from].points =
          [d \in Docs |-> IF d \in mine
                          THEN {[p EXCEPT !.vecs = @ \ {r.slot}] : p \in @[d]}
                          ELSE @[d]]]
    /\ overrun' = (overrun \/ r.slot /= layer[r.layer].previous)
    /\ replica' = [replica EXCEPT ![w] = [Idle EXCEPT !.pc = "reclaimed", !.layer = r.layer]]
    /\ UNCHANGED <<doc, lock, layer, gate, live, retired, starting, deleting, clock,
                   rebuild, ops, faults, missed, overlap, drift, resent>>

ReclaimForget(w) ==
    LET l == replica[w].layer IN
    /\ replica[w].pc = "reclaimed"
    /\ starting[l] = None
    /\ layer' = [layer EXCEPT ![l].previous = None]
    /\ replica' = [replica EXCEPT ![w] = Idle]
    /\ UNCHANGED <<doc, lock, gate, live, coll, retired, starting, deleting, clock,
                   rebuild, ops, faults, marks>>

\* The collector removes the points of a deleted document from the collection
\* that was live when it claimed it.
CollectClaim(w, d) ==
    /\ replica[w].pc = "idle"
    /\ Deleted(d) /\ doc[d].purged = None /\ Unlocked(d)
    /\ replica' = [replica EXCEPT ![w] =
          [Idle EXCEPT !.pc = "purging", !.doc = d, !.from = live]]
    /\ UNCHANGED <<doc, lock, layer, gate, live, coll, retired, starting, deleting,
                   clock, rebuild, ops, faults, marks>>

\* stillDeleted: it is back.  A check that finds it deleted may be as old as the
\* claim and is part of that.
CollectSkip(w) ==
    /\ replica[w].pc = "purging" /\ ~Deleted(replica[w].doc)
    /\ replica' = [replica EXCEPT ![w] = Idle]
    /\ UNCHANGED <<doc, lock, layer, gate, live, coll, retired, starting, deleting,
                   clock, rebuild, ops, faults, marks>>

\* A collection that is gone has no points to remove.
CollectPurge(w) ==
    LET r == replica[w] IN
    /\ r.pc = "purging"
    /\ coll' = IF Exists(r.from) THEN WithPoints(r.from, r.doc, {}) ELSE coll
    /\ drift' = [drift EXCEPT ![r.doc] = @ \/ ~Deleted(r.doc)]
    /\ replica' = [replica EXCEPT ![w].pc = "purged"]
    /\ resent' = [resent EXCEPT ![w] = ~Deleted(r.doc)]
    /\ UNCHANGED <<doc, lock, layer, gate, live, retired, starting, deleting, clock,
                   rebuild, ops, faults, missed, overrun, overlap>>

\* Only a row that is deleted and not purged is marked.
CollectMark(w) ==
    LET r == replica[w] IN
    /\ r.pc = "purged"
    /\ Unlocked(r.doc)
    /\ IF Deleted(r.doc) /\ doc[r.doc].purged = None
       THEN /\ doc' = [doc EXCEPT ![r.doc].purged = clock]
            /\ drift' = [drift EXCEPT ![r.doc] = r.from /= live \/ resent[w]]
       ELSE UNCHANGED <<doc, drift>>
    /\ resent' = [resent EXCEPT ![w] = FALSE]
    /\ replica' = [replica EXCEPT ![w] = Idle]
    /\ UNCHANGED <<lock, layer, gate, live, coll, retired, starting, deleting, clock,
                   rebuild, ops, faults, missed, overrun, overlap>>

\* A replica dies: its transaction rolls back and what it had read is lost.
Crash(w) ==
    /\ Fault
    /\ replica[w].pc /= "idle"
    /\ lock' = [d \in Docs |-> IF lock[d] = w THEN None ELSE lock[d]]
    /\ missed' = (missed \/ replica[w].pc \in {"repairing", "tombstoning"})
    /\ resent' = [resent EXCEPT ![w] = FALSE]
    /\ replica' = [replica EXCEPT ![w] = Idle]
    /\ UNCHANGED <<doc, layer, gate, live, coll, retired, starting, deleting, clock,
                   rebuild, ops, overrun, overlap, drift>>

-----------------------------------------------------------------------------

Request ==
    \/ \E d \in Docs : Send(d) \/ Delete(d) \/ \E began \in Clock : SendUnchanged(d, began)
    \/ RebuildRead \/ RebuildDrop \/ RebuildCreate \/ RebuildRequeue \/ RebuildDies
    \/ DeleteCommit
    \/ \E l \in Layers : SetReferences(l) \/ StartWrite(l)
    \/ \E l \in Layers, v \in Vectors : StartRead(l, v) \/ CreateRead(l, v)

Ingest(w) ==
    \/ \E d \in Docs : IngestClaim(w, d)
    \/ IngestWrite(w) \/ IngestCommit(w) \/ IngestFail(w)

Copy(w) ==
    \/ \E l \in Layers : CopyClaim(w, l)
    \/ CopyCreate(w) \/ CopyFinish(w) \/ CopyAbandon(w) \/ CopyThrow(w) \/ Repair(w)
    \/ \E d \in Docs : CopyPage(w, d)
    \/ \E d \in Docs, ok \in BOOLEAN : ReTombstone(w, d, ok)

Embed(w) ==
    \/ \E d \in Docs : EmbedClaim(w, d)
    \/ EmbedAdd(w) \/ EmbedCompare(w) \/ EmbedMark(w) \/ EmbedFail(w) \/ RecordPass(w) \/ Switch(w)
    \/ \E l \in Layers : PendingSwitch(w, l)

Recall(w) ==
    \/ \E l \in Layers : RecallBegin(w, l)
    \/ \E verdict \in {"passed", "failed"} : RecallRecord(w, verdict)
    \/ RecallFail(w)

Retire(w) ==
    \/ \E c \in retired : RetireDue(w, c)
    \/ \E l \in Layers : ReclaimDue(w, l)
    \/ RetireDrop(w) \/ RetireForget(w) \/ ReclaimDrop(w) \/ ReclaimForget(w)

Collect(w) ==
    \/ \E d \in Docs : CollectClaim(w, d)
    \/ CollectSkip(w) \/ CollectPurge(w) \/ CollectMark(w)

Next ==
    \/ Request
    \/ \E d \in Docs : Reap(d)
    \/ \E w \in Replicas :
          Ingest(w) \/ Copy(w) \/ Embed(w) \/ Recall(w) \/ Retire(w) \/ Collect(w) \/ Crash(w)

Spec == Init /\ [][Next]_vars

-----------------------------------------------------------------------------
(* Properties *)

\* The variables hold rows, points and replica states of the kinds above.
TypeOK ==
    /\ doc \in [Docs -> Doc]
    /\ lock \in [Docs -> Replicas \cup {"delete", None}]
    /\ layer \in [Layers -> Layer]
    /\ gate \in [Layers -> BOOLEAN]
    /\ live \in Names
    /\ DOMAIN coll \subseteq Names
    /\ \A c \in DOMAIN coll : coll[c] \in Collection
    /\ retired \subseteq Names
    /\ starting \in [Layers -> [slot : Vectors, phase : {"none", "copying", "embedding"}]
                                 \cup {None}]
    /\ deleting \in [doc : Docs \cup {None}, from : Names, began : Clock]
    /\ rebuild \in [pc : {"idle", "dropping", "creating", "requeueing", "died"},
                    from : Names, slots : SUBSET Vectors, runs : Nat]
    /\ replica \in [Replicas -> Replica]
    /\ clock \in Clock
    /\ ops \in 0 .. MaxOps
    /\ faults \in 0 .. MaxFaults
    /\ {missed, overrun, overlap} \subseteq BOOLEAN
    /\ drift \in [Docs -> BOOLEAN]
    /\ resent \in [Replicas -> BOOLEAN]

\* No copy has gone wrong: each one that finished has been repaired, none was
\* written to by a replica that had lost it, and no two were wanted at once.
Undisturbed ==
    /\ ~missed /\ ~overrun /\ ~overlap
    /\ ~Repairing /\ NotRebuilding

\* A document the row reports indexed is found by a search of the live
\* collection under its layer's vector, whatever was copied, embedded, switched
\* or swept meanwhile.
IndexedIsFound ==
    Undisturbed =>
        \A d \in Docs :
            doc[d].status = "indexed" /\ ~Deleted(d) /\ Unlocked(d) /\ ~drift[d] =>
                /\ Exists(live)
                /\ \E p \in coll[live].points[d] :
                      /\ p.id = doc[d].chunks
                      /\ layer[Home[d]].vector \in p.vecs
                      /\ ~p.deleted

\* A deleted document has no unflagged point in the live collection, and none at
\* all once it is reported purged, though the copy may have carried some over.
DeletedStaysDeleted ==
    Undisturbed =>
        \A d \in Docs :
            Deleted(d) /\ ~drift[d] =>
                /\ \A p \in coll[live].points[d] : p.deleted
                /\ doc[d].purged /= None => coll[live].points[d] = {}

\* The live collection exists; it has the slot every layer is searched by (but
\* for a layer created on a model whose copy has not been made) and the slot a
\* layer is being embedded into.
LiveHasSlots ==
    ~overrun /\ ~overlap /\ NotRebuilding =>
        /\ Exists(live)
        /\ \A l \in Layers :
              /\ l \notin Created \/ layer[l].status = "complete" =>
                    layer[l].vector \in coll[live].slots
              /\ Embedding(l) => layer[l].shadow \in coll[live].slots

\* A collection that copies moved the pointer off stays on record until it is
\* gone, through crashes between the drop and the forgetting.
SupersededIsOnRecord ==
    ~overrun /\ ~overlap =>
        \A c \in DOMAIN coll :
            Len(c) < Len(live) /\ SubSeq(live, 1, Len(c)) = c => c \in retired

\* markReindexed: "Record that a document carries the shadow vector, if its
\* points are still the ones the vector was written onto"
\* (packages/worker/src/adapters.ts:1243).  While a layer is embedded, the points
\* of a document marked with the shadow carry it, so the switch may rely on the
\* mark.
MarkedIsCarried ==
    Undisturbed =>
        \A d \in Docs :
            LET shadow == layer[Home[d]].shadow IN
            /\ doc[d].status = "indexed" /\ ~Deleted(d) /\ Unlocked(d)
            /\ Embedding(Home[d]) /\ doc[d].reindexed = shadow
            => \E p \in coll[live].points[d] : p.id = doc[d].chunks /\ shadow \in p.vecs

=============================================================================
