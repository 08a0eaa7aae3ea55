------------------------ MODULE ModelMigrationProofs ------------------------
(***************************************************************************)
(* Proofs about ModelMigration: that no superseded collection is lost from *)
(* the record while it exists, that the live collection has the slots the  *)
(* layers are searched by and embedded into, and that its points answer    *)
(* for the rows, so that what is indexed is found and what is deleted is   *)
(* not, for any number of documents, layers, models, replicas, faults and  *)
(* migrations.                                                             *)
(*                                                                         *)
(* TypeInv adds to the types what a replica's work is about and that a     *)
(* migration that runs has a slot to fill.  RecordInv rests on it: a copy  *)
(* whose claim still holds was made from the live collection, so the       *)
(* pointer only grows, and what is on record or being swept lies before    *)
(* it.  SlotInv rests on both: no two layers wait for a copy, the held     *)
(* copy has the slots of its source and the new one, and every start,      *)
(* embedding pass and rebuild turns to slots that are there.  PointInv     *)
(* rests on the three: what is found in the live collection, what is       *)
(* flagged there, and what the next state of either will rest on, namely   *)
(* the copy that is held, the points a pass wrote and has not committed,   *)
(* the vector it added and has not marked, the points a delete flagged and *)
(* a purge removed, and the slot a sweep is about to take.  A deleted      *)
(* document may be sent again at any of these places; a purge or a         *)
(* tombstone that comes late for it spoils the row's report (Spoiled), and *)
(* a mark made by an old comparison does too (Marked).                     *)
(***************************************************************************)
EXTENDS ModelMigration, SequenceTheorems, TLAPS

----------------------------------------------------------------------------
(* What is where.                                                           *)

(* A replica has the document, the layer and the slot its work is about.    *)
PlacedRow(r) ==
  /\ r.pc \in {"indexing", "written", "embedding", "added", "marking", "purging", "purged"} => r.doc \in Docs
  /\ r.pc \in {"copying", "repairing", "tombstoning", "embedding", "added", "marking", "marked", "erred",
               "switching", "scoring", "judging", "indexing", "written"} =>
       r.layer \in Layers /\ r.slot \in Vectors
  /\ r.pc \in {"reclaiming", "reclaimed"} => r.layer \in Layers

Placed(w) == PlacedRow(replica[w])

(* A migration that runs has a slot to fill, of a layer that exists.        *)
RunsInto(l) ==
  /\ layer[l].status = "running" => layer[l].shadow \in Vectors
  /\ l \notin Created \/ layer[l].status # "none" => layer[l].exists

TypeInv ==
  /\ TypeOK
  /\ \A w \in Replicas : Placed(w)
  /\ \A l \in Layers : RunsInto(l)

(* The name c is one that the name n was grown from.                        *)
Before(c, n) == Len(c) < Len(n) /\ SubSeq(n, 1, Len(c)) = c

Clean == ~overrun /\ ~overlap

(* A copy that is still wanted is made from the live collection.            *)
CopiesLive(w) ==
  replica[w].pc = "copying" /\ HoldsCopy(w) =>
    replica[w].from = live /\ replica[w].slot = layer[replica[w].layer].shadow

RecordInv ==
  /\ \A w \in Replicas : CopiesLive(w)
  /\ \A c \in retired : Before(c, live)
  /\ \A w \in Replicas : replica[w].pc \in {"dropping", "forgetting"} => Before(replica[w].from, live)
  /\ Clean =>
       /\ ~NotRebuilding => \A l \in Layers : layer[l].status # "running"
       /\ rebuild.pc \in {"dropping", "creating", "requeueing"} => rebuild.from = live
       /\ \A w \in Replicas : replica[w].pc = "forgetting" => ~Exists(replica[w].from)
       /\ \A c \in DOMAIN coll : Before(c, live) => c \in retired

(* The slot s is one the live collection has.                               *)
HasSlot(s) == Exists(live) /\ s \in coll[live].slots

Fills(w) == replica[w].pc \in {"embedding", "added", "marking", "marked", "erred", "switching", "scoring", "judging"}

(* No two layers wait for a copy.                                           *)
OneCopy == \A k, l \in Layers : Copying(k) /\ Copying(l) => k = l

SearchSlots(l) ==
  /\ l \notin Created \/ layer[l].status = "complete" => HasSlot(layer[l].vector)
  /\ Embedding(l) => HasSlot(layer[l].shadow)

StartSlot(l) == starting[l] # None /\ starting[l].phase = "embedding" => HasSlot(starting[l].slot)

FillSlot(w) == Fills(w) => HasSlot(replica[w].slot)

(* A copy that may still become the live collection has its slots.          *)
CopyHasSlots(w) ==
  replica[w].pc = "copying" /\ replica[w].ready /\ HoldsCopy(w) =>
    /\ Exists(live) /\ Exists(CopyName(w))
    /\ coll[live].slots \cup {replica[w].slot} \subseteq coll[CopyName(w)].slots

RebuildSlots ==
  rebuild.pc \in {"dropping", "creating", "requeueing"} =>
    \A l \in Layers : layer[l].exists => layer[l].vector \in rebuild.slots

Rebuilt == rebuild.pc = "requeueing" => Exists(live) /\ coll[live].slots = rebuild.slots

SlotInv ==
  Clean =>
    /\ OneCopy
    /\ NotRebuilding => Exists(live) /\ \A l \in Layers : SearchSlots(l)
    /\ \A l \in Layers : StartSlot(l)
    /\ \A w \in Replicas : FillSlot(w) /\ CopyHasSlots(w)
    /\ RebuildSlots
    /\ Rebuilt

----------------------------------------------------------------------------
(* Names.                                                                   *)

(* A name that is grown has the ones before it, itself among them.          *)
LEMMA Grown ==
  ASSUME NEW n \in Names, NEW v \in Vectors
  PROVE  /\ Append(n, v) \in Names /\ Append(n, v) # n
         /\ Before(n, Append(n, v)) /\ ~Before(n, n) /\ ~Before(Append(n, v), n)
         /\ \A c \in Names : Before(c, Append(n, v)) <=> c = n \/ Before(c, n)
<1>0. n \in Seq(Vectors)
  BY DEF Names
<1>1. /\ Append(n, v) \in Seq(Vectors) /\ Len(Append(n, v)) = Len(n) + 1 /\ Len(n) \in Nat
      /\ \A i \in 1 .. Len(n) : Append(n, v)[i] = n[i]
  BY <1>0, AppendProperties, LenProperties
<1>2. ASSUME NEW c \in Names, Len(c) <= Len(n)
      PROVE  SubSeq(Append(n, v), 1, Len(c)) = SubSeq(n, 1, Len(c))
  <2>1. c \in Seq(Vectors) /\ Len(c) \in Nat
    BY LenProperties DEF Names
  <2>2. Append(n, v) = n \o <<v>>
    BY <1>0, AppendIsConcat
  <2> QED
    BY <1>0, <1>1, <1>2, <2>1, SubSeqProperties
<1>3. SubSeq(n, 1, Len(n)) = n
  BY <1>0, SubSeqFull
<1>4. SubSeq(Append(n, v), 1, Len(n)) = n
  BY <1>0, <1>1, <1>2, <1>3 DEF Names
<1>5. ASSUME NEW c \in Names
      PROVE  Before(c, Append(n, v)) <=> c = n \/ Before(c, n)
  <2>1. Len(c) \in Nat /\ c \in Seq(Vectors)
    BY LenProperties DEF Names
  <2>2. CASE Len(c) = Len(n)
    BY <1>1, <1>2, <1>3, <1>4, <2>1, <2>2 DEF Before
  <2>3. CASE Len(c) < Len(n)
    BY <1>1, <1>2, <2>1, <2>3 DEF Before
  <2>4. CASE Len(c) > Len(n)
    BY <1>1, <2>1, <2>4 DEF Before
  <2> QED
    BY <1>1, <2>1, <2>2, <2>3, <2>4
<1>6. Append(n, v) \in Names /\ Append(n, v) # n
  BY <1>1 DEF Names
<1>7. Before(n, Append(n, v))
  BY <1>5
<1>8. ~Before(n, n) /\ ~Before(Append(n, v), n)
  BY <1>1 DEF Before
<1> QED
  BY <1>5, <1>6, <1>7, <1>8

----------------------------------------------------------------------------
(* Types.                                                                   *)

(* The rows and the records, by the types.                                  *)
LEMMA TypesAt ==
  ASSUME TypeInv
  PROVE  /\ \A d \in Docs : doc[d] \in Doc
         /\ \A l \in Layers : layer[l] \in Layer /\ RunsInto(l)
         /\ \A w \in Replicas : replica[w] \in Replica /\ Placed(w)
         /\ \A c \in DOMAIN coll : c \in Names /\ coll[c] \in Collection
         /\ live \in Names /\ retired \subseteq Names /\ clock \in Clock
         /\ Clock \subseteq Nat /\ 0 \in Clock /\ \A l \in Layers : Home \in [Docs -> Layers]
  BY MigrationAssumption DEF TypeInv, TypeOK, Clock

(* The fields of a replica.                                                 *)
LEMMA ReplicaAt ==
  ASSUME TypeInv, NEW w \in Replicas
  PROVE  /\ replica[w].doc \in Docs \cup {None} /\ replica[w].layer \in Layers \cup {None}
         /\ replica[w].from \in Names /\ replica[w].slot \in Vectors \cup {None}
         /\ replica[w].id \in Ids \cup {None} /\ replica[w].began \in Clock
         /\ replica[w].copied \in SUBSET Docs /\ replica[w].ready \in BOOLEAN
<1>1. replica[w] \in Replica
  BY TypesAt
<1> QED
  BY <1>1 DEF Replica

(* Documents.                                                               *)
LEMMA DocTypes ==
  ASSUME TypeInv, [Next]_vars
  PROVE  doc' \in [Docs -> Doc]
<1>0. doc \in [Docs -> Doc] /\ clock \in Clock /\ Clock \subseteq Nat
  BY TypesAt DEF TypeInv, TypeOK
<1>1. ASSUME NEW d \in Docs, Reap(d)
      PROVE  doc' \in [Docs -> Doc]
  <2>1. PICK q : q = [doc[d] EXCEPT !.status = "pending", !.claim = None, !.updated = clock]
    OBVIOUS
  <2>2. q \in Doc
    BY <1>0, <2>1 DEF Doc
  <2>3. doc' = [doc EXCEPT ![d] = q]
    BY <1>1, <2>1 DEF Reap
  <2> QED
    BY <1>0, <2>2, <2>3
<1>a. ASSUME NEW d \in Docs, Send(d)
      PROVE  doc' \in [Docs -> Doc]
  <2>1. PICK q : q = [doc[d] EXCEPT !.status = "pending", !.claim = None, !.updated = clock, !.deleted = None,
                                    !.purged = None]
    OBVIOUS
  <2>2. q \in Doc
    BY <1>0, <2>1 DEF Doc
  <2>3. doc' = [doc EXCEPT ![d] = q]
    BY <1>a, <2>1 DEF Send
  <2> QED
    BY <1>0, <2>2, <2>3
<1>b. ASSUME NEW d \in Docs, NEW began \in Clock, SendUnchanged(d, began)
      PROVE  doc' \in [Docs -> Doc]
  BY <1>0, <1>b DEF SendUnchanged, Doc
<1>2. CASE DeleteCommit
  <2>1. PICK d : d = deleting.doc
    OBVIOUS
  <2>2. PICK t \in Clock : t = deleting.began
    BY DEF TypeInv, TypeOK
  <2>3. doc' = [doc EXCEPT ![d].deleted = t]
    BY <1>2, <2>1, <2>2 DEF DeleteCommit
  <2> QED
    BY <1>0, <2>3 DEF Doc
<1>3. CASE RebuildRequeue
  BY <1>0, <1>3 DEF RebuildRequeue, Restored, Doc
<1>4. ASSUME NEW w \in Replicas, NEW d \in Docs, IngestClaim(w, d)
      PROVE  doc' \in [Docs -> Doc]
  BY <1>0, <1>4 DEF IngestClaim, Doc
<1>5. ASSUME NEW w \in Replicas, IngestCommit(w)
      PROVE  doc' \in [Docs -> Doc]
  <2>1. replica[w].doc \in Docs
    BY <1>5, TypesAt DEF Placed, PlacedRow, IngestCommit
  <2>2. PICK q : q = Indexed(doc[replica[w].doc], replica[w].id, replica[w].began)
    OBVIOUS
  <2>3. q \in Doc
    <3>1. PICK i \in Ids \cup {None}, t \in Clock : i = replica[w].id /\ t = replica[w].began
      BY ReplicaAt
    <3>2. PICK b \in Doc : b = doc[replica[w].doc]
      BY <1>0, <2>1
    <3>3. q = [b EXCEPT !.status = "indexed", !.claim = None, !.chunks = i, !.updated = t, !.reindexed = None]
      BY <2>2, <3>1, <3>2 DEF Indexed
    <3>4. q = [status |-> "indexed", claim |-> None, chunks |-> i, reindexed |-> None, updated |-> t,
               deleted |-> b.deleted, purged |-> b.purged]
      BY <3>3 DEF Doc
    <3>5. b.deleted \in Clock \cup {None} /\ b.purged \in Clock \cup {None}
      BY DEF Doc
    <3> QED
      BY <3>1, <3>4, <3>5 DEF Doc
  <2>4. doc' = [doc EXCEPT ![replica[w].doc] = q]
    BY <1>5, <2>2 DEF IngestCommit
  <2> QED
    BY <1>0, <2>3, <2>4
<1>6. ASSUME NEW w \in Replicas, IngestFail(w)
      PROVE  doc' \in [Docs -> Doc]
  <2>1. replica[w].doc \in Docs
    BY <1>6, TypesAt DEF Placed, PlacedRow, IngestFail
  <2>2. PICK q : q = [doc[replica[w].doc] EXCEPT !.status = "pending", !.claim = None, !.updated = clock]
    OBVIOUS
  <2>3. q \in Doc
    BY <1>0, <2>1, <2>2, Zenon DEF Doc
  <2>4. doc' = [doc EXCEPT ![replica[w].doc] = q] \/ doc' = doc
    BY <1>6, <2>2 DEF IngestFail
  <2> QED
    BY <1>0, <2>3, <2>4
<1>7. ASSUME NEW w \in Replicas, Repair(w)
      PROVE  doc' \in [Docs -> Doc]
  BY <1>0, <1>7 DEF Repair, Doc
<1>8. ASSUME NEW w \in Replicas, EmbedMark(w)
      PROVE  doc' \in [Docs -> Doc]
  BY <1>0, <1>8, ReplicaAt DEF EmbedMark, Doc
<1>9. ASSUME NEW w \in Replicas, CollectMark(w)
      PROVE  doc' \in [Docs -> Doc]
  <2>1. CASE doc' = doc
    BY <1>0, <2>1
  <2>2. CASE doc' = [doc EXCEPT ![replica[w].doc].purged = clock]
    BY Zenon, <1>0, <2>2 DEF Doc
  <2> QED
    BY <1>9, <2>1, <2>2 DEF CollectMark
<1>10. ASSUME NEW w \in Replicas, Copy(w) \/ Recall(w) \/ Retire(w) \/ Crash(w)
       PROVE  doc' \in [Docs -> Doc]
  <2>1. doc' = doc \/ Repair(w)
    BY <1>10, Zenon DEF Copy, CopyClaim, CopyCreate, CopyFinish, CopyAbandon, CopyThrow, CopyPage, ReTombstone,
                        Recall, RecallBegin, RecallRecord, RecallFail,
                        Retire, RetireDue, ReclaimDue, RetireDrop, RetireForget, ReclaimDrop, ReclaimForget, Crash
  <2> QED
    BY <1>0, <1>7, <2>1
<1>11. ASSUME NEW w \in Replicas, Ingest(w) \/ Embed(w) \/ Collect(w)
       PROVE  doc' \in [Docs -> Doc]
  <2>1. doc' = doc \/ (\E d \in Docs : IngestClaim(w, d)) \/ IngestCommit(w) \/ IngestFail(w) \/ EmbedMark(w) \/ CollectMark(w)
    BY <1>11, Zenon DEF Ingest, IngestWrite, Embed, EmbedClaim, EmbedAdd, EmbedCompare, EmbedFail, RecordPass, Switch, PendingSwitch,
                        Collect, CollectClaim, CollectSkip, CollectPurge
  <2> QED
    BY <1>0, <1>4, <1>5, <1>6, <1>8, <1>9, <2>1
<1>12. ASSUME Request
       PROVE  doc' \in [Docs -> Doc]
  <2>1. \/ doc' = doc \/ DeleteCommit \/ RebuildRequeue
        \/ \E d \in Docs : Send(d) \/ \E began \in Clock : SendUnchanged(d, began)
    BY <1>12 DEF Request, Delete, RebuildRead, RebuildDrop, RebuildCreate, RebuildDies, SetReferences, StartWrite,
                 StartRead, CreateRead
  <2> QED
    BY <1>0, <1>a, <1>b, <1>2, <1>3, <2>1
<1>13. CASE UNCHANGED vars
  BY <1>0, <1>13 DEF vars
<1> QED
  BY <1>1, <1>10, <1>11, <1>12, <1>13 DEF Next

(* The locks of the rows.                                                   *)
LEMMA LockTypes ==
  ASSUME TypeInv, [Next]_vars
  PROVE  lock' \in [Docs -> Replicas \cup {"delete", None}]
<1>0. lock \in [Docs -> Replicas \cup {"delete", None}]
  BY DEF TypeInv, TypeOK
<1>1. ASSUME NEW w \in Replicas, Ingest(w) \/ Crash(w)
      PROVE  lock' \in [Docs -> Replicas \cup {"delete", None}]
  BY <1>0, <1>1, Zenon DEF Ingest, IngestClaim, IngestWrite, IngestCommit, IngestFail, Crash
<1>2. ASSUME Request
      PROVE  lock' \in [Docs -> Replicas \cup {"delete", None}]
  <2>1. lock' = lock \/ (\E d \in Docs : Delete(d)) \/ DeleteCommit
    BY <1>2 DEF Request, Send, SendUnchanged, RebuildRead, RebuildDrop, RebuildCreate, RebuildRequeue, RebuildDies, SetReferences,
                StartWrite, StartRead, CreateRead
  <2> QED
    BY <1>0, <2>1 DEF Delete, DeleteCommit
<1>3. ASSUME NEW w \in Replicas, Copy(w) \/ Embed(w) \/ Recall(w) \/ Retire(w) \/ Collect(w)
      PROVE  lock' = lock
  BY <1>3, Zenon DEF Copy, CopyClaim, CopyCreate, CopyFinish, CopyAbandon, CopyThrow, CopyPage, Repair, ReTombstone,
                     Embed, EmbedClaim, EmbedAdd, EmbedCompare, EmbedMark, EmbedFail, RecordPass, Switch, PendingSwitch,
                     Recall, RecallBegin, RecallRecord, RecallFail,
                     Retire, RetireDue, ReclaimDue, RetireDrop, RetireForget, ReclaimDrop, ReclaimForget,
                     Collect, CollectClaim, CollectSkip, CollectPurge, CollectMark
<1>4. CASE (\E d \in Docs : Reap(d)) \/ UNCHANGED vars
  BY <1>0, <1>4 DEF Reap, vars
<1> QED
  BY <1>0, <1>1, <1>2, <1>3, <1>4 DEF Next

(* A step that changes a layer.                                             *)
LayerStep(w) ==
  \/ \E l \in Layers : CopyClaim(w, l)
  \/ CopyFinish(w) \/ CopyThrow(w) \/ RecordPass(w) \/ Switch(w)
  \/ \E verdict \in {"passed", "failed"} : RecallRecord(w, verdict)
  \/ RecallFail(w) \/ ReclaimForget(w)

(* Most steps leave the layers alone.                                       *)
LEMMA LayersAlone ==
  ASSUME [Next]_vars
  PROVE  layer' = layer \/ (\E l \in Layers : StartWrite(l)) \/ \E w \in Replicas : LayerStep(w)
<1>1. ASSUME Request
      PROVE  layer' = layer \/ \E l \in Layers : StartWrite(l)
  BY <1>1 DEF Request, Send, SendUnchanged, Delete, DeleteCommit, RebuildRead, RebuildDrop, RebuildCreate, RebuildRequeue, RebuildDies,
              SetReferences, StartRead, CreateRead
<1>2. ASSUME NEW w \in Replicas, Ingest(w) \/ Embed(w) \/ Recall(w) \/ Collect(w) \/ Crash(w)
      PROVE  layer' = layer \/ LayerStep(w)
  BY <1>2, Zenon DEF Ingest, IngestClaim, IngestWrite, IngestCommit, IngestFail,
                     Embed, EmbedClaim, EmbedAdd, EmbedCompare, EmbedMark, EmbedFail, PendingSwitch,
                     Recall, RecallBegin, Collect, CollectClaim, CollectSkip, CollectPurge, CollectMark, Crash, LayerStep
<1>3. ASSUME NEW w \in Replicas, Copy(w) \/ Retire(w)
      PROVE  layer' = layer \/ LayerStep(w)
  BY <1>3, Zenon DEF Copy, CopyCreate, CopyAbandon, CopyPage, Repair, ReTombstone,
                     Retire, RetireDue, ReclaimDue, RetireDrop, RetireForget, ReclaimDrop, LayerStep
<1>4. CASE (\E d \in Docs : Reap(d)) \/ UNCHANGED vars
  BY <1>4 DEF Reap, vars
<1> QED
  BY <1>1, <1>2, <1>3, <1>4 DEF Next

(* A start or a creation writes the whole row.                              *)
LEMMA StartedRow ==
  ASSUME NEW r \in Layer, NEW s
  PROVE  Started(r, s) = [exists |-> TRUE, vector |-> IF r.exists THEN r.vector ELSE s.slot,
                          status |-> IF s.phase = "none" THEN "none" ELSE "running", phase |-> s.phase,
                          shadow |-> IF s.phase = "none" THEN None ELSE s.slot, since |-> clock + 1,
                          claim |-> None, failures |-> 0, check |-> "none", previous |-> None]
<1>1. PICK v, st, sh, t : /\ v = IF r.exists THEN r.vector ELSE s.slot
                          /\ st = IF s.phase = "none" THEN "none" ELSE "running"
                          /\ sh = IF s.phase = "none" THEN None ELSE s.slot
                          /\ t = clock + 1
  OBVIOUS
<1>2. PICK ph : ph = s.phase
  OBVIOUS
<1>3. Started(r, s) = [r EXCEPT !.exists = TRUE, !.vector = v, !.status = st, !.phase = ph, !.shadow = sh,
                                !.since = t, !.claim = None, !.failures = 0, !.check = "none", !.previous = None]
  BY <1>1, <1>2 DEF Started
<1>4. PICK q : q = [r EXCEPT !.exists = TRUE, !.vector = v, !.status = st, !.phase = ph, !.shadow = sh]
  OBVIOUS
<1>5. q = [exists |-> TRUE, vector |-> v, status |-> st, phase |-> ph, shadow |-> sh, since |-> r.since,
           claim |-> r.claim, failures |-> r.failures, check |-> r.check, previous |-> r.previous]
  BY <1>4 DEF Layer
<1>6. Started(r, s) = [q EXCEPT !.since = t, !.claim = None, !.failures = 0, !.check = "none", !.previous = None]
  BY <1>3, <1>4
<1> QED
  BY <1>1, <1>2, <1>5, <1>6

(* Layers that exist go on to, and one that runs keeps a slot to fill.      *)
LEMMA LayerTypes ==
  ASSUME TypeInv, [Next]_vars
  PROVE  layer' \in [Layers -> Layer] /\ \A l \in Layers : RunsInto(l)'
<1>0. layer \in [Layers -> Layer] /\ \A l \in Layers : layer[l] \in Layer /\ RunsInto(l)
  BY TypesAt DEF TypeInv, TypeOK
<1>1. CASE layer' = layer
  BY <1>0, <1>1 DEF RunsInto
<1>2. ASSUME NEW l \in Layers, NEW q \in Layer, layer' = [layer EXCEPT ![l] = q],
             q.status = "running" => q.shadow \in Vectors, layer[l].exists \/ q.status # "none" => q.exists
      PROVE  layer' \in [Layers -> Layer] /\ \A k \in Layers : RunsInto(k)'
  BY <1>0, <1>2 DEF RunsInto
<1>3. ASSUME NEW l \in Layers, StartWrite(l)
      PROVE  layer' \in [Layers -> Layer] /\ \A k \in Layers : RunsInto(k)'
  <2>1. PICK s : s = starting[l]
    OBVIOUS
  <2>2. s.slot \in Vectors /\ s.phase \in {"none", "copying", "embedding"}
    BY <1>3, <2>1 DEF StartWrite, TypeInv, TypeOK
  <2>3. clock + 1 \in Clock
    BY <1>3, TypesAt, MigrationAssumption DEF StartWrite, Clock
  <2>4. PICK t \in Clock, v \in Vectors, st \in {"none", "running"}, sh \in Vectors \cup {None} :
          /\ t = clock + 1 /\ v = IF layer[l].exists THEN layer[l].vector ELSE s.slot
          /\ st = IF s.phase = "none" THEN "none" ELSE "running"
          /\ sh = IF s.phase = "none" THEN None ELSE s.slot
    <3>1. (IF layer[l].exists THEN layer[l].vector ELSE s.slot) \in Vectors
      BY <1>0, <2>2 DEF Layer
    <3> QED
      BY <2>2, <2>3, <3>1
  <2>5. PICK q : q = [exists |-> TRUE, vector |-> v, status |-> st, phase |-> s.phase, shadow |-> sh, since |-> t,
                      claim |-> None, failures |-> 0, check |-> "none", previous |-> None]
    OBVIOUS
  <2>6. q \in Layer /\ (q.status = "running" => q.shadow \in Vectors) /\ q.exists
    BY <2>2, <2>4, <2>5 DEF Layer
  <2>7. layer' = [layer EXCEPT ![l] = q]
    <3>1. Started(layer[l], s) = q
      BY <1>0, <2>4, <2>5, StartedRow
    <3> QED
      BY <1>3, <2>1, <3>1 DEF StartWrite
  <2> QED
    BY <1>2, <2>6, <2>7
<1>4. ASSUME NEW w \in Replicas, LayerStep(w)
      PROVE  layer' \in [Layers -> Layer] /\ \A k \in Layers : RunsInto(k)'
  <2>0. replica[w].layer \in Layers \cup {None} /\ replica[w].slot \in Vectors \cup {None}
    BY ReplicaAt
  <2>1. ASSUME NEW l \in Layers, CopyClaim(w, l)
        PROVE  layer' \in [Layers -> Layer] /\ \A k \in Layers : RunsInto(k)'
    <3>1. PICK q : q = [layer[l] EXCEPT !.claim = w]
      OBVIOUS
    <3>2. q \in Layer /\ q.status = layer[l].status /\ q.shadow = layer[l].shadow /\ q.exists = layer[l].exists
      BY <1>0, <3>1 DEF Layer
    <3>3. layer' = [layer EXCEPT ![l] = q]
      BY <2>1, <3>1 DEF CopyClaim
    <3> QED
      BY <1>0, <1>2, <3>2, <3>3 DEF RunsInto
  <2>2. CASE CopyFinish(w)
    <3>1. ASSUME NEW l \in Layers
          PROVE  /\ layer'[l] \in Layer /\ RunsInto(l)'
      <4>1. CASE Copying(l)
        <5>1. layer'[l] = Copied(l, layer[l])
          BY <2>2, <4>1 DEF CopyFinish
        <5>2. layer[l].shadow \in Vectors /\ layer[l].exists
          BY <1>0, <4>1 DEF Copying, RunsInto
        <5>3. CASE layer'[l] = [layer[l] EXCEPT !.phase = "embedding"]
          BY <1>0, <4>1, <5>2, <5>3 DEF Layer, RunsInto, Copying
        <5>4. CASE layer'[l] = [layer[l] EXCEPT !.phase = "embedding", !.status = "complete", !.vector = layer[l].shadow]
          BY <1>0, <4>1, <5>2, <5>4 DEF Layer, RunsInto, Copying
        <5> QED
          BY <5>1, <5>3, <5>4 DEF Copied
      <4>2. CASE ~Copying(l)
        <5>1. layer'[l] = layer[l]
          BY <2>2, <4>2 DEF CopyFinish
        <5> QED
          BY <1>0, <5>1 DEF RunsInto
      <4> QED
        BY <4>1, <4>2
    <3>2. layer' = [l \in Layers |-> layer'[l]]
      BY <2>2 DEF CopyFinish
    <3> QED
      BY <3>1, <3>2
  <2>3. CASE CopyThrow(w) \/ RecallFail(w)
    <3>1. CASE layer' = layer
      BY <1>1, <3>1
    <3>2. CASE layer' # layer
      <4>0. layer[replica[w].layer].status = "running" /\ layer' = [layer EXCEPT ![replica[w].layer].status = "failed"]
        BY <2>3, <3>2 DEF CopyThrow, RecallFail, HoldsCopy, Copying
      <4>1. PICK l \in Layers : l = replica[w].layer
        BY <1>0, <2>0, <3>2, <4>0
      <4>2. PICK q : q = [layer[l] EXCEPT !.status = "failed"]
        OBVIOUS
      <4>3. q \in Layer /\ q.status = "failed" /\ q.exists
        BY <1>0, <4>0, <4>1, <4>2 DEF Layer, RunsInto
      <4>4. layer' = [layer EXCEPT ![l] = q]
        BY <4>0, <4>1, <4>2
      <4> QED
        BY <1>2, <4>3, <4>4
    <3> QED
      BY <3>1, <3>2
  <2>4. CASE RecordPass(w)
    <3>1. replica[w].layer \in Layers
      BY <2>4, TypesAt DEF Placed, PlacedRow, RecordPass
    <3>2. PICK l \in Layers : l = replica[w].layer
      BY <3>1
    <3>3. PICK n \in Nat : n = layer[l].failures + 1
      BY <1>0 DEF Layer
    <3>4. CASE layer' = layer
      BY <1>1, <3>4
    <3>5. CASE layer' = [layer EXCEPT ![l].failures = 0]
      <4>1. PICK q : q = [layer[l] EXCEPT !.failures = 0]
        OBVIOUS
      <4>2. q \in Layer /\ q.status = layer[l].status /\ q.shadow = layer[l].shadow /\ q.exists = layer[l].exists
        BY <1>0, <4>1 DEF Layer
      <4>3. layer' = [layer EXCEPT ![l] = q]
        BY <3>5, <4>1
      <4> QED
        BY <1>0, <1>2, <4>2, <4>3 DEF RunsInto
    <3>6. CASE SameMigration(w) /\ replica[w].pc # "marked"
      <4>1. PICK st \in {"running", "failed"} : st = IF n >= FailureBound THEN "failed" ELSE "running"
        OBVIOUS
      <4>2. PICK q : q = [layer[l] EXCEPT !.failures = n, !.status = st]
        OBVIOUS
      <4>3. q \in Layer /\ q.status = st /\ q.shadow = layer[l].shadow /\ q.exists = layer[l].exists
        BY <1>0, <4>1, <4>2 DEF Layer
      <4>4. layer' = [layer EXCEPT ![l] = q]
        <5>1. layer' = [layer EXCEPT ![replica[w].layer] =
                          [@ EXCEPT !.failures = layer[replica[w].layer].failures + 1,
                                    !.status = IF layer[replica[w].layer].failures + 1 >= FailureBound THEN "failed" ELSE "running"]]
          BY <2>4, <3>6 DEF RecordPass
        <5> QED
          BY <3>2, <3>3, <4>1, <4>2, <5>1
      <4>5. layer[l].shadow \in Vectors /\ layer[l].exists
        BY <1>0, <3>2, <3>6 DEF RunsInto, SameMigration
      <4> QED
        BY <1>2, <4>3, <4>4, <4>5
    <3> QED
      BY <2>4, <3>2, <3>4, <3>5, <3>6 DEF RecordPass
  <2>5. CASE Switch(w)
    <3>1. CASE layer' = layer
      BY <1>1, <3>1
    <3>2. CASE Done(w)
      <4>1. PICK l \in Layers : l = replica[w].layer
        BY <2>5, TypesAt DEF Placed, PlacedRow, Switch
      <4>2. replica[w].slot \in Vectors /\ layer[l].exists
        BY <1>0, <2>5, <3>2, <4>1, TypesAt DEF Placed, PlacedRow, Switch, Done, SameMigration, RunsInto
      <4>3. PICK q : q = [layer[l] EXCEPT !.status = "complete", !.vector = replica[w].slot, !.previous = layer[l].vector]
        OBVIOUS
      <4>4. q \in Layer /\ q.status = "complete" /\ q.exists
        BY <1>0, <4>2, <4>3 DEF Layer
      <4>5. layer' = [layer EXCEPT ![l] = q]
        BY <2>5, <3>2, <4>1, <4>3 DEF Switch
      <4> QED
        BY <1>2, <4>4, <4>5
    <3> QED
      BY <2>5, <3>1, <3>2 DEF Switch
  <2>6. ASSUME NEW verdict \in {"passed", "failed"}, RecallRecord(w, verdict)
        PROVE  layer' \in [Layers -> Layer] /\ \A k \in Layers : RunsInto(k)'
    <3>1. CASE layer' = layer
      BY <1>1, <3>1
    <3>2. CASE layer' # layer
      <4>1. PICK l \in Layers : l = replica[w].layer
        BY <2>6, TypesAt DEF Placed, PlacedRow, RecallRecord
      <4>2. PICK q : q = [layer[l] EXCEPT !.check = verdict]
        OBVIOUS
      <4>3. q \in Layer /\ q.status = layer[l].status /\ q.shadow = layer[l].shadow /\ q.exists = layer[l].exists
        BY <1>0, <4>2 DEF Layer
      <4>4. layer' = [layer EXCEPT ![l] = q]
        BY <2>6, <3>2, <4>1, <4>2 DEF RecallRecord
      <4> QED
        BY <1>0, <1>2, <4>3, <4>4 DEF RunsInto
    <3> QED
      BY <3>1, <3>2
  <2>7. CASE ReclaimForget(w)
    <3>1. PICK l \in Layers : l = replica[w].layer
      BY <2>7, TypesAt DEF Placed, PlacedRow, ReclaimForget
    <3>2. PICK q : q = [layer[l] EXCEPT !.previous = None]
      OBVIOUS
    <3>3. q \in Layer /\ q.status = layer[l].status /\ q.shadow = layer[l].shadow /\ q.exists = layer[l].exists
      BY <1>0, <3>2 DEF Layer
    <3>4. layer' = [layer EXCEPT ![l] = q]
      BY <2>7, <3>1, <3>2 DEF ReclaimForget
    <3> QED
      BY <1>0, <1>2, <3>3, <3>4 DEF RunsInto
  <2> QED
    BY <1>4, <2>1, <2>2, <2>3, <2>4, <2>5, <2>6, <2>7 DEF LayerStep
<1> QED
  BY <1>1, <1>3, <1>4, LayersAlone

(* A collection holds points in slots it has, and no step but four takes    *)
(* one away, makes one or gives one other slots.                            *)
StoreOK == DOMAIN coll \subseteq Names /\ \A c \in DOMAIN coll : coll[c] \in Collection

SlotsKept == DOMAIN coll' = DOMAIN coll /\ \A c \in DOMAIN coll : coll'[c].slots = coll[c].slots

StoreStep ==
  \/ RebuildDrop \/ RebuildCreate
  \/ \E w \in Replicas : CopyCreate(w) \/ RetireDrop(w)

(* Points of a document are written.                                        *)
LEMMA PointsWritten ==
  ASSUME TypeInv, NEW c \in DOMAIN coll, NEW d \in Docs, NEW ps \in SUBSET Point, coll' = WithPoints(c, d, ps)
  PROVE  /\ StoreOK' /\ SlotsKept /\ coll'[c].points[d] = ps
         /\ \A e \in Docs \ {d} : coll'[c].points[e] = coll[c].points[e]
         /\ \A n \in DOMAIN coll \ {c} : coll'[n] = coll[n]
<1>1. PICK k \in Collection : k = coll[c]
  BY TypesAt
<1>2. PICK f \in [Docs -> SUBSET Point] : f = [k.points EXCEPT ![d] = ps]
  BY DEF Collection
<1>3. PICK q : q = [k EXCEPT !.points = f]
  OBVIOUS
<1>4. q \in Collection /\ q.slots = k.slots /\ q.points = f
  BY <1>3 DEF Collection
<1>5. coll' = [coll EXCEPT ![c] = q]
  BY <1>1, <1>2, <1>3 DEF WithPoints
<1>6. DOMAIN coll' = DOMAIN coll /\ coll'[c] = q /\ \A n \in DOMAIN coll \ {c} : coll'[n] = coll[n]
  BY <1>5
<1>7. f[d] = ps /\ \A e \in Docs \ {d} : f[e] = k.points[e]
  BY <1>2 DEF Collection
<1>8. StoreOK'
  BY <1>4, <1>6, TypesAt DEF StoreOK
<1>9. SlotsKept
  BY <1>1, <1>4, <1>6 DEF SlotsKept
<1> QED
  BY <1>1, <1>4, <1>6, <1>7, <1>8, <1>9

(* The points of a document in a collection are points.                     *)
LEMMA PointsAt ==
  ASSUME TypeInv, NEW c \in DOMAIN coll, NEW d \in Docs
  PROVE  coll[c].points[d] \in SUBSET Point /\ Flagged(coll[c].points[d]) \in SUBSET Point
<1>1. coll[c] \in Collection
  BY TypesAt
<1>2. coll[c].points[d] \in SUBSET Point
  BY <1>1 DEF Collection
<1>3. ASSUME NEW p \in coll[c].points[d]
      PROVE  [p EXCEPT !.deleted = TRUE] \in Point
  BY <1>2 DEF Point
<1> QED
  BY <1>2, <1>3 DEF Flagged

(* A collection is taken away, or made.                                     *)
LEMMA CollectionsMade ==
  ASSUME TypeInv, NEW c \in Names, NEW k \in Collection
  PROVE  /\ coll' = Without(c) => /\ StoreOK' /\ DOMAIN coll' = DOMAIN coll \ {c}
                                  /\ \A n \in DOMAIN coll' : coll'[n] = coll[n]
         /\ coll' = WithCollection(c, k) => /\ StoreOK' /\ DOMAIN coll' = DOMAIN coll \cup {c} /\ coll'[c] = k
                                            /\ \A n \in DOMAIN coll \ {c} : coll'[n] = coll[n]
<1>1. ASSUME coll' = Without(c)
      PROVE  /\ StoreOK' /\ DOMAIN coll' = DOMAIN coll \ {c}
             /\ \A n \in DOMAIN coll' : coll'[n] = coll[n]
  <2>1. DOMAIN coll' = DOMAIN coll \ {c} /\ \A n \in DOMAIN coll' : coll'[n] = coll[n]
    BY <1>1 DEF Without
  <2> QED
    BY <2>1, TypesAt DEF StoreOK
<1>2. ASSUME coll' = WithCollection(c, k)
      PROVE  /\ StoreOK' /\ DOMAIN coll' = DOMAIN coll \cup {c} /\ coll'[c] = k
             /\ \A n \in DOMAIN coll \ {c} : coll'[n] = coll[n]
  <2>1. /\ DOMAIN coll' = DOMAIN coll \cup {c} /\ coll'[c] = k
        /\ \A n \in DOMAIN coll \ {c} : coll'[n] = coll[n]
    BY <1>2 DEF WithCollection
  <2> QED
    BY <2>1, TypesAt DEF StoreOK
<1> QED
  BY <1>1, <1>2

(* The copy of a replica that copies or repairs has a name.                 *)
LEMMA CopyNamed ==
  ASSUME TypeInv, NEW w \in Replicas, replica[w].pc \in {"copying", "repairing", "tombstoning"}
  PROVE  CopyName(w) \in Names /\ replica[w].slot \in Vectors /\ replica[w].layer \in Layers /\ replica[w].from \in Names
<1>1. replica[w].slot \in Vectors /\ replica[w].layer \in Layers /\ replica[w].from \in Names
  BY TypesAt, ReplicaAt DEF Placed, PlacedRow
<1> QED
  BY <1>1, Grown DEF CopyName

(* The steps that write points.                                             *)
LEMMA PointSteps ==
  ASSUME TypeInv, NEW w \in Replicas,
         \/ IngestWrite(w) \/ EmbedAdd(w) \/ ReclaimDrop(w) \/ CollectPurge(w)
         \/ \E d \in Docs : CopyPage(w, d)
         \/ \E d \in Docs, ok \in BOOLEAN : ReTombstone(w, d, ok)
  PROVE  StoreOK' /\ SlotsKept
<1>0. \A c \in DOMAIN coll : coll[c] \in Collection
  BY TypesAt
<1>1. CASE IngestWrite(w)
  <2>1. PICK c, d, s : c = replica[w].from /\ d = replica[w].doc /\ s = replica[w].slot
    OBVIOUS
  <2>2. c \in DOMAIN coll /\ d \in Docs /\ s \in coll[c].slots
    BY <1>1, <2>1, TypesAt DEF IngestWrite, Exists, Placed, PlacedRow
  <2>3. s \in Vectors
    BY <1>0, <2>2 DEF Collection
  <2>4. FreshId \in Ids
    <3>1. \E i \in Ids : i \notin InUse
      BY <1>1 DEF IngestWrite
    <3> QED
      BY <3>1 DEF FreshId
  <2>5. PICK p : p = [id |-> FreshId, vecs |-> {s}, deleted |-> FALSE]
    OBVIOUS
  <2>6. p \in Point
    BY <2>3, <2>4, <2>5 DEF Point
  <2>7. coll' = WithPoints(c, d, {p})
    BY <1>1, <2>1, <2>5 DEF IngestWrite
  <2> QED
    BY <2>2, <2>6, <2>7, PointsWritten
<1>2. CASE EmbedAdd(w)
  <2>1. PICK c, d, s : c = replica[w].from /\ d = replica[w].doc /\ s = replica[w].slot
    OBVIOUS
  <2>2. c \in DOMAIN coll /\ d \in Docs /\ s \in coll[c].slots
    BY <1>2, <2>1, TypesAt DEF EmbedAdd, Exists, Placed, PlacedRow
  <2>3. s \in Vectors /\ coll[c].points[d] \in SUBSET Point
    BY <1>0, <2>2 DEF Collection
  <2>4. PICK p \in coll[c].points[d] :
          coll' = WithPoints(c, d, (coll[c].points[d] \ {p}) \cup {[p EXCEPT !.vecs = @ \cup {s}]})
    BY <1>2, <2>1, Zenon DEF EmbedAdd
  <2>5. PICK q : q = [p EXCEPT !.vecs = @ \cup {s}]
    OBVIOUS
  <2>6. q \in Point
    BY <2>3, <2>5 DEF Point
  <2>7. PICK ps \in SUBSET Point : ps = (coll[c].points[d] \ {p}) \cup {q}
    BY <2>3, <2>6
  <2>8. coll' = WithPoints(c, d, ps)
    BY <2>4, <2>5, <2>7
  <2> QED
    BY <2>2, <2>8, PointsWritten
<1>3. CASE ReclaimDrop(w)
  <2>1. PICK c, s : c = replica[w].from /\ s = replica[w].slot
    OBVIOUS
  <2>2. PICK mine : mine = {d \in Docs : Home[d] = replica[w].layer}
    OBVIOUS
  <2>3. c \in DOMAIN coll
    BY <1>3, <2>1 DEF ReclaimDrop, Exists
  <2>4. PICK k \in Collection : k = coll[c]
    BY <1>0, <2>3
  <2>5. PICK f : f = [d \in Docs |-> IF d \in mine THEN {[p EXCEPT !.vecs = @ \ {s}] : p \in k.points[d]} ELSE k.points[d]]
    OBVIOUS
  <2>6. f \in [Docs -> SUBSET Point]
    <3>1. ASSUME NEW d \in Docs
          PROVE  k.points[d] \in SUBSET Point /\ {[p EXCEPT !.vecs = @ \ {s}] : p \in k.points[d]} \in SUBSET Point
      <4>1. k.points[d] \in SUBSET Point
        BY DEF Collection
      <4>2. ASSUME NEW p \in k.points[d]
            PROVE  [p EXCEPT !.vecs = @ \ {s}] \in Point
        BY <4>1 DEF Point
      <4> QED
        BY <4>1, <4>2
    <3> QED
      BY <2>5, <3>1
  <2>7. coll' = [coll EXCEPT ![c].points = f]
    BY <1>3, <2>1, <2>2, <2>4, <2>5 DEF ReclaimDrop
  <2>8. PICK q : q = [k EXCEPT !.points = f]
    OBVIOUS
  <2>9. q \in Collection /\ q.slots = k.slots
    BY <2>6, <2>8 DEF Collection
  <2>10. coll' = [coll EXCEPT ![c] = q]
    BY <2>4, <2>7, <2>8
  <2>11. DOMAIN coll' = DOMAIN coll /\ coll'[c] = q /\ \A n \in DOMAIN coll \ {c} : coll'[n] = coll[n]
    BY <2>3, <2>10
  <2> QED
    BY <2>4, <2>9, <2>11, TypesAt DEF StoreOK, SlotsKept
<1>4. CASE CollectPurge(w)
  <2>1. PICK c, d : c = replica[w].from /\ d = replica[w].doc
    OBVIOUS
  <2>2. d \in Docs
    BY <1>4, <2>1, TypesAt DEF CollectPurge, Placed, PlacedRow
  <2>3. coll' = IF c \in DOMAIN coll THEN WithPoints(c, d, {}) ELSE coll
    BY <1>4, <2>1 DEF CollectPurge, Exists
  <2>4. CASE c \in DOMAIN coll
    BY <2>2, <2>3, <2>4, PointsWritten
  <2>5. CASE c \notin DOMAIN coll
    BY <2>3, <2>5, TypesAt DEF StoreOK, SlotsKept
  <2> QED
    BY <2>4, <2>5
<1>5. ASSUME NEW d \in Docs, CopyPage(w, d)
      PROVE  StoreOK' /\ SlotsKept
  <2>1. replica[w].from \in DOMAIN coll /\ CopyName(w) \in DOMAIN coll
    BY <1>5 DEF CopyPage, Exists
  <2>2. PICK ps : /\ ps \subseteq coll[CopyName(w)].points[d] \cup coll[replica[w].from].points[d]
                  /\ coll' = WithPoints(CopyName(w), d, ps)
    <3>1. PICK read : read = coll[replica[w].from].points[d]
      OBVIOUS
    <3>2. PICK kept : kept = {p \in coll[CopyName(w)].points[d] : \A q \in read : q.id /= p.id}
      OBVIOUS
    <3>3. coll' = WithPoints(CopyName(w), d, kept \cup read)
      BY <1>5, <3>1, <3>2 DEF CopyPage
    <3> QED
      BY <3>1, <3>2, <3>3
  <2>3. ps \in SUBSET Point
    BY <2>1, <2>2, PointsAt
  <2> QED
    BY <2>1, <2>2, <2>3, PointsWritten
<1>6. ASSUME NEW d \in Docs, NEW ok \in BOOLEAN, ReTombstone(w, d, ok)
      PROVE  StoreOK' /\ SlotsKept
  <2>1. CASE ok
    <3>1. CopyName(w) \in DOMAIN coll /\ coll' = WithPoints(CopyName(w), d, Flagged(coll[CopyName(w)].points[d]))
      BY <1>6, <2>1 DEF ReTombstone, Exists
    <3> QED
      BY <3>1, PointsAt, PointsWritten
  <2>2. CASE ~ok
    <3>1. coll' = coll
      BY <1>6, <2>2 DEF ReTombstone
    <3> QED
      BY <3>1, TypesAt DEF StoreOK, SlotsKept
  <2> QED
    BY <2>1, <2>2
<1> QED
  BY <1>1, <1>2, <1>3, <1>4, <1>5, <1>6

(* Every step.                                                              *)
LEMMA StoreTypes ==
  ASSUME TypeInv, [Next]_vars
  PROVE  StoreOK' /\ (SlotsKept \/ StoreStep)
<1>0. coll' = coll => StoreOK' /\ SlotsKept
  BY TypesAt DEF StoreOK, SlotsKept
<1>1. CASE RebuildDrop
  <2>1. rebuild.from \in Names
    BY DEF TypeInv, TypeOK
  <2>2. [slots |-> {}, points |-> [d \in Docs |-> {}]] \in Collection
    BY DEF Collection
  <2> QED
    BY <1>1, <2>1, <2>2, CollectionsMade DEF RebuildDrop, StoreStep
<1>2. CASE RebuildCreate
  <2>1. rebuild.from \in Names /\ rebuild.slots \subseteq Vectors
    BY DEF TypeInv, TypeOK
  <2>2. [slots |-> rebuild.slots, points |-> [d \in Docs |-> {}]] \in Collection
    BY <2>1 DEF Collection
  <2> QED
    BY <1>2, <2>1, <2>2, CollectionsMade DEF RebuildCreate, StoreStep
<1>3. ASSUME NEW w \in Replicas, CopyCreate(w)
      PROVE  StoreOK' /\ StoreStep
  <2>1. CopyName(w) \in Names /\ CopySlots(w) \subseteq Vectors
    <3>1. replica[w].from \in DOMAIN coll
      BY <1>3 DEF CopyCreate, Exists
    <3>2. coll[replica[w].from].slots \subseteq Vectors
      BY <3>1, TypesAt DEF Collection
    <3> QED
      BY <1>3, <3>2, CopyNamed DEF CopyCreate, CopySlots
  <2>2. [slots |-> CopySlots(w), points |-> [d \in Docs |-> {}]] \in Collection
    BY <2>1 DEF Collection
  <2>3. coll' = WithCollection(CopyName(w), [slots |-> CopySlots(w), points |-> [d \in Docs |-> {}]])
    BY <1>3 DEF CopyCreate
  <2> QED
    BY <1>3, <2>1, <2>2, <2>3, CollectionsMade DEF StoreStep
<1>4. ASSUME NEW w \in Replicas, RetireDrop(w)
      PROVE  StoreOK' /\ StoreStep
  <2>1. replica[w].from \in Names /\ coll' = Without(replica[w].from)
    BY <1>4, ReplicaAt DEF RetireDrop
  <2>2. [slots |-> {}, points |-> [d \in Docs |-> {}]] \in Collection
    BY DEF Collection
  <2> QED
    BY <1>4, <2>1, <2>2, CollectionsMade DEF StoreStep
<1>5. ASSUME NEW w \in Replicas, Ingest(w) \/ Embed(w) \/ Recall(w) \/ Collect(w) \/ Crash(w)
      PROVE  StoreOK' /\ SlotsKept
  <2>1. coll' = coll \/ IngestWrite(w) \/ EmbedAdd(w) \/ CollectPurge(w)
    BY <1>5, Zenon DEF Ingest, IngestClaim, IngestCommit, IngestFail,
                       Embed, EmbedClaim, EmbedCompare, EmbedMark, EmbedFail, RecordPass, Switch, PendingSwitch,
                       Recall, RecallBegin, RecallRecord, RecallFail, Collect, CollectClaim, CollectSkip, CollectMark, Crash
  <2> QED
    BY <1>0, <2>1, PointSteps
<1>6. ASSUME NEW w \in Replicas, Copy(w) \/ Retire(w)
      PROVE  StoreOK' /\ (SlotsKept \/ StoreStep)
  <2>1. \/ coll' = coll \/ CopyCreate(w) \/ RetireDrop(w) \/ ReclaimDrop(w)
        \/ \E d \in Docs : CopyPage(w, d)
        \/ \E d \in Docs, ok \in BOOLEAN : ReTombstone(w, d, ok)
    BY <1>6, Zenon DEF Copy, CopyClaim, CopyFinish, CopyAbandon, CopyThrow, Repair,
                       Retire, RetireDue, ReclaimDue, RetireForget, ReclaimForget
  <2> QED
    BY <1>0, <1>3, <1>4, <2>1, PointSteps
<1>7. ASSUME Request
      PROVE  StoreOK' /\ (SlotsKept \/ StoreStep)
  <2>1. coll' = coll \/ (\E d \in Docs : Delete(d)) \/ RebuildDrop \/ RebuildCreate
    BY <1>7 DEF Request, Send, SendUnchanged, DeleteCommit, RebuildRead, RebuildRequeue, RebuildDies, SetReferences, StartWrite,
                StartRead, CreateRead
  <2>2. ASSUME NEW d \in Docs, Delete(d)
        PROVE  StoreOK' /\ SlotsKept
    <3>1. live \in DOMAIN coll /\ coll' = WithPoints(live, d, Flagged(coll[live].points[d]))
      BY <2>2 DEF Delete, Exists
    <3> QED
      BY <3>1, PointsAt, PointsWritten
  <2> QED
    BY <1>0, <1>1, <1>2, <2>1, <2>2
<1>8. CASE (\E d \in Docs : Reap(d)) \/ UNCHANGED vars
  BY <1>0, <1>8 DEF Reap, vars
<1> QED
  BY <1>5, <1>6, <1>7, <1>8 DEF Next

(* The work of a replica is replaced by work it has the parts of.           *)
LEMMA WorkReplaced ==
  ASSUME TypeInv, NEW w \in Replicas, NEW q \in Replica, PlacedRow(q), replica' = [replica EXCEPT ![w] = q]
  PROVE  /\ replica' \in [Replicas -> Replica] /\ (\A v \in Replicas : Placed(v)')
         /\ replica'[w] = q /\ \A v \in Replicas \ {w} : replica'[v] = replica[v]
<1>0. replica \in [Replicas -> Replica] /\ \A v \in Replicas : PlacedRow(replica[v])
  BY DEF TypeInv, TypeOK, Placed
<1>1. replica' \in [Replicas -> Replica] /\ replica'[w] = q /\ \A v \in Replicas \ {w} : replica'[v] = replica[v]
  BY <1>0
<1>2. \A v \in Replicas : PlacedRow(replica'[v])
  BY <1>0, <1>1
<1> QED
  BY <1>1, <1>2 DEF Placed, PlacedRow

(* Nothing to do.                                                           *)
LEMMA IdleRow == Idle \in Replica /\ PlacedRow(Idle) /\ Idle.pc = "idle"
<1>1. <<>> \in Names /\ 0 \in Clock
  BY MigrationAssumption DEF Names, Clock
<1> QED
  BY <1>1 DEF Idle, Replica, PlacedRow

ReplicasOK == replica \in [Replicas -> Replica] /\ \A v \in Replicas : Placed(v)

(* A replica indexes or collects.                                           *)
LEMMA IndexerTypes ==
  ASSUME TypeInv, NEW w \in Replicas, Ingest(w) \/ Collect(w) \/ Crash(w)
  PROVE  ReplicasOK'
<1>0. live \in Names /\ clock \in Clock
  BY TypesAt
<1>1. ASSUME NEW d \in Docs, IngestClaim(w, d)
      PROVE  ReplicasOK'
  <2>1. PICK h \in Layers, v \in Vectors : h = Home[d] /\ v = layer[h].vector
    BY TypesAt, MigrationAssumption DEF Layer
  <2>2. PICK q : q = [Idle EXCEPT !.pc = "indexing", !.doc = d, !.layer = h, !.from = live, !.slot = v]
    OBVIOUS
  <2>3. q \in Replica /\ PlacedRow(q)
    BY <1>0, <2>2, IdleRow DEF Idle, Replica, PlacedRow
  <2>4. replica' = [replica EXCEPT ![w] = q]
    BY <1>1, <2>1, <2>2 DEF IngestClaim
  <2> QED
    BY <2>3, <2>4, WorkReplaced DEF ReplicasOK
<1>2. CASE IngestWrite(w)
  <2>1. PICK b \in Replica : b = replica[w] /\ PlacedRow(b) /\ b.pc = "indexing"
    BY <1>2, TypesAt DEF IngestWrite, Placed
  <2>2. PICK i \in Ids : i = FreshId
    <3>1. \E i \in Ids : i \notin InUse
      BY <1>2 DEF IngestWrite
    <3> QED
      BY <3>1 DEF FreshId
  <2>3. PICK q : q = [b EXCEPT !.pc = "written", !.id = i, !.began = clock]
    OBVIOUS
  <2>4. q \in Replica /\ PlacedRow(q)
    BY <1>0, <2>1, <2>3 DEF Replica, PlacedRow
  <2>5. replica' = [replica EXCEPT ![w] = q]
    BY <1>2, <2>1, <2>2, <2>3 DEF IngestWrite
  <2> QED
    BY <2>4, <2>5, WorkReplaced DEF ReplicasOK
<1>3. CASE IngestCommit(w) \/ IngestFail(w) \/ CollectSkip(w) \/ CollectMark(w) \/ Crash(w)
  <2>1. replica' = [replica EXCEPT ![w] = Idle]
    BY <1>3 DEF IngestCommit, IngestFail, CollectSkip, CollectMark, Crash
  <2> QED
    BY <2>1, IdleRow, WorkReplaced DEF ReplicasOK
<1>4. ASSUME NEW d \in Docs, CollectClaim(w, d)
      PROVE  ReplicasOK'
  <2>1. PICK q : q = [Idle EXCEPT !.pc = "purging", !.doc = d, !.from = live]
    OBVIOUS
  <2>2. q \in Replica /\ PlacedRow(q)
    BY <1>0, <2>1, IdleRow DEF Idle, Replica, PlacedRow
  <2>3. replica' = [replica EXCEPT ![w] = q]
    BY <1>4, <2>1 DEF CollectClaim
  <2> QED
    BY <2>2, <2>3, WorkReplaced DEF ReplicasOK
<1>5. CASE CollectPurge(w)
  <2>1. PICK b \in Replica : b = replica[w] /\ PlacedRow(b) /\ b.pc = "purging"
    BY <1>5, TypesAt DEF CollectPurge, Placed
  <2>2. PICK q : q = [b EXCEPT !.pc = "purged"]
    OBVIOUS
  <2>3. q \in Replica /\ PlacedRow(q)
    BY <2>1, <2>2 DEF Replica, PlacedRow
  <2>4. replica' = [replica EXCEPT ![w] = q]
    BY <1>5, <2>1, <2>2 DEF CollectPurge
  <2> QED
    BY <2>3, <2>4, WorkReplaced DEF ReplicasOK
<1> QED
  BY <1>1, <1>2, <1>3, <1>4, <1>5 DEF Ingest, Collect

(* A replica copies and repairs.                                            *)
LEMMA CopierTypes ==
  ASSUME TypeInv, NEW w \in Replicas, Copy(w)
  PROVE  ReplicasOK'
<1>0. live \in Names /\ clock \in Clock
  BY TypesAt
<1>1. ASSUME NEW l \in Layers, CopyClaim(w, l)
      PROVE  ReplicasOK'
  <2>1. PICK v \in Vectors, t \in Clock : v = layer[l].shadow /\ t = layer[l].since
    BY <1>1, TypesAt DEF CopyClaim, Copying, RunsInto, Layer
  <2>2. PICK q : q = [Idle EXCEPT !.pc = "copying", !.layer = l, !.from = live, !.slot = v, !.began = t]
    OBVIOUS
  <2>3. q \in Replica /\ PlacedRow(q)
    BY <1>0, <2>2, IdleRow DEF Idle, Replica, PlacedRow
  <2>4. replica' = [replica EXCEPT ![w] = q]
    BY <1>1, <2>1, <2>2 DEF CopyClaim
  <2> QED
    BY <2>3, <2>4, WorkReplaced DEF ReplicasOK
<1>2. ASSUME replica[w].pc \in {"copying", "repairing", "tombstoning"},
             NEW pc \in {"copying", "repairing", "tombstoning"}, NEW copied \in SUBSET Docs, NEW ready \in BOOLEAN,
             replica' = [replica EXCEPT ![w] = [replica[w] EXCEPT !.pc = pc, !.copied = copied, !.ready = ready]]
      PROVE  ReplicasOK'
  <2>1. PICK b \in Replica : b = replica[w] /\ PlacedRow(b)
    BY TypesAt DEF Placed
  <2>2. PICK q : q = [b EXCEPT !.pc = pc, !.copied = copied, !.ready = ready]
    OBVIOUS
  <2>3. q \in Replica /\ PlacedRow(q)
    BY <1>2, <2>1, <2>2 DEF Replica, PlacedRow
  <2> QED
    BY <1>2, <2>1, <2>2, <2>3, WorkReplaced DEF ReplicasOK
<1>3. PICK b \in Replica : b = replica[w]
  BY TypesAt
<1>4. CASE CopyCreate(w)
  <2>1. b.pc = "copying" /\ replica' = [replica EXCEPT ![w].ready = TRUE]
    BY <1>3, <1>4 DEF CopyCreate
  <2>2. [b EXCEPT !.ready = TRUE] = [b EXCEPT !.pc = "copying", !.copied = b.copied, !.ready = TRUE]
    BY <2>1 DEF Replica
  <2> QED
    BY <1>2, <1>3, <2>1, <2>2, ReplicaAt
<1>5. ASSUME NEW d \in Docs, CopyPage(w, d)
      PROVE  ReplicasOK'
  <2>1. b.pc = "copying" /\ replica' = [replica EXCEPT ![w].copied = b.copied \cup {d}]
    BY <1>3, <1>5 DEF CopyPage
  <2>2. PICK done \in SUBSET Docs : done = b.copied \cup {d}
    BY <1>3, ReplicaAt
  <2>3. [b EXCEPT !.copied = done] = [b EXCEPT !.pc = "copying", !.copied = done, !.ready = b.ready]
    BY <2>1 DEF Replica
  <2>4. replica' = [replica EXCEPT ![w] = [b EXCEPT !.pc = "copying", !.copied = done, !.ready = b.ready]]
    BY <1>3, <2>1, <2>2, <2>3
  <2>5. b.ready \in BOOLEAN
    BY DEF Replica
  <2> QED
    BY <1>2, <1>3, <2>1, <2>4, <2>5
<1>6. CASE CopyAbandon(w) \/ CopyThrow(w)
  <2>1. replica' = [replica EXCEPT ![w] = Idle]
    BY <1>6 DEF CopyAbandon, CopyThrow
  <2> QED
    BY <2>1, IdleRow, WorkReplaced DEF ReplicasOK
<1>7. CASE CopyFinish(w)
  <2>1. /\ b.pc = "copying"
        /\ replica' = [replica EXCEPT ![w] = [b EXCEPT !.pc = "repairing", !.copied = {}, !.ready = FALSE]]
    BY <1>3, <1>7 DEF CopyFinish
  <2> QED
    BY <1>2, <1>3, <2>1
<1>8. CASE Repair(w)
  <2>1. PICK back \in SUBSET Docs : back = Revived(replica[w].began)
    BY DEF Revived
  <2>2. b.pc = "repairing"
    BY <1>3, <1>8 DEF Repair
  <2>3. CASE back = {}
    <3>1. replica' = [replica EXCEPT ![w] = Idle]
      BY <1>8, <2>1, <2>3 DEF Repair
    <3> QED
      BY <3>1, IdleRow, WorkReplaced DEF ReplicasOK
  <2>4. CASE back # {}
    <3>1. replica' = [replica EXCEPT ![w] = [b EXCEPT !.pc = "tombstoning", !.copied = back]]
      BY <1>3, <1>8, <2>1, <2>4 DEF Repair
    <3>2. [b EXCEPT !.pc = "tombstoning", !.copied = back] = [b EXCEPT !.pc = "tombstoning", !.copied = back, !.ready = b.ready]
      BY DEF Replica
    <3> QED
      BY <1>2, <1>3, <2>2, <3>1, <3>2, ReplicaAt
  <2> QED
    BY <2>3, <2>4
<1>9. ASSUME NEW d \in Docs, NEW ok \in BOOLEAN, ReTombstone(w, d, ok)
      PROVE  ReplicasOK'
  <2>1. PICK left \in SUBSET Docs : left = b.copied \ {d}
    BY <1>3, ReplicaAt
  <2>2. b.pc = "tombstoning"
    BY <1>3, <1>9 DEF ReTombstone
  <2>3. CASE left = {}
    <3>1. replica' = [replica EXCEPT ![w] = Idle]
      BY <1>3, <1>9, <2>1, <2>3 DEF ReTombstone
    <3> QED
      BY <3>1, IdleRow, WorkReplaced DEF ReplicasOK
  <2>4. CASE left # {}
    <3>1. replica' = [replica EXCEPT ![w] = [b EXCEPT !.copied = left]]
      BY <1>3, <1>9, <2>1, <2>4 DEF ReTombstone
    <3>2. [b EXCEPT !.copied = left] = [b EXCEPT !.pc = "tombstoning", !.copied = left, !.ready = b.ready]
      BY <2>2 DEF Replica
    <3> QED
      BY <1>2, <1>3, <2>2, <3>1, <3>2, ReplicaAt
  <2> QED
    BY <2>3, <2>4
<1> QED
  BY <1>1, <1>4, <1>5, <1>6, <1>7, <1>8, <1>9 DEF Copy

(* A replica embeds, scores and sweeps.                                     *)
LEMMA EmbedderTypes ==
  ASSUME TypeInv, NEW w \in Replicas, Embed(w) \/ Recall(w) \/ Retire(w)
  PROVE  ReplicasOK'
<1>0. live \in Names /\ clock \in Clock
  BY TypesAt
<1>1. PICK b \in Replica : b = replica[w] /\ PlacedRow(b)
  BY TypesAt DEF Placed
<1>2. ASSUME NEW d \in Docs, EmbedClaim(w, d)
      PROVE  ReplicasOK'
  <2>1. PICK h \in Layers, v \in Vectors, i \in Ids \cup {None}, t \in Clock :
          h = Home[d] /\ v = layer[h].shadow /\ i = doc[d].chunks /\ t = layer[h].since
    <3>1. PICK h \in Layers : h = Home[d]
      BY TypesAt, MigrationAssumption
    <3>2. layer[h].shadow \in Vectors
      BY <1>2, <3>1, TypesAt DEF EmbedClaim, Claimable, Embedding, RunsInto
    <3>3. doc[d].chunks \in Ids \cup {None} /\ layer[h].since \in Clock
      BY TypesAt DEF Doc, Layer
    <3> QED
      BY <3>1, <3>2, <3>3
  <2>2. PICK q : q = [Idle EXCEPT !.pc = "embedding", !.doc = d, !.layer = h, !.from = live, !.slot = v, !.id = i, !.began = t]
    OBVIOUS
  <2>3. q \in Replica /\ PlacedRow(q)
    BY <1>0, <2>2, IdleRow DEF Idle, Replica, PlacedRow
  <2>4. replica' = [replica EXCEPT ![w] = q]
    BY <1>2, <2>1, <2>2 DEF EmbedClaim
  <2> QED
    BY <2>3, <2>4, WorkReplaced DEF ReplicasOK
<1>3. ASSUME NEW pc, replica' = [replica EXCEPT ![w].pc = pc],
             \/ b.pc = "embedding" /\ pc = "added"
             \/ b.pc = "added" /\ pc = "marking"
             \/ b.pc \in {"marked", "erred", "scoring"} /\ pc \in {"switching", "judging"}
             \/ b.pc = "dropping" /\ pc = "forgetting"
      PROVE  ReplicasOK'
  <2>1. PICK q : q = [b EXCEPT !.pc = pc]
    OBVIOUS
  <2>2. q \in Replica /\ PlacedRow(q)
    BY <1>1, <1>3, <2>1 DEF Replica, PlacedRow
  <2>3. replica' = [replica EXCEPT ![w] = q]
    BY <1>1, <1>3, <2>1
  <2> QED
    BY <2>2, <2>3, WorkReplaced DEF ReplicasOK
<1>4. CASE EmbedAdd(w)
  BY <1>1, <1>3, <1>4 DEF EmbedAdd
<1>5. ASSUME NEW pc \in {"marked", "erred"}, b.pc \in {"embedding", "added", "marking"},
             replica' = [replica EXCEPT ![w] = Ended(b, pc)]
      PROVE  ReplicasOK'
  <2>1. b.layer \in Layers /\ b.slot \in Vectors
    BY <1>1, <1>5 DEF PlacedRow
  <2>2. PICK q : q = [Idle EXCEPT !.pc = pc, !.layer = b.layer, !.slot = b.slot]
    OBVIOUS
  <2>3. q \in Replica /\ PlacedRow(q)
    BY <2>1, <2>2, IdleRow DEF Idle, Replica, PlacedRow
  <2> QED
    BY <1>5, <2>2, <2>3, WorkReplaced DEF ReplicasOK, Ended
<1>6. CASE replica' = [replica EXCEPT ![w] = Idle] \/ replica' = replica
  <2>1. CASE replica' = replica
    BY <2>1 DEF ReplicasOK, TypeInv, TypeOK, Placed
  <2> QED
    BY <1>6, <2>1, IdleRow, WorkReplaced DEF ReplicasOK
<1>a. CASE EmbedCompare(w)
  <2>1. CASE SamePoints(w)
    BY <1>1, <1>3, <1>a, <2>1 DEF EmbedCompare
  <2> QED
    BY <1>6, <1>a, <2>1 DEF EmbedCompare
<1>7. CASE EmbedMark(w)
  BY <1>1, <1>5, <1>7 DEF EmbedMark
<1>8. CASE EmbedFail(w)
  BY <1>1, <1>5, <1>8 DEF EmbedFail
<1>9. CASE RecordPass(w)
  BY <1>1, <1>3, <1>9 DEF RecordPass
<1>10. ASSUME NEW l \in Layers, NEW pc \in {"switching", "scoring"}, Embedding(l),
              replica' = [replica EXCEPT ![w] = [Idle EXCEPT !.pc = pc, !.layer = l, !.slot = layer[l].shadow]]
       PROVE  ReplicasOK'
  <2>1. PICK v \in Vectors : v = layer[l].shadow
    BY <1>10, TypesAt DEF Embedding, RunsInto
  <2>2. PICK q : q = [Idle EXCEPT !.pc = pc, !.layer = l, !.slot = v]
    OBVIOUS
  <2>3. q \in Replica /\ PlacedRow(q)
    BY <2>2, IdleRow DEF Idle, Replica, PlacedRow
  <2> QED
    BY <1>10, <2>1, <2>2, <2>3, WorkReplaced DEF ReplicasOK
<1>11. ASSUME NEW l \in Layers, PendingSwitch(w, l) \/ RecallBegin(w, l)
       PROVE  ReplicasOK'
  BY <1>10, <1>11, Zenon DEF PendingSwitch, RecallBegin
<1>12. ASSUME NEW verdict \in {"passed", "failed"}, RecallRecord(w, verdict)
       PROVE  ReplicasOK'
  <2>1. PICK pc \in {"switching", "judging"} : pc = IF verdict = "passed" THEN "switching" ELSE "judging"
    OBVIOUS
  <2>2. b.pc = "scoring" /\ replica' = [replica EXCEPT ![w].pc = pc]
    BY <1>1, <1>12, <2>1 DEF RecallRecord
  <2> QED
    BY <1>3, <2>2
<1>13. CASE Switch(w) \/ RecallFail(w) \/ RetireForget(w) \/ ReclaimForget(w)
  BY <1>6, <1>13 DEF Switch, RecallFail, RetireForget, ReclaimForget
<1>14. CASE RetireDrop(w)
  BY <1>1, <1>3, <1>14 DEF RetireDrop
<1>15. ASSUME NEW c \in retired, RetireDue(w, c)
       PROVE  ReplicasOK'
  <2>1. CASE replica' = replica
    BY <1>6, <2>1
  <2>2. CASE replica' # replica
    <3>1. c \in Names
      BY TypesAt
    <3>2. PICK q : q = [Idle EXCEPT !.pc = "dropping", !.from = c]
      OBVIOUS
    <3>3. q \in Replica /\ PlacedRow(q)
      BY <3>1, <3>2, IdleRow DEF Idle, Replica, PlacedRow
    <3>4. replica' = [replica EXCEPT ![w] = q]
      BY <1>15, <2>2, <3>2 DEF RetireDue
    <3> QED
      BY <3>3, <3>4, WorkReplaced DEF ReplicasOK
  <2> QED
    BY <2>1, <2>2
<1>16. ASSUME NEW l \in Layers, ReclaimDue(w, l)
       PROVE  ReplicasOK'
  <2>1. PICK v \in Vectors \cup {None} : v = layer[l].previous
    BY TypesAt DEF Layer
  <2>2. PICK q : q = [Idle EXCEPT !.pc = "reclaiming", !.layer = l, !.from = live, !.slot = v]
    OBVIOUS
  <2>3. q \in Replica /\ PlacedRow(q)
    BY Zenon, <1>0, <2>2, IdleRow DEF Idle, Replica, PlacedRow
  <2>4. replica' = [replica EXCEPT ![w] = q]
    BY <1>16, <2>1, <2>2 DEF ReclaimDue
  <2> QED
    BY <2>3, <2>4, WorkReplaced DEF ReplicasOK
<1>17. CASE ReclaimDrop(w)
  <2>1. PICK l \in Layers : l = b.layer
    BY <1>1, <1>17 DEF ReclaimDrop, PlacedRow
  <2>2. PICK q : q = [Idle EXCEPT !.pc = "reclaimed", !.layer = l]
    OBVIOUS
  <2>3. q \in Replica /\ PlacedRow(q)
    BY <2>2, IdleRow DEF Idle, Replica, PlacedRow
  <2>4. replica' = [replica EXCEPT ![w] = q]
    BY <1>1, <1>17, <2>1, <2>2 DEF ReclaimDrop
  <2> QED
    BY <2>3, <2>4, WorkReplaced DEF ReplicasOK
<1> QED
  BY <1>2, <1>4, <1>a, <1>7, <1>8, <1>9, <1>11, <1>12, <1>13, <1>14, <1>15, <1>16, <1>17 DEF Embed, Recall, Retire

(* Only a finished copy moves the pointer.                                  *)
LEMMA PointerMoves ==
  ASSUME [Next]_vars
  PROVE  live' = live \/ \E w \in Replicas : CopyFinish(w)
<1>1. Request => live' = live
  BY DEF Request, Send, SendUnchanged, Delete, DeleteCommit, RebuildRead, RebuildDrop, RebuildCreate, RebuildRequeue, RebuildDies,
         SetReferences, StartWrite, StartRead, CreateRead
<1>2. ASSUME NEW w \in Replicas, Ingest(w) \/ Collect(w) \/ Crash(w) \/ Retire(w)
      PROVE  live' = live
  BY <1>2, Zenon DEF Ingest, IngestClaim, IngestWrite, IngestCommit, IngestFail, Collect, CollectClaim, CollectSkip, CollectPurge, CollectMark, Crash,
                     Retire, RetireDue, ReclaimDue, RetireDrop, RetireForget, ReclaimDrop, ReclaimForget
<1>3. ASSUME NEW w \in Replicas, Embed(w) \/ Recall(w)
      PROVE  live' = live
  BY <1>3, Zenon DEF Embed, EmbedClaim, EmbedAdd, EmbedCompare, EmbedMark, EmbedFail, RecordPass, Switch, PendingSwitch,
                     Recall, RecallBegin, RecallRecord, RecallFail
<1>4. ASSUME NEW w \in Replicas, Copy(w)
      PROVE  live' = live \/ CopyFinish(w)
  BY <1>4, Zenon DEF Copy, CopyClaim, CopyCreate, CopyAbandon, CopyThrow, CopyPage, Repair, ReTombstone
<1>5. CASE (\E d \in Docs : Reap(d)) \/ UNCHANGED vars
  BY <1>5 DEF Reap, vars
<1> QED
  BY <1>1, <1>2, <1>3, <1>4, <1>5 DEF Next

(* Who writes the record of superseded collections.                         *)
LEMMA RecordMoves ==
  ASSUME [Next]_vars
  PROVE  \/ retired' = retired
         \/ \E w \in Replicas : CopyFinish(w) \/ RetireForget(w) \/ \E c \in retired : RetireDue(w, c)
<1>1. Request => retired' = retired
  BY DEF Request, Send, SendUnchanged, Delete, DeleteCommit, RebuildRead, RebuildDrop, RebuildCreate, RebuildRequeue, RebuildDies,
         SetReferences, StartWrite, StartRead, CreateRead
<1>2. ASSUME NEW w \in Replicas, Ingest(w) \/ Collect(w) \/ Crash(w)
      PROVE  retired' = retired
  BY <1>2, Zenon DEF Ingest, IngestClaim, IngestWrite, IngestCommit, IngestFail, Collect, CollectClaim, CollectSkip, CollectPurge, CollectMark, Crash
<1>3. ASSUME NEW w \in Replicas, Embed(w) \/ Recall(w)
      PROVE  retired' = retired
  BY <1>3, Zenon DEF Embed, EmbedClaim, EmbedAdd, EmbedCompare, EmbedMark, EmbedFail, RecordPass, Switch, PendingSwitch,
                     Recall, RecallBegin, RecallRecord, RecallFail
<1>4. ASSUME NEW w \in Replicas, Copy(w)
      PROVE  retired' = retired \/ CopyFinish(w)
  BY <1>4, Zenon DEF Copy, CopyClaim, CopyCreate, CopyAbandon, CopyThrow, CopyPage, Repair, ReTombstone
<1>5. ASSUME NEW w \in Replicas, Retire(w)
      PROVE  retired' = retired \/ RetireForget(w) \/ \E c \in retired : RetireDue(w, c)
  BY <1>5, Zenon DEF Retire, ReclaimDue, RetireDrop, ReclaimDrop, ReclaimForget
<1>6. CASE (\E d \in Docs : Reap(d)) \/ UNCHANGED vars
  BY <1>6 DEF Reap, vars
<1> QED
  BY <1>1, <1>2, <1>3, <1>4, <1>5, <1>6 DEF Next

RebuildStep == RebuildRead \/ RebuildDrop \/ RebuildCreate \/ RebuildRequeue \/ RebuildDies

StartStep == \E l \in Layers : StartWrite(l) \/ \E v \in Vectors : StartRead(l, v) \/ CreateRead(l, v)

(* Rebuilds and starts are moved by requests alone.                         *)
LEMMA OperatorMoves ==
  ASSUME [Next]_vars
  PROVE  (rebuild' = rebuild \/ RebuildStep) /\ (starting' = starting \/ StartStep)
<1>1. Request => rebuild' = rebuild \/ RebuildStep
  BY DEF Request, Send, SendUnchanged, Delete, DeleteCommit, RebuildStep, SetReferences, StartWrite, StartRead, CreateRead
<1>2. Request => starting' = starting \/ StartStep
  BY DEF Request, Send, SendUnchanged, Delete, DeleteCommit, RebuildRead, RebuildDrop, RebuildCreate, RebuildRequeue, RebuildDies,
         SetReferences, StartStep
<1>3. ASSUME NEW w \in Replicas, Ingest(w) \/ Collect(w) \/ Crash(w) \/ Retire(w)
      PROVE  rebuild' = rebuild /\ starting' = starting
  <2>1. rebuild' = rebuild
    BY <1>3, Zenon DEF Ingest, IngestClaim, IngestWrite, IngestCommit, IngestFail, Collect, CollectClaim, CollectSkip, CollectPurge, CollectMark, Crash,
                       Retire, RetireDue, ReclaimDue, RetireDrop, RetireForget, ReclaimDrop, ReclaimForget
  <2>2. starting' = starting
    BY <1>3, Zenon DEF Ingest, IngestClaim, IngestWrite, IngestCommit, IngestFail, Collect, CollectClaim, CollectSkip, CollectPurge, CollectMark, Crash,
                       Retire, RetireDue, ReclaimDue, RetireDrop, RetireForget, ReclaimDrop, ReclaimForget
  <2> QED
    BY <2>1, <2>2
<1>4. ASSUME NEW w \in Replicas, Embed(w) \/ Recall(w)
      PROVE  rebuild' = rebuild /\ starting' = starting
  <2>1. rebuild' = rebuild
    BY <1>4, Zenon DEF Embed, EmbedClaim, EmbedAdd, EmbedCompare, EmbedMark, EmbedFail, RecordPass, Switch, PendingSwitch,
                       Recall, RecallBegin, RecallRecord, RecallFail
  <2>2. starting' = starting
    BY <1>4, Zenon DEF Embed, EmbedClaim, EmbedAdd, EmbedCompare, EmbedMark, EmbedFail, RecordPass, Switch, PendingSwitch,
                       Recall, RecallBegin, RecallRecord, RecallFail
  <2> QED
    BY <2>1, <2>2
<1>5. ASSUME NEW w \in Replicas, Copy(w)
      PROVE  rebuild' = rebuild /\ starting' = starting
  <2>1. rebuild' = rebuild
    BY <1>5, Zenon DEF Copy, CopyClaim, CopyCreate, CopyFinish, CopyAbandon, CopyThrow, CopyPage, Repair, ReTombstone
  <2>2. starting' = starting
    BY <1>5, Zenon DEF Copy, CopyClaim, CopyCreate, CopyFinish, CopyAbandon, CopyThrow, CopyPage, Repair, ReTombstone
  <2> QED
    BY <2>1, <2>2
<1>6. CASE \E d \in Docs : Reap(d)
  BY <1>6 DEF Reap
<1>7. CASE UNCHANGED vars
  BY <1>7 DEF vars
<1> QED
  BY <1>1, <1>2, <1>3, <1>4, <1>5, <1>6, <1>7 DEF Next

(* What went wrong stays so.                                                *)
LEMMA WrongStays ==
  ASSUME [Next]_vars
  PROVE  /\ overrun' = overrun \/ \E w \in Replicas : CopyCreate(w) \/ ReclaimDrop(w) \/ \E d \in Docs : CopyPage(w, d)
         /\ overlap' = overlap \/ (\E l \in Layers : StartWrite(l)) \/ RebuildRead \/ RebuildDrop \/ RebuildCreate \/ RebuildRequeue
         /\ Clean' => Clean
<1>1. overrun' = overrun \/ \E w \in Replicas : CopyCreate(w) \/ ReclaimDrop(w) \/ \E d \in Docs : CopyPage(w, d)
  <2>1. Request => overrun' = overrun
    BY DEF Request, Send, SendUnchanged, Delete, DeleteCommit, RebuildRead, RebuildDrop, RebuildCreate, RebuildRequeue, RebuildDies,
           SetReferences, StartWrite, StartRead, CreateRead, marks
  <2>2. ASSUME NEW w \in Replicas, Ingest(w) \/ Collect(w) \/ Crash(w)
        PROVE  overrun' = overrun
    BY <2>2, Zenon DEF Ingest, IngestClaim, IngestWrite, IngestCommit, IngestFail, Collect, CollectClaim, CollectSkip, CollectPurge, CollectMark, Crash, marks
  <2>3. ASSUME NEW w \in Replicas, Embed(w) \/ Recall(w)
        PROVE  overrun' = overrun
    BY <2>3, Zenon DEF Embed, EmbedClaim, EmbedAdd, EmbedCompare, EmbedMark, EmbedFail, RecordPass, Switch, PendingSwitch,
                       Recall, RecallBegin, RecallRecord, RecallFail, marks
  <2>4. ASSUME NEW w \in Replicas, Copy(w)
        PROVE  overrun' = overrun \/ CopyCreate(w) \/ \E d \in Docs : CopyPage(w, d)
    BY <2>4, Zenon DEF Copy, CopyClaim, CopyFinish, CopyAbandon, CopyThrow, Repair, ReTombstone, marks
  <2>5. ASSUME NEW w \in Replicas, Retire(w)
        PROVE  overrun' = overrun \/ ReclaimDrop(w)
    BY <2>5, Zenon DEF Retire, RetireDue, ReclaimDue, RetireDrop, RetireForget, ReclaimForget, marks
  <2>6. CASE (\E d \in Docs : Reap(d)) \/ UNCHANGED vars
    BY <2>6 DEF Reap, vars, marks
  <2> QED
    BY <2>1, <2>2, <2>3, <2>4, <2>5, <2>6 DEF Next
<1>2. overlap' = overlap \/ (\E l \in Layers : StartWrite(l)) \/ RebuildRead \/ RebuildDrop \/ RebuildCreate \/ RebuildRequeue
  <2>1. Request => overlap' = overlap \/ (\E l \in Layers : StartWrite(l)) \/ RebuildRead \/ RebuildDrop \/ RebuildCreate \/ RebuildRequeue
    BY DEF Request, Send, SendUnchanged, Delete, DeleteCommit, RebuildDies, SetReferences, StartRead, CreateRead, marks
  <2>2. ASSUME NEW w \in Replicas, Ingest(w) \/ Collect(w) \/ Crash(w)
        PROVE  overlap' = overlap
    BY <2>2, Zenon DEF Ingest, IngestClaim, IngestWrite, IngestCommit, IngestFail, Collect, CollectClaim, CollectSkip, CollectPurge, CollectMark, Crash, marks
  <2>3. ASSUME NEW w \in Replicas, Embed(w) \/ Recall(w)
        PROVE  overlap' = overlap
    BY <2>3, Zenon DEF Embed, EmbedClaim, EmbedAdd, EmbedCompare, EmbedMark, EmbedFail, RecordPass, Switch, PendingSwitch,
                       Recall, RecallBegin, RecallRecord, RecallFail, marks
  <2>4. ASSUME NEW w \in Replicas, Copy(w)
        PROVE  overlap' = overlap
    BY <2>4, Zenon DEF Copy, CopyClaim, CopyCreate, CopyFinish, CopyAbandon, CopyThrow, CopyPage, Repair, ReTombstone, marks
  <2>5. ASSUME NEW w \in Replicas, Retire(w)
        PROVE  overlap' = overlap
    BY <2>5, Zenon DEF Retire, RetireDue, ReclaimDue, RetireDrop, RetireForget, ReclaimDrop, ReclaimForget, marks
  <2>6. CASE (\E d \in Docs : Reap(d)) \/ UNCHANGED vars
    BY <2>6 DEF Reap, vars, marks
  <2> QED
    BY <2>1, <2>2, <2>3, <2>4, <2>5, <2>6 DEF Next
<1>3. overrun => overrun'
  <2>1. ASSUME NEW w \in Replicas, CopyCreate(w) \/ ReclaimDrop(w) \/ \E d \in Docs : CopyPage(w, d), overrun
        PROVE  overrun'
    BY <2>1 DEF CopyCreate, ReclaimDrop, CopyPage
  <2> QED
    BY <1>1, <2>1
<1>4. overlap => overlap'
  <2>1. ASSUME (\E l \in Layers : StartWrite(l)) \/ RebuildRead \/ RebuildDrop \/ RebuildCreate \/ RebuildRequeue, overlap
        PROVE  overlap'
    BY <2>1 DEF StartWrite, RebuildRead, RebuildDrop, RebuildCreate, RebuildRequeue, Step
  <2> QED
    BY <1>2, <2>1
<1> QED
  BY <1>1, <1>2, <1>3, <1>4 DEF Clean

(* The pointer, the record, starts and rebuilds.                            *)
LEMMA NameTypes ==
  ASSUME TypeInv, [Next]_vars
  PROVE  /\ live' \in Names /\ retired' \subseteq Names
         /\ starting' \in [Layers -> [slot : Vectors, phase : {"none", "copying", "embedding"}] \cup {None}]
         /\ rebuild' \in [pc : {"idle", "dropping", "creating", "requeueing", "died"},
                          from : Names, slots : SUBSET Vectors, runs : Nat]
<1>0. /\ live \in Names /\ retired \subseteq Names
      /\ starting \in [Layers -> [slot : Vectors, phase : {"none", "copying", "embedding"}] \cup {None}]
      /\ rebuild \in [pc : {"idle", "dropping", "creating", "requeueing", "died"},
                      from : Names, slots : SUBSET Vectors, runs : Nat]
  BY DEF TypeInv, TypeOK
<1>1. live' \in Names
  BY <1>0, PointerMoves, CopyNamed, Zenon DEF CopyFinish
<1>2. retired' \subseteq Names
  <2>1. retired' \subseteq retired \cup {live}
    BY RecordMoves, Zenon DEF CopyFinish, RetireForget, RetireDue, Superseded
  <2> QED
    BY <1>0, <2>1
<1>3. starting' \in [Layers -> [slot : Vectors, phase : {"none", "copying", "embedding"}] \cup {None}]
  <2>1. ASSUME NEW l \in Layers, NEW v \in Vectors, StartRead(l, v) \/ CreateRead(l, v)
        PROVE  starting' \in [Layers -> [slot : Vectors, phase : {"none", "copying", "embedding"}] \cup {None}]
    <3>1. PICK ph \in {"none", "copying", "embedding"} : starting' = [starting EXCEPT ![l] = [slot |-> v, phase |-> ph]]
      BY <2>1 DEF StartRead, CreateRead
    <3> QED
      BY <1>0, <3>1
  <2>2. ASSUME NEW l \in Layers, StartWrite(l)
        PROVE  starting' \in [Layers -> [slot : Vectors, phase : {"none", "copying", "embedding"}] \cup {None}]
    BY <1>0, <2>2 DEF StartWrite
  <2> QED
    BY <1>0, <2>1, <2>2, OperatorMoves DEF StartStep
<1>4. rebuild' \in [pc : {"idle", "dropping", "creating", "requeueing", "died"},
                    from : Names, slots : SUBSET Vectors, runs : Nat]
  <2>0. <<>> \in Names
    BY DEF Names
  <2>1. CASE RebuildRead
    <3>0. \A l \in Layers : layer[l].vector \in Vectors
      BY TypesAt DEF Layer
    <3>1. PICK sl \in SUBSET Vectors : sl = {layer[l].vector : l \in {k \in Layers : layer[k].exists}}
      BY <3>0
    <3>2. PICK n \in Nat : n = rebuild.runs + 1
      BY <1>0
    <3>3. rebuild' = [pc |-> "dropping", from |-> live, slots |-> sl, runs |-> n]
      BY <2>1, <3>1, <3>2 DEF RebuildRead
    <3> QED
      BY <1>0, <3>3
  <2>2. CASE RebuildDrop \/ RebuildCreate
    BY <1>0, <2>2 DEF RebuildDrop, RebuildCreate, Step
  <2>3. CASE RebuildRequeue \/ RebuildDies
    BY <1>0, <2>0, <2>3 DEF RebuildRequeue, RebuildDies, NoRebuild
  <2> QED
    BY <1>0, <2>1, <2>2, <2>3, OperatorMoves DEF RebuildStep
<1> QED
  BY <1>1, <1>2, <1>3, <1>4

(* Deletes, reference queries, counters and marks.                          *)
LEMMA CountTypes ==
  ASSUME TypeInv, [Next]_vars
  PROVE  /\ gate' \in [Layers -> BOOLEAN]
         /\ deleting' \in [doc : Docs \cup {None}, from : Names, began : Clock]
         /\ clock' \in Clock /\ ops' \in 0 .. MaxOps /\ faults' \in 0 .. MaxFaults
         /\ {missed, overrun, overlap}' \subseteq BOOLEAN /\ drift' \in [Docs -> BOOLEAN]
<1>0. /\ gate \in [Layers -> BOOLEAN]
      /\ deleting \in [doc : Docs \cup {None}, from : Names, began : Clock]
      /\ clock \in Clock /\ ops \in 0 .. MaxOps /\ faults \in 0 .. MaxFaults
      /\ missed \in BOOLEAN /\ overrun \in BOOLEAN /\ overlap \in BOOLEAN /\ drift \in [Docs -> BOOLEAN]
      /\ MaxClock \in Nat /\ MaxOps \in Nat /\ MaxFaults \in Nat /\ <<>> \in Names /\ live \in Names
      /\ 0 \in Clock
  BY MigrationAssumption DEF TypeInv, TypeOK, Names, Clock
<1> DEFINE
      Gate == gate' \in [Layers -> BOOLEAN]
      Del == deleting' \in [doc : Docs \cup {None}, from : Names, began : Clock]
      Num == clock' \in Clock /\ ops' \in 0 .. MaxOps /\ faults' \in 0 .. MaxFaults
      Flag == missed' \in BOOLEAN /\ overrun' \in BOOLEAN /\ overlap' \in BOOLEAN
      Dr == drift' \in [Docs -> BOOLEAN]
<1>1. ASSUME Request
      PROVE  Gate /\ Del /\ Num /\ Flag /\ Dr
  <2>1. Gate
    BY <1>0, <1>1 DEF Request, Send, SendUnchanged, Delete, DeleteCommit, RebuildRead, RebuildDrop, RebuildCreate, RebuildRequeue, RebuildDies,
              SetReferences, StartWrite, StartRead, CreateRead
  <2>2. Del
    <3>1. deleting' = deleting \/ DeleteCommit \/ \E d \in Docs : Delete(d)
      BY <1>1 DEF Request, Send, SendUnchanged, RebuildRead, RebuildDrop, RebuildCreate, RebuildRequeue, RebuildDies,
                  SetReferences, StartWrite, StartRead, CreateRead
    <3>2. DeleteCommit => Del
      BY <1>0 DEF DeleteCommit, NoDelete
    <3>3. ASSUME NEW d \in Docs, Delete(d) PROVE Del
      <4>1. deleting' = [doc |-> d, from |-> live, began |-> clock]
        BY <3>3 DEF Delete
      <4> QED
        BY <1>0, <4>1
    <3> QED
      BY <1>0, <3>1, <3>2, <3>3
  <2>3. Num
    <3>1. clock' = clock \/ \E l \in Layers : StartWrite(l)
      BY <1>1 DEF Request, Send, SendUnchanged, Delete, DeleteCommit, RebuildRead, RebuildDrop, RebuildCreate, RebuildRequeue, RebuildDies,
                  SetReferences, StartRead, CreateRead
    <3>2. ops' = ops \/ (ops < MaxOps /\ ops' = ops + 1)
      BY <1>1 DEF Request, Send, SendUnchanged, Delete, DeleteCommit, RebuildRead, RebuildDrop, RebuildCreate, RebuildRequeue, RebuildDies,
                  SetReferences, StartWrite, StartRead, CreateRead
    <3>3. faults' = faults \/ RebuildDies
      BY <1>1 DEF Request, Send, SendUnchanged, Delete, DeleteCommit, RebuildRead, RebuildDrop, RebuildCreate, RebuildRequeue,
                  SetReferences, StartWrite, StartRead, CreateRead
    <3>4. clock' \in Clock
      BY <1>0, <3>1 DEF StartWrite, Clock
    <3>5. ops' \in 0 .. MaxOps
      BY <1>0, <3>2
    <3>6. faults' \in 0 .. MaxFaults
      BY <1>0, <3>3 DEF RebuildDies, Fault
    <3> QED
      BY <3>4, <3>5, <3>6
  <2>4. Flag
    BY <1>0, <1>1 DEF Request, Send, SendUnchanged, Delete, DeleteCommit, RebuildRead, RebuildDrop, RebuildCreate, RebuildRequeue, RebuildDies,
              SetReferences, StartWrite, StartRead, CreateRead, marks, Step
  <2>5. Dr
    BY <1>0, <1>1 DEF Request, Send, SendUnchanged, Delete, DeleteCommit, RebuildRead, RebuildDrop, RebuildCreate, RebuildRequeue, RebuildDies,
              SetReferences, StartWrite, StartRead, CreateRead, marks
  <2> QED
    BY <2>1, <2>2, <2>3, <2>4, <2>5
<1>2. ASSUME NEW w \in Replicas, Ingest(w) \/ Collect(w) \/ Crash(w)
      PROVE  Gate /\ Del /\ Num /\ Flag /\ Dr
  <2>1. UNCHANGED <<gate, deleting, clock, ops>> /\ (faults' = faults \/ Fault)
    BY <1>2, Zenon DEF Ingest, IngestClaim, IngestWrite, IngestCommit, IngestFail,
                       Collect, CollectClaim, CollectSkip, CollectPurge, CollectMark, Crash
  <2>2. Flag
    BY <1>0, <1>2, Zenon DEF Ingest, IngestClaim, IngestWrite, IngestCommit, IngestFail,
                             Collect, CollectClaim, CollectSkip, CollectPurge, CollectMark, Crash, marks
  <2>3. Dr
    BY <1>0, <1>2, Zenon DEF Ingest, IngestClaim, IngestWrite, IngestCommit, IngestFail,
                             Collect, CollectClaim, CollectSkip, CollectPurge, CollectMark, Crash, marks
  <2> QED
    BY <1>0, <2>1, <2>2, <2>3 DEF Fault
<1>3. ASSUME NEW w \in Replicas, Embed(w) \/ Recall(w) \/ Retire(w)
      PROVE  Gate /\ Del /\ Num /\ Flag /\ Dr
  <2>1. UNCHANGED <<gate, deleting, clock, ops, missed, overlap>> /\ (faults' = faults \/ Fault)
    BY <1>3, Zenon DEF Embed, EmbedClaim, EmbedAdd, EmbedCompare, EmbedMark, EmbedFail, RecordPass, Switch, PendingSwitch,
                       Recall, RecallBegin, RecallRecord, RecallFail,
                       Retire, RetireDue, ReclaimDue, RetireDrop, RetireForget, ReclaimDrop, ReclaimForget, marks
  <2>2. overrun' \in BOOLEAN
    BY <1>0, <1>3, Zenon DEF Embed, EmbedClaim, EmbedAdd, EmbedCompare, EmbedMark, EmbedFail, RecordPass, Switch, PendingSwitch,
                             Recall, RecallBegin, RecallRecord, RecallFail,
                             Retire, RetireDue, ReclaimDue, RetireDrop, RetireForget, ReclaimDrop, ReclaimForget, marks
  <2>3. Dr
    BY <1>0, <1>3, Zenon DEF Embed, EmbedClaim, EmbedAdd, EmbedCompare, EmbedMark, EmbedFail, RecordPass, Switch, PendingSwitch,
                             Recall, RecallBegin, RecallRecord, RecallFail,
                             Retire, RetireDue, ReclaimDue, RetireDrop, RetireForget, ReclaimDrop, ReclaimForget, marks
  <2> QED
    BY <1>0, <2>1, <2>2, <2>3 DEF Fault
<1>4. ASSUME NEW w \in Replicas, Copy(w)
      PROVE  Gate /\ Del /\ Num /\ Flag /\ Dr
  <2>1. UNCHANGED <<gate, deleting, clock, ops, overlap>> /\ (faults' = faults \/ Fault)
    BY <1>4, Zenon DEF Copy, CopyClaim, CopyCreate, CopyFinish, CopyAbandon, CopyThrow, CopyPage, Repair, ReTombstone, marks
  <2>2. missed' \in BOOLEAN /\ overrun' \in BOOLEAN
    BY <1>0, <1>4, Zenon DEF Copy, CopyClaim, CopyCreate, CopyFinish, CopyAbandon, CopyThrow, CopyPage, Repair, ReTombstone, marks
  <2>3. Dr
    BY <1>0, <1>4, Zenon DEF Copy, CopyClaim, CopyCreate, CopyFinish, CopyAbandon, CopyThrow, CopyPage, Repair, ReTombstone, marks
  <2> QED
    BY <1>0, <2>1, <2>2, <2>3 DEF Fault
<1>5. ASSUME NEW d \in Docs, Reap(d)
      PROVE  Gate /\ Del /\ Num /\ Flag /\ Dr
  <2>1. UNCHANGED <<gate, deleting, clock, ops, missed, overrun, overlap, drift>> /\ Fault
    BY <1>5 DEF Reap, marks
  <2> QED
    BY <1>0, <2>1 DEF Fault
<1>6. CASE UNCHANGED vars
  BY <1>0, <1>6 DEF vars
<1> QED
  BY <1>1, <1>2, <1>3, <1>4, <1>5, <1>6 DEF Next

(* Only sends and collectors note that a purged document was sent again.    *)
LEMMA ResentMoves ==
  ASSUME [Next]_vars
  PROVE  \/ resent' = resent
         \/ \E d \in Docs : Send(d)
         \/ \E w \in Replicas : CollectPurge(w) \/ CollectMark(w) \/ Crash(w)
<1>1. ASSUME Request
      PROVE  resent' = resent \/ \E d \in Docs : Send(d)
  BY <1>1 DEF Request, SendUnchanged, Delete, DeleteCommit, RebuildRead, RebuildDrop, RebuildCreate, RebuildRequeue,
              RebuildDies, SetReferences, StartWrite, StartRead, CreateRead, marks
<1>2. ASSUME NEW w \in Replicas, Ingest(w) \/ Collect(w)
      PROVE  resent' = resent \/ CollectPurge(w) \/ CollectMark(w)
  BY <1>2, Zenon DEF Ingest, IngestClaim, IngestWrite, IngestCommit, IngestFail, Collect, CollectClaim, CollectSkip, marks
<1>3. ASSUME NEW w \in Replicas, Embed(w) \/ Recall(w) \/ Retire(w)
      PROVE  resent' = resent
  BY <1>3, Zenon DEF Embed, EmbedClaim, EmbedAdd, EmbedCompare, EmbedMark, EmbedFail, RecordPass, Switch, PendingSwitch,
                     Recall, RecallBegin, RecallRecord, RecallFail,
                     Retire, RetireDue, ReclaimDue, RetireDrop, RetireForget, ReclaimDrop, ReclaimForget, marks
<1>4. ASSUME NEW w \in Replicas, Copy(w)
      PROVE  resent' = resent
  BY <1>4, Zenon DEF Copy, CopyClaim, CopyCreate, CopyFinish, CopyAbandon, CopyThrow, CopyPage, Repair, ReTombstone, marks
<1>5. ASSUME (\E d \in Docs : Reap(d)) \/ UNCHANGED vars
      PROVE  resent' = resent
  BY <1>5 DEF Reap, vars, marks
<1> QED
  BY <1>1, <1>2, <1>3, <1>4, <1>5 DEF Next

(* What is noted of a replica stays true or false.                          *)
LEMMA ResentTypes ==
  ASSUME TypeInv, [Next]_vars
  PROVE  resent' \in [Replicas -> BOOLEAN]
<1>0. resent \in [Replicas -> BOOLEAN]
  BY DEF TypeInv, TypeOK
<1>1. ASSUME NEW d \in Docs, Send(d)
      PROVE  resent' \in [Replicas -> BOOLEAN]
  BY <1>0, <1>1, Zenon DEF Send
<1>2. ASSUME NEW w \in Replicas, CollectPurge(w) \/ CollectMark(w) \/ Crash(w)
      PROVE  resent' \in [Replicas -> BOOLEAN]
  BY <1>0, <1>2, Zenon DEF CollectPurge, CollectMark, Crash
<1> QED
  BY <1>0, <1>1, <1>2, ResentMoves

(* A step that is of no replica leaves the replicas alone.                  *)
LEMMA ReplicasAlone ==
  ASSUME [Next]_vars
  PROVE  replica' = replica \/ \E w \in Replicas : Ingest(w) \/ Copy(w) \/ Embed(w) \/ Recall(w) \/ Retire(w) \/ Collect(w) \/ Crash(w)
<1>1. Request => replica' = replica
  BY DEF Request, Send, SendUnchanged, Delete, DeleteCommit, RebuildRead, RebuildDrop, RebuildCreate, RebuildRequeue, RebuildDies,
         SetReferences, StartWrite, StartRead, CreateRead
<1>2. ASSUME (\E d \in Docs : Reap(d)) \/ UNCHANGED vars
      PROVE  replica' = replica
  BY <1>2 DEF Reap, vars
<1> QED
  BY <1>1, <1>2 DEF Next

(* Every step.                                                              *)
LEMMA TypesKeep == TypeInv /\ [Next]_vars => TypeInv'
<1> SUFFICES ASSUME TypeInv, [Next]_vars PROVE TypeInv'
  OBVIOUS
<1>1. ReplicasOK'
  <2>1. CASE replica' = replica
    BY <2>1 DEF ReplicasOK, TypeInv, TypeOK, Placed
  <2> QED
    BY <2>1, ReplicasAlone, IndexerTypes, CopierTypes, EmbedderTypes
<1>2. layer' \in [Layers -> Layer] /\ \A l \in Layers : RunsInto(l)'
  BY LayerTypes
<1>3. StoreOK'
  BY StoreTypes
<1>4. doc' \in [Docs -> Doc] /\ lock' \in [Docs -> Replicas \cup {"delete", None}]
  BY DocTypes, LockTypes
<1>5. TypeOK'
  BY <1>1, <1>2, <1>3, <1>4, NameTypes, CountTypes, ResentTypes DEF TypeOK, ReplicasOK, StoreOK
<1> QED
  BY <1>1, <1>2, <1>5 DEF TypeInv, ReplicasOK

(* The start.                                                               *)
LEMMA InitTypes == Init => TypeInv
<1> SUFFICES ASSUME Init PROVE TypeInv
  OBVIOUS
<1>0. 0 \in Clock /\ <<>> \in Names
  BY MigrationAssumption DEF Clock, Names
<1>1. doc \in [Docs -> Doc]
  BY <1>0, MigrationAssumption DEF Init, IndexedDoc, Doc
<1>2. layer \in [Layers -> Layer] /\ \A l \in Layers : RunsInto(l)
  BY <1>0, MigrationAssumption DEF Init, NewLayer, Layer, RunsInto
<1>3. replica \in [Replicas -> Replica] /\ \A w \in Replicas : Placed(w)
  BY IdleRow DEF Init, Placed
<1>4. /\ live \in Names /\ retired \subseteq Names /\ DOMAIN coll \subseteq Names
      /\ \A c \in DOMAIN coll : coll[c] \in Collection
  BY <1>0, MigrationAssumption DEF Init, Collection, Point
<1>5. /\ lock \in [Docs -> Replicas \cup {"delete", None}] /\ gate \in [Layers -> BOOLEAN]
      /\ starting \in [Layers -> [slot : Vectors, phase : {"none", "copying", "embedding"}] \cup {None}]
      /\ deleting \in [doc : Docs \cup {None}, from : Names, began : Clock]
  BY <1>0 DEF Init, NoDelete
<1>6. rebuild \in [pc : {"idle", "dropping", "creating", "requeueing", "died"}, from : Names, slots : SUBSET Vectors, runs : Nat]
  BY <1>0 DEF Init, NoRebuild
<1>7. clock \in Clock /\ ops \in 0 .. MaxOps /\ faults \in 0 .. MaxFaults /\ drift \in [Docs -> BOOLEAN]
      /\ resent \in [Replicas -> BOOLEAN]
  BY <1>0, MigrationAssumption DEF Init
<1>8. {missed, overrun, overlap} \subseteq BOOLEAN
  BY DEF Init
<1> QED
  BY <1>1, <1>2, <1>3, <1>4, <1>5, <1>6, <1>7, <1>8 DEF TypeInv, TypeOK

(* Rows, points, claims and what the replicas read stay of their kinds      *)
(* through every request, pass, sweep, rebuild and crash.                   *)
THEOREM MigrationTypes == Spec => []TypeOK
<1>1. TypeInv => TypeOK
  BY DEF TypeInv
<1> QED
  BY <1>1, InitTypes, TypesKeep, PTL DEF Spec

----------------------------------------------------------------------------
(* What a step does to a replica and to a layer.                            *)

Acts(v) == Ingest(v) \/ Copy(v) \/ Embed(v) \/ Recall(v) \/ Retire(v) \/ Collect(v) \/ Crash(v)

(* A replica does its own work only.                                        *)
LEMMA ActsAlone ==
  ASSUME TypeInv, [Next]_vars, NEW v \in Replicas
  PROVE  replica'[v] = replica[v] \/ Acts(v)
<1>0. replica \in [Replicas -> Replica]
  BY DEF TypeInv, TypeOK
<1>1. ASSUME NEW w \in Replicas \ {v}, Ingest(w) \/ Collect(w) \/ Crash(w)
      PROVE  replica'[v] = replica[v]
  BY <1>0, <1>1, Zenon DEF Ingest, IngestClaim, IngestWrite, IngestCommit, IngestFail, Collect, CollectClaim, CollectSkip, CollectPurge, CollectMark, Crash
<1>2. ASSUME NEW w \in Replicas \ {v}, Copy(w)
      PROVE  replica'[v] = replica[v]
  BY <1>0, <1>2, Zenon DEF Copy, CopyClaim, CopyCreate, CopyFinish, CopyAbandon, CopyThrow, CopyPage, Repair, ReTombstone
<1>3. ASSUME NEW w \in Replicas \ {v}, Embed(w) \/ Recall(w)
      PROVE  replica'[v] = replica[v]
  BY <1>0, <1>3, Zenon DEF Embed, EmbedClaim, EmbedAdd, EmbedCompare, EmbedMark, EmbedFail, RecordPass, Switch, PendingSwitch,
                           Recall, RecallBegin, RecallRecord, RecallFail
<1>4. ASSUME NEW w \in Replicas \ {v}, Retire(w)
      PROVE  replica'[v] = replica[v]
  BY <1>0, <1>4, Zenon DEF Retire, RetireDue, ReclaimDue, RetireDrop, RetireForget, ReclaimDrop, ReclaimForget
<1> QED
  BY <1>1, <1>2, <1>3, <1>4, ReplicasAlone DEF Acts

(* After indexing, collecting and a crash a replica has none of the work a  *)
(* migration gives.                                                         *)
LEMMA IndexerAfter ==
  ASSUME TypeInv, NEW v \in Replicas, Ingest(v) \/ Collect(v) \/ Crash(v)
  PROVE  replica'[v].pc \in {"idle", "indexing", "written", "purging", "purged"}
<1>0. replica \in [Replicas -> Replica] /\ replica[v] \in Replica
  BY DEF TypeInv, TypeOK
<1>1. ASSUME NEW d \in Docs, IngestClaim(v, d) \/ CollectClaim(v, d)
      PROVE  replica'[v].pc \in {"indexing", "purging"}
  BY <1>0, <1>1 DEF IngestClaim, CollectClaim, Idle
<1>2. CASE IngestCommit(v) \/ IngestFail(v) \/ CollectSkip(v) \/ CollectMark(v) \/ Crash(v)
  <2>1. replica' = [replica EXCEPT ![v] = Idle]
    BY <1>2 DEF IngestCommit, IngestFail, CollectSkip, CollectMark, Crash
  <2> QED
    BY <1>0, <2>1, IdleRow
<1>3. CASE IngestWrite(v)
  <2>1. PICK i : i = FreshId
    OBVIOUS
  <2>2. PICK b \in Replica : b = replica[v]
    BY <1>0
  <2>3. replica' = [replica EXCEPT ![v] = [b EXCEPT !.pc = "written", !.id = i, !.began = clock]]
    BY <1>0, <1>3, <2>1, <2>2 DEF IngestWrite
  <2> QED
    BY <1>0, <2>3 DEF Replica
<1>4. CASE CollectPurge(v)
  BY <1>0, <1>4 DEF CollectPurge, Replica
<1> QED
  BY <1>1, <1>2, <1>3, <1>4 DEF Ingest, Collect

(* A copy goes on with the layer, the source and the slot it began with.    *)
LEMMA CopierAfter ==
  ASSUME TypeInv, NEW v \in Replicas, Copy(v)
  PROVE  \/ replica'[v].pc \in {"idle", "repairing", "tombstoning"}
         \/ \E l \in Layers :
              /\ CopyClaim(v, l) /\ replica'[v].pc = "copying" /\ replica'[v].layer = l
              /\ replica'[v].from = live /\ replica'[v].slot = layer[l].shadow /\ replica'[v].ready = FALSE
         \/ /\ CopyCreate(v) \/ \E d \in Docs : CopyPage(v, d)
            /\ replica[v].pc = "copying" /\ replica'[v].pc = "copying" /\ replica'[v].layer = replica[v].layer
            /\ replica'[v].from = replica[v].from /\ replica'[v].slot = replica[v].slot
            /\ (\E d \in Docs : CopyPage(v, d)) => replica'[v].ready = replica[v].ready
<1>0. replica \in [Replicas -> Replica] /\ replica[v] \in Replica
  BY DEF TypeInv, TypeOK
<1>b. PICK b \in Replica : b = replica[v]
  BY <1>0
<1>1. ASSUME NEW l \in Layers, CopyClaim(v, l)
      PROVE  /\ replica'[v].pc = "copying" /\ replica'[v].layer = l
             /\ replica'[v].from = live /\ replica'[v].slot = layer[l].shadow /\ replica'[v].ready = FALSE
  <2>1. PICK q : q = [Idle EXCEPT !.pc = "copying", !.layer = l, !.from = live, !.slot = layer[l].shadow, !.began = layer[l].since]
    OBVIOUS
  <2>2. q.pc = "copying" /\ q.layer = l /\ q.from = live /\ q.slot = layer[l].shadow /\ q.ready = FALSE
    BY <2>1 DEF Idle
  <2>3. replica' = [replica EXCEPT ![v] = q]
    BY <1>1, <2>1 DEF CopyClaim
  <2> QED
    BY <1>0, <2>2, <2>3
<1>2. CASE CopyCreate(v)
  <2>1. replica[v].pc = "copying" /\ replica' = [replica EXCEPT ![v].ready = TRUE] /\ ~replica[v].ready
    BY <1>2 DEF CopyCreate
  <2>2. replica'[v].pc = "copying" /\ replica'[v].layer = replica[v].layer
        /\ replica'[v].from = replica[v].from /\ replica'[v].slot = replica[v].slot
    BY <1>0, <2>1 DEF Replica
  <2>3. ~\E d \in Docs : CopyPage(v, d)
    BY <2>1 DEF CopyPage
  <2> QED
    BY <1>2, <2>1, <2>2, <2>3
<1>3. ASSUME NEW d \in Docs, CopyPage(v, d)
      PROVE  /\ replica[v].pc = "copying" /\ replica'[v].pc = "copying" /\ replica'[v].layer = replica[v].layer
             /\ replica'[v].from = replica[v].from /\ replica'[v].slot = replica[v].slot /\ replica'[v].ready = replica[v].ready
  <2>1. replica[v].pc = "copying" /\ replica' = [replica EXCEPT ![v].copied = @ \cup {d}]
    BY <1>3 DEF CopyPage
  <2> QED
    BY <1>0, <2>1 DEF Replica
<1>4. CASE CopyAbandon(v) \/ CopyThrow(v)
  <2>1. replica' = [replica EXCEPT ![v] = Idle]
    BY <1>4 DEF CopyAbandon, CopyThrow
  <2> QED
    BY <1>0, <2>1, IdleRow
<1>5. CASE CopyFinish(v)
  <2>1. replica' = [replica EXCEPT ![v] = [b EXCEPT !.pc = "repairing", !.copied = {}, !.ready = FALSE]]
    BY <1>0, <1>5, <1>b DEF CopyFinish
  <2> QED
    BY <1>0, <2>1 DEF Replica
<1>6. CASE Repair(v)
  <2>1. PICK back : back = Revived(replica[v].began)
    OBVIOUS
  <2>2. replica' = [replica EXCEPT ![v] = Idle] \/ replica' = [replica EXCEPT ![v] = [b EXCEPT !.pc = "tombstoning", !.copied = back]]
    BY <1>0, <1>6, <1>b, <2>1 DEF Repair
  <2>3. PICK q : q = [b EXCEPT !.pc = "tombstoning", !.copied = back]
    OBVIOUS
  <2>4. q.pc = "tombstoning"
    BY <2>3 DEF Replica
  <2> QED
    BY <1>0, <2>2, <2>3, <2>4, IdleRow
<1>7. ASSUME NEW d \in Docs, NEW ok \in BOOLEAN, ReTombstone(v, d, ok)
      PROVE  replica'[v].pc \in {"idle", "tombstoning"}
  <2>1. PICK left : left = b.copied \ {d}
    OBVIOUS
  <2>2. b.pc = "tombstoning" /\ (replica' = [replica EXCEPT ![v] = Idle] \/ replica' = [replica EXCEPT ![v] = [b EXCEPT !.copied = left]])
    BY <1>0, <1>7, <1>b, <2>1 DEF ReTombstone
  <2>3. PICK q : q = [b EXCEPT !.copied = left]
    OBVIOUS
  <2>4. q.pc = "tombstoning"
    BY <2>2, <2>3 DEF Replica
  <2> QED
    BY <1>0, <2>2, <2>3, <2>4, IdleRow
<1> QED
  BY <1>1, <1>2, <1>3, <1>4, <1>5, <1>6, <1>7 DEF Copy

(* Work on a slot is work on the slot it began with, and begins with the    *)
(* slot a layer is being embedded into.                                     *)
LEMMA EmbedderAfter ==
  ASSUME TypeInv, NEW v \in Replicas, Embed(v) \/ Recall(v)
  PROVE  \/ replica'[v].pc = "idle"
         \/ /\ Fills(v)'
            /\ \/ Fills(v) /\ replica'[v].slot = replica[v].slot
               \/ \E l \in Layers : Embedding(l) /\ replica'[v].slot = layer[l].shadow
<1>0. replica \in [Replicas -> Replica] /\ replica[v] \in Replica
  BY DEF TypeInv, TypeOK
<1>b. PICK b \in Replica : b = replica[v]
  BY <1>0
<1> DEFINE Filled == {"embedding", "added", "marking", "marked", "erred", "switching", "scoring", "judging"}
<1>1. ASSUME NEW q, replica' = [replica EXCEPT ![v] = q], q.pc \in Filled,
             \/ b.pc \in Filled /\ q.slot = b.slot
             \/ \E l \in Layers : Embedding(l) /\ q.slot = layer[l].shadow
      PROVE  /\ Fills(v)'
             /\ \/ Fills(v) /\ replica'[v].slot = replica[v].slot
                \/ \E l \in Layers : Embedding(l) /\ replica'[v].slot = layer[l].shadow
  <2>1. replica'[v] = q
    BY <1>0, <1>1
  <2>2. Fills(v)'
    BY <1>1, <2>1 DEF Fills
  <2>3. b.pc \in Filled => Fills(v)
    BY <1>b DEF Fills
  <2> QED
    BY <1>1, <1>b, <2>1, <2>2, <2>3
<1>2. ASSUME NEW pc \in Filled, b.pc \in Filled, replica' = [replica EXCEPT ![v].pc = pc]
      PROVE  Fills(v)' /\ Fills(v) /\ replica'[v].slot = replica[v].slot
  <2>1. replica'[v].pc = pc /\ replica'[v].slot = replica[v].slot
    BY <1>0, <1>2 DEF Replica
  <2> QED
    BY <1>2, <1>b, <2>1 DEF Fills
<1>3. ASSUME NEW d \in Docs, EmbedClaim(v, d)
      PROVE  Fills(v)' /\ \E l \in Layers : Embedding(l) /\ replica'[v].slot = layer[l].shadow
  <2>1. PICK h \in Layers : h = Home[d]
    BY MigrationAssumption
  <2>2. PICK q : q = [Idle EXCEPT !.pc = "embedding", !.doc = d, !.layer = h, !.from = live, !.slot = layer[h].shadow, !.id = doc[d].chunks,
                                  !.began = layer[h].since]
    OBVIOUS
  <2>3. q.pc = "embedding" /\ q.slot = layer[h].shadow
    BY <2>2 DEF Idle
  <2>4. replica' = [replica EXCEPT ![v] = q] /\ Embedding(h)
    BY <1>3, <2>1, <2>2 DEF EmbedClaim, Claimable
  <2>5. replica'[v] = q
    BY <1>0, <2>4
  <2> QED
    BY <2>3, <2>4, <2>5 DEF Fills
<1>4. CASE EmbedAdd(v)
  BY <1>2, <1>4, <1>b DEF EmbedAdd
<1>5. ASSUME NEW pc \in {"marked", "erred"}, b.pc \in {"embedding", "added", "marking"}, replica' = [replica EXCEPT ![v] = Ended(b, pc)]
      PROVE  Fills(v)' /\ Fills(v) /\ replica'[v].slot = replica[v].slot
  <2>1. PICK q : q = [Idle EXCEPT !.pc = pc, !.layer = b.layer, !.slot = b.slot]
    OBVIOUS
  <2>2. q.pc = pc /\ q.slot = b.slot
    BY <2>1 DEF Idle
  <2>3. replica'[v] = q
    BY <1>0, <1>5, <2>1 DEF Ended
  <2> QED
    BY <1>5, <1>b, <2>2, <2>3 DEF Fills
<1>6. CASE replica' = [replica EXCEPT ![v] = Idle]
  BY <1>0, <1>6, IdleRow
<1>a. CASE EmbedCompare(v)
  <2>1. CASE SamePoints(v)
    BY <1>2, <1>a, <1>b, <2>1 DEF EmbedCompare
  <2> QED
    BY <1>6, <1>a, <2>1 DEF EmbedCompare
<1>7. CASE EmbedMark(v)
  BY <1>5, <1>7, <1>b DEF EmbedMark
<1>8. CASE EmbedFail(v)
  BY <1>5, <1>8, <1>b DEF EmbedFail
<1>9. CASE RecordPass(v)
  BY <1>2, <1>9, <1>b DEF RecordPass
<1>10. CASE Switch(v) \/ RecallFail(v)
  BY <1>6, <1>10 DEF Switch, RecallFail
<1>11. ASSUME NEW l \in Layers, PendingSwitch(v, l) \/ RecallBegin(v, l)
       PROVE  Fills(v)' /\ Embedding(l) /\ replica'[v].slot = layer[l].shadow
  <2>1. PICK pc \in {"switching", "scoring"} :
          /\ Embedding(l)
          /\ replica' = [replica EXCEPT ![v] = [Idle EXCEPT !.pc = pc, !.layer = l, !.slot = layer[l].shadow]]
    BY <1>11 DEF PendingSwitch, RecallBegin
  <2>2. PICK q : q = [Idle EXCEPT !.pc = pc, !.layer = l, !.slot = layer[l].shadow]
    OBVIOUS
  <2>3. q.pc = pc /\ q.slot = layer[l].shadow
    BY <2>2 DEF Idle
  <2>4. replica'[v] = q
    BY <1>0, <2>1, <2>2
  <2> QED
    BY <2>1, <2>3, <2>4 DEF Fills
<1>12. ASSUME NEW verdict \in {"passed", "failed"}, RecallRecord(v, verdict)
       PROVE  Fills(v)' /\ Fills(v) /\ replica'[v].slot = replica[v].slot
  <2>1. PICK pc \in {"switching", "judging"} : pc = IF verdict = "passed" THEN "switching" ELSE "judging"
    OBVIOUS
  <2>2. b.pc = "scoring" /\ replica' = [replica EXCEPT ![v].pc = pc]
    BY <1>12, <1>b, <2>1 DEF RecallRecord
  <2> QED
    BY <1>2, <2>2
<1> QED
  BY <1>a, <1>3, <1>4, <1>7, <1>8, <1>9, <1>10, <1>11, <1>12, <1>2, <1>6 DEF Embed, Recall

(* A sweep drops what is on record and not live, then forgets it.           *)
LEMMA SweeperAfter ==
  ASSUME TypeInv, NEW v \in Replicas, Retire(v)
  PROVE  \/ replica'[v] = replica[v] \/ replica'[v].pc \in {"idle", "reclaiming", "reclaimed"}
         \/ replica'[v].pc = "dropping" /\ replica'[v].from \in retired
         \/ /\ RetireDrop(v) /\ replica[v].pc = "dropping" /\ replica'[v].pc = "forgetting"
            /\ replica'[v].from = replica[v].from
<1>0. replica \in [Replicas -> Replica] /\ replica[v] \in Replica
  BY DEF TypeInv, TypeOK
<1>1. ASSUME NEW c \in retired, RetireDue(v, c)
      PROVE  replica'[v] = replica[v] \/ (replica'[v].pc = "dropping" /\ replica'[v].from \in retired)
  <2>1. PICK q : q = [Idle EXCEPT !.pc = "dropping", !.from = c]
    OBVIOUS
  <2>2. q.pc = "dropping" /\ q.from = c
    BY <2>1 DEF Idle
  <2>3. replica' = replica \/ replica' = [replica EXCEPT ![v] = q]
    BY <1>1, <2>1 DEF RetireDue
  <2> QED
    BY <1>0, <2>2, <2>3
<1>2. ASSUME NEW l \in Layers, ReclaimDue(v, l)
      PROVE  replica'[v].pc = "reclaiming"
  BY <1>0, <1>2 DEF ReclaimDue, Idle
<1>3. CASE RetireDrop(v)
  <2>1. replica[v].pc = "dropping" /\ replica' = [replica EXCEPT ![v].pc = "forgetting"]
    BY <1>3 DEF RetireDrop
  <2>2. replica'[v].pc = "forgetting" /\ replica'[v].from = replica[v].from
    BY <1>0, <2>1 DEF Replica
  <2> QED
    BY <1>3, <2>1, <2>2
<1>4. CASE RetireForget(v) \/ ReclaimForget(v)
  BY <1>0, <1>4, IdleRow DEF RetireForget, ReclaimForget
<1>5. CASE ReclaimDrop(v)
  <2>1. PICK q : q = [Idle EXCEPT !.pc = "reclaimed", !.layer = replica[v].layer]
    OBVIOUS
  <2>2. replica' = [replica EXCEPT ![v] = q] /\ q.pc = "reclaimed"
    BY <1>5, <2>1 DEF ReclaimDrop, Idle
  <2> QED
    BY <1>0, <2>2
<1> QED
  BY <1>1, <1>2, <1>3, <1>4, <1>5 DEF Retire

(* What becomes of a layer: a copy is asked for by a start alone, and the   *)
(* claim on one changes with a claim or goes with a start.                  *)
SameRow(l) ==
  /\ layer'[l].exists = layer[l].exists /\ layer'[l].vector = layer[l].vector
  /\ layer'[l].since = layer[l].since /\ layer'[l].previous \in {layer[l].previous, None}
  /\ layer'[l].status = layer[l].status \/ (layer[l].status = "running" /\ layer'[l].status = "failed")
  /\ layer'[l].status = "running" => layer[l].status = "running"
  /\ layer'[l].status = "complete" => layer[l].status = "complete"
  /\ layer'[l].phase = layer[l].phase /\ layer'[l].shadow = layer[l].shadow
  /\ layer'[l].claim = layer[l].claim \/ \E w \in Replicas : CopyClaim(w, l) /\ layer'[l].claim = w

(* The layer that waits for a copy has one.                                 *)
Moved(l) ==
  /\ Copying(l) /\ ~Copying(l)' /\ layer'[l].exists = layer[l].exists
  /\ layer'[l].shadow = layer[l].shadow /\ layer'[l].phase = "embedding"
  /\ layer'[l].since = layer[l].since /\ layer'[l].previous = layer[l].previous
  /\ \/ layer'[l].status = "running" /\ layer'[l].vector = layer[l].vector
     \/ layer'[l].status = "complete" /\ layer'[l].vector = layer[l].shadow /\ Outstanding(l) = {}

(* The layer is on the slot it was embedded into.                           *)
Switched(l) ==
  \E w \in Replicas :
    /\ Switch(w) /\ Fills(w) /\ layer[l].status = "running" /\ layer'[l].status = "complete"
    /\ layer'[l].vector = replica[w].slot /\ layer'[l].exists = layer[l].exists
    /\ Done(w) /\ replica[w].layer = l /\ layer'[l].shadow = layer[l].shadow
    /\ layer'[l].since = layer[l].since /\ layer'[l].previous = layer[l].vector

Begun(l) ==
  /\ StartWrite(l) /\ layer'[l].claim = None /\ layer'[l].phase = starting[l].phase
  /\ layer'[l].status = IF starting[l].phase = "none" THEN "none" ELSE "running"
  /\ starting[l].phase # "none" => layer'[l].shadow = starting[l].slot
  /\ layer[l].exists => layer'[l].vector = layer[l].vector
  /\ ~layer[l].exists => layer'[l].vector = starting[l].slot
  /\ layer'[l].since = clock + 1 /\ layer'[l].previous = None /\ layer'[l].exists

(* Every step.                                                              *)
LEMMA LayerAfter ==
  ASSUME TypeInv, [Next]_vars, NEW l \in Layers
  PROVE  \/ SameRow(l) /\ ~\E w \in Replicas : CopyFinish(w) /\ Copying(l)
         \/ Moved(l) /\ \E w \in Replicas : CopyFinish(w)
         \/ Switched(l) \/ Begun(l)
<1>0. layer \in [Layers -> Layer] /\ \A k \in Layers : layer[k] \in Layer /\ RunsInto(k)
  BY TypesAt DEF TypeInv, TypeOK
<1>1. ASSUME layer'[l] = layer[l]
      PROVE  SameRow(l)
  BY <1>1 DEF SameRow
<1>2. ASSUME NEW k \in Layers, NEW q, layer' = [layer EXCEPT ![k] = q], k = l => SameRow(l)
      PROVE  SameRow(l)
  BY <1>0, <1>1, <1>2
<1>3. ASSUME NEW k \in Layers, StartWrite(k)
      PROVE  Begun(l) \/ SameRow(l)
  <2>1. PICK q : q = Started(layer[k], starting[k])
    OBVIOUS
  <2>2. layer' = [layer EXCEPT ![k] = q]
    BY <1>3, <2>1 DEF StartWrite
  <2>3. CASE k # l
    BY <1>0, <1>1, <2>2, <2>3
  <2>4. CASE k = l
    <3>1. layer'[l] = q
      BY <1>0, <2>2, <2>4
    <3>2. q = [exists |-> TRUE, vector |-> IF layer[l].exists THEN layer[l].vector ELSE starting[l].slot,
               status |-> IF starting[l].phase = "none" THEN "none" ELSE "running", phase |-> starting[l].phase,
               shadow |-> IF starting[l].phase = "none" THEN None ELSE starting[l].slot, since |-> clock + 1,
               claim |-> None, failures |-> 0, check |-> "none", previous |-> None]
      BY <1>0, <2>1, <2>4, StartedRow
    <3>3. /\ q.claim = None /\ q.phase = starting[l].phase
          /\ q.status = IF starting[l].phase = "none" THEN "none" ELSE "running"
          /\ q.shadow = IF starting[l].phase = "none" THEN None ELSE starting[l].slot
          /\ q.vector = IF layer[l].exists THEN layer[l].vector ELSE starting[l].slot
          /\ q.since = clock + 1 /\ q.previous = None /\ q.exists
      BY <3>2
    <3> QED
      BY <1>3, <2>4, <3>1, <3>3 DEF Begun
  <2> QED
    BY <2>3, <2>4
<1>4. ASSUME NEW w \in Replicas, NEW k \in Layers, CopyClaim(w, k)
      PROVE  SameRow(l)
  <2>1. PICK q : q = [layer[k] EXCEPT !.claim = w]
    OBVIOUS
  <2>2. /\ q.exists = layer[k].exists /\ q.vector = layer[k].vector /\ q.status = layer[k].status
        /\ q.phase = layer[k].phase /\ q.shadow = layer[k].shadow /\ q.claim = w
        /\ q.since = layer[k].since /\ q.previous = layer[k].previous
    BY <1>0, <2>1 DEF Layer
  <2>3. layer' = [layer EXCEPT ![k] = q]
    BY <1>4, <2>1 DEF CopyClaim
  <2>4. k = l => layer'[l] = q
    BY <1>0, <2>3
  <2>5. k = l => SameRow(l)
    BY <1>4, <2>2, <2>4 DEF SameRow
  <2> QED
    BY <1>2, <2>3, <2>5
<1>5. ASSUME NEW w \in Replicas, CopyFinish(w)
      PROVE  (Copying(l) => Moved(l)) /\ (~Copying(l) => SameRow(l))
  <2>1. layer' = [k \in Layers |-> IF Copying(k) THEN Copied(k, layer[k]) ELSE layer[k]]
    BY <1>5 DEF CopyFinish
  <2>2. CASE ~Copying(l)
    BY <1>1, <2>1, <2>2
  <2>3. CASE Copying(l)
    <3>1. layer'[l] = Copied(l, layer[l])
      BY <2>1, <2>3
    <3>2. PICK b \in Layer : b = layer[l]
      BY <1>0
    <3>3. b.status = "running"
      BY <2>3, <3>2 DEF Copying
    <3>4. CASE layer'[l] = [b EXCEPT !.phase = "embedding"]
      <4>1. /\ layer'[l].exists = b.exists /\ layer'[l].shadow = b.shadow /\ layer'[l].phase = "embedding"
            /\ layer'[l].status = "running" /\ layer'[l].vector = b.vector
            /\ layer'[l].since = b.since /\ layer'[l].previous = b.previous
        BY <3>3, <3>4 DEF Layer
      <4> QED
        BY <2>3, <3>2, <4>1 DEF Moved, Copying
    <3>5. CASE layer'[l] = [b EXCEPT !.phase = "embedding", !.status = "complete", !.vector = b.shadow] /\ Outstanding(l) = {}
      <4>1. PICK s : s = b.shadow
        OBVIOUS
      <4>2. PICK q : q = [b EXCEPT !.phase = "embedding", !.status = "complete", !.vector = s]
        OBVIOUS
      <4>3. q.exists = b.exists /\ q.shadow = b.shadow /\ q.phase = "embedding" /\ q.status = "complete" /\ q.vector = s
            /\ q.since = b.since /\ q.previous = b.previous
        BY <4>2 DEF Layer
      <4>4. layer'[l] = q
        BY <3>5, <4>1, <4>2
      <4> QED
        BY <2>3, <3>2, <3>5, <4>1, <4>3, <4>4 DEF Moved, Copying
    <3> QED
      BY <3>1, <3>2, <3>4, <3>5 DEF Copied
  <2> QED
    BY <2>2, <2>3
<1>6. ASSUME NEW w \in Replicas, LayerStep(w), ~CopyFinish(w), ~\E k \in Layers : CopyClaim(w, k)
      PROVE  SameRow(l) \/ Switched(l)
  <2>0. layer' = layer => SameRow(l)
    BY <1>1
  <2>1. CASE CopyThrow(w) \/ RecallFail(w)
    <3>1. PICK k : k = replica[w].layer
      OBVIOUS
    <3>2. layer' = layer \/ (layer' = [layer EXCEPT ![k].status = "failed"] /\ layer[k].status = "running")
      BY <2>1, <3>1 DEF CopyThrow, RecallFail, HoldsCopy, Copying
    <3>3. CASE k = l /\ layer' = [layer EXCEPT ![k].status = "failed"] /\ layer[k].status = "running"
      <4>1. PICK q : q = [layer[l] EXCEPT !.status = "failed"]
        OBVIOUS
      <4>2. /\ q.exists = layer[l].exists /\ q.vector = layer[l].vector /\ q.status = "failed"
            /\ q.phase = layer[l].phase /\ q.shadow = layer[l].shadow /\ q.claim = layer[l].claim
            /\ q.since = layer[l].since /\ q.previous = layer[l].previous
        BY <1>0, <4>1 DEF Layer
      <4>3. layer'[l] = q
        BY <1>0, <3>3, <4>1
      <4> QED
        BY <3>3, <4>2, <4>3 DEF SameRow
    <3> QED
      BY <1>0, <1>1, <2>0, <3>2, <3>3
  <2>2. CASE RecordPass(w)
    <3>1. PICK k \in Layers : k = replica[w].layer
      BY <2>2, TypesAt DEF RecordPass, Placed, PlacedRow
    <3>2. PICK n, st : n = layer[k].failures + 1 /\ st = IF n >= FailureBound THEN "failed" ELSE "running"
      OBVIOUS
    <3>3. \/ layer' = layer
          \/ layer' = [layer EXCEPT ![k].failures = 0]
          \/ layer[k].status = "running" /\ layer' = [layer EXCEPT ![k] = [layer[k] EXCEPT !.failures = n, !.status = st]]
      BY <2>2, <3>1, <3>2 DEF RecordPass, SameMigration
    <3>4. CASE layer' = [layer EXCEPT ![k].failures = 0]
      <4>1. PICK q : q = [layer[k] EXCEPT !.failures = 0]
        OBVIOUS
      <4>2. /\ q.exists = layer[k].exists /\ q.vector = layer[k].vector /\ q.status = layer[k].status
            /\ q.phase = layer[k].phase /\ q.shadow = layer[k].shadow /\ q.claim = layer[k].claim
            /\ q.since = layer[k].since /\ q.previous = layer[k].previous
        BY <1>0, <4>1 DEF Layer
      <4>3. layer' = [layer EXCEPT ![k] = q] /\ layer'[k] = q
        BY <1>0, <3>4, <4>1
      <4>4. k = l => SameRow(l)
        BY <4>2, <4>3 DEF SameRow
      <4> QED
        BY <1>2, <4>3, <4>4
    <3>5. CASE layer[k].status = "running" /\ layer' = [layer EXCEPT ![k] = [layer[k] EXCEPT !.failures = n, !.status = st]]
      <4>1. PICK q : q = [layer[k] EXCEPT !.failures = n, !.status = st]
        OBVIOUS
      <4>2. /\ q.exists = layer[k].exists /\ q.vector = layer[k].vector /\ q.status = st
            /\ q.phase = layer[k].phase /\ q.shadow = layer[k].shadow /\ q.claim = layer[k].claim
            /\ q.since = layer[k].since /\ q.previous = layer[k].previous
        BY <1>0, <4>1 DEF Layer
      <4>3. layer' = [layer EXCEPT ![k] = q] /\ layer'[k] = q
        BY <1>0, <3>5, <4>1
      <4>4. k = l => SameRow(l)
        <5>1. st \in {"failed", "running"}
          BY <3>2
        <5> QED
          BY <3>5, <4>2, <4>3, <5>1 DEF SameRow
      <4> QED
        BY <1>2, <4>3, <4>4
    <3> QED
      BY <2>0, <3>3, <3>4, <3>5
  <2>3. CASE Switch(w)
    <3>1. PICK k \in Layers : k = replica[w].layer
      BY <2>3, TypesAt DEF Switch, Placed, PlacedRow
    <3>2. CASE Done(w) /\ k = l
      <4>1. PICK b \in Layer : b = layer[l]
        BY <1>0
      <4>s. PICK s : s = replica[w].slot
        OBVIOUS
      <4>2. PICK q : q = [b EXCEPT !.status = "complete", !.vector = s, !.previous = b.vector]
        OBVIOUS
      <4>3. /\ q.status = "complete" /\ q.vector = s /\ q.exists = b.exists
            /\ q.shadow = b.shadow /\ q.since = b.since /\ q.previous = b.vector
        BY <4>2 DEF Layer
      <4>4. layer' = [layer EXCEPT ![l] = q]
        BY <2>3, <3>1, <3>2, <4>1, <4>s, <4>2 DEF Switch
      <4>5. layer'[l] = q
        BY <1>0, <4>4
      <4>6. layer[l].status = "running" /\ Fills(w)
        BY <2>3, <3>1, <3>2 DEF Done, SameMigration, Switch, Fills
      <4> QED
        BY <2>3, <3>1, <3>2, <4>1, <4>s, <4>3, <4>5, <4>6 DEF Switched
    <3>3. CASE k # l
      <4>1. layer'[l] = layer[l]
        BY <1>0, <2>3, <3>1, <3>3 DEF Switch
      <4> QED
        BY <1>1, <4>1
    <3> QED
      BY <2>0, <2>3, <3>1, <3>2, <3>3 DEF Switch
  <2>4. ASSUME NEW verdict \in {"passed", "failed"}, RecallRecord(w, verdict)
        PROVE  SameRow(l)
    <3>1. PICK k \in Layers : k = replica[w].layer
      BY <2>4, TypesAt DEF RecallRecord, Placed, PlacedRow
    <3>2. PICK q : q = [layer[k] EXCEPT !.check = verdict]
      OBVIOUS
    <3>3. /\ q.exists = layer[k].exists /\ q.vector = layer[k].vector /\ q.status = layer[k].status
          /\ q.phase = layer[k].phase /\ q.shadow = layer[k].shadow /\ q.claim = layer[k].claim
          /\ q.since = layer[k].since /\ q.previous = layer[k].previous
      BY <1>0, <3>2 DEF Layer
    <3>4. layer' = layer \/ layer' = [layer EXCEPT ![k] = q]
      BY <2>4, <3>1, <3>2 DEF RecallRecord
    <3>5. layer' = [layer EXCEPT ![k] = q] /\ k = l => SameRow(l)
      <4>1. layer' = [layer EXCEPT ![k] = q] /\ k = l => layer'[l] = q
        BY <1>0
      <4> QED
        BY <3>3, <4>1 DEF SameRow
    <3> QED
      BY <1>2, <2>0, <3>4, <3>5
  <2>5. CASE ReclaimForget(w)
    <3>1. PICK k \in Layers : k = replica[w].layer
      BY <2>5, TypesAt DEF ReclaimForget, Placed, PlacedRow
    <3>2. PICK q : q = [layer[k] EXCEPT !.previous = None]
      OBVIOUS
    <3>3. /\ q.exists = layer[k].exists /\ q.vector = layer[k].vector /\ q.status = layer[k].status
          /\ q.phase = layer[k].phase /\ q.shadow = layer[k].shadow /\ q.claim = layer[k].claim
          /\ q.since = layer[k].since /\ q.previous = None
      BY <1>0, <3>2 DEF Layer
    <3>4. layer' = [layer EXCEPT ![k] = q]
      BY <2>5, <3>1, <3>2 DEF ReclaimForget
    <3>5. k = l => SameRow(l)
      <4>1. k = l => layer'[l] = q
        BY <1>0, <3>4
      <4> QED
        BY <3>3, <4>1 DEF SameRow
    <3> QED
      BY <1>2, <3>4, <3>5
  <2> QED
    BY <1>6, <2>1, <2>2, <2>3, <2>4, <2>5 DEF LayerStep
<1>7. (\E w \in Replicas : CopyFinish(w)) => (SameRow(l) /\ ~Copying(l)) \/ Moved(l)
  BY <1>5
<1>8. (~\E w \in Replicas : CopyFinish(w)) => SameRow(l) \/ Switched(l) \/ Begun(l)
  <2>1. layer' = layer => SameRow(l)
    BY <1>1
  <2> QED
    BY <1>3, <1>4, <1>6, <2>1, LayersAlone
<1> QED
  BY <1>7, <1>8

(* What a replica is at after a step that copies, sweeps or fills.          *)
LEMMA WorkAfter ==
  ASSUME TypeInv, [Next]_vars, NEW v \in Replicas
  PROVE  /\ replica'[v].pc = "copying" =>
              \/ \E l \in Layers :
                   /\ CopyClaim(v, l) /\ replica'[v].layer = l /\ replica'[v].from = live
                   /\ replica'[v].slot = layer[l].shadow /\ replica'[v].ready = FALSE
              \/ /\ replica[v].pc = "copying" /\ replica'[v].layer = replica[v].layer
                 /\ replica'[v].from = replica[v].from /\ replica'[v].slot = replica[v].slot
                 /\ replica'[v].ready = replica[v].ready \/ CopyCreate(v)
         /\ replica'[v].pc \in {"dropping", "forgetting"} =>
              \/ replica'[v].pc = "dropping" /\ replica'[v].from \in retired
              \/ /\ replica[v].pc \in {"dropping", "forgetting"} /\ replica'[v].from = replica[v].from
                 /\ replica'[v].pc = "forgetting" => replica[v].pc = "forgetting" \/ RetireDrop(v)
         /\ Fills(v)' =>
              \/ Fills(v) /\ replica'[v].slot = replica[v].slot
              \/ \E l \in Layers : Embedding(l) /\ replica'[v].slot = layer[l].shadow
<1>1. CASE replica'[v] = replica[v]
  BY <1>1 DEF Fills
<1>2. CASE Ingest(v) \/ Collect(v) \/ Crash(v)
  BY <1>2, IndexerAfter DEF Fills
<1>3. CASE Copy(v)
  BY <1>3, CopierAfter DEF Fills
<1>4. CASE Embed(v) \/ Recall(v)
  BY <1>4, EmbedderAfter DEF Fills
<1>5. CASE Retire(v)
  BY <1>1, <1>5, SweeperAfter DEF Fills
<1> QED
  BY <1>1, <1>2, <1>3, <1>4, <1>5, ActsAlone DEF Acts

(* A copy that is held after a step was held before it, or is claimed by it; *)
(* none is held after one finishes.                                         *)
LEMMA HeldBefore ==
  ASSUME TypeInv, [Next]_vars, NEW v \in Replicas, replica'[v].pc = "copying", HoldsCopy(v)'
  PROVE  /\ replica'[v].layer \in Layers /\ live' = live /\ ~\E w \in Replicas : CopyFinish(w)
         /\ SameRow(replica'[v].layer) /\ Copying(replica'[v].layer)
         /\ \/ /\ replica'[v].from = live /\ replica'[v].slot = layer[replica'[v].layer].shadow
               /\ replica'[v].ready = FALSE
            \/ /\ replica[v].pc = "copying" /\ HoldsCopy(v) /\ replica'[v].layer = replica[v].layer
               /\ replica'[v].from = replica[v].from /\ replica'[v].slot = replica[v].slot
               /\ replica'[v].ready = replica[v].ready \/ CopyCreate(v)
<1>1. PICK k : k = replica'[v].layer
  OBVIOUS
<1>2. k \in Layers
  <2>1. Placed(v)'
    BY TypesKeep DEF TypeInv
  <2> QED
    BY <1>1, <2>1 DEF Placed, PlacedRow
<1>3. layer'[k].status = "running" /\ layer'[k].phase = "copying" /\ layer'[k].claim = v /\ v # None
  BY <1>1, MigrationAssumption DEF HoldsCopy, Copying
<1>4. SameRow(k) /\ ~\E w \in Replicas : CopyFinish(w) /\ Copying(k)
  <2>1. ~Moved(k) /\ ~Switched(k) /\ ~Begun(k)
    BY <1>3 DEF Moved, Switched, Begun, Copying
  <2> QED
    BY <1>2, <2>1, LayerAfter
<1>5. Copying(k)
  BY <1>3, <1>4 DEF SameRow, Copying
<1>6. ~\E w \in Replicas : CopyFinish(w)
  BY <1>4, <1>5
<1>7. live' = live
  BY <1>6, PointerMoves
<1>8. layer[k].claim = v \/ CopyClaim(v, k)
  BY <1>3, <1>4 DEF SameRow
<1>9. CASE \E l \in Layers :
                   /\ CopyClaim(v, l) /\ replica'[v].layer = l /\ replica'[v].from = live
                   /\ replica'[v].slot = layer[l].shadow /\ replica'[v].ready = FALSE
  BY <1>1, <1>2, <1>4, <1>5, <1>6, <1>7, <1>9
<1>10. CASE /\ replica[v].pc = "copying" /\ replica'[v].layer = replica[v].layer
            /\ replica'[v].from = replica[v].from /\ replica'[v].slot = replica[v].slot
            /\ replica'[v].ready = replica[v].ready \/ CopyCreate(v)
  <2>1. layer[k].claim = v
    BY <1>8, <1>10 DEF CopyClaim
  <2>2. HoldsCopy(v)
    BY <1>1, <1>5, <1>10, <2>1 DEF HoldsCopy
  <2> QED
    BY <1>1, <1>2, <1>4, <1>5, <1>6, <1>7, <1>10, <2>2
<1> QED
  BY <1>9, <1>10, WorkAfter

(* A copy that is wanted is of the live collection.                         *)
LEMMA CopiesLiveKeep ==
  ASSUME TypeInv, [Next]_vars, \A w \in Replicas : CopiesLive(w)
  PROVE  \A w \in Replicas : CopiesLive(w)'
<1> SUFFICES ASSUME NEW v \in Replicas, replica'[v].pc = "copying", HoldsCopy(v)'
             PROVE  replica'[v].from = live' /\ replica'[v].slot = layer'[replica'[v].layer].shadow
  BY DEF CopiesLive
<1>1. PICK k : k = replica'[v].layer
  OBVIOUS
<1>2. live' = live /\ layer'[k].shadow = layer[k].shadow
  BY <1>1, HeldBefore DEF SameRow
<1>3. CASE replica'[v].from = live /\ replica'[v].slot = layer[k].shadow
  BY <1>1, <1>2, <1>3
<1>4. CASE /\ replica[v].pc = "copying" /\ HoldsCopy(v) /\ k = replica[v].layer
           /\ replica'[v].from = replica[v].from /\ replica'[v].slot = replica[v].slot
  BY <1>1, <1>2, <1>4 DEF CopiesLive
<1> QED
  BY <1>1, <1>3, <1>4, HeldBefore

(* The pointer moves onto a name grown from it, and it goes on record.      *)
LEMMA PointerGrows ==
  ASSUME TypeInv, \A w \in Replicas : CopiesLive(w), NEW w \in Replicas, CopyFinish(w)
  PROVE  /\ replica[w].slot \in Vectors /\ live \in Names /\ live' = Append(live, replica[w].slot)
         /\ retired' = retired \cup {live} /\ live' = CopyName(w)
         /\ replica[w].layer \in Layers /\ Copying(replica[w].layer) /\ HoldsCopy(w)
         /\ replica[w].slot = layer[replica[w].layer].shadow /\ replica[w].ready /\ replica[w].pc = "copying"
<1>1. replica[w].pc = "copying" /\ HoldsCopy(w) /\ live' = CopyName(w) /\ retired' = retired \cup Superseded(w) /\ replica[w].ready
  BY DEF CopyFinish
<1>2. replica[w].from = live /\ replica[w].slot = layer[replica[w].layer].shadow
  BY <1>1 DEF CopiesLive
<1>3. replica[w].slot \in Vectors /\ replica[w].layer \in Layers /\ live \in Names
  BY <1>1, CopyNamed, TypesAt
<1>4. CopyName(w) = Append(live, replica[w].slot)
  BY <1>2 DEF CopyName
<1>5. CopyName(w) # live
  BY <1>3, <1>4, Grown
<1>6. retired' = retired \cup {live}
  BY <1>1, <1>5 DEF Superseded
<1> QED
  BY <1>1, <1>2, <1>3, <1>4, <1>6 DEF HoldsCopy

(* What is on record or being swept was live before.                        *)
LEMMA PastKeeps ==
  ASSUME TypeInv, [Next]_vars, \A w \in Replicas : CopiesLive(w),
         \A c \in retired : Before(c, live),
         \A w \in Replicas : replica[w].pc \in {"dropping", "forgetting"} => Before(replica[w].from, live)
  PROVE  /\ \A c \in Names : Before(c, live) => Before(c, live')
         /\ \A c \in retired' : Before(c, live')
         /\ \A w \in Replicas : replica'[w].pc \in {"dropping", "forgetting"} => Before(replica'[w].from, live')
<1>1. \A c \in Names : Before(c, live) => Before(c, live')
  <2>1. ASSUME NEW w \in Replicas, CopyFinish(w), NEW c \in Names, Before(c, live)
        PROVE  Before(c, live')
    <3>1. PICK s \in Vectors : live \in Names /\ live' = Append(live, s)
      BY <2>1, PointerGrows
    <3>2. Before(c, Append(live, s))
      BY <2>1, <3>1, Grown
    <3> QED
      BY <3>1, <3>2
  <2> QED
    BY <2>1, PointerMoves
<1>2. ASSUME NEW c \in retired'
      PROVE  Before(c, live')
  <2>1. CASE c \in retired
    BY <1>1, <2>1, TypesAt
  <2>2. CASE c \notin retired
    <3>1. PICK w \in Replicas : CopyFinish(w)
      BY <2>2, RecordMoves DEF RetireForget, RetireDue
    <3>2. c = live
      BY <2>2, <3>1, PointerGrows
    <3>3. PICK s \in Vectors : live \in Names /\ live' = Append(live, s)
      BY <3>1, PointerGrows
    <3>4. Before(live, Append(live, s))
      BY <3>3, Grown
    <3> QED
      BY <3>2, <3>3, <3>4
  <2> QED
    BY <2>1, <2>2
<1>3. ASSUME NEW w \in Replicas, replica'[w].pc \in {"dropping", "forgetting"}
      PROVE  Before(replica'[w].from, live')
  <2>1. CASE replica'[w].from \in retired
    BY <1>1, <2>1, TypesAt
  <2>2. CASE replica[w].pc \in {"dropping", "forgetting"} /\ replica'[w].from = replica[w].from
    BY <1>1, <2>2, ReplicaAt
  <2> QED
    BY <1>3, <2>1, <2>2, WorkAfter
<1> QED
  BY <1>1, <1>2, <1>3

(* A step after which nothing has gone wrong makes a copy only for a        *)
(* replica that holds it.                                                   *)
LEMMA MadeHeld ==
  ASSUME TypeInv, [Next]_vars, Clean', NEW w \in Replicas, CopyCreate(w), \A v \in Replicas : CopiesLive(v)
  PROVE  /\ HoldsCopy(w) /\ replica[w].from = live /\ CopyName(w) = Append(live, replica[w].slot)
         /\ replica[w].slot \in Vectors /\ Exists(live) /\ DOMAIN coll' = DOMAIN coll \cup {CopyName(w)}
         /\ coll'[CopyName(w)].slots = coll[live].slots \cup {replica[w].slot}
         /\ \A n \in DOMAIN coll \ {CopyName(w)} : coll'[n] = coll[n]
         /\ CopyName(w) # live /\ ~Before(CopyName(w), live) /\ replica[w].layer \in Layers
<1>1. HoldsCopy(w) /\ replica[w].pc = "copying" /\ Exists(replica[w].from)
  BY DEF CopyCreate, Clean
<1>2. replica[w].from = live
  BY <1>1 DEF CopiesLive
<1>3. replica[w].slot \in Vectors /\ replica[w].layer \in Layers /\ live \in Names /\ CopyName(w) \in Names
  BY <1>1, CopyNamed, TypesAt
<1>4. CopyName(w) = Append(live, replica[w].slot)
  BY <1>2 DEF CopyName
<1>5. CopyName(w) # live /\ ~Before(CopyName(w), live)
  BY <1>3, <1>4, Grown
<1>6. coll[live].slots \in SUBSET Vectors
  BY <1>1, <1>2, TypesAt DEF Exists, Collection
<1>7. PICK sl \in SUBSET Vectors : sl = coll[live].slots \cup {replica[w].slot}
  BY <1>3, <1>6
<1>8. PICK k \in Collection : k = [slots |-> sl, points |-> [d \in Docs |-> {}]]
  BY DEF Collection
<1>9. coll' = WithCollection(CopyName(w), k)
  BY <1>2, <1>7, <1>8 DEF CopyCreate, CopySlots
<1>10. /\ DOMAIN coll' = DOMAIN coll \cup {CopyName(w)} /\ coll'[CopyName(w)] = k
       /\ \A n \in DOMAIN coll \ {CopyName(w)} : coll'[n] = coll[n]
  BY <1>3, <1>9, CollectionsMade
<1>11. k.slots = sl
  BY <1>8
<1> QED
  BY <1>1, <1>2, <1>3, <1>4, <1>5, <1>7, <1>10, <1>11

(* A sweep or a rebuild takes away one collection.                          *)
LEMMA TakenAway ==
  ASSUME TypeInv, NEW c \in Names, coll' = Without(c)
  PROVE  DOMAIN coll' = DOMAIN coll \ {c} /\ \A n \in DOMAIN coll' : coll'[n] = coll[n]
<1>1. [slots |-> {}, points |-> [d \in Docs |-> {}]] \in Collection
  BY DEF Collection
<1> QED
  BY <1>1, CollectionsMade

(* A rebuild makes the collection it read, with the slots it read.          *)
LEMMA MadeAnew ==
  ASSUME TypeInv, RebuildCreate
  PROVE  /\ DOMAIN coll' = DOMAIN coll \cup {rebuild.from} /\ coll'[rebuild.from].slots = rebuild.slots
         /\ \A n \in DOMAIN coll \ {rebuild.from} : coll'[n] = coll[n]
<1>1. PICK c \in Names, sl \in SUBSET Vectors : c = rebuild.from /\ sl = rebuild.slots
  BY DEF TypeInv, TypeOK
<1>2. PICK k \in Collection : k = [slots |-> sl, points |-> [d \in Docs |-> {}]]
  BY DEF Collection
<1>3. coll' = WithCollection(c, k)
  BY <1>1, <1>2 DEF RebuildCreate
<1>4. /\ DOMAIN coll' = DOMAIN coll \cup {c} /\ coll'[c] = k
      /\ \A n \in DOMAIN coll \ {c} : coll'[n] = coll[n]
  BY <1>3, CollectionsMade
<1>5. k.slots = sl
  BY <1>2
<1> QED
  BY <1>1, <1>4, <1>5

(* While the collection is rebuilt no layer is moved.                       *)
LEMMA NoneRuns ==
  ASSUME TypeInv, RecordInv, [Next]_vars, Clean', ~NotRebuilding'
  PROVE  /\ \A l \in Layers : layer'[l].status # "running"
         /\ live' = live /\ (~NotRebuilding \/ RebuildRead)
         /\ ~NotRebuilding => \A l \in Layers : SameRow(l)
<1>0. Clean
  BY WrongStays
<1>1. ~NotRebuilding \/ RebuildRead
  BY OperatorMoves DEF NotRebuilding, RebuildStep, RebuildDrop, RebuildCreate, RebuildRequeue, RebuildDies
<1>2. \A l \in Layers : layer[l].status # "running"
  <2>1. CASE ~NotRebuilding
    BY <1>0, <2>1 DEF RecordInv
  <2>2. CASE RebuildRead
    BY <2>2 DEF RebuildRead, Clean, Migrating
  <2> QED
    BY <1>1, <2>1, <2>2
<1>3. ~\E w \in Replicas : CopyFinish(w)
  <2>1. ASSUME NEW w \in Replicas, CopyFinish(w)
        PROVE  FALSE
    BY <1>2, <2>1, PointerGrows DEF RecordInv, Copying
  <2> QED
    BY <2>1
<1>4. live' = live
  BY <1>3, PointerMoves
<1>5. \A l \in Layers : ~StartWrite(l) \/ NotRebuilding
  BY DEF StartWrite, Clean
<1>6. ~NotRebuilding => \A l \in Layers : SameRow(l)
  BY <1>2, <1>3, <1>5, LayerAfter DEF Switched, Begun
<1>7. ASSUME NEW l \in Layers
      PROVE  layer'[l].status # "running"
  <2>1. CASE ~NotRebuilding
    BY <1>2, <1>6, <2>1 DEF SameRow
  <2>2. CASE RebuildRead
    BY <1>2, <2>2 DEF RebuildRead
  <2> QED
    BY <1>1, <2>1, <2>2
<1> QED
  BY <1>1, <1>4, <1>6, <1>7

(* A rebuild is of the live collection.                                     *)
LEMMA RebuildsLive ==
  ASSUME TypeInv, RecordInv, [Next]_vars, Clean', rebuild'.pc \in {"dropping", "creating", "requeueing"}
  PROVE  rebuild'.from = live'
<1>0. Clean
  BY WrongStays
<1>1. live' = live
  BY NoneRuns DEF NotRebuilding
<1>2. rebuild \in [pc : {"idle", "dropping", "creating", "requeueing", "died"}, from : Names, slots : SUBSET Vectors, runs : Nat]
  BY DEF TypeInv, TypeOK
<1>3. CASE rebuild' = rebuild
  BY <1>0, <1>1, <1>3 DEF RecordInv
<1>4. CASE RebuildRead
  BY <1>1, <1>4 DEF RebuildRead
<1>5. CASE RebuildDrop \/ RebuildCreate
  <2>1. rebuild'.from = rebuild.from /\ rebuild.pc \in {"dropping", "creating"}
    BY <1>2, <1>5 DEF RebuildDrop, RebuildCreate, Step
  <2> QED
    BY <1>0, <1>1, <2>1 DEF RecordInv
<1>6. CASE RebuildRequeue \/ RebuildDies
  <2>1. rebuild'.pc \in {"idle", "died"}
    BY <1>6 DEF RebuildRequeue, RebuildDies, NoRebuild
  <2> QED
    BY <2>1
<1> QED
  BY <1>3, <1>4, <1>5, <1>6, OperatorMoves DEF RebuildStep

(* A name that the pointer has left comes back with nothing.                *)
LEMMA NoneReturns ==
  ASSUME TypeInv, RecordInv, [Next]_vars, Clean', NEW c \in DOMAIN coll', Before(c, live)
  PROVE  c \in DOMAIN coll
<1>0. Clean
  BY WrongStays
<1>1. CASE SlotsKept
  BY <1>1 DEF SlotsKept
<1>2. CASE RebuildDrop
  <2>1. rebuild.from \in Names
    BY DEF TypeInv, TypeOK
  <2> QED
    BY <1>2, <2>1, TakenAway DEF RebuildDrop
<1>3. CASE RebuildCreate
  <2>1. rebuild.from = live /\ live \in Names
    BY <1>0, <1>3, TypesAt DEF RebuildCreate, RecordInv
  <2>2. First \in Vectors
    BY MigrationAssumption
  <2>3. ~Before(live, live)
    BY <2>1, <2>2, Grown
  <2> QED
    BY <1>3, <2>1, <2>3, MadeAnew
<1>4. ASSUME NEW w \in Replicas, CopyCreate(w)
      PROVE  c \in DOMAIN coll
  BY <1>4, MadeHeld DEF RecordInv
<1>5. ASSUME NEW w \in Replicas, RetireDrop(w)
      PROVE  c \in DOMAIN coll
  BY <1>5, TakenAway, ReplicaAt DEF RetireDrop
<1> QED
  BY <1>1, <1>2, <1>3, <1>4, <1>5, StoreTypes DEF StoreStep

(* What is forgotten is gone.                                               *)
LEMMA ForgottenGone ==
  ASSUME TypeInv, RecordInv, [Next]_vars, Clean', NEW w \in Replicas, replica'[w].pc = "forgetting"
  PROVE  replica'[w].from \notin DOMAIN coll'
<1>0. Clean
  BY WrongStays
<1>1. PICK c : c = replica'[w].from
  OBVIOUS
<1>2. c = replica[w].from /\ (replica[w].pc = "forgetting" \/ RetireDrop(w)) /\ replica[w].pc \in {"dropping", "forgetting"}
  BY <1>1, WorkAfter
<1>3. CASE replica[w].pc = "forgetting"
  <2>1. c \notin DOMAIN coll /\ Before(c, live)
    BY <1>0, <1>2, <1>3 DEF RecordInv, Exists
  <2> QED
    BY <1>1, <2>1, NoneReturns
<1>4. CASE RetireDrop(w)
  <2>1. c \in Names /\ coll' = Without(c)
    BY <1>2, <1>4, ReplicaAt DEF RetireDrop
  <2> QED
    BY <1>1, <2>1, TakenAway
<1> QED
  BY <1>2, <1>3, <1>4

(* What the pointer left is on record until it is gone.                     *)
LEMMA LeftOnRecord ==
  ASSUME TypeInv, RecordInv, [Next]_vars, Clean', NEW c \in DOMAIN coll', Before(c, live')
  PROVE  c \in retired'
<1>0. Clean /\ live \in Names /\ c \in Names
  BY WrongStays, StoreTypes, TypesAt DEF StoreOK
<1>1. ASSUME NEW w \in Replicas, CopyFinish(w)
      PROVE  c \in retired'
  <2>1. PICK s \in Vectors : live' = Append(live, s) /\ retired' = retired \cup {live}
    BY <1>1, PointerGrows DEF RecordInv
  <2>2. Before(c, Append(live, s))
    BY <2>1
  <2>3. c = live \/ Before(c, live)
    BY <1>0, <2>2, Grown
  <2>4. Before(c, live) => c \in DOMAIN coll
    BY NoneReturns
  <2>5. Before(c, live) => c \in retired
    BY <1>0, <2>4 DEF RecordInv
  <2> QED
    BY <2>1, <2>3, <2>5
<1>2. ASSUME ~\E w \in Replicas : CopyFinish(w)
      PROVE  c \in retired'
  <2>1. live' = live
    BY <1>2, PointerMoves
  <2>2. c \in DOMAIN coll /\ Before(c, live)
    BY <2>1, NoneReturns
  <2>3. c \in retired
    BY <1>0, <2>2 DEF RecordInv
  <2>4. ASSUME NEW w \in Replicas, RetireForget(w)
        PROVE  c \in retired'
    <3>1. replica[w].pc = "forgetting" /\ retired' = retired \ {replica[w].from}
      BY <2>4 DEF RetireForget
    <3>2. replica[w].from \notin DOMAIN coll
      BY <1>0, <3>1 DEF RecordInv, Exists
    <3> QED
      BY <2>2, <2>3, <3>1, <3>2
  <2>5. ASSUME NEW w \in Replicas, NEW n \in retired, RetireDue(w, n)
        PROVE  c \in retired'
    <3>1. Before(n, live)
      BY <2>5 DEF RecordInv
    <3>2. First \in Vectors
      BY MigrationAssumption
    <3>3. n # live
      BY <1>0, <3>1, <3>2, Grown
    <3> QED
      BY <2>3, <2>5, <3>3 DEF RetireDue
  <2> QED
    BY <1>2, <2>3, <2>4, <2>5, RecordMoves
<1> QED
  BY <1>1, <1>2

(* Every step.                                                              *)
LEMMA RecordKeeps == TypeInv /\ RecordInv /\ [Next]_vars => RecordInv'
<1> SUFFICES ASSUME TypeInv, RecordInv, [Next]_vars PROVE RecordInv'
  OBVIOUS
<1>1. \A w \in Replicas : CopiesLive(w)'
  BY CopiesLiveKeep DEF RecordInv
<1>2. /\ \A c \in retired' : Before(c, live')
      /\ \A w \in Replicas : replica'[w].pc \in {"dropping", "forgetting"} => Before(replica'[w].from, live')
  BY PastKeeps DEF RecordInv
<1>3. ASSUME Clean'
      PROVE  /\ ~NotRebuilding' => \A l \in Layers : layer'[l].status # "running"
             /\ rebuild'.pc \in {"dropping", "creating", "requeueing"} => rebuild'.from = live'
             /\ \A w \in Replicas : replica'[w].pc = "forgetting" => replica'[w].from \notin DOMAIN coll'
             /\ \A c \in DOMAIN coll' : Before(c, live') => c \in retired'
  BY <1>3, NoneRuns, RebuildsLive, ForgottenGone, LeftOnRecord
<1>4. Clean' =>
        /\ ~NotRebuilding' => \A l \in Layers : layer'[l].status # "running"
        /\ rebuild'.pc \in {"dropping", "creating", "requeueing"} => rebuild'.from = live'
        /\ \A w \in Replicas : replica'[w].pc = "forgetting" => replica'[w].from \notin DOMAIN coll'
        /\ \A c \in DOMAIN coll' : Before(c, live') => c \in retired'
  BY <1>3
<1>5. (\A c \in retired : Before(c, live))'
  BY <1>2 DEF Before
<1>6. (\A w \in Replicas : replica[w].pc \in {"dropping", "forgetting"} => Before(replica[w].from, live))'
  BY <1>2 DEF Before
<1>7. (Clean =>
         /\ ~NotRebuilding => \A l \in Layers : layer[l].status # "running"
         /\ rebuild.pc \in {"dropping", "creating", "requeueing"} => rebuild.from = live
         /\ \A w \in Replicas : replica[w].pc = "forgetting" => ~Exists(replica[w].from)
         /\ \A c \in DOMAIN coll : Before(c, live) => c \in retired)'
  BY <1>4 DEF Before, Exists
<1> QED
  BY <1>1, <1>5, <1>6, <1>7 DEF RecordInv

(* The start.                                                               *)
LEMMA InitRecord == Init => RecordInv
<1> SUFFICES ASSUME Init PROVE RecordInv
  OBVIOUS
<1>1. \A w \in Replicas : replica[w].pc = "idle"
  BY IdleRow DEF Init
<1>2. retired = {} /\ NotRebuilding /\ live = <<>> /\ DOMAIN coll = {<<>>} /\ rebuild.pc = "idle"
  BY DEF Init, NoRebuild, NotRebuilding
<1>3. ~Before(<<>>, <<>>)
  BY DEF Before
<1> QED
  BY <1>1, <1>2, <1>3 DEF RecordInv, CopiesLive

----------------------------------------------------------------------------
(* A copy moves the pointer and retires the old name in one transaction,    *)
(* and a sweep forgets a name only after its collection is gone: a          *)
(* collection the pointer has left is never lost from the record while it   *)
(* exists, for any number of layers, models, replicas and migrations.       *)
THEOREM SupersededRecorded == Spec => []SupersededIsOnRecord
<1>1. Init => TypeInv /\ RecordInv
  BY InitTypes, InitRecord
<1>2. TypeInv /\ RecordInv /\ [Next]_vars => (TypeInv /\ RecordInv)'
  BY TypesKeep, RecordKeeps
<1>3. TypeInv /\ RecordInv => SupersededIsOnRecord
  BY DEF RecordInv, SupersededIsOnRecord, Clean, Before
<1> QED
  BY <1>1, <1>2, <1>3, PTL DEF Spec

----------------------------------------------------------------------------
(* The slots of the live collection.                                        *)

(* No two copies are asked for at once.                                     *)
LEMMA OneCopyKeeps ==
  ASSUME TypeInv, OneCopy, [Next]_vars, Clean'
  PROVE  OneCopy'
<1> SUFFICES ASSUME NEW k \in Layers, NEW l \in Layers, Copying(k)', Copying(l)', k # l
             PROVE  FALSE
  BY DEF OneCopy
<1>0. layer \in [Layers -> Layer]
  BY DEF TypeInv, TypeOK
<1>1. ASSUME NEW j \in Layers, Copying(j)'
      PROVE  Copying(j) \/ (StartWrite(j) /\ starting[j].phase = "copying")
  <2>1. SameRow(j) \/ Begun(j)
    BY <1>1, LayerAfter DEF Moved, Switched, Copying
  <2>2. SameRow(j) => Copying(j)
    BY <1>1 DEF SameRow, Copying
  <2>3. Begun(j) => StartWrite(j) /\ starting[j].phase = "copying"
    BY <1>1 DEF Begun, Copying
  <2> QED
    BY <2>1, <2>2, <2>3
<1>2. ASSUME NEW i \in Layers, NEW j \in Layers, i # j, StartWrite(i), starting[i].phase = "copying", Copying(j)'
      PROVE  FALSE
  <2>1. layer'[j] = layer[j]
    BY <1>0, <1>2 DEF StartWrite
  <2>2. Copying(j)
    BY <1>2, <2>1 DEF Copying
  <2> QED
    BY <1>2, <2>2 DEF StartWrite, Clean, AnyCopying
<1> QED
  BY <1>1, <1>2 DEF OneCopy

(* Two replicas hold no copies at once.                                     *)
LEMMA OneHolder ==
  ASSUME TypeInv, OneCopy, NEW v \in Replicas, NEW w \in Replicas, HoldsCopy(v), HoldsCopy(w),
         replica[v].layer \in Layers, replica[w].layer \in Layers
  PROVE  v = w
  BY DEF OneCopy, HoldsCopy

(* A sweep takes no collection but one the pointer has left.                *)
LEMMA SweptIsPast ==
  ASSUME TypeInv, RecordInv, NEW w \in Replicas, RetireDrop(w)
  PROVE  \A c \in Names : c = live \/ (\E s \in Vectors : c = Append(live, s)) =>
           /\ c \in DOMAIN coll => c \in DOMAIN coll'
           /\ c \in DOMAIN coll' => coll'[c] = coll[c]
<1>1. PICK n \in Names : n = replica[w].from
  BY ReplicaAt
<1>2. Before(n, live) /\ coll' = Without(n) /\ live \in Names
  BY <1>1, TypesAt DEF RetireDrop, RecordInv
<1>3. DOMAIN coll' = DOMAIN coll \ {n} /\ \A c \in DOMAIN coll' : coll'[c] = coll[c]
  BY <1>2, TakenAway
<1>4. First \in Vectors
  BY MigrationAssumption
<1>5. n # live
  BY <1>2, <1>4, Grown
<1>6. \A s \in Vectors : n # Append(live, s)
  BY <1>2, Grown
<1> QED
  BY <1>3, <1>5, <1>6

(* The live collection keeps its slots, and gets the one a copy adds.       *)
LEMMA SlotsStay ==
  ASSUME TypeInv, RecordInv, SlotInv, [Next]_vars, Clean', Exists(live), ~RebuildDrop
  PROVE  Exists(live)' /\ coll[live].slots \subseteq coll'[live'].slots
<1>0. Clean
  BY WrongStays
<1>1. ASSUME NEW w \in Replicas, CopyFinish(w)
      PROVE  Exists(live)' /\ coll[live].slots \subseteq coll'[live'].slots
  <2>1. live' = CopyName(w) /\ HoldsCopy(w) /\ replica[w].ready /\ replica[w].pc = "copying"
    BY <1>1, PointerGrows DEF RecordInv
  <2>2. CopyHasSlots(w)
    BY <1>0 DEF SlotInv
  <2>3. coll' = coll
    BY <1>1 DEF CopyFinish
  <2> QED
    BY <2>1, <2>2, <2>3 DEF CopyHasSlots, Exists
<1>2. ASSUME ~\E w \in Replicas : CopyFinish(w)
      PROVE  Exists(live)' /\ coll[live].slots \subseteq coll'[live'].slots
  <2>1. live' = live /\ live \in Names
    BY <1>2, PointerMoves, TypesAt
  <2>2. CASE SlotsKept
    BY <2>1, <2>2 DEF SlotsKept, Exists
  <2>3. CASE RebuildCreate
    BY <1>0, <2>3 DEF RebuildCreate, RecordInv
  <2>4. ASSUME NEW w \in Replicas, CopyCreate(w)
        PROVE  Exists(live)' /\ coll[live].slots \subseteq coll'[live'].slots
    <3>1. live \in DOMAIN coll' /\ coll'[live] = coll[live]
      BY <2>4, MadeHeld DEF RecordInv, Exists
    <3> QED
      BY <2>1, <3>1 DEF Exists
  <2>5. ASSUME NEW w \in Replicas, RetireDrop(w)
        PROVE  Exists(live)' /\ coll[live].slots \subseteq coll'[live'].slots
    <3>1. live \in DOMAIN coll' /\ coll'[live] = coll[live]
      BY <2>1, <2>5, SweptIsPast DEF Exists
    <3> QED
      BY <2>1, <3>1 DEF Exists
  <2> QED
    BY <2>2, <2>3, <2>4, <2>5, StoreTypes DEF StoreStep
<1> QED
  BY <1>1, <1>2

(* A slot the live collection has it goes on to have.                       *)
LEMMA SlotStays ==
  ASSUME TypeInv, RecordInv, SlotInv, [Next]_vars, Clean', NEW s, HasSlot(s), ~RebuildDrop
  PROVE  Exists(live)' /\ s \in coll'[live'].slots
  BY SlotsStay DEF HasSlot

(* The slot a copy was made for is there when the pointer moves.            *)
LEMMA NewSlotThere ==
  ASSUME TypeInv, RecordInv, SlotInv, Clean, NEW w \in Replicas, CopyFinish(w)
  PROVE  Exists(live)' /\ replica[w].slot \in coll'[live'].slots
<1>1. live' = CopyName(w) /\ HoldsCopy(w) /\ replica[w].ready /\ replica[w].pc = "copying"
  BY PointerGrows DEF RecordInv
<1>2. CopyHasSlots(w)
  BY DEF SlotInv
<1>3. coll' = coll
  BY DEF CopyFinish
<1> QED
  BY <1>1, <1>2, <1>3 DEF CopyHasSlots, Exists

(* A migration under way keeps a rebuild out.                               *)
LEMMA NoRebuildOver ==
  ASSUME Clean', Migrating
  PROVE  ~RebuildDrop /\ ~RebuildCreate
  BY DEF Clean, RebuildDrop, RebuildCreate, Step

(* Where a rebuild is after each of its steps.                              *)
LEMMA RebuildAfter ==
  ASSUME TypeInv
  PROVE  /\ RebuildRead => rebuild'.pc = "dropping"
         /\ RebuildDrop => rebuild'.pc = "creating"
         /\ RebuildCreate => rebuild'.pc = "requeueing"
         /\ RebuildRequeue => rebuild'.pc = "idle" /\ rebuild.pc = "requeueing"
         /\ RebuildDies => rebuild'.pc = "died"
<1>0. rebuild \in [pc : {"idle", "dropping", "creating", "requeueing", "died"}, from : Names, slots : SUBSET Vectors, runs : Nat]
  BY DEF TypeInv, TypeOK
<1>1. RebuildRead => rebuild'.pc = "dropping"
  BY DEF RebuildRead
<1>2. RebuildDrop => rebuild'.pc = "creating"
  BY <1>0 DEF RebuildDrop, Step
<1>3. RebuildCreate => rebuild'.pc = "requeueing"
  BY <1>0 DEF RebuildCreate, Step
<1>4. RebuildRequeue => rebuild'.pc = "idle" /\ rebuild.pc = "requeueing"
  BY DEF RebuildRequeue, NoRebuild
<1>5. RebuildDies => rebuild'.pc = "died"
  BY DEF RebuildDies, NoRebuild
<1> QED
  BY <1>1, <1>2, <1>3, <1>4, <1>5

(* The slots of the layers.                                                 *)
LEMMA SearchKeeps ==
  ASSUME TypeInv, RecordInv, SlotInv, [Next]_vars, Clean', NotRebuilding'
  PROVE  Exists(live)' /\ \A l \in Layers : SearchSlots(l)'
<1>0. Clean
  BY WrongStays
<1>1. CASE ~NotRebuilding
  <2>1. RebuildRequeue
    BY <1>1, OperatorMoves, RebuildAfter DEF NotRebuilding, RebuildStep
  <2>2. coll' = coll /\ live' = live /\ layer' = layer /\ rebuild.pc = "requeueing"
    BY <2>1 DEF RebuildRequeue
  <2>3. Exists(live) /\ coll[live].slots = rebuild.slots /\ \A l \in Layers : layer[l].exists => layer[l].vector \in rebuild.slots
    BY <1>0, <2>2 DEF SlotInv, Rebuilt, RebuildSlots
  <2>4. \A l \in Layers : layer[l].status # "running"
    BY <1>0, <1>1 DEF RecordInv
  <2>5. \A l \in Layers : l \notin Created \/ layer[l].status = "complete" => layer[l].exists
    BY TypesAt DEF RunsInto
  <2> QED
    BY <2>2, <2>3, <2>4, <2>5 DEF SearchSlots, HasSlot, Embedding, Exists
<1>2. CASE NotRebuilding
  <2>1. Exists(live) /\ ~RebuildDrop /\ \A l \in Layers : SearchSlots(l)
    BY <1>0, <1>2 DEF SlotInv, NotRebuilding, RebuildDrop
  <2>2. Exists(live)' /\ coll[live].slots \subseteq coll'[live'].slots
    BY <2>1, SlotsStay
  <2>3. ASSUME NEW l \in Layers
        PROVE  SearchSlots(l)'
    <3>0. l \notin Created \/ layer[l].status = "complete" => layer[l].vector \in coll'[live'].slots
      BY <2>1, <2>2 DEF SearchSlots, HasSlot
    <3>1. CASE SameRow(l)
      <4>1. Embedding(l)' => Embedding(l) /\ layer'[l].shadow = layer[l].shadow
        BY <3>1 DEF SameRow, Embedding
      <4>2. Embedding(l)' => layer'[l].shadow \in coll'[live'].slots
        BY <2>1, <2>2, <4>1 DEF SearchSlots, HasSlot
      <4> QED
        BY <2>2, <3>0, <3>1, <4>2 DEF SameRow, SearchSlots, HasSlot
    <3>2. ASSUME Moved(l), NEW w \in Replicas, CopyFinish(w)
          PROVE  SearchSlots(l)'
      <4>1. OneCopy
        BY <1>0 DEF SlotInv
      <4>2. replica[w].layer \in Layers /\ Copying(replica[w].layer) /\ replica[w].slot = layer[replica[w].layer].shadow
        BY <3>2, PointerGrows DEF RecordInv
      <4>3. replica[w].layer = l
        BY <3>2, <4>1, <4>2 DEF Moved, OneCopy
      <4>4. layer[l].shadow \in coll'[live'].slots
        BY <1>0, <3>2, <4>2, <4>3, NewSlotThere
      <4> QED
        BY <2>2, <3>0, <3>2, <4>4 DEF Moved, SearchSlots, HasSlot
    <3>3. CASE Switched(l)
      <4>1. PICK w \in Replicas : Fills(w) /\ layer'[l].status = "complete" /\ layer'[l].vector = replica[w].slot
        BY <3>3 DEF Switched
      <4>2. HasSlot(replica[w].slot)
        BY <1>0, <4>1 DEF SlotInv, FillSlot
      <4> QED
        BY <2>2, <4>1, <4>2 DEF SearchSlots, HasSlot, Embedding
    <3>4. CASE Begun(l)
      <4>1. starting[l] # None
        BY <3>4 DEF Begun, StartWrite
      <4>2. l \notin Created => layer'[l].vector = layer[l].vector
        BY <3>4, TypesAt DEF Begun, RunsInto
      <4>3. layer'[l].status # "complete"
        BY <3>4 DEF Begun
      <4>4. Embedding(l)' => starting[l].phase = "embedding" /\ layer'[l].shadow = starting[l].slot
        BY <3>4 DEF Begun, Embedding
      <4>5. Embedding(l)' => HasSlot(starting[l].slot)
        BY <1>0, <4>1, <4>4 DEF SlotInv, StartSlot
      <4> QED
        BY <2>2, <3>0, <4>2, <4>3, <4>4, <4>5 DEF SearchSlots, HasSlot
    <3> QED
      BY <3>1, <3>2, <3>3, <3>4, LayerAfter
  <2> QED
    BY <2>2, <2>3
<1> QED
  BY <1>1, <1>2

(* A start that asks for no copy has its slot.                              *)
LEMMA StartKeeps ==
  ASSUME TypeInv, RecordInv, SlotInv, [Next]_vars, Clean', NEW l \in Layers
  PROVE  StartSlot(l)'
<1>0. Clean
  BY WrongStays
<1>t. starting \in [Layers -> [slot : Vectors, phase : {"none", "copying", "embedding"}] \cup {None}]
  BY DEF TypeInv, TypeOK
<1>1. CASE starting'[l] = starting[l]
  <2>1. CASE starting[l] # None /\ starting[l].phase = "embedding"
    <3>1. HasSlot(starting[l].slot) /\ Migrating
      BY <1>0, <2>1 DEF SlotInv, StartSlot, Migrating
    <3>2. Exists(live)' /\ starting[l].slot \in coll'[live'].slots
      BY <3>1, NoRebuildOver, SlotStays
    <3> QED
      BY <1>1, <3>2 DEF StartSlot, HasSlot
  <2> QED
    BY <1>1, <2>1 DEF StartSlot
<1>2. ASSUME NEW k \in Layers, NEW v \in Vectors, StartRead(k, v) \/ CreateRead(k, v), k = l
      PROVE  StartSlot(l)'
  <2>1. PICK ph : /\ starting' = [starting EXCEPT ![l] = [slot |-> v, phase |-> ph]]
                  /\ ph = "embedding" => v \in coll[live].slots
    BY <1>2 DEF StartRead, CreateRead
  <2>2. Exists(live) /\ coll' = coll /\ live' = live
    BY <1>2 DEF StartRead, CreateRead
  <2>3. starting'[l].slot = v /\ starting'[l].phase = ph
    BY <1>t, <2>1
  <2> QED
    BY <2>1, <2>2, <2>3 DEF StartSlot, HasSlot, Exists
<1>3. ASSUME NEW k \in Layers, StartWrite(k), k = l
      PROVE  StartSlot(l)'
  <2>1. starting'[l] = None
    BY <1>t, <1>3 DEF StartWrite
  <2> QED
    BY <2>1 DEF StartSlot
<1>4. starting'[l] = starting[l] \/ StartWrite(l) \/ \E v \in Vectors : StartRead(l, v) \/ CreateRead(l, v)
  <2>1. ASSUME NEW k \in Layers, k # l, StartWrite(k) \/ \E v \in Vectors : StartRead(k, v) \/ CreateRead(k, v)
        PROVE  starting'[l] = starting[l]
    BY <1>t, <2>1 DEF StartWrite, StartRead, CreateRead
  <2> QED
    BY <2>1, OperatorMoves DEF StartStep
<1> QED
  BY <1>1, <1>2, <1>3, <1>4

(* What fills a slot fills one the live collection has.                     *)
LEMMA FillKeeps ==
  ASSUME TypeInv, RecordInv, SlotInv, [Next]_vars, Clean', NEW v \in Replicas
  PROVE  FillSlot(v)'
<1>0. Clean
  BY WrongStays
<1> SUFFICES ASSUME Fills(v)' PROVE HasSlot(replica[v].slot)'
  BY DEF FillSlot
<1>1. CASE Fills(v) /\ replica'[v].slot = replica[v].slot
  <2>1. HasSlot(replica[v].slot) /\ Migrating
    BY <1>0, <1>1 DEF SlotInv, FillSlot, Migrating, Fills
  <2>2. Exists(live)' /\ replica[v].slot \in coll'[live'].slots
    BY <2>1, NoRebuildOver, SlotStays
  <2> QED
    BY <1>1, <2>2 DEF HasSlot
<1>2. ASSUME NEW l \in Layers, Embedding(l), replica'[v].slot = layer[l].shadow
      PROVE  HasSlot(replica[v].slot)'
  <2>1. NotRebuilding /\ Migrating
    BY <1>0, <1>2 DEF RecordInv, Embedding, Migrating
  <2>2. HasSlot(layer[l].shadow)
    BY <1>0, <1>2, <2>1 DEF SlotInv, SearchSlots
  <2>3. Exists(live)' /\ layer[l].shadow \in coll'[live'].slots
    BY <2>1, <2>2, NoRebuildOver, SlotStays
  <2> QED
    BY <1>2, <2>3 DEF HasSlot
<1> QED
  BY <1>1, <1>2, WorkAfter

(* A copy has what it was made with.                                        *)
LEMMA CopyKeeps ==
  ASSUME TypeInv, RecordInv, SlotInv, [Next]_vars, Clean', NEW v \in Replicas
  PROVE  CopyHasSlots(v)'
<1>0. Clean
  BY WrongStays
<1> SUFFICES ASSUME replica'[v].pc = "copying", replica'[v].ready, HoldsCopy(v)'
             PROVE  /\ Exists(live)' /\ Exists(CopyName(v))'
                    /\ (coll[live].slots \cup {replica[v].slot} \subseteq coll[CopyName(v)].slots)'
  BY DEF CopyHasSlots
<1>1. /\ live' = live /\ replica[v].pc = "copying" /\ HoldsCopy(v)
      /\ replica'[v].from = replica[v].from /\ replica'[v].slot = replica[v].slot
      /\ replica'[v].ready = replica[v].ready \/ CopyCreate(v)
  BY HeldBefore
<1>2. CopyName(v)' = CopyName(v)
  BY <1>1 DEF CopyName
<1>3. PICK c, s : c = CopyName(v) /\ s = replica[v].slot
  OBVIOUS
<1>4. s \in Vectors /\ replica[v].from = live /\ c = Append(live, s) /\ replica[v].layer \in Layers /\ c \in Names /\ live \in Names
  <2>1. replica[v].from = live
    BY <1>1 DEF RecordInv, CopiesLive
  <2> QED
    BY <1>1, <1>3, <2>1, CopyNamed, TypesAt DEF CopyName
<1>5. c # live
  BY <1>4, Grown
<1>6. SUFFICES live \in DOMAIN coll' /\ c \in DOMAIN coll' /\ coll'[live].slots \cup {s} \subseteq coll'[c].slots
  BY <1>1, <1>2, <1>3 DEF Exists
<1>7. CASE CopyCreate(v)
  BY <1>3, <1>5, <1>7, MadeHeld DEF RecordInv, Exists
<1>8. CASE replica[v].ready /\ ~CopyCreate(v)
  <2>1. live \in DOMAIN coll /\ c \in DOMAIN coll /\ coll[live].slots \cup {s} \subseteq coll[c].slots
    BY <1>0, <1>1, <1>3, <1>8 DEF SlotInv, CopyHasSlots, Exists
  <2>2. CASE SlotsKept
    BY <2>1, <2>2 DEF SlotsKept
  <2>3. ASSUME NEW w \in Replicas, CopyCreate(w)
        PROVE  FALSE
    BY <1>0, <1>1, <1>4, <1>8, <2>3, MadeHeld, OneHolder DEF RecordInv, SlotInv
  <2>4. ASSUME NEW w \in Replicas, RetireDrop(w)
        PROVE  live \in DOMAIN coll' /\ c \in DOMAIN coll' /\ coll'[live] = coll[live] /\ coll'[c] = coll[c]
    BY <1>4, <2>1, <2>4, SweptIsPast
  <2>5. ~RebuildDrop /\ ~RebuildCreate
    <3>1. Migrating
      BY <1>1 DEF Migrating
    <3> QED
      BY <3>1, NoRebuildOver
  <2> QED
    BY <2>1, <2>2, <2>3, <2>4, <2>5, StoreTypes DEF StoreStep
<1> QED
  BY <1>1, <1>7, <1>8

(* A rebuild has read the slots of the layers there are.                    *)
LEMMA RebuildKeeps ==
  ASSUME TypeInv, RecordInv, SlotInv, [Next]_vars, Clean'
  PROVE  RebuildSlots'
<1>0. Clean
  BY WrongStays
<1>t. rebuild \in [pc : {"idle", "dropping", "creating", "requeueing", "died"}, from : Names, slots : SUBSET Vectors, runs : Nat]
  BY DEF TypeInv, TypeOK
<1> SUFFICES ASSUME rebuild'.pc \in {"dropping", "creating", "requeueing"}, NEW l \in Layers, layer'[l].exists
             PROVE  layer'[l].vector \in rebuild'.slots
  BY DEF RebuildSlots
<1>1. CASE RebuildRead
  BY <1>1 DEF RebuildRead
<1>2. CASE ~RebuildRead
  <2>1. rebuild' = rebuild \/ RebuildDrop \/ RebuildCreate
    BY <1>2, OperatorMoves, RebuildAfter DEF RebuildStep
  <2>2. rebuild'.slots = rebuild.slots /\ rebuild.pc \in {"dropping", "creating", "requeueing"}
    BY <1>t, <2>1 DEF RebuildDrop, RebuildCreate, Step
  <2>3. SameRow(l)
    BY <2>2, NoneRuns DEF NotRebuilding
  <2> QED
    BY <1>0, <2>2, <2>3 DEF SlotInv, RebuildSlots, SameRow
<1> QED
  BY <1>1, <1>2

(* A collection made anew has the slots that were read.                     *)
LEMMA RebuiltKeeps ==
  ASSUME TypeInv, RecordInv, SlotInv, [Next]_vars, Clean'
  PROVE  Rebuilt'
<1>0. Clean
  BY WrongStays
<1>t. rebuild \in [pc : {"idle", "dropping", "creating", "requeueing", "died"}, from : Names, slots : SUBSET Vectors, runs : Nat]
  BY DEF TypeInv, TypeOK
<1> SUFFICES ASSUME rebuild'.pc = "requeueing"
             PROVE  Exists(live)' /\ coll'[live'].slots = rebuild'.slots
  BY DEF Rebuilt
<1>1. live' = live
  BY NoneRuns DEF NotRebuilding
<1>2. rebuild' = rebuild \/ RebuildCreate
  BY OperatorMoves, RebuildAfter DEF RebuildStep
<1>3. CASE RebuildCreate
  <2>1. rebuild.from = live /\ rebuild'.slots = rebuild.slots
    BY <1>0, <1>3, <1>t DEF RecordInv, RebuildCreate, Step
  <2> QED
    BY <1>1, <1>3, <2>1, MadeAnew DEF Exists
<1>4. CASE rebuild' = rebuild /\ ~RebuildCreate
  <2>1. live \in DOMAIN coll /\ coll[live].slots = rebuild.slots /\ live \in Names /\ \A l \in Layers : ~Copying(l)
    BY <1>0, <1>4, TypesAt DEF SlotInv, Rebuilt, Exists, RecordInv, NotRebuilding, Copying
  <2>2. CASE SlotsKept
    BY <1>1, <1>4, <2>1, <2>2 DEF SlotsKept, Exists
  <2>3. ASSUME NEW w \in Replicas, CopyCreate(w)
        PROVE  FALSE
    BY <2>1, <2>3, MadeHeld DEF RecordInv, HoldsCopy
  <2>4. ASSUME NEW w \in Replicas, RetireDrop(w)
        PROVE  live \in DOMAIN coll' /\ coll'[live] = coll[live]
    BY <2>1, <2>4, SweptIsPast
  <2>5. ~RebuildDrop
    BY <1>4 DEF RebuildDrop
  <2> QED
    BY <1>1, <1>4, <2>1, <2>2, <2>3, <2>4, <2>5, StoreTypes DEF StoreStep, Exists
<1> QED
  BY <1>2, <1>3, <1>4

(* Every step.                                                              *)
LEMMA SlotsKeep == TypeInv /\ RecordInv /\ SlotInv /\ [Next]_vars => SlotInv'
<1> SUFFICES ASSUME TypeInv, RecordInv, SlotInv, [Next]_vars, Clean'
             PROVE  /\ OneCopy' /\ (NotRebuilding' => Exists(live)' /\ \A l \in Layers : SearchSlots(l)')
                    /\ (\A l \in Layers : StartSlot(l)') /\ (\A w \in Replicas : FillSlot(w)' /\ CopyHasSlots(w)')
                    /\ RebuildSlots' /\ Rebuilt'
  BY DEF SlotInv
<1>1. OneCopy
  BY WrongStays DEF SlotInv
<1> QED
  BY <1>1, OneCopyKeeps, SearchKeeps, StartKeeps, FillKeeps, CopyKeeps, RebuildKeeps, RebuiltKeeps

(* The start.                                                               *)
LEMMA InitSlots == Init => SlotInv
<1> SUFFICES ASSUME Init PROVE SlotInv
  OBVIOUS
<1>1. \A w \in Replicas : replica[w].pc = "idle"
  BY IdleRow DEF Init
<1>2. NotRebuilding /\ live = <<>> /\ DOMAIN coll = {<<>>} /\ rebuild.pc = "idle" /\ \A l \in Layers : starting[l] = None
  BY DEF Init, NoRebuild, NotRebuilding
<1>3. coll[<<>>].slots = {First}
  BY DEF Init
<1>4. \A l \in Layers : layer[l].status = "none" /\ layer[l].vector = First
  BY DEF Init, NewLayer
<1>5. OneCopy /\ \A l \in Layers : SearchSlots(l)
  BY <1>2, <1>3, <1>4 DEF OneCopy, Copying, SearchSlots, Embedding, HasSlot, Exists
<1>6. \A w \in Replicas : FillSlot(w) /\ CopyHasSlots(w)
  BY <1>1 DEF FillSlot, CopyHasSlots, Fills
<1> QED
  BY <1>2, <1>5, <1>6 DEF SlotInv, StartSlot, RebuildSlots, Rebuilt, Exists

----------------------------------------------------------------------------
(* Whatever is copied, embedded, switched, swept and rebuilt, the live      *)
(* collection exists and has the slot every layer is searched by and the    *)
(* slot every layer is being embedded into: a finished copy, a switch and a *)
(* start only ever turn to a slot that is there.                            *)
THEOREM LiveCollectionHasSlots == Spec => []LiveHasSlots
<1>1. Init => TypeInv /\ RecordInv /\ SlotInv
  BY InitTypes, InitRecord, InitSlots
<1>2. TypeInv /\ RecordInv /\ SlotInv /\ [Next]_vars => (TypeInv /\ RecordInv /\ SlotInv)'
  BY TypesKeep, RecordKeeps, SlotsKeep
<1>3. SlotInv => LiveHasSlots
  BY DEF SlotInv, LiveHasSlots, Clean, SearchSlots, HasSlot
<1> QED
  BY <1>1, <1>2, <1>3, PTL DEF Spec

----------------------------------------------------------------------------
(* What a step does to the row of a document.                               *)

Kept(d) == doc'[d] = doc[d] /\ drift'[d] = drift[d]

(* The row waits for a pass, or is taken by one.                            *)
Pended(d) ==
  /\ doc'[d].status # "indexed" /\ doc'[d].chunks = doc[d].chunks
  /\ doc'[d].deleted = doc[d].deleted /\ doc'[d].purged = doc[d].purged /\ drift'[d] = drift[d]
  /\ Unlocked(d) \/ \E w \in Replicas : IngestFail(w) /\ replica[w].pc = "written" /\ replica[w].doc = d

(* A document is accepted again: with other content, deleted or not, or     *)
(* with the same.                                                           *)
Sent(d) ==
  /\ Send(d) /\ Unlocked(d)
  /\ doc'[d].status # "indexed" /\ doc'[d].chunks = doc[d].chunks
  /\ doc'[d].deleted = None /\ doc'[d].purged = None /\ drift'[d] = drift[d]

Redated(d) ==
  /\ Unlocked(d) /\ ~Deleted(d)
  /\ doc'[d].status = doc[d].status /\ doc'[d].chunks = doc[d].chunks /\ doc'[d].reindexed = doc[d].reindexed
  /\ doc'[d].deleted = doc[d].deleted /\ doc'[d].purged = doc[d].purged
  /\ coll' = coll /\ layer' = layer /\ live' = live /\ replica' = replica /\ clock' = clock
  /\ ~drift'[d] => ~drift[d] /\ doc'[d].updated = clock

(* A pass writes points and so makes good what was amiss.                   *)
Rewritten(w, d) ==
  /\ IngestWrite(w) /\ replica[w].doc = d
  /\ doc'[d] = doc[d] /\ doc[d].status = "parsing" /\ ~Deleted(d)

(* A collector removes the points of a document that was sent again.        *)
Lost(w, d) ==
  /\ CollectPurge(w) /\ replica[w].doc = d /\ doc'[d] = doc[d] /\ ~Deleted(d) /\ drift'[d]

Committed(w, d) ==
  /\ IngestCommit(w) /\ replica[w].doc = d
  /\ doc'[d].status = "indexed" /\ doc'[d].chunks = replica[w].id /\ doc'[d].updated = replica[w].began
  /\ doc'[d].reindexed = None /\ doc'[d].deleted = doc[d].deleted /\ doc'[d].purged = doc[d].purged
  /\ ~drift'[d] => /\ ~drift[d] /\ replica[w].from = live /\ replica[w].slot = layer[replica[w].layer].vector
                   /\ ~(replica[w].began < clock)

Marked(w, d) ==
  /\ EmbedMark(w) /\ replica[w].doc = d /\ Unlocked(d)
  /\ doc'[d].status = doc[d].status /\ doc'[d].chunks = doc[d].chunks /\ doc'[d].updated = doc[d].updated
  /\ doc'[d].reindexed = replica[w].slot /\ doc'[d].deleted = doc[d].deleted /\ doc'[d].purged = doc[d].purged
  /\ ~drift'[d] => /\ ~drift[d] /\ doc[d].chunks = replica[w].id /\ replica[w].from = live /\ ~AnyCopying
                   /\ replica[w].began = layer[replica[w].layer].since

Hid(d) ==
  /\ DeleteCommit /\ deleting.doc = d
  /\ doc'[d].status = doc[d].status /\ doc'[d].chunks = doc[d].chunks /\ doc'[d].deleted = deleting.began
  /\ doc'[d].purged = doc[d].purged
  /\ ~drift'[d] => deleting.from = live /\ ~(deleting.began < clock)

PurgeMarked(w, d) ==
  /\ CollectMark(w) /\ replica[w].doc = d /\ Unlocked(d) /\ Deleted(d)
  /\ doc'[d].status = doc[d].status /\ doc'[d].chunks = doc[d].chunks /\ doc'[d].deleted = doc[d].deleted
  /\ doc'[d].purged = clock
  /\ ~drift'[d] => replica[w].from = live /\ ~resent[w]

(* The repair found that the copy may have brought the points back.         *)
Reborn(w, d) ==
  /\ Repair(w) /\ d \in Revived(replica[w].began) /\ Unlocked(d)
  /\ doc'[d].status = doc[d].status /\ doc'[d].chunks = doc[d].chunks /\ doc'[d].deleted = doc[d].deleted
  /\ doc'[d].purged = None /\ drift'[d] = drift[d]

Retombed(w, d) ==
  /\ doc'[d] = doc[d]
  /\ \E ok \in BOOLEAN : ReTombstone(w, d, ok) /\ (~drift'[d] => ~drift[d] /\ ok /\ Deleted(d))

(* The steps that write rows.                                               *)
LEMMA RowMoves ==
  ASSUME [Next]_vars
  PROVE  \/ doc' = doc /\ drift' = drift
         \/ (\E d \in Docs : Send(d) \/ Reap(d) \/ \E began \in Clock : SendUnchanged(d, began))
         \/ DeleteCommit \/ RebuildRequeue
         \/ \E w \in Replicas :
              \/ \E d \in Docs : IngestClaim(w, d)
              \/ IngestWrite(w) \/ IngestCommit(w) \/ IngestFail(w) \/ Repair(w) \/ EmbedMark(w)
              \/ CollectPurge(w) \/ CollectMark(w)
              \/ \E d \in Docs, ok \in BOOLEAN : ReTombstone(w, d, ok)
<1>1. ASSUME NEW w \in Replicas, Ingest(w) \/ Collect(w) \/ Crash(w)
      PROVE  \/ (doc' = doc /\ drift' = drift) \/ (\E d \in Docs : IngestClaim(w, d))
             \/ IngestWrite(w) \/ IngestCommit(w) \/ IngestFail(w) \/ CollectPurge(w) \/ CollectMark(w)
  BY <1>1, Zenon DEF Ingest, Collect, CollectClaim, CollectSkip, Crash, marks
<1>2. ASSUME NEW w \in Replicas, Copy(w)
      PROVE  (doc' = doc /\ drift' = drift) \/ Repair(w) \/ \E d \in Docs, ok \in BOOLEAN : ReTombstone(w, d, ok)
  BY <1>2, Zenon DEF Copy, CopyClaim, CopyCreate, CopyFinish, CopyAbandon, CopyThrow, CopyPage, marks
<1>3. ASSUME NEW w \in Replicas, Embed(w) \/ Recall(w)
      PROVE  (doc' = doc /\ drift' = drift) \/ EmbedMark(w)
  BY <1>3, Zenon DEF Embed, EmbedClaim, EmbedAdd, EmbedCompare, EmbedFail, RecordPass, Switch, PendingSwitch,
                     Recall, RecallBegin, RecallRecord, RecallFail, marks
<1>4. ASSUME NEW w \in Replicas, Retire(w)
      PROVE  doc' = doc /\ drift' = drift
  BY <1>4, Zenon DEF Retire, RetireDue, ReclaimDue, RetireDrop, RetireForget, ReclaimDrop, ReclaimForget, marks
<1>5. ASSUME Request
      PROVE  \/ (doc' = doc /\ drift' = drift) \/ DeleteCommit \/ RebuildRequeue
             \/ \E d \in Docs : Send(d) \/ \E began \in Clock : SendUnchanged(d, began)
  BY <1>5, Zenon DEF Request, Delete, RebuildRead, RebuildDrop, RebuildCreate, RebuildDies, SetReferences, StartWrite,
              StartRead, CreateRead, marks
<1>6. CASE UNCHANGED vars
  BY <1>6 DEF vars
<1> QED
  BY <1>1, <1>2, <1>3, <1>4, <1>5, <1>6 DEF Next

(* Every step.                                                              *)
LEMMA RowAfter ==
  ASSUME TypeInv, [Next]_vars, NEW d \in Docs
  PROVE  \/ Kept(d) \/ Pended(d) \/ Hid(d) \/ Sent(d) \/ Redated(d)
         \/ \E w \in Replicas : \/ Committed(w, d) \/ Marked(w, d) \/ PurgeMarked(w, d) \/ Reborn(w, d)
                               \/ Retombed(w, d) \/ Rewritten(w, d) \/ Lost(w, d)
<1>0. /\ doc \in [Docs -> Doc] /\ drift \in [Docs -> BOOLEAN] /\ clock \in Clock /\ Clock \subseteq Nat
      /\ lock \in [Docs -> Replicas \cup {"delete", None}]
  BY TypesAt DEF TypeInv, TypeOK
<1>b. PICK b \in Doc : b = doc[d]
  BY <1>0
<1>1. ASSUME NEW e \in Docs, NEW q, doc' = [doc EXCEPT ![e] = q], drift' = drift, e = d =>
                /\ q.status # "indexed" /\ q.chunks = b.chunks /\ q.deleted = b.deleted /\ q.purged = b.purged
                /\ Unlocked(d) \/ \E w \in Replicas : IngestFail(w) /\ replica[w].pc = "written" /\ replica[w].doc = d
      PROVE  Kept(d) \/ Pended(d)
  <2>1. CASE e = d
    <3>1. doc'[d] = q
      BY <1>0, <1>1, <2>1
    <3> QED
      BY <1>1, <1>b, <2>1, <3>1 DEF Pended
  <2>2. CASE e # d
    BY <1>0, <1>1, <2>2 DEF Kept
  <2> QED
    BY <2>1, <2>2
<1>2. ASSUME NEW e \in Docs, Reap(e)
      PROVE  Kept(d) \/ Pended(d)
  <2>1. PICK q : q = [doc[e] EXCEPT !.status = "pending", !.claim = None, !.updated = clock]
    OBVIOUS
  <2>2. q.status = "pending" /\ q.chunks = doc[e].chunks /\ q.deleted = doc[e].deleted /\ q.purged = doc[e].purged
    BY <1>0, <2>1 DEF Doc
  <2>3. doc' = [doc EXCEPT ![e] = q] /\ drift' = drift /\ Unlocked(e)
    BY <1>2, <2>1 DEF Reap, marks
  <2> QED
    BY <1>1, <1>b, <2>2, <2>3
<1>c. ASSUME NEW e \in Docs, Send(e)
      PROVE  Kept(d) \/ Sent(d)
  <2>1. PICK q : q = [doc[e] EXCEPT !.status = "pending", !.claim = None, !.updated = clock, !.deleted = None,
                                    !.purged = None]
    OBVIOUS
  <2>2. q.status = "pending" /\ q.chunks = doc[e].chunks /\ q.deleted = None /\ q.purged = None
    BY <1>0, <2>1 DEF Doc
  <2>3. doc' = [doc EXCEPT ![e] = q] /\ drift' = drift /\ Unlocked(e)
    BY <1>c, <2>1 DEF Send
  <2>4. CASE e = d
    <3>1. doc'[d] = q
      BY <1>0, <2>3, <2>4
    <3> QED
      BY <1>c, <2>2, <2>3, <2>4, <3>1 DEF Sent
  <2>5. CASE e # d
    BY <1>0, <2>3, <2>5 DEF Kept
  <2> QED
    BY <2>4, <2>5
<1>d. ASSUME NEW e \in Docs, NEW t \in Clock, SendUnchanged(e, t)
      PROVE  Kept(d) \/ Redated(d)
  <2>1. /\ doc' = [doc EXCEPT ![e].updated = t] /\ drift' = [drift EXCEPT ![e] = @ \/ t < clock] /\ t <= clock
        /\ Unlocked(e) /\ ~Deleted(e)
        /\ coll' = coll /\ layer' = layer /\ live' = live /\ replica' = replica /\ clock' = clock
    BY <1>d DEF SendUnchanged
  <2>2. CASE e = d
    <3>1. PICK q : q = [b EXCEPT !.updated = t]
      OBVIOUS
    <3>2. /\ q.status = b.status /\ q.chunks = b.chunks /\ q.reindexed = b.reindexed /\ q.deleted = b.deleted
          /\ q.purged = b.purged /\ q.updated = t
      BY <3>1 DEF Doc
    <3>3. doc'[d] = q
      BY <1>0, <1>b, <2>1, <2>2, <3>1
    <3>4. drift'[d] = (drift[d] \/ t < clock)
      BY <1>0, <2>1, <2>2, Zenon
    <3>5. ~drift'[d] => ~drift[d] /\ t = clock
      <4>1. ~drift'[d] => ~drift[d] /\ ~(t < clock)
        BY <3>4, Zenon
      <4>2. ~(t < clock) => t = clock
        BY <1>0, <2>1
      <4> QED
        BY <4>1, <4>2, Zenon
    <3> QED
      BY <1>b, <2>1, <2>2, <3>2, <3>3, <3>5 DEF Redated
  <2>3. CASE e # d
    BY <1>0, <2>1, <2>3 DEF Kept
  <2> QED
    BY <2>2, <2>3
<1>e. ASSUME NEW w \in Replicas, IngestWrite(w)
      PROVE  Kept(d) \/ Rewritten(w, d)
  <2>1. /\ doc' = doc /\ drift' = [drift EXCEPT ![replica[w].doc] = FALSE]
        /\ doc[replica[w].doc].status = "parsing" /\ ~Deleted(replica[w].doc)
    BY <1>e DEF IngestWrite
  <2> QED
    BY <1>0, <1>e, <2>1 DEF Kept, Rewritten
<1>f. ASSUME NEW w \in Replicas, CollectPurge(w)
      PROVE  Kept(d) \/ Lost(w, d)
  <2>1. doc' = doc /\ drift' = [drift EXCEPT ![replica[w].doc] = @ \/ ~Deleted(replica[w].doc)]
    BY <1>f DEF CollectPurge
  <2>2. CASE replica[w].doc = d
    <3>1. drift'[d] = (drift[d] \/ ~Deleted(d))
      BY <1>0, <2>1, <2>2, Zenon
    <3>2. drift[d] \in BOOLEAN
      BY <1>0
    <3>3. CASE Deleted(d)
      <4>1. drift[d] = TRUE \/ drift[d] = FALSE
        BY <3>2
      <4>2. CASE drift[d] = TRUE
        <5>1. drift'[d] = TRUE
          BY <3>1, <4>2
        <5> QED
          BY <2>1, <4>2, <5>1 DEF Kept
      <4>3. CASE drift[d] = FALSE
        <5>1. drift'[d] = FALSE
          BY <3>1, <3>3, <4>3
        <5> QED
          BY <2>1, <4>3, <5>1 DEF Kept
      <4> QED
        BY <4>1, <4>2, <4>3
    <3>4. CASE ~Deleted(d)
      BY <1>f, <2>1, <2>2, <3>1, <3>4 DEF Lost
    <3> QED
      BY <3>3, <3>4
  <2>3. CASE replica[w].doc # d
    BY <1>0, <2>1, <2>3 DEF Kept
  <2> QED
    BY <2>2, <2>3
<1>3. CASE DeleteCommit
  <2>1. PICK e, t : e = deleting.doc /\ t = deleting.began
    OBVIOUS
  <2>2. doc' = [doc EXCEPT ![e].deleted = t] /\ drift' = [drift EXCEPT ![e] = deleting.from # live \/ deleting.began < clock]
    BY <1>3, <2>1 DEF DeleteCommit
  <2>3. CASE e = d
    <3>1. PICK q : q = [b EXCEPT !.deleted = t]
      OBVIOUS
    <3>2. q.status = b.status /\ q.chunks = b.chunks /\ q.purged = b.purged /\ q.deleted = t
      BY <3>1 DEF Doc
    <3>3. doc'[d] = q
      BY <1>0, <1>b, <2>2, <2>3, <3>1
    <3>4. drift'[d] = (deleting.from # live \/ deleting.began < clock)
      BY <1>0, <2>2, <2>3
    <3> QED
      BY <1>3, <1>b, <2>1, <2>3, <3>2, <3>3, <3>4 DEF Hid
  <2>4. CASE e # d
    BY <1>0, <2>2, <2>4 DEF Kept
  <2> QED
    BY <2>3, <2>4
<1>4. CASE RebuildRequeue
  <2>1. /\ doc' = [e \in Docs |-> IF Deleted(e) THEN doc[e] ELSE Restored(doc[e])] /\ drift' = drift
        /\ Deleted(d) \/ Unlocked(d)
    BY <1>4 DEF RebuildRequeue
  <2>2. CASE Deleted(d)
    BY <2>1, <2>2 DEF Kept
  <2>3. CASE ~Deleted(d)
    <3>1. PICK q : q = [b EXCEPT !.status = "pending", !.claim = None, !.reindexed = None]
      OBVIOUS
    <3>2. q.status = "pending" /\ q.chunks = b.chunks /\ q.deleted = b.deleted /\ q.purged = b.purged
      BY <3>1 DEF Doc
    <3>3. doc'[d] = q
      BY <1>b, <2>1, <2>3, <3>1 DEF Restored
    <3> QED
      BY <1>b, <2>1, <2>3, <3>2, <3>3 DEF Pended
  <2> QED
    BY <2>2, <2>3
<1>5. ASSUME NEW w \in Replicas, NEW e \in Docs, IngestClaim(w, e)
      PROVE  Kept(d) \/ Pended(d)
  <2>1. PICK q : q = [doc[e] EXCEPT !.status = "parsing", !.claim = w, !.updated = clock]
    OBVIOUS
  <2>2. q.status = "parsing" /\ q.chunks = doc[e].chunks /\ q.deleted = doc[e].deleted /\ q.purged = doc[e].purged
    BY <1>0, <2>1 DEF Doc
  <2>3. doc' = [doc EXCEPT ![e] = q] /\ drift' = drift /\ Unlocked(e)
    BY <1>5, <2>1 DEF IngestClaim, marks
  <2> QED
    BY <1>1, <1>b, <2>2, <2>3
<1>6. ASSUME NEW w \in Replicas, IngestFail(w)
      PROVE  Kept(d) \/ Pended(d)
  <2>1. PICK e \in Docs : e = replica[w].doc
    BY <1>6, TypesAt DEF Placed, PlacedRow, IngestFail
  <2>2. PICK q : q = [doc[e] EXCEPT !.status = "pending", !.claim = None, !.updated = clock]
    OBVIOUS
  <2>3. q.status = "pending" /\ q.chunks = doc[e].chunks /\ q.deleted = doc[e].deleted /\ q.purged = doc[e].purged
    BY <1>0, <2>2 DEF Doc
  <2>4. (doc' = [doc EXCEPT ![e] = q] \/ doc' = doc) /\ drift' = drift
    BY <1>6, <2>1, <2>2 DEF IngestFail, marks
  <2>5. Unlocked(e) \/ replica[w].pc = "written"
    BY <1>6, <2>1 DEF IngestFail
  <2>6. CASE doc' = doc
    BY <2>4, <2>6 DEF Kept
  <2> QED
    BY <1>1, <1>6, <1>b, <2>1, <2>3, <2>4, <2>5, <2>6
<1>7. ASSUME NEW w \in Replicas, IngestCommit(w)
      PROVE  Kept(d) \/ Committed(w, d)
  <2>1. PICK e \in Docs : e = replica[w].doc
    BY <1>7, TypesAt DEF Placed, PlacedRow, IngestCommit
  <2>2. PICK i, t : i = replica[w].id /\ t = replica[w].began
    OBVIOUS
  <2>3. PICK q : q = [doc[e] EXCEPT !.status = "indexed", !.claim = None, !.chunks = i, !.updated = t, !.reindexed = None]
    OBVIOUS
  <2>4. /\ q.status = "indexed" /\ q.chunks = i /\ q.updated = t /\ q.reindexed = None
        /\ q.deleted = doc[e].deleted /\ q.purged = doc[e].purged
    BY <1>0, <2>3 DEF Doc
  <2>5. /\ doc' = [doc EXCEPT ![e] = q]
        /\ drift' = [drift EXCEPT ![e] = @ \/ replica[w].from # live \/ replica[w].slot # layer[replica[w].layer].vector \/ replica[w].began < clock]
    BY <1>7, <2>1, <2>2, <2>3 DEF IngestCommit, Indexed
  <2>6. CASE e = d
    <3>1. drift'[d] = (drift[d] \/ replica[w].from # live \/ replica[w].slot # layer[replica[w].layer].vector \/ replica[w].began < clock)
      BY <1>0, <2>5, <2>6, Zenon
    <3>2. doc'[d] = q
      BY <1>0, <2>5, <2>6
    <3> QED
      BY <1>7, <2>1, <2>2, <2>4, <2>6, <3>1, <3>2 DEF Committed
  <2>7. CASE e # d
    BY <1>0, <2>5, <2>7 DEF Kept
  <2> QED
    BY <2>6, <2>7
<1>8. ASSUME NEW w \in Replicas, Repair(w)
      PROVE  Kept(d) \/ Pended(d) \/ Reborn(w, d)
  <2>1. PICK t : t = replica[w].began
    OBVIOUS
  <2>2. /\ doc' = [e \in Docs |-> IF e \in Requeued(t) THEN [doc[e] EXCEPT !.status = "pending", !.updated = clock]
                                  ELSE IF e \in Revived(t) THEN [doc[e] EXCEPT !.purged = None] ELSE doc[e]]
        /\ drift' = drift /\ \A e \in Requeued(t) \cup Revived(t) : Unlocked(e)
    BY <1>8, <2>1 DEF Repair, marks
  <2>3. CASE d \in Requeued(t)
    <3>1. PICK q : q = [b EXCEPT !.status = "pending", !.updated = clock]
      OBVIOUS
    <3>2. q.status = "pending" /\ q.chunks = b.chunks /\ q.deleted = b.deleted /\ q.purged = b.purged
      BY <3>1 DEF Doc
    <3>3. doc'[d] = q
      BY <1>b, <2>2, <2>3, <3>1
    <3> QED
      BY <1>b, <2>2, <2>3, <3>2, <3>3 DEF Pended
  <2>4. CASE d \notin Requeued(t) /\ d \in Revived(t)
    <3>1. PICK q : q = [b EXCEPT !.purged = None]
      OBVIOUS
    <3>2. q.status = b.status /\ q.chunks = b.chunks /\ q.deleted = b.deleted /\ q.purged = None
      BY <3>1 DEF Doc
    <3>3. doc'[d] = q
      BY <1>b, <2>2, <2>4, <3>1
    <3> QED
      BY <1>8, <1>b, <2>1, <2>2, <2>4, <3>2, <3>3 DEF Reborn
  <2>5. CASE d \notin Requeued(t) /\ d \notin Revived(t)
    BY <2>2, <2>5 DEF Kept
  <2> QED
    BY <2>3, <2>4, <2>5
<1>9. ASSUME NEW w \in Replicas, EmbedMark(w)
      PROVE  Kept(d) \/ Marked(w, d)
  <2>1. PICK e \in Docs : e = replica[w].doc
    BY <1>9, TypesAt DEF Placed, PlacedRow, EmbedMark
  <2>2. PICK s : s = replica[w].slot
    OBVIOUS
  <2>3. PICK q : q = [doc[e] EXCEPT !.reindexed = s]
    OBVIOUS
  <2>4. /\ q.status = doc[e].status /\ q.chunks = doc[e].chunks /\ q.updated = doc[e].updated /\ q.reindexed = s
        /\ q.deleted = doc[e].deleted /\ q.purged = doc[e].purged
    BY <1>0, <2>3 DEF Doc
  <2>5. /\ doc' = [doc EXCEPT ![e] = q] /\ Unlocked(e)
        /\ drift' = [drift EXCEPT ![e] = @ \/ ~(doc[e].chunks = replica[w].id) \/ replica[w].from # live \/ AnyCopying
                                            \/ replica[w].began # layer[replica[w].layer].since]
    BY <1>9, <2>1, <2>2, <2>3 DEF EmbedMark, SamePoints
  <2>6. CASE e = d
    <3>1. doc'[d] = q
      BY <1>0, <2>5, <2>6
    <3>2. drift'[d] = (drift[d] \/ ~(doc[d].chunks = replica[w].id) \/ replica[w].from # live \/ AnyCopying
                         \/ replica[w].began # layer[replica[w].layer].since)
      BY <1>0, <2>5, <2>6, Zenon
    <3> QED
      BY <1>9, <2>1, <2>2, <2>4, <2>5, <2>6, <3>1, <3>2 DEF Marked
  <2>7. CASE e # d
    BY <1>0, <2>5, <2>7 DEF Kept
  <2> QED
    BY <2>6, <2>7
<1>10. ASSUME NEW w \in Replicas, CollectMark(w)
       PROVE  Kept(d) \/ PurgeMarked(w, d)
  <2>1. PICK e \in Docs : e = replica[w].doc
    BY <1>10, TypesAt DEF Placed, PlacedRow, CollectMark
  <2>2. PICK q : q = [doc[e] EXCEPT !.purged = clock]
    OBVIOUS
  <2>3. q.status = doc[e].status /\ q.chunks = doc[e].chunks /\ q.deleted = doc[e].deleted /\ q.purged = clock
    BY <1>0, <2>2 DEF Doc
  <2>4. \/ doc' = doc /\ drift' = drift
        \/ /\ doc' = [doc EXCEPT ![e] = q] /\ drift' = [drift EXCEPT ![e] = replica[w].from # live \/ resent[w]]
           /\ Unlocked(e) /\ Deleted(e)
    BY <1>10, <2>1, <2>2 DEF CollectMark
  <2>5. CASE doc' = doc /\ drift' = drift
    BY <2>5 DEF Kept
  <2>6. CASE /\ doc' = [doc EXCEPT ![e] = q] /\ drift' = [drift EXCEPT ![e] = replica[w].from # live \/ resent[w]]
             /\ Unlocked(e) /\ Deleted(e)
    <3>1. CASE e = d
      <4>1. drift'[d] = (replica[w].from # live \/ resent[w])
        BY <1>0, <2>6, <3>1, Zenon
      <4>2. doc'[d] = q
        BY <1>0, <2>6, <3>1
      <4> QED
        BY <1>10, <2>1, <2>3, <2>6, <3>1, <4>1, <4>2 DEF PurgeMarked
    <3>2. CASE e # d
      BY <1>0, <2>6, <3>2 DEF Kept
    <3> QED
      BY <3>1, <3>2
  <2> QED
    BY <2>4, <2>5, <2>6
<1>11. ASSUME NEW w \in Replicas, NEW e \in Docs, NEW ok \in BOOLEAN, ReTombstone(w, e, ok)
       PROVE  Kept(d) \/ Retombed(w, d)
  <2>1. doc' = doc /\ drift' = [drift EXCEPT ![e] = @ \/ ~(ok <=> Deleted(e))]
    <3>1. doc' = doc /\ drift' = [drift EXCEPT ![e] = @ \/ ok # Deleted(e)]
      BY <1>11 DEF ReTombstone
    <3>2. (ok # Deleted(e)) <=> ~(ok <=> Deleted(e))
      BY DEF Deleted
    <3> QED
      BY <3>1, <3>2
  <2>2. CASE e = d
    <3>1. drift'[d] = (drift[d] \/ ~(ok <=> Deleted(d)))
      BY <1>0, <2>1, <2>2, Zenon
    <3>2. CASE ok \/ Deleted(d)
      BY <1>11, <2>1, <2>2, <3>1, <3>2 DEF Retombed
    <3>3. CASE ~ok /\ ~Deleted(d)
      <4>1. drift'[d] \in BOOLEAN /\ drift[d] \in BOOLEAN
        BY <1>0, <3>1
      <4> QED
        BY <2>1, <3>1, <3>3, <4>1 DEF Kept
    <3> QED
      BY <3>2, <3>3
  <2>3. CASE e # d
    BY <1>0, <2>1, <2>3 DEF Kept
  <2> QED
    BY <2>2, <2>3
<1>12. CASE doc' = doc /\ drift' = drift
  BY <1>12 DEF Kept
<1> QED
  BY <1>2, <1>3, <1>4, <1>5, <1>6, <1>7, <1>8, <1>9, <1>10, <1>11, <1>12, <1>c, <1>d, <1>e, <1>f, RowMoves

----------------------------------------------------------------------------
(* What a step does to locks, clocks and the work of a replica.             *)

(* Who locks a row and who lets it go.                                      *)
LEMMA LockAfter ==
  ASSUME TypeInv, [Next]_vars, NEW d \in Docs
  PROVE  \/ lock'[d] = lock[d]
         \/ Unlocked(d) /\ Delete(d) /\ lock'[d] = "delete"
         \/ DeleteCommit /\ deleting.doc = d /\ lock'[d] = None
         \/ \E w \in Replicas :
              \/ IngestWrite(w) /\ replica[w].doc = d /\ Unlocked(d) /\ lock'[d] = w
              \/ IngestCommit(w) /\ replica[w].doc = d /\ lock'[d] = None
              \/ (IngestFail(w) \/ Crash(w)) /\ lock[d] = w /\ lock'[d] = None
<1>0. lock \in [Docs -> Replicas \cup {"delete", None}]
  BY DEF TypeInv, TypeOK
<1>1. ASSUME NEW w \in Replicas, Ingest(w) \/ Crash(w)
      PROVE  \/ lock'[d] = lock[d]
             \/ IngestWrite(w) /\ replica[w].doc = d /\ Unlocked(d) /\ lock'[d] = w
             \/ IngestCommit(w) /\ replica[w].doc = d /\ lock'[d] = None
             \/ (IngestFail(w) \/ Crash(w)) /\ lock[d] = w /\ lock'[d] = None
  <2>1. CASE \E e \in Docs : IngestClaim(w, e)
    BY <2>1 DEF IngestClaim
  <2>2. CASE IngestWrite(w)
    BY <1>0, <2>2 DEF IngestWrite
  <2>3. CASE IngestCommit(w)
    BY <1>0, <2>3 DEF IngestCommit
  <2>4. CASE IngestFail(w)
    BY <1>0, <2>4 DEF IngestFail
  <2>5. CASE Crash(w)
    BY <1>0, <2>5 DEF Crash
  <2> QED
    BY <1>1, <2>1, <2>2, <2>3, <2>4, <2>5 DEF Ingest
<1>2. ASSUME Request
      PROVE  \/ lock'[d] = lock[d]
             \/ Unlocked(d) /\ Delete(d) /\ lock'[d] = "delete"
             \/ DeleteCommit /\ deleting.doc = d /\ lock'[d] = None
  <2>1. lock' = lock \/ (\E e \in Docs : Delete(e)) \/ DeleteCommit
    BY <1>2 DEF Request, Send, SendUnchanged, RebuildRead, RebuildDrop, RebuildCreate, RebuildRequeue, RebuildDies, SetReferences,
                StartWrite, StartRead, CreateRead
  <2>2. ASSUME NEW e \in Docs, Delete(e)
        PROVE  lock'[d] = lock[d] \/ (Unlocked(d) /\ Delete(d) /\ lock'[d] = "delete")
    <3>1. lock' = [lock EXCEPT ![e] = "delete"] /\ Unlocked(e)
      BY <2>2 DEF Delete
    <3> QED
      BY <1>0, <2>2, <3>1
  <2>3. CASE DeleteCommit
    <3>1. lock' = [lock EXCEPT ![deleting.doc] = None]
      BY <2>3 DEF DeleteCommit
    <3> QED
      BY <1>0, <2>3, <3>1
  <2> QED
    BY <2>1, <2>2, <2>3
<1>3. ASSUME NEW w \in Replicas, Copy(w) \/ Embed(w) \/ Recall(w) \/ Retire(w) \/ Collect(w)
      PROVE  lock' = lock
  BY <1>3, Zenon DEF Copy, CopyClaim, CopyCreate, CopyFinish, CopyAbandon, CopyThrow, CopyPage, Repair, ReTombstone,
                     Embed, EmbedClaim, EmbedAdd, EmbedCompare, EmbedMark, EmbedFail, RecordPass, Switch, PendingSwitch,
                     Recall, RecallBegin, RecallRecord, RecallFail,
                     Retire, RetireDue, ReclaimDue, RetireDrop, RetireForget, ReclaimDrop, ReclaimForget,
                     Collect, CollectClaim, CollectSkip, CollectPurge, CollectMark
<1>4. CASE (\E e \in Docs : Reap(e)) \/ UNCHANGED vars
  BY <1>4 DEF Reap, vars
<1> QED
  BY <1>1, <1>2, <1>3, <1>4 DEF Next

(* Time moves with a start, a delete with its own two steps.                *)
LEMMA RequestsMove ==
  ASSUME [Next]_vars
  PROVE  /\ clock' = clock \/ \E l \in Layers : StartWrite(l)
         /\ deleting' = deleting \/ (\E d \in Docs : Delete(d)) \/ DeleteCommit
<1>1. Request => clock' = clock \/ \E l \in Layers : StartWrite(l)
  BY DEF Request, Send, SendUnchanged, Delete, DeleteCommit, RebuildRead, RebuildDrop, RebuildCreate, RebuildRequeue, RebuildDies,
         SetReferences, StartRead, CreateRead
<1>2. Request => deleting' = deleting \/ (\E d \in Docs : Delete(d)) \/ DeleteCommit
  BY DEF Request, Send, SendUnchanged, RebuildRead, RebuildDrop, RebuildCreate, RebuildRequeue, RebuildDies,
         SetReferences, StartWrite, StartRead, CreateRead
<1>3. ASSUME NEW w \in Replicas, Ingest(w) \/ Collect(w) \/ Crash(w) \/ Retire(w)
      PROVE  clock' = clock /\ deleting' = deleting
  BY <1>3, Zenon DEF Ingest, IngestClaim, IngestWrite, IngestCommit, IngestFail, Collect, CollectClaim, CollectSkip, CollectPurge, CollectMark, Crash,
                       Retire, RetireDue, ReclaimDue, RetireDrop, RetireForget, ReclaimDrop, ReclaimForget
<1>4. ASSUME NEW w \in Replicas, Embed(w) \/ Recall(w)
      PROVE  clock' = clock /\ deleting' = deleting
  BY <1>4, Zenon DEF Embed, EmbedClaim, EmbedAdd, EmbedCompare, EmbedMark, EmbedFail, RecordPass, Switch, PendingSwitch,
                       Recall, RecallBegin, RecallRecord, RecallFail
<1>5. ASSUME NEW w \in Replicas, Copy(w)
      PROVE  clock' = clock /\ deleting' = deleting
  BY <1>5, Zenon DEF Copy, CopyClaim, CopyCreate, CopyFinish, CopyAbandon, CopyThrow, CopyPage, Repair, ReTombstone
<1>6. CASE \E d \in Docs : Reap(d)
  BY <1>6 DEF Reap
<1>7. CASE UNCHANGED vars
  BY <1>7 DEF vars
<1> QED
  BY <1>1, <1>2, <1>3, <1>4, <1>5, <1>6, <1>7 DEF Next

(* Time does not go back.                                                   *)
LEMMA ClockGrows ==
  ASSUME TypeInv, [Next]_vars
  PROVE  /\ clock \in Nat /\ clock' \in Nat /\ clock <= clock'
         /\ (~\E l \in Layers : StartWrite(l)) => clock' = clock
         /\ \A l \in Layers : StartWrite(l) => clock' = clock + 1
<1>1. clock \in Nat
  BY TypesAt
<1>2. \A l \in Layers : StartWrite(l) => clock' = clock + 1
  BY DEF StartWrite
<1> QED
  BY <1>1, <1>2, RequestsMove

(* A repair that is lost is recorded.                                       *)
LEMMA MissedStays ==
  ASSUME [Next]_vars, ~missed'
  PROVE  /\ ~missed
         /\ \A w \in Replicas : Crash(w) => replica[w].pc \notin {"repairing", "tombstoning"}
         /\ \A w \in Replicas : CopyThrow(w) => replica[w].pc # "repairing"
<1>1. Request => missed' = missed
  BY DEF Request, Send, SendUnchanged, Delete, DeleteCommit, RebuildRead, RebuildDrop, RebuildCreate, RebuildRequeue, RebuildDies,
         SetReferences, StartWrite, StartRead, CreateRead, marks
<1>3. ASSUME NEW w \in Replicas, Ingest(w) \/ Collect(w) \/ Retire(w)
      PROVE  missed' = missed
  BY <1>3, Zenon DEF Ingest, IngestClaim, IngestWrite, IngestCommit, IngestFail, Collect, CollectClaim, CollectSkip, CollectPurge, CollectMark,
                       Retire, RetireDue, ReclaimDue, RetireDrop, RetireForget, ReclaimDrop, ReclaimForget, marks
<1>4. ASSUME NEW w \in Replicas, Embed(w) \/ Recall(w)
      PROVE  missed' = missed
  BY <1>4, Zenon DEF Embed, EmbedClaim, EmbedAdd, EmbedCompare, EmbedMark, EmbedFail, RecordPass, Switch, PendingSwitch,
                       Recall, RecallBegin, RecallRecord, RecallFail, marks
<1>5. ASSUME NEW w \in Replicas, Copy(w)
      PROVE  missed' = missed \/ CopyThrow(w)
  BY <1>5, Zenon DEF Copy, CopyClaim, CopyCreate, CopyFinish, CopyAbandon, CopyPage, Repair, ReTombstone, marks
<1>6. ASSUME NEW w \in Replicas, Crash(w)
      PROVE  ~missed /\ replica[w].pc \notin {"repairing", "tombstoning"}
  BY <1>6 DEF Crash
<1>7. ASSUME NEW w \in Replicas, CopyThrow(w)
      PROVE  ~missed /\ replica[w].pc # "repairing"
  BY <1>7 DEF CopyThrow
<1>8. (\E d \in Docs : Reap(d)) \/ UNCHANGED vars => missed' = missed
  BY Zenon DEF Reap, vars, marks
<1>9. ~missed
  BY <1>1, <1>3, <1>4, <1>5, <1>6, <1>7, <1>8 DEF Next
<1> QED
  BY <1>6, <1>7, <1>9

(* A replica at a repair does nothing else first.                           *)
LEMMA RepairFirst ==
  ASSUME TypeInv, [Next]_vars, ~missed', NEW v \in Replicas, replica[v].pc \in {"repairing", "tombstoning"}
  PROVE  \/ replica'[v] = replica[v]
         \/ Repair(v) /\ replica[v].pc = "repairing"
         \/ replica[v].pc = "tombstoning" /\ \E d \in Docs, ok \in BOOLEAN : ReTombstone(v, d, ok)
<1>1. ASSUME Ingest(v) \/ Collect(v)
      PROVE  FALSE
  BY Zenon, <1>1 DEF Ingest, IngestClaim, IngestWrite, IngestCommit, IngestFail, Collect, CollectClaim, CollectSkip, CollectPurge, CollectMark
<1>2. ASSUME Embed(v) \/ Recall(v)
      PROVE  FALSE
  BY Zenon, <1>2 DEF Embed, EmbedClaim, EmbedAdd, EmbedCompare, EmbedMark, EmbedFail, RecordPass, Switch, PendingSwitch,
                     Recall, RecallBegin, RecallRecord, RecallFail
<1>3. ASSUME Retire(v)
      PROVE  FALSE
  BY Zenon, <1>3 DEF Retire, RetireDue, ReclaimDue, RetireDrop, RetireForget, ReclaimDrop, ReclaimForget
<1>4. ASSUME Copy(v)
      PROVE  \/ Repair(v) /\ replica[v].pc = "repairing"
             \/ replica[v].pc = "tombstoning" /\ \E d \in Docs, ok \in BOOLEAN : ReTombstone(v, d, ok)
  <2>1. Repair(v) \/ CopyThrow(v) \/ \E d \in Docs, ok \in BOOLEAN : ReTombstone(v, d, ok)
    BY Zenon, <1>4 DEF Copy, CopyClaim, CopyCreate, CopyFinish, CopyAbandon, CopyPage
  <2>2. ~CopyThrow(v)
    BY MissedStays DEF CopyThrow
  <2> QED
    BY Zenon, <2>1, <2>2 DEF Repair, ReTombstone
<1>5. ~Crash(v)
  BY MissedStays
<1> QED
  BY <1>1, <1>2, <1>3, <1>4, <1>5, ActsAlone DEF Acts

----------------------------------------------------------------------------
(* What a replica has read, by the step that brought it where it is.        *)

(* Indexing and collecting.                                                 *)
LEMMA IndexPlace ==
  ASSUME TypeInv, [Next]_vars, NEW v \in Replicas, replica'[v].pc \in {"indexing", "written", "purging", "purged"}
  PROVE  \/ replica'[v] = replica[v]
         \/ \E d \in Docs : /\ IngestClaim(v, d) /\ replica'[v].pc = "indexing" /\ replica'[v].doc = d
                            /\ replica'[v].layer = Home[d] /\ replica'[v].from = live
         \/ /\ IngestWrite(v) /\ replica'[v].pc = "written" /\ replica'[v].doc = replica[v].doc
            /\ replica'[v].layer = replica[v].layer /\ replica'[v].from = replica[v].from
            /\ replica'[v].slot = replica[v].slot /\ replica'[v].id = FreshId /\ replica'[v].began = clock
         \/ \E d \in Docs : /\ CollectClaim(v, d) /\ replica'[v].pc = "purging" /\ replica'[v].doc = d
                            /\ replica'[v].from = live
         \/ /\ CollectPurge(v) /\ replica'[v].pc = "purged" /\ replica'[v].doc = replica[v].doc
            /\ replica'[v].from = replica[v].from
<1>0. replica \in [Replicas -> Replica] /\ replica[v] \in Replica
  BY DEF TypeInv, TypeOK
<1>1. ASSUME NEW d \in Docs, IngestClaim(v, d)
      PROVE  replica'[v].pc = "indexing" /\ replica'[v].doc = d /\ replica'[v].layer = Home[d] /\ replica'[v].from = live
  <2>1. PICK h, s : h = Home[d] /\ s = layer[Home[d]].vector
    OBVIOUS
  <2>2. PICK q : q = [Idle EXCEPT !.pc = "indexing", !.doc = d, !.layer = h, !.from = live, !.slot = s]
    OBVIOUS
  <2>3. q.pc = "indexing" /\ q.doc = d /\ q.layer = h /\ q.from = live
    BY <2>2 DEF Idle
  <2>4. replica' = [replica EXCEPT ![v] = q]
    BY <1>1, <2>1, <2>2 DEF IngestClaim
  <2> QED
    BY <1>0, <2>1, <2>3, <2>4
<1>2. ASSUME NEW d \in Docs, CollectClaim(v, d)
      PROVE  replica'[v].pc = "purging" /\ replica'[v].doc = d /\ replica'[v].from = live
  <2>2. PICK q : q = [Idle EXCEPT !.pc = "purging", !.doc = d, !.from = live]
    OBVIOUS
  <2>3. q.pc = "purging" /\ q.doc = d /\ q.from = live
    BY <2>2 DEF Idle
  <2>4. replica' = [replica EXCEPT ![v] = q]
    BY <1>2, <2>2 DEF CollectClaim
  <2> QED
    BY <1>0, <2>3, <2>4
<1>3. CASE IngestCommit(v) \/ IngestFail(v) \/ CollectSkip(v) \/ CollectMark(v) \/ Crash(v)
  <2>1. replica' = [replica EXCEPT ![v] = Idle]
    BY <1>3 DEF IngestCommit, IngestFail, CollectSkip, CollectMark, Crash
  <2>2. replica'[v].pc = "idle"
    BY <1>0, <2>1, IdleRow
  <2> QED
    BY <2>2
<1>4. CASE IngestWrite(v)
  <2>1. PICK i : i = FreshId
    OBVIOUS
  <2>2. PICK b \in Replica : b = replica[v]
    BY <1>0
  <2>3. PICK q : q = [b EXCEPT !.pc = "written", !.id = i, !.began = clock]
    OBVIOUS
  <2>4. /\ q.pc = "written" /\ q.id = i /\ q.began = clock /\ q.doc = b.doc /\ q.layer = b.layer /\ q.from = b.from
        /\ q.slot = b.slot
    BY <2>3 DEF Replica
  <2>5. replica' = [replica EXCEPT ![v] = q]
    BY <1>0, <1>4, <2>1, <2>2, <2>3 DEF IngestWrite
  <2>6. replica'[v] = q
    BY <1>0, <2>5
  <2> QED
    BY <1>4, <2>1, <2>2, <2>4, <2>6
<1>5. CASE CollectPurge(v)
  <2>1. replica' = [replica EXCEPT ![v].pc = "purged"]
    BY <1>5 DEF CollectPurge
  <2>2. replica'[v].pc = "purged" /\ replica'[v].doc = replica[v].doc /\ replica'[v].from = replica[v].from
    BY <1>0, <2>1 DEF Replica
  <2> QED
    BY <1>5, <2>2
<1>6. ASSUME Copy(v) \/ Embed(v) \/ Recall(v)
      PROVE  FALSE
  BY <1>6, CopierAfter, EmbedderAfter DEF Fills
<1>7. CASE Retire(v)
  BY <1>7, SweeperAfter
<1> QED
  BY <1>1, <1>2, <1>3, <1>4, <1>5, <1>6, <1>7, ActsAlone DEF Acts, Ingest, Collect

(* Embedding.                                                               *)
LEMMA EmbedPlace ==
  ASSUME TypeInv, [Next]_vars, NEW v \in Replicas, replica'[v].pc \in {"embedding", "added", "marking"}
  PROVE  \/ replica'[v] = replica[v]
         \/ \E d \in Docs : /\ EmbedClaim(v, d) /\ replica'[v].pc = "embedding" /\ replica'[v].doc = d
                            /\ replica'[v].layer = Home[d] /\ replica'[v].from = live
                            /\ replica'[v].slot = layer[Home[d]].shadow /\ replica'[v].began = layer[Home[d]].since
         \/ /\ EmbedAdd(v) /\ replica'[v].pc = "added" /\ replica'[v].doc = replica[v].doc
            /\ replica'[v].layer = replica[v].layer /\ replica'[v].from = replica[v].from
            /\ replica'[v].slot = replica[v].slot /\ replica'[v].id = replica[v].id
            /\ replica'[v].began = replica[v].began
         \/ /\ EmbedCompare(v) /\ replica[v].pc = "added" /\ replica'[v].pc = "marking" /\ replica'[v].doc = replica[v].doc
            /\ replica'[v].layer = replica[v].layer /\ replica'[v].from = replica[v].from
            /\ replica'[v].slot = replica[v].slot /\ replica'[v].id = replica[v].id
            /\ replica'[v].began = replica[v].began
<1>0. replica \in [Replicas -> Replica] /\ replica[v] \in Replica
  BY DEF TypeInv, TypeOK
<1>1. ASSUME NEW d \in Docs, EmbedClaim(v, d)
      PROVE  /\ replica'[v].pc = "embedding" /\ replica'[v].doc = d
             /\ replica'[v].layer = Home[d] /\ replica'[v].from = live
             /\ replica'[v].slot = layer[Home[d]].shadow /\ replica'[v].began = layer[Home[d]].since
  <2>1. PICK h, s, i, t : h = Home[d] /\ s = layer[Home[d]].shadow /\ i = doc[d].chunks /\ t = layer[Home[d]].since
    OBVIOUS
  <2>2. PICK q : q = [Idle EXCEPT !.pc = "embedding", !.doc = d, !.layer = h, !.from = live, !.slot = s, !.id = i, !.began = t]
    OBVIOUS
  <2>3. q.pc = "embedding" /\ q.doc = d /\ q.layer = h /\ q.from = live /\ q.slot = s /\ q.began = t
    BY <2>2 DEF Idle
  <2>4. replica' = [replica EXCEPT ![v] = q]
    BY <1>1, <2>1, <2>2 DEF EmbedClaim
  <2> QED
    BY <1>0, <2>1, <2>3, <2>4
<1>2. CASE EmbedAdd(v)
  <2>1. replica' = [replica EXCEPT ![v].pc = "added"]
    BY <1>2, Zenon DEF EmbedAdd
  <2>2. /\ replica'[v].pc = "added" /\ replica'[v].doc = replica[v].doc
        /\ replica'[v].layer = replica[v].layer /\ replica'[v].from = replica[v].from
        /\ replica'[v].slot = replica[v].slot /\ replica'[v].id = replica[v].id
        /\ replica'[v].began = replica[v].began
    BY <1>0, <2>1 DEF Replica
  <2> QED
    BY <1>2, <2>2
<1>3. ASSUME NEW b, NEW pc, replica' = [replica EXCEPT ![v] = Ended(b, pc)], pc \in {"marked", "erred"}
      PROVE  FALSE
  <2>1. Ended(b, pc).pc = pc
    BY DEF Ended, Idle
  <2> QED
    BY <1>0, <1>3, <2>1
<1>4. ASSUME replica' = [replica EXCEPT ![v] = Idle]
      PROVE  FALSE
  BY <1>0, <1>4, IdleRow
<1>a. CASE EmbedCompare(v)
  <2>1. replica[v].pc = "added" /\ replica' = [replica EXCEPT ![v].pc = "marking"]
    <3>1. replica[v].pc = "added" /\ (SamePoints(v) => replica' = [replica EXCEPT ![v].pc = "marking"])
      BY <1>a DEF EmbedCompare
    <3>2. ~SamePoints(v) => replica' = [replica EXCEPT ![v] = Idle]
      BY <1>a DEF EmbedCompare
    <3> QED
      BY <1>4, <3>1, <3>2
  <2>2. /\ replica'[v].pc = "marking" /\ replica'[v].doc = replica[v].doc
        /\ replica'[v].layer = replica[v].layer /\ replica'[v].from = replica[v].from
        /\ replica'[v].slot = replica[v].slot /\ replica'[v].id = replica[v].id
        /\ replica'[v].began = replica[v].began
    BY <1>0, <2>1 DEF Replica
  <2> QED
    BY <1>a, <2>1, <2>2
<1>5. ASSUME EmbedMark(v) \/ EmbedFail(v)
      PROVE  FALSE
  BY <1>3, <1>5 DEF EmbedMark, EmbedFail
<1>6. ASSUME NEW pc \in {"switching", "judging"}, replica' = [replica EXCEPT ![v].pc = pc]
      PROVE  FALSE
  BY <1>0, <1>6 DEF Replica
<1>7. ASSUME RecordPass(v)
      PROVE  FALSE
  BY <1>6, <1>7 DEF RecordPass
<1>8. ASSUME Switch(v) \/ RecallFail(v)
      PROVE  FALSE
  BY <1>4, <1>8 DEF Switch, RecallFail
<1>9. ASSUME NEW l \in Layers, PendingSwitch(v, l) \/ RecallBegin(v, l)
      PROVE  FALSE
  <2>1. PICK pc \in {"switching", "scoring"} :
          replica' = [replica EXCEPT ![v] = [Idle EXCEPT !.pc = pc, !.layer = l, !.slot = layer[l].shadow]]
    BY <1>9 DEF PendingSwitch, RecallBegin
  <2>2. PICK q : q = [Idle EXCEPT !.pc = pc, !.layer = l, !.slot = layer[l].shadow]
    OBVIOUS
  <2>3. q.pc = pc
    BY <2>2 DEF Idle
  <2> QED
    BY <1>0, <2>1, <2>2, <2>3
<1>10. ASSUME NEW verdict \in {"passed", "failed"}, RecallRecord(v, verdict)
       PROVE  FALSE
  <2>1. PICK pc \in {"switching", "judging"} : pc = IF verdict = "passed" THEN "switching" ELSE "judging"
    OBVIOUS
  <2>2. replica' = [replica EXCEPT ![v].pc = pc]
    BY <1>10, <2>1 DEF RecallRecord
  <2> QED
    BY <1>6, <2>2
<1>11. ASSUME Ingest(v) \/ Collect(v) \/ Crash(v) \/ Copy(v)
       PROVE  FALSE
  BY <1>11, IndexerAfter, CopierAfter
<1>12. CASE Retire(v)
  BY <1>12, SweeperAfter
<1> QED
  BY <1>a, <1>1, <1>2, <1>5, <1>7, <1>8, <1>9, <1>10, <1>11, <1>12, ActsAlone DEF Acts, Embed, Recall

(* A copy and the repair after it.                                          *)
LEMMA CopyPlace ==
  ASSUME TypeInv, [Next]_vars, NEW v \in Replicas, replica'[v].pc \in {"copying", "repairing", "tombstoning"}
  PROVE  \/ replica'[v] = replica[v]
         \/ \E l \in Layers :
              /\ CopyClaim(v, l) /\ replica'[v].pc = "copying" /\ replica'[v].layer = l /\ replica'[v].began = layer[l].since
              /\ replica'[v].copied = {} /\ replica'[v].ready = FALSE
         \/ /\ CopyCreate(v) /\ replica'[v].pc = "copying" /\ replica'[v].layer = replica[v].layer
            /\ replica'[v].began = replica[v].began /\ replica'[v].copied = replica[v].copied /\ replica'[v].ready = TRUE
         \/ \E d \in Docs :
              /\ CopyPage(v, d) /\ replica'[v].pc = "copying" /\ replica'[v].layer = replica[v].layer
              /\ replica'[v].began = replica[v].began /\ replica'[v].copied = replica[v].copied \cup {d}
              /\ replica'[v].ready = replica[v].ready
         \/ /\ CopyFinish(v) /\ replica'[v].pc = "repairing" /\ replica'[v].began = replica[v].began
            /\ replica'[v].from = replica[v].from /\ replica'[v].slot = replica[v].slot
         \/ /\ Repair(v) /\ replica'[v].pc = "tombstoning" /\ replica'[v].copied = Revived(replica[v].began)
            /\ replica'[v].from = replica[v].from /\ replica'[v].slot = replica[v].slot
         \/ \E d \in Docs, ok \in BOOLEAN :
              /\ ReTombstone(v, d, ok) /\ replica'[v].pc = "tombstoning" /\ replica'[v].copied = replica[v].copied \ {d}
              /\ replica'[v].from = replica[v].from /\ replica'[v].slot = replica[v].slot
<1>0. replica \in [Replicas -> Replica] /\ replica[v] \in Replica
  BY DEF TypeInv, TypeOK
<1>b. PICK b \in Replica : b = replica[v]
  BY <1>0
<1>1. ASSUME NEW l \in Layers, CopyClaim(v, l)
      PROVE  /\ replica'[v].pc = "copying" /\ replica'[v].layer = l /\ replica'[v].began = layer[l].since
             /\ replica'[v].copied = {} /\ replica'[v].ready = FALSE
  <2>1. PICK q : q = [Idle EXCEPT !.pc = "copying", !.layer = l, !.from = live, !.slot = layer[l].shadow, !.began = layer[l].since]
    OBVIOUS
  <2>2. q.pc = "copying" /\ q.layer = l /\ q.began = layer[l].since /\ q.copied = {} /\ q.ready = FALSE
    BY <2>1 DEF Idle
  <2>3. replica' = [replica EXCEPT ![v] = q]
    BY <1>1, <2>1 DEF CopyClaim
  <2> QED
    BY <1>0, <2>2, <2>3
<1>2. CASE CopyCreate(v)
  <2>1. replica' = [replica EXCEPT ![v].ready = TRUE] /\ replica[v].pc = "copying"
    BY <1>2 DEF CopyCreate
  <2>2. /\ replica'[v].pc = "copying" /\ replica'[v].layer = replica[v].layer
        /\ replica'[v].began = replica[v].began /\ replica'[v].copied = replica[v].copied /\ replica'[v].ready = TRUE
    BY <1>0, <2>1 DEF Replica
  <2> QED
    BY <1>2, <2>2
<1>3. ASSUME NEW d \in Docs, CopyPage(v, d)
      PROVE  /\ replica'[v].pc = "copying" /\ replica'[v].layer = replica[v].layer
             /\ replica'[v].began = replica[v].began /\ replica'[v].copied = replica[v].copied \cup {d}
             /\ replica'[v].ready = replica[v].ready
  <2>1. replica[v].pc = "copying" /\ replica' = [replica EXCEPT ![v].copied = @ \cup {d}]
    BY <1>3 DEF CopyPage
  <2> QED
    BY <1>0, <2>1 DEF Replica
<1>4. ASSUME replica' = [replica EXCEPT ![v] = Idle]
      PROVE  FALSE
  BY <1>0, <1>4, IdleRow
<1>5. ASSUME CopyAbandon(v) \/ CopyThrow(v)
      PROVE  FALSE
  BY <1>4, <1>5 DEF CopyAbandon, CopyThrow
<1>6. CASE CopyFinish(v)
  <2>1. PICK q : q = [b EXCEPT !.pc = "repairing", !.copied = {}, !.ready = FALSE]
    OBVIOUS
  <2>2. q.pc = "repairing" /\ q.began = b.began /\ q.from = b.from /\ q.slot = b.slot
    BY <2>1 DEF Replica
  <2>3. replica' = [replica EXCEPT ![v] = q]
    BY <1>0, <1>6, <1>b, <2>1 DEF CopyFinish
  <2>4. replica'[v] = q
    BY <1>0, <2>3
  <2> QED
    BY <1>6, <1>b, <2>2, <2>4
<1>7. CASE Repair(v)
  <2>1. PICK back : back = Revived(replica[v].began)
    OBVIOUS
  <2>2. PICK q : q = [b EXCEPT !.pc = "tombstoning", !.copied = back]
    OBVIOUS
  <2>3. q.pc = "tombstoning" /\ q.copied = back /\ q.from = b.from /\ q.slot = b.slot
    BY <2>2 DEF Replica
  <2>4. replica' = [replica EXCEPT ![v] = Idle] \/ replica' = [replica EXCEPT ![v] = q]
    BY <1>0, <1>7, <1>b, <2>1, <2>2 DEF Repair
  <2>5. replica'[v] = q
    BY <1>0, <1>4, <2>4
  <2> QED
    BY <1>7, <1>b, <2>1, <2>3, <2>5
<1>8. ASSUME NEW d \in Docs, NEW ok \in BOOLEAN, ReTombstone(v, d, ok)
      PROVE  /\ replica'[v].pc = "tombstoning" /\ replica'[v].copied = replica[v].copied \ {d}
             /\ replica'[v].from = replica[v].from /\ replica'[v].slot = replica[v].slot
  <2>1. PICK left : left = b.copied \ {d}
    OBVIOUS
  <2>2. PICK q : q = [b EXCEPT !.copied = left]
    OBVIOUS
  <2>3. b.pc = "tombstoning" /\ (replica' = [replica EXCEPT ![v] = Idle] \/ replica' = [replica EXCEPT ![v] = q])
    BY <1>0, <1>8, <1>b, <2>1, <2>2 DEF ReTombstone
  <2>4. q.pc = "tombstoning" /\ q.copied = left /\ q.from = b.from /\ q.slot = b.slot
    BY <2>2, <2>3 DEF Replica
  <2>5. replica'[v] = q
    BY <1>0, <1>4, <2>3
  <2> QED
    BY <1>b, <2>1, <2>4, <2>5
<1>9. ASSUME Ingest(v) \/ Collect(v) \/ Crash(v) \/ Embed(v) \/ Recall(v)
      PROVE  FALSE
  BY <1>9, IndexerAfter, EmbedderAfter DEF Fills
<1>10. CASE Retire(v)
  BY <1>10, SweeperAfter
<1> QED
  BY <1>1, <1>2, <1>3, <1>5, <1>6, <1>7, <1>8, <1>9, <1>10, ActsAlone DEF Acts, Copy

(* What is left to a repair.                                                *)
LEMMA RepairGoesOn ==
  ASSUME TypeInv, NEW v \in Replicas
  PROVE  /\ CopyFinish(v) => replica'[v].pc = "repairing" /\ replica'[v].began = replica[v].began
         /\ \A d \in Docs : Repair(v) /\ d \in Revived(replica[v].began) =>
              replica'[v].pc = "tombstoning" /\ d \in replica'[v].copied
         /\ \A d, e \in Docs, ok \in BOOLEAN : ReTombstone(v, e, ok) /\ d # e /\ d \in replica[v].copied =>
              replica'[v].pc = "tombstoning" /\ d \in replica'[v].copied
<1>0. replica \in [Replicas -> Replica] /\ replica[v] \in Replica
  BY DEF TypeInv, TypeOK
<1>b. PICK b \in Replica : b = replica[v]
  BY <1>0
<1>1. ASSUME CopyFinish(v)
      PROVE  replica'[v].pc = "repairing" /\ replica'[v].began = replica[v].began
  <2>1. PICK q : q = [b EXCEPT !.pc = "repairing", !.copied = {}, !.ready = FALSE]
    OBVIOUS
  <2>2. q.pc = "repairing" /\ q.began = b.began
    BY <2>1 DEF Replica
  <2>3. replica' = [replica EXCEPT ![v] = q]
    BY <1>0, <1>1, <1>b, <2>1 DEF CopyFinish
  <2> QED
    BY <1>0, <1>b, <2>2, <2>3
<1>2. ASSUME NEW d \in Docs, Repair(v), d \in Revived(replica[v].began)
      PROVE  replica'[v].pc = "tombstoning" /\ d \in replica'[v].copied
  <2>1. PICK back : back = Revived(replica[v].began)
    OBVIOUS
  <2>2. PICK q : q = [b EXCEPT !.pc = "tombstoning", !.copied = back]
    OBVIOUS
  <2>3. q.pc = "tombstoning" /\ q.copied = back
    BY <2>2 DEF Replica
  <2>4. replica' = [replica EXCEPT ![v] = IF back = {} THEN Idle ELSE q]
    BY <1>0, <1>2, <1>b, <2>1, <2>2 DEF Repair
  <2>5. replica'[v] = q
    BY <1>0, <1>2, <2>1, <2>4
  <2> QED
    BY <1>2, <2>1, <2>3, <2>5
<1>3. ASSUME NEW d \in Docs, NEW e \in Docs, NEW ok \in BOOLEAN, ReTombstone(v, e, ok), d # e, d \in replica[v].copied
      PROVE  replica'[v].pc = "tombstoning" /\ d \in replica'[v].copied
  <2>1. PICK left : left = b.copied \ {e}
    OBVIOUS
  <2>2. PICK q : q = [b EXCEPT !.copied = left]
    OBVIOUS
  <2>3. b.pc = "tombstoning" /\ replica' = [replica EXCEPT ![v] = IF left = {} THEN Idle ELSE q]
    BY <1>0, <1>3, <1>b, <2>1, <2>2 DEF ReTombstone
  <2>4. q.pc = "tombstoning" /\ q.copied = left /\ d \in left
    BY <1>3, <1>b, <2>1, <2>2, <2>3 DEF Replica
  <2>5. replica'[v] = q
    BY <1>0, <2>3, <2>4
  <2> QED
    BY <2>4, <2>5
<1> QED
  BY <1>1, <1>2, <1>3

(* A sweep of a slot.                                                       *)
LEMMA SweepPlace ==
  ASSUME TypeInv, [Next]_vars, NEW v \in Replicas, replica'[v].pc = "reclaiming"
  PROVE  \/ replica'[v] = replica[v]
         \/ \E l \in Layers : /\ ReclaimDue(v, l) /\ replica'[v].layer = l /\ replica'[v].from = live
                              /\ replica'[v].slot = layer[l].previous
<1>0. replica \in [Replicas -> Replica] /\ replica[v] \in Replica
  BY DEF TypeInv, TypeOK
<1>1. ASSUME NEW l \in Layers, ReclaimDue(v, l)
      PROVE  replica'[v].layer = l /\ replica'[v].from = live /\ replica'[v].slot = layer[l].previous
  <2>1. PICK q : q = [Idle EXCEPT !.pc = "reclaiming", !.layer = l, !.from = live, !.slot = layer[l].previous]
    OBVIOUS
  <2>2. q.layer = l /\ q.from = live /\ q.slot = layer[l].previous
    BY <2>1 DEF Idle
  <2>3. replica' = [replica EXCEPT ![v] = q]
    BY <1>1, <2>1 DEF ReclaimDue
  <2> QED
    BY <1>0, <2>2, <2>3
<1>2. ASSUME NEW c \in retired, RetireDue(v, c)
      PROVE  replica'[v] = replica[v]
  <2>1. PICK q : q = [Idle EXCEPT !.pc = "dropping", !.from = c]
    OBVIOUS
  <2>2. q.pc = "dropping"
    BY <2>1 DEF Idle
  <2>3. replica' = replica \/ replica' = [replica EXCEPT ![v] = q]
    BY <1>2, <2>1 DEF RetireDue
  <2> QED
    BY <1>0, <2>2, <2>3
<1>3. ASSUME RetireDrop(v)
      PROVE  FALSE
  BY <1>0, <1>3 DEF RetireDrop, Replica
<1>4. ASSUME RetireForget(v) \/ ReclaimForget(v)
      PROVE  FALSE
  BY <1>0, <1>4, IdleRow DEF RetireForget, ReclaimForget
<1>5. ASSUME ReclaimDrop(v)
      PROVE  FALSE
  <2>1. PICK q : q = [Idle EXCEPT !.pc = "reclaimed", !.layer = replica[v].layer]
    OBVIOUS
  <2>2. replica' = [replica EXCEPT ![v] = q] /\ q.pc = "reclaimed"
    BY <1>5, <2>1 DEF ReclaimDrop, Idle
  <2> QED
    BY <1>0, <2>2
<1>6. ASSUME Ingest(v) \/ Collect(v) \/ Crash(v) \/ Copy(v) \/ Embed(v) \/ Recall(v)
      PROVE  FALSE
  BY <1>6, IndexerAfter, CopierAfter, EmbedderAfter DEF Fills
<1> QED
  BY <1>1, <1>2, <1>3, <1>4, <1>5, <1>6, ActsAlone DEF Acts, Retire

----------------------------------------------------------------------------
(* What a step does to the points of a document in a collection.            *)

PtsSame(c, d) == c \in DOMAIN coll /\ coll'[c].points[d] = coll[c].points[d]

PtsFlagged(c, d) ==
  /\ c \in DOMAIN coll /\ coll'[c].points[d] = Flagged(coll[c].points[d])
  /\ (Delete(d) /\ c = live) \/ \E w \in Replicas : ReTombstone(w, d, TRUE) /\ c = CopyName(w)

PtsGone(c, d) ==
  /\ coll'[c].points[d] = {}
  /\ \/ RebuildCreate /\ c = rebuild.from
     \/ \E w \in Replicas : \/ CopyCreate(w) /\ c = CopyName(w)
                            \/ CollectPurge(w) /\ c = replica[w].from /\ d = replica[w].doc

PtsNew(w, c, d) ==
  /\ IngestWrite(w) /\ c = replica[w].from /\ d = replica[w].doc
  /\ coll'[c].points[d] = {[id |-> FreshId, vecs |-> {replica[w].slot}, deleted |-> FALSE]}

PtsCopied(w, c, d) ==
  /\ CopyPage(w, d) /\ c = CopyName(w) /\ c \in DOMAIN coll /\ replica[w].from \in DOMAIN coll
  /\ coll'[c].points[d] =
       {p \in coll[c].points[d] : \A q \in coll[replica[w].from].points[d] : q.id # p.id} \cup coll[replica[w].from].points[d]

PtsAdded(w, c, d) ==
  /\ EmbedAdd(w) /\ c = replica[w].from /\ d = replica[w].doc /\ c \in DOMAIN coll
  /\ \E p \in coll[c].points[d] :
       /\ p.id = replica[w].id
       /\ coll'[c].points[d] = (coll[c].points[d] \ {p}) \cup {[p EXCEPT !.vecs = @ \cup {replica[w].slot}]}

PtsSwept(w, c, d) ==
  /\ ReclaimDrop(w) /\ c = replica[w].from /\ Home[d] = replica[w].layer /\ c \in DOMAIN coll
  /\ coll'[c].points[d] = {[p EXCEPT !.vecs = @ \ {replica[w].slot}] : p \in coll[c].points[d]}

(* The steps that write points.                                             *)
LEMMA PointMoves ==
  ASSUME [Next]_vars
  PROVE  \/ coll' = coll \/ (\E d \in Docs : Delete(d)) \/ RebuildDrop \/ RebuildCreate
         \/ \E w \in Replicas :
              \/ IngestWrite(w) \/ EmbedAdd(w) \/ CollectPurge(w) \/ CopyCreate(w) \/ RetireDrop(w) \/ ReclaimDrop(w)
              \/ \E d \in Docs : CopyPage(w, d)
              \/ \E d \in Docs, ok \in BOOLEAN : ReTombstone(w, d, ok)
<1>1. ASSUME NEW w \in Replicas, Ingest(w) \/ Embed(w) \/ Recall(w) \/ Collect(w) \/ Crash(w)
      PROVE  coll' = coll \/ IngestWrite(w) \/ EmbedAdd(w) \/ CollectPurge(w)
  BY <1>1, Zenon DEF Ingest, IngestClaim, IngestCommit, IngestFail,
                     Embed, EmbedClaim, EmbedCompare, EmbedMark, EmbedFail, RecordPass, Switch, PendingSwitch,
                     Recall, RecallBegin, RecallRecord, RecallFail, Collect, CollectClaim, CollectSkip, CollectMark, Crash
<1>2. ASSUME NEW w \in Replicas, Copy(w) \/ Retire(w)
      PROVE  \/ coll' = coll \/ CopyCreate(w) \/ RetireDrop(w) \/ ReclaimDrop(w)
             \/ \E d \in Docs : CopyPage(w, d)
             \/ \E d \in Docs, ok \in BOOLEAN : ReTombstone(w, d, ok)
  BY <1>2, Zenon DEF Copy, CopyClaim, CopyFinish, CopyAbandon, CopyThrow, Repair,
                     Retire, RetireDue, ReclaimDue, RetireForget, ReclaimForget
<1>3. Request => coll' = coll \/ (\E d \in Docs : Delete(d)) \/ RebuildDrop \/ RebuildCreate
  BY Zenon DEF Request, Send, SendUnchanged, DeleteCommit, RebuildRead, RebuildRequeue, RebuildDies, SetReferences, StartWrite,
              StartRead, CreateRead
<1>4. CASE (\E d \in Docs : Reap(d)) \/ UNCHANGED vars
  BY <1>4 DEF Reap, vars
<1> QED
  BY <1>1, <1>2, <1>3, <1>4 DEF Next

(* A collection that is made has no points.                                 *)
LEMMA MadeEmpty ==
  ASSUME TypeInv, NEW n \in Names, NEW sl \in SUBSET Vectors,
         coll' = WithCollection(n, [slots |-> sl, points |-> [d \in Docs |-> {}]]),
         NEW c \in DOMAIN coll', NEW d \in Docs
  PROVE  PtsSame(c, d) \/ (c = n /\ coll'[c].points[d] = {})
<1>1. PICK k \in Collection : k = [slots |-> sl, points |-> [e \in Docs |-> {}]]
  BY DEF Collection
<1>2. coll' = WithCollection(n, k)
  BY <1>1
<1>3. /\ DOMAIN coll' = DOMAIN coll \cup {n} /\ coll'[n] = k
      /\ \A m \in DOMAIN coll \ {n} : coll'[m] = coll[m]
  BY <1>2, CollectionsMade
<1>4. k.points[d] = {}
  BY <1>1
<1> QED
  BY <1>3, <1>4 DEF PtsSame

(* Every step.                                                              *)
LEMMA PointsAfter ==
  ASSUME TypeInv, [Next]_vars, NEW c \in DOMAIN coll', NEW d \in Docs
  PROVE  \/ PtsSame(c, d) \/ PtsFlagged(c, d) \/ PtsGone(c, d)
         \/ \E w \in Replicas : PtsNew(w, c, d) \/ PtsCopied(w, c, d) \/ PtsAdded(w, c, d) \/ PtsSwept(w, c, d)
<1>0. \A n \in DOMAIN coll : coll[n] \in Collection
  BY TypesAt
<1>1. ASSUME NEW n \in DOMAIN coll, NEW e \in Docs, NEW ps \in SUBSET Point, coll' = WithPoints(n, e, ps)
      PROVE  PtsSame(c, d) \/ (c = n /\ d = e /\ c \in DOMAIN coll /\ coll'[c].points[d] = ps)
  <2>1. /\ SlotsKept /\ coll'[n].points[e] = ps
        /\ \A x \in Docs \ {e} : coll'[n].points[x] = coll[n].points[x]
        /\ \A m \in DOMAIN coll \ {n} : coll'[m] = coll[m]
    BY <1>1, PointsWritten
  <2> QED
    BY <2>1 DEF SlotsKept, PtsSame
<1>2. CASE coll' = coll
  BY <1>2 DEF PtsSame
<1>3. ASSUME NEW e \in Docs, Delete(e)
      PROVE  PtsSame(c, d) \/ PtsFlagged(c, d)
  <2>1. live \in DOMAIN coll /\ coll' = WithPoints(live, e, Flagged(coll[live].points[e]))
    BY <1>3 DEF Delete, Exists
  <2>2. PICK ps \in SUBSET Point : ps = Flagged(coll[live].points[e])
    BY <2>1, PointsAt
  <2>3. PtsSame(c, d) \/ (c = live /\ d = e /\ c \in DOMAIN coll /\ coll'[c].points[d] = ps)
    BY <1>1, <2>1, <2>2
  <2> QED
    BY <1>3, <2>2, <2>3 DEF PtsFlagged
<1>4. CASE RebuildDrop
  <2>1. rebuild.from \in Names /\ coll' = Without(rebuild.from)
    BY <1>4 DEF TypeInv, TypeOK, RebuildDrop
  <2> QED
    BY <2>1, TakenAway DEF PtsSame
<1>5. CASE RebuildCreate
  <2>1. PICK n \in Names, sl \in SUBSET Vectors : n = rebuild.from /\ sl = rebuild.slots
    BY DEF TypeInv, TypeOK
  <2>2. coll' = WithCollection(n, [slots |-> sl, points |-> [x \in Docs |-> {}]])
    BY <1>5, <2>1 DEF RebuildCreate
  <2> QED
    BY <1>5, <2>1, <2>2, MadeEmpty DEF PtsGone
<1>6. ASSUME NEW w \in Replicas, CopyCreate(w)
      PROVE  PtsSame(c, d) \/ PtsGone(c, d)
  <2>1. CopyName(w) \in Names /\ CopySlots(w) \subseteq Vectors
    <3>1. replica[w].from \in DOMAIN coll
      BY <1>6 DEF CopyCreate, Exists
    <3>2. coll[replica[w].from].slots \subseteq Vectors
      BY <3>1, TypesAt DEF Collection
    <3> QED
      BY <1>6, <3>2, CopyNamed DEF CopyCreate, CopySlots
  <2>2. PICK n \in Names, sl \in SUBSET Vectors : n = CopyName(w) /\ sl = CopySlots(w)
    BY <2>1
  <2>3. coll' = WithCollection(n, [slots |-> sl, points |-> [x \in Docs |-> {}]])
    BY <1>6, <2>2 DEF CopyCreate
  <2>4. PtsSame(c, d) \/ (c = n /\ coll'[c].points[d] = {})
    BY <2>3, MadeEmpty
  <2>5. CASE c = n /\ coll'[c].points[d] = {}
    <3>1. c = CopyName(w)
      BY <2>2, <2>5
    <3> QED
      BY <1>6, <2>5, <3>1 DEF PtsGone
  <2> QED
    BY <2>4, <2>5
<1>7. ASSUME NEW w \in Replicas, RetireDrop(w)
      PROVE  PtsSame(c, d)
  <2>1. replica[w].from \in Names /\ coll' = Without(replica[w].from)
    BY <1>7, ReplicaAt DEF RetireDrop
  <2> QED
    BY <2>1, TakenAway DEF PtsSame
<1>8. ASSUME NEW w \in Replicas, IngestWrite(w)
      PROVE  PtsSame(c, d) \/ PtsNew(w, c, d)
  <2>1. PICK n, e, s : n = replica[w].from /\ e = replica[w].doc /\ s = replica[w].slot
    OBVIOUS
  <2>2. n \in DOMAIN coll /\ e \in Docs /\ s \in coll[n].slots
    BY <1>8, <2>1, TypesAt DEF IngestWrite, Exists, Placed, PlacedRow
  <2>3. s \in Vectors
    BY <1>0, <2>2 DEF Collection
  <2>4. FreshId \in Ids
    <3>1. \E i \in Ids : i \notin InUse
      BY <1>8 DEF IngestWrite
    <3> QED
      BY <3>1 DEF FreshId
  <2>5. PICK p : p = [id |-> FreshId, vecs |-> {s}, deleted |-> FALSE]
    OBVIOUS
  <2>6. p \in Point
    BY <2>3, <2>4, <2>5 DEF Point
  <2>7. coll' = WithPoints(n, e, {p})
    BY <1>8, <2>1, <2>5 DEF IngestWrite
  <2>8. PtsSame(c, d) \/ (c = n /\ d = e /\ coll'[c].points[d] = {p})
    BY <1>1, <2>2, <2>6, <2>7
  <2> QED
    BY <1>8, <2>1, <2>5, <2>8 DEF PtsNew
<1>9. ASSUME NEW w \in Replicas, EmbedAdd(w)
      PROVE  PtsSame(c, d) \/ PtsAdded(w, c, d)
  <2>1. PICK n, e, s : n = replica[w].from /\ e = replica[w].doc /\ s = replica[w].slot
    OBVIOUS
  <2>2. n \in DOMAIN coll /\ e \in Docs /\ s \in coll[n].slots
    BY <1>9, <2>1, TypesAt DEF EmbedAdd, Exists, Placed, PlacedRow
  <2>3. s \in Vectors /\ coll[n].points[e] \in SUBSET Point
    BY <1>0, <2>2 DEF Collection
  <2>4. PICK p \in coll[n].points[e] :
          /\ p.id = replica[w].id
          /\ coll' = WithPoints(n, e, (coll[n].points[e] \ {p}) \cup {[p EXCEPT !.vecs = @ \cup {s}]})
    BY <1>9, <2>1, Zenon DEF EmbedAdd
  <2>5. PICK q : q = [p EXCEPT !.vecs = @ \cup {s}]
    OBVIOUS
  <2>6. q \in Point
    BY <2>3, <2>5 DEF Point
  <2>7. PICK ps \in SUBSET Point : ps = (coll[n].points[e] \ {p}) \cup {q}
    BY <2>3, <2>6
  <2>8. coll' = WithPoints(n, e, ps)
    BY <2>4, <2>5, <2>7
  <2>9. PtsSame(c, d) \/ (c = n /\ d = e /\ c \in DOMAIN coll /\ coll'[c].points[d] = ps)
    BY <1>1, <2>2, <2>8
  <2> QED
    BY Zenon, <1>9, <2>1, <2>4, <2>5, <2>7, <2>9 DEF PtsAdded
<1>10. ASSUME NEW w \in Replicas, ReclaimDrop(w)
       PROVE  PtsSame(c, d) \/ PtsSwept(w, c, d)
  <2>1. PICK n, s : n = replica[w].from /\ s = replica[w].slot
    OBVIOUS
  <2>2. PICK mine : mine = {x \in Docs : Home[x] = replica[w].layer}
    OBVIOUS
  <2>3. n \in DOMAIN coll
    BY <1>10, <2>1 DEF ReclaimDrop, Exists
  <2>4. PICK k \in Collection : k = coll[n]
    BY <1>0, <2>3
  <2>5. PICK f : f = [x \in Docs |-> IF x \in mine THEN {[p EXCEPT !.vecs = @ \ {s}] : p \in k.points[x]} ELSE k.points[x]]
    OBVIOUS
  <2>7. coll' = [coll EXCEPT ![n].points = f]
    BY <1>10, <2>1, <2>2, <2>4, <2>5 DEF ReclaimDrop
  <2>8. PICK q : q = [k EXCEPT !.points = f]
    OBVIOUS
  <2>9. q.points = f
    BY <2>8 DEF Collection
  <2>10. coll' = [coll EXCEPT ![n] = q]
    BY <2>4, <2>7, <2>8
  <2>11. DOMAIN coll' = DOMAIN coll /\ coll'[n] = q /\ \A m \in DOMAIN coll \ {n} : coll'[m] = coll[m]
    BY <2>3, <2>10
  <2>12. CASE c = n /\ d \in mine
    <3>1. coll'[c].points[d] = {[p EXCEPT !.vecs = @ \ {s}] : p \in coll[c].points[d]}
      BY <2>4, <2>5, <2>9, <2>11, <2>12
    <3> QED
      BY <1>10, <2>1, <2>2, <2>3, <2>12, <3>1 DEF PtsSwept
  <2>13. CASE c = n /\ d \notin mine
    BY <2>3, <2>4, <2>5, <2>9, <2>11, <2>13 DEF PtsSame
  <2>14. CASE c # n
    BY <2>11, <2>14 DEF PtsSame
  <2> QED
    BY <2>12, <2>13, <2>14
<1>11. ASSUME NEW w \in Replicas, CollectPurge(w)
       PROVE  PtsSame(c, d) \/ PtsGone(c, d)
  <2>1. PICK n, e : n = replica[w].from /\ e = replica[w].doc
    OBVIOUS
  <2>2. e \in Docs
    BY <1>11, <2>1, TypesAt DEF CollectPurge, Placed, PlacedRow
  <2>3. coll' = IF n \in DOMAIN coll THEN WithPoints(n, e, {}) ELSE coll
    BY <1>11, <2>1 DEF CollectPurge, Exists
  <2>4. CASE n \in DOMAIN coll
    <3>1. PtsSame(c, d) \/ (c = n /\ d = e /\ coll'[c].points[d] = {})
      BY <1>1, <2>2, <2>3, <2>4
    <3> QED
      BY <1>11, <2>1, <3>1 DEF PtsGone
  <2>5. CASE n \notin DOMAIN coll
    BY <1>2, <2>3, <2>5 DEF PtsSame
  <2> QED
    BY <2>4, <2>5
<1>12. ASSUME NEW w \in Replicas, NEW e \in Docs, CopyPage(w, e)
       PROVE  PtsSame(c, d) \/ PtsCopied(w, c, d)
  <2>1. PICK n, m : n = CopyName(w) /\ m = replica[w].from
    OBVIOUS
  <2>2. n \in DOMAIN coll /\ m \in DOMAIN coll
    BY <1>12, <2>1 DEF CopyPage, Exists
  <2>3. PICK ps : ps = {p \in coll[n].points[e] : \A q \in coll[m].points[e] : q.id # p.id} \cup coll[m].points[e]
    OBVIOUS
  <2>4. ps \in SUBSET Point
    BY <2>2, <2>3, PointsAt
  <2>5. coll' = WithPoints(n, e, ps)
    BY <1>12, <2>1, <2>3 DEF CopyPage
  <2>6. PtsSame(c, d) \/ (c = n /\ d = e /\ c \in DOMAIN coll /\ coll'[c].points[d] = ps)
    BY <1>1, <2>2, <2>4, <2>5
  <2> QED
    BY <1>12, <2>1, <2>2, <2>3, <2>6 DEF PtsCopied
<1>13. ASSUME NEW w \in Replicas, NEW e \in Docs, NEW ok \in BOOLEAN, ReTombstone(w, e, ok)
       PROVE  PtsSame(c, d) \/ PtsFlagged(c, d)
  <2>1. CASE ok = TRUE
    <3>1. CopyName(w) \in DOMAIN coll /\ coll' = WithPoints(CopyName(w), e, Flagged(coll[CopyName(w)].points[e]))
      BY <1>13, <2>1 DEF ReTombstone, Exists
    <3>2. PICK ps \in SUBSET Point : ps = Flagged(coll[CopyName(w)].points[e])
      BY <3>1, PointsAt
    <3>3. PtsSame(c, d) \/ (c = CopyName(w) /\ d = e /\ c \in DOMAIN coll /\ coll'[c].points[d] = ps)
      BY <1>1, <3>1, <3>2
    <3> QED
      BY <1>13, <2>1, <3>2, <3>3 DEF PtsFlagged
  <2>2. CASE ok = FALSE
    <3>1. coll' = coll
      BY <1>13, <2>2 DEF ReTombstone
    <3> QED
      BY <1>2, <3>1 DEF PtsSame
  <2> QED
    BY <1>13, <2>1, <2>2
<1> QED
  BY <1>2, <1>3, <1>4, <1>5, <1>6, <1>7, <1>8, <1>9, <1>10, <1>11, <1>12, <1>13, PointMoves

----------------------------------------------------------------------------
(* What holds of the points.                                                *)

(* No repair was lost and no copy went wrong.                               *)
Good == ~missed /\ Clean

(* A pass that has written, and a delete that has flagged, hold the row.    *)
PassHolds(w) ==
  replica[w].pc = "written" =>
    /\ lock[replica[w].doc] = w /\ doc[replica[w].doc].status = "parsing" /\ ~Deleted(replica[w].doc)

HeldByPass(d) ==
  lock[d] \in Replicas => replica[lock[d]].pc = "written" /\ replica[lock[d]].doc = d

DeleteHolds ==
  deleting # NoDelete => deleting.doc \in Docs /\ lock[deleting.doc] = "delete" /\ ~Deleted(deleting.doc)

Locks == (\A w \in Replicas : PassHolds(w)) /\ (\A d \in Docs : HeldByPass(d)) /\ DeleteHolds

RowOK(d) == doc[d].chunks # None /\ (~Deleted(d) => doc[d].purged = None)

LayerOK(l) ==
  /\ layer[l].since <= clock
  /\ layer[l].previous # None => layer[l].status = "complete"
  /\ layer[l].status = "complete" => layer[l].vector = layer[l].shadow
  /\ starting[l] # None => layer[l].status # "running" /\ (layer[l].exists => starting[l].slot # layer[l].vector)

(* No one writes to a collection the pointer has not reached.               *)
NotAhead(w) ==
  replica[w].pc \in {"indexing", "written", "embedding", "added", "marking", "purging", "purged", "reclaiming"} =>
    Len(replica[w].from) <= Len(live)

Sweeps(w) ==
  LET l == layer[replica[w].layer] IN
  replica[w].pc = "reclaiming" =>
    /\ replica[w].slot # None /\ l.exists
    /\ l.previous = replica[w].slot => replica[w].slot # l.vector
    /\ l.status = "running" => l.shadow # l.vector

Embeds(w) ==
  replica[w].pc \in {"embedding", "added", "marking"} =>
    /\ replica[w].layer = Home[replica[w].doc] /\ replica[w].began <= clock
    /\ replica[w].began = layer[replica[w].layer].since => replica[w].slot = layer[replica[w].layer].shadow

Works(w) ==
  /\ NotAhead(w) /\ Sweeps(w) /\ Embeds(w)
  /\ replica[w].pc = "purged" => Deleted(replica[w].doc) \/ resent[w]
  /\ replica[w].pc \in {"copying", "repairing"} => replica[w].began <= clock
  /\ replica[w].pc = "copying" /\ ~replica[w].ready => replica[w].copied = {}
  /\ replica[w].pc = "copying" /\ HoldsCopy(w) => replica[w].began = layer[replica[w].layer].since
  /\ replica[w].pc \in {"indexing", "written"} => replica[w].layer = Home[replica[w].doc]
  /\ replica[w].pc = "written" => replica[w].id # None /\ replica[w].began <= clock

OfMigration ==
  {"copying", "repairing", "tombstoning", "embedding", "added", "marking", "marked", "erred", "switching", "scoring",
   "judging"}

(* A copy, the repair of the last one and a rebuild keep out of each        *)
(* other's way.                                                             *)
Apart ==
  Clean =>
    /\ AnyCopying => ~Repairing
    /\ \A w \in Replicas : replica[w].pc \in {"repairing", "tombstoning"} => CopyName(w) = live
    /\ ~NotRebuilding => \A w \in Replicas : replica[w].pc \notin OfMigration

UniqueIds == \A c \in DOMAIN coll, d \in Docs : \A p, q \in coll[c].points[d] : p.id = q.id => p = q

----------------------------------------------------------------------------
(* Locks.                                                                   *)

(* Where a pass goes from its write.                                        *)
LEMMA PassEnds ==
  ASSUME TypeInv, NEW v \in Replicas
  PROVE  /\ IngestCommit(v) \/ IngestFail(v) \/ Crash(v) => replica'[v].pc = "idle"
         /\ replica[v].pc = "written" /\ Acts(v) => IngestCommit(v) \/ IngestFail(v) \/ Crash(v)
         /\ IngestWrite(v) => replica'[v].pc = "written" /\ replica'[v].doc = replica[v].doc
<1>0. replica \in [Replicas -> Replica] /\ replica[v] \in Replica
  BY DEF TypeInv, TypeOK
<1>1. IngestCommit(v) \/ IngestFail(v) \/ Crash(v) => replica'[v].pc = "idle"
  BY <1>0, IdleRow DEF IngestCommit, IngestFail, Crash
<1>2. ASSUME IngestWrite(v)
      PROVE  replica'[v].pc = "written" /\ replica'[v].doc = replica[v].doc
  <2>1. PICK i : i = FreshId
    OBVIOUS
  <2>2. PICK b \in Replica : b = replica[v]
    BY <1>0
  <2>3. PICK q : q = [b EXCEPT !.pc = "written", !.id = i, !.began = clock]
    OBVIOUS
  <2>4. q.pc = "written" /\ q.doc = b.doc
    BY <2>3 DEF Replica
  <2>5. replica' = [replica EXCEPT ![v] = q]
    BY <1>0, <1>2, <2>1, <2>2, <2>3 DEF IngestWrite
  <2> QED
    BY <1>0, <2>2, <2>4, <2>5
<1>3. ASSUME replica[v].pc = "written", Ingest(v) \/ Collect(v)
      PROVE  IngestCommit(v) \/ IngestFail(v)
  BY <1>3 DEF Ingest, IngestClaim, IngestWrite, Collect, CollectClaim, CollectSkip, CollectPurge, CollectMark
<1>4. ASSUME replica[v].pc = "written", Copy(v)
      PROVE  FALSE
  BY <1>4 DEF Copy, CopyClaim, CopyCreate, CopyFinish, CopyAbandon, CopyThrow, CopyPage, Repair, ReTombstone
<1>5. ASSUME replica[v].pc = "written", Embed(v) \/ Recall(v)
      PROVE  FALSE
  BY <1>5 DEF Embed, EmbedClaim, EmbedAdd, EmbedCompare, EmbedMark, EmbedFail, RecordPass, Switch, PendingSwitch,
              Recall, RecallBegin, RecallRecord, RecallFail
<1>6. ASSUME replica[v].pc = "written", Retire(v)
      PROVE  FALSE
  BY <1>6 DEF Retire, RetireDue, ReclaimDue, RetireDrop, RetireForget, ReclaimDrop, ReclaimForget
<1> QED
  BY <1>1, <1>2, <1>3, <1>4, <1>5, <1>6 DEF Acts

(* What a row that a pass or a delete holds goes through.                   *)
LEMMA HeldRow ==
  ASSUME TypeInv, [Next]_vars, Locks, NEW d \in Docs, ~Unlocked(d)
  PROVE  \/ doc'[d] = doc[d] /\ lock'[d] = lock[d]
         \/ lock[d] = "delete" /\ DeleteCommit /\ deleting.doc = d
         \/ lock[d] \in Replicas /\ lock'[d] = None /\ (IngestCommit(lock[d]) \/ IngestFail(lock[d]) \/ Crash(lock[d]))
<1>0. lock[d] \in Replicas \cup {"delete"}
  BY DEF TypeInv, TypeOK, Unlocked
<1>1. ASSUME DeleteCommit, deleting.doc = d
      PROVE  lock[d] = "delete"
  BY <1>1 DEF DeleteCommit, Locks, DeleteHolds
<1>2. ASSUME NEW w \in Replicas, IngestCommit(w) \/ (IngestFail(w) /\ replica[w].pc = "written"), replica[w].doc = d
      PROVE  lock[d] = w /\ lock'[d] = None
  <2>1. lock[d] = w
    BY <1>2 DEF IngestCommit, Locks, PassHolds
  <2>2. lock \in [Docs -> Replicas \cup {"delete", None}]
    BY DEF TypeInv, TypeOK
  <2> QED
    BY <1>2, <2>1, <2>2 DEF IngestCommit, IngestFail
<1>3. \/ lock'[d] = lock[d]
      \/ lock[d] = "delete" /\ DeleteCommit /\ deleting.doc = d
      \/ lock[d] \in Replicas /\ lock'[d] = None /\ (IngestCommit(lock[d]) \/ IngestFail(lock[d]) \/ Crash(lock[d]))
  BY <1>1, <1>2, LockAfter DEF IngestCommit
<1>4. \/ doc'[d] = doc[d]
      \/ lock[d] = "delete" /\ DeleteCommit /\ deleting.doc = d
      \/ lock[d] \in Replicas /\ lock'[d] = None /\ (IngestCommit(lock[d]) \/ IngestFail(lock[d]))
  <2>1. ASSUME Pended(d)
        PROVE  lock[d] \in Replicas /\ lock'[d] = None /\ IngestFail(lock[d])
    BY <1>2, <2>1 DEF Pended
  <2>2. ASSUME NEW w \in Replicas, Committed(w, d)
        PROVE  lock[d] \in Replicas /\ lock'[d] = None /\ IngestCommit(lock[d])
    BY <1>2, <2>2 DEF Committed
  <2>3. ASSUME Hid(d)
        PROVE  lock[d] = "delete" /\ DeleteCommit /\ deleting.doc = d
    BY <1>1, <2>3 DEF Hid
  <2> QED
    BY <2>1, <2>2, <2>3, RowAfter DEF Kept, Marked, PurgeMarked, Reborn, Retombed, Sent, Redated, Rewritten, Lost
<1> QED
  BY <1>3, <1>4

(* Every step.                                                              *)
LEMMA LocksKeep ==
  ASSUME TypeInv, [Next]_vars, Locks
  PROVE  Locks'
<1>0. lock \in [Docs -> Replicas \cup {"delete", None}] /\ None \notin Replicas /\ None # "delete" /\ "delete" \notin Replicas
  BY MigrationAssumption DEF TypeInv, TypeOK
<1>1. ASSUME NEW w \in Replicas, replica'[w].pc = "written"
      PROVE  /\ lock'[replica'[w].doc] = w /\ doc'[replica'[w].doc].status = "parsing" /\ doc'[replica'[w].doc].deleted = None
  <2>1. CASE IngestWrite(w)
    <3>1. PICK d \in Docs : d = replica[w].doc
      BY <2>1, TypesAt DEF Placed, PlacedRow, IngestWrite
    <3>2. replica'[w].doc = d
      BY <2>1, <3>1, PassEnds
    <3>3. lock' = [lock EXCEPT ![d] = w] /\ doc' = doc /\ doc[d].status = "parsing" /\ ~Deleted(d)
      BY <2>1, <3>1 DEF IngestWrite
    <3> QED
      BY <1>0, <3>2, <3>3 DEF Deleted
  <2>2. CASE replica'[w] = replica[w]
    <3>1. PICK d \in Docs : d = replica[w].doc
      BY <1>1, <2>2, TypesAt DEF Placed, PlacedRow
    <3>2. lock[d] = w /\ doc[d].status = "parsing" /\ ~Deleted(d)
      BY <1>1, <2>2, <3>1 DEF Locks, PassHolds
    <3>3. ~IngestCommit(w) /\ ~IngestFail(w) /\ ~Crash(w)
      BY <1>1, PassEnds
    <3>4. doc'[d] = doc[d] /\ lock'[d] = lock[d]
      BY <1>0, <3>2, <3>3, HeldRow DEF Unlocked
    <3> QED
      BY <2>2, <3>1, <3>2, <3>4 DEF Deleted
  <2> QED
    BY <1>1, <2>1, <2>2, IndexPlace
<1>2. ASSUME NEW d \in Docs, lock'[d] \in Replicas
      PROVE  replica'[lock'[d]].pc = "written" /\ replica'[lock'[d]].doc = d
  <2>1. CASE lock'[d] = lock[d]
    <3>1. PICK w \in Replicas : w = lock[d]
      BY <1>2, <2>1
    <3>2. replica[w].pc = "written" /\ replica[w].doc = d
      BY <3>1 DEF Locks, HeldByPass
    <3>3. ~IngestCommit(w) /\ ~IngestFail(w) /\ ~Crash(w)
      <4>1. IngestCommit(w) \/ IngestFail(w) => lock'[d] = None
        BY <1>0, <3>1, <3>2 DEF IngestCommit, IngestFail
      <4>2. Crash(w) => lock'[d] = None
        BY <1>0, <3>1 DEF Crash
      <4> QED
        BY <1>0, <1>2, <4>1, <4>2
    <3>4. replica'[w] = replica[w]
      BY <3>2, <3>3, PassEnds, ActsAlone
    <3> QED
      BY <2>1, <3>1, <3>2, <3>4
  <2>2. ASSUME NEW w \in Replicas, IngestWrite(w), replica[w].doc = d, lock'[d] = w
        PROVE  replica'[lock'[d]].pc = "written" /\ replica'[lock'[d]].doc = d
    BY <2>2, PassEnds
  <2> QED
    BY <1>0, <1>2, <2>1, <2>2, LockAfter
<1>3. ASSUME deleting' # NoDelete
      PROVE  deleting'.doc \in Docs /\ lock'[deleting'.doc] = "delete" /\ doc'[deleting'.doc].deleted = None
  <2>1. ASSUME NEW d \in Docs, Delete(d)
        PROVE  deleting'.doc \in Docs /\ lock'[deleting'.doc] = "delete" /\ doc'[deleting'.doc].deleted = None
    <3>1. lock' = [lock EXCEPT ![d] = "delete"] /\ doc' = doc /\ ~Deleted(d) /\ deleting'.doc = d
      BY <2>1 DEF Delete
    <3> QED
      BY <1>0, <3>1 DEF Deleted
  <2>2. ~DeleteCommit
    BY <1>3 DEF DeleteCommit
  <2>3. CASE deleting' = deleting
    <3>1. PICK d \in Docs : d = deleting.doc /\ lock[d] = "delete" /\ ~Deleted(d)
      BY <1>3, <2>3 DEF Locks, DeleteHolds
    <3>2. doc'[d] = doc[d] /\ lock'[d] = lock[d]
      BY <1>0, <2>2, <3>1, HeldRow DEF Unlocked
    <3> QED
      BY <2>3, <3>1, <3>2 DEF Deleted
  <2> QED
    BY <2>1, <2>2, <2>3, RequestsMove
<1> QED
  BY <1>1, <1>2, <1>3 DEF Locks, PassHolds, HeldByPass, DeleteHolds, Deleted

(* A document that is deleted stays so until it is sent again.              *)
LEMMA StaysDeleted ==
  ASSUME TypeInv, [Next]_vars, Locks, NEW d \in Docs, Deleted(d)
  PROVE  Send(d) \/ (Deleted(d)' /\ doc'[d].deleted = doc[d].deleted)
<1>1. ~Hid(d)
  BY DEF Hid, DeleteCommit, Locks, DeleteHolds
<1> QED
  BY <1>1, RowAfter DEF Deleted, Kept, Pended, Committed, Marked, PurgeMarked, Reborn, Retombed, Sent, Redated, Rewritten, Lost

(* The rows.                                                                *)
LEMMA RowsKeep ==
  ASSUME TypeInv, [Next]_vars, Locks, \A w \in Replicas : Works(w), NEW d \in Docs, RowOK(d)
  PROVE  RowOK(d)'
<1>1. CASE Kept(d) \/ Pended(d) \/ \E w \in Replicas : Marked(w, d) \/ Retombed(w, d) \/ Reborn(w, d)
  BY <1>1 DEF RowOK, Kept, Pended, Marked, Retombed, Reborn, Deleted
<1>5. CASE Sent(d) \/ Redated(d) \/ \E w \in Replicas : Rewritten(w, d) \/ Lost(w, d)
  BY <1>5 DEF RowOK, Sent, Redated, Rewritten, Lost, Deleted
<1>2. CASE Hid(d)
  <2>1. ~Deleted(d)
    BY <1>2 DEF Hid, DeleteCommit, Locks, DeleteHolds
  <2> QED
    BY <1>2, <2>1 DEF RowOK, Hid, Deleted
<1>3. ASSUME NEW w \in Replicas, Committed(w, d)
      PROVE  RowOK(d)'
  <2>1. replica[w].id # None
    BY <1>3 DEF Committed, IngestCommit, Works
  <2> QED
    BY <1>3, <2>1 DEF RowOK, Committed, Deleted
<1>4. ASSUME NEW w \in Replicas, PurgeMarked(w, d)
      PROVE  RowOK(d)'
  <2>1. Deleted(d)
    BY <1>4 DEF PurgeMarked
  <2> QED
    BY <1>4, <2>1 DEF RowOK, PurgeMarked, Deleted
<1> QED
  BY <1>1, <1>2, <1>3, <1>4, <1>5, RowAfter

(* A start that is under way after a step.                                  *)
LEMMA StartingAfter ==
  ASSUME TypeInv, [Next]_vars, NEW l \in Layers, starting'[l] # None
  PROVE  \/ starting'[l] = starting[l] /\ ~StartWrite(l)
         \/ /\ \E v \in Vectors : (StartRead(l, v) \/ CreateRead(l, v)) /\ starting'[l].slot = v
            /\ layer' = layer
<1>0. starting \in [Layers -> [slot : Vectors, phase : {"none", "copying", "embedding"}] \cup {None}]
  BY DEF TypeInv, TypeOK
<1>1. ASSUME NEW k \in Layers, StartWrite(k)
      PROVE  starting'[l] = starting[l] /\ ~StartWrite(l)
  <2>1. starting' = [starting EXCEPT ![k] = None]
    BY <1>1 DEF StartWrite
  <2>2. StartWrite(l) => starting' = [starting EXCEPT ![l] = None]
    BY DEF StartWrite
  <2> QED
    BY <1>0, <2>1, <2>2
<1>2. ASSUME NEW k \in Layers, NEW v \in Vectors, StartRead(k, v) \/ CreateRead(k, v)
      PROVE  \/ starting'[l] = starting[l] /\ ~StartWrite(l)
             \/ (StartRead(l, v) \/ CreateRead(l, v)) /\ starting'[l].slot = v /\ layer' = layer
  <2>1. PICK ph : /\ starting' = [starting EXCEPT ![k] = [slot |-> v, phase |-> ph]]
                  /\ layer' = layer /\ starting[k] = None
    BY <1>2 DEF StartRead, CreateRead, MayStart
  <2>0. PICK q : q = [slot |-> v, phase |-> ph]
    OBVIOUS
  <2>2. q = [slot |-> v, phase |-> ph] /\ q.slot = v
    BY <2>0
  <2>3. starting' = [starting EXCEPT ![k] = q]
    BY <2>1, <2>2
  <2>4. CASE k = l
    BY <1>0, <1>2, <2>1, <2>2, <2>3, <2>4
  <2>5. CASE k # l
    <3>1. starting'[l] = starting[l]
      BY <1>0, <2>3, <2>5
    <3>2. StartWrite(l) => starting' = [starting EXCEPT ![l] = None]
      BY DEF StartWrite
    <3>3. ~StartWrite(l)
      BY <1>0, <3>2
    <3> QED
      BY <3>1, <3>3
  <2> QED
    BY <2>4, <2>5
<1>3. CASE starting' = starting
  <2>1. StartWrite(l) => starting' = [starting EXCEPT ![l] = None]
    BY DEF StartWrite
  <2>2. ~StartWrite(l)
    BY <1>0, <2>1
  <2> QED
    BY <1>3, <2>2
<1> QED
  BY <1>1, <1>2, <1>3, OperatorMoves DEF StartStep

(* The layers.                                                              *)
LEMMA LayersKeep ==
  ASSUME TypeInv, [Next]_vars, NEW l \in Layers, LayerOK(l)
  PROVE  LayerOK(l)'
<1>0. layer[l].since \in Nat /\ clock \in Nat /\ clock' \in Nat /\ layer[l].since <= clock /\ clock <= clock'
  BY TypesAt, ClockGrows DEF LayerOK, Layer
<1>1. layer'[l].since <= clock'
  <2>1. Begun(l) => layer'[l].since <= clock'
    BY <1>0, ClockGrows DEF Begun
  <2>2. SameRow(l) \/ Moved(l) \/ Switched(l) => layer'[l].since = layer[l].since
    BY DEF SameRow, Moved, Switched
  <2> QED
    BY <1>0, <2>1, <2>2, LayerAfter
<1>2. layer'[l].previous # None => layer'[l].status = "complete"
  <2>1. SameRow(l) => (layer'[l].previous # None => layer'[l].status = "complete")
    BY DEF SameRow, LayerOK
  <2>2. Moved(l) => (layer'[l].previous # None => layer'[l].status = "complete")
    BY DEF Moved, LayerOK, Copying
  <2> QED
    BY <2>1, <2>2, LayerAfter DEF Switched, Begun
<1>3. layer'[l].status = "complete" => layer'[l].vector = layer'[l].shadow
  <2>1. SameRow(l) \/ Moved(l) => (layer'[l].status = "complete" => layer'[l].vector = layer'[l].shadow)
    BY DEF SameRow, Moved, LayerOK
  <2>2. Switched(l) => layer'[l].vector = layer'[l].shadow
    BY DEF Switched, Done, SameMigration
  <2>3. Begun(l) => layer'[l].status # "complete"
    BY DEF Begun
  <2> QED
    BY <2>1, <2>2, <2>3, LayerAfter
<1>4. ASSUME starting'[l] # None
      PROVE  layer'[l].status # "running" /\ (layer'[l].exists => starting'[l].slot # layer'[l].vector)
  <2>1. CASE starting'[l] = starting[l] /\ ~StartWrite(l)
    <3>1. layer[l].status # "running" /\ (layer[l].exists => starting[l].slot # layer[l].vector)
      BY <1>4, <2>1 DEF LayerOK
    <3>2. SameRow(l)
      BY <2>1, <3>1, LayerAfter DEF Moved, Switched, Begun, Copying
    <3> QED
      BY <2>1, <3>1, <3>2 DEF SameRow
  <2>2. ASSUME NEW v \in Vectors, StartRead(l, v) \/ CreateRead(l, v), starting'[l].slot = v, layer' = layer
        PROVE  layer'[l].status # "running" /\ (layer'[l].exists => starting'[l].slot # layer'[l].vector)
    BY <2>2, TypesAt DEF StartRead, CreateRead, RunsInto
  <2> QED
    BY <1>4, <2>1, <2>2, StartingAfter
<1> QED
  BY <1>1, <1>2, <1>3, <1>4 DEF LayerOK

(* The pointer only grows.                                                  *)
LEMMA PointerAhead ==
  ASSUME TypeInv, RecordInv, [Next]_vars
  PROVE  /\ Len(live) \in Nat /\ Len(live') \in Nat /\ Len(live) <= Len(live')
         /\ live' # live => Len(live) < Len(live')
         /\ \A n \in Names : Len(n) \in Nat
<1>0. \A n \in Names : Len(n) \in Nat
  BY LenProperties DEF Names
<1>1. live \in Names /\ live' \in Names
  BY NameTypes, TypesAt
<1>2. ASSUME NEW w \in Replicas, CopyFinish(w)
      PROVE  Len(live) < Len(live')
  <2>1. PICK s \in Vectors : live' = Append(live, s)
    BY <1>2, PointerGrows DEF RecordInv
  <2>2. Before(live, Append(live, s))
    BY <1>1, Grown
  <2> QED
    BY <2>1, <2>2 DEF Before
<1> QED
  BY <1>0, <1>1, <1>2, PointerMoves

(* What a replica read is not ahead of the pointer.                         *)
LEMMA AheadKeeps ==
  ASSUME TypeInv, RecordInv, [Next]_vars, NEW w \in Replicas, NotAhead(w)
  PROVE  NotAhead(w)'
<1> SUFFICES ASSUME replica'[w].pc \in {"indexing", "written", "embedding", "added", "marking", "purging", "purged", "reclaiming"}
             PROVE  Len(replica'[w].from) <= Len(live')
  BY DEF NotAhead
<1>0. /\ Len(live) \in Nat /\ Len(live') \in Nat /\ Len(live) <= Len(live')
      /\ Len(replica[w].from) \in Nat
  BY PointerAhead, ReplicaAt
<1>1. \/ replica'[w] = replica[w] \/ replica'[w].from = live
      \/ (IngestWrite(w) \/ CollectPurge(w) \/ EmbedAdd(w) \/ EmbedCompare(w)) /\ replica'[w].from = replica[w].from
  BY IndexPlace, EmbedPlace, SweepPlace
<1>2. CASE replica'[w].from = live
  BY <1>0, <1>2
<1>3. CASE replica'[w] = replica[w]
  BY <1>0, <1>3 DEF NotAhead
<1>4. CASE (IngestWrite(w) \/ CollectPurge(w) \/ EmbedAdd(w) \/ EmbedCompare(w)) /\ replica'[w].from = replica[w].from
  <2>1. replica[w].pc \in {"indexing", "purging", "embedding", "added"}
    BY <1>4 DEF IngestWrite, CollectPurge, EmbedAdd, EmbedCompare
  <2> QED
    BY <1>0, <1>4, <2>1 DEF NotAhead
<1> QED
  BY <1>1, <1>2, <1>3, <1>4

(* What is read of a slot to sweep.                                         *)
LEMMA SweepsKeep ==
  ASSUME TypeInv, [Next]_vars, \A l \in Layers : LayerOK(l), NEW w \in Replicas, Sweeps(w)
  PROVE  Sweeps(w)'
<1> SUFFICES ASSUME replica'[w].pc = "reclaiming"
             PROVE  /\ replica'[w].slot # None /\ layer'[replica'[w].layer].exists
                    /\ layer'[replica'[w].layer].previous = replica'[w].slot => replica'[w].slot # layer'[replica'[w].layer].vector
                    /\ layer'[replica'[w].layer].status = "running" =>
                         layer'[replica'[w].layer].shadow # layer'[replica'[w].layer].vector
  BY DEF Sweeps
<1>1. CASE replica'[w] = replica[w]
  <2>1. PICK l \in Layers, s \in Vectors \cup {None} : l = replica[w].layer /\ s = replica[w].slot
    BY <1>1, TypesAt, ReplicaAt DEF Placed, PlacedRow
  <2>2. /\ s # None /\ layer[l].exists
        /\ layer[l].previous = s => s # layer[l].vector
        /\ layer[l].status = "running" => layer[l].shadow # layer[l].vector
    BY <1>1, <2>1 DEF Sweeps
  <2>3. LayerOK(l)
    OBVIOUS
  <2>4. CASE SameRow(l)
    BY <1>1, <2>1, <2>2, <2>4 DEF SameRow
  <2>5. CASE Moved(l)
    BY <1>1, <2>1, <2>2, <2>3, <2>5 DEF Moved, Copying, LayerOK
  <2>6. CASE Switched(l)
    <3>1. layer'[l].vector = layer[l].shadow
      BY <2>6 DEF Switched, Done, SameMigration
    <3> QED
      BY <1>1, <2>1, <2>2, <2>6, <3>1 DEF Switched
  <2>7. CASE Begun(l)
    <3>1. starting[l] # None
      BY <2>7 DEF Begun, StartWrite
    <3>2. starting[l].slot # layer[l].vector
      BY <2>2, <2>3, <3>1 DEF LayerOK
    <3> QED
      BY <1>1, <2>1, <2>2, <2>7, <3>2 DEF Begun
  <2> QED
    BY <2>4, <2>5, <2>6, <2>7, LayerAfter
<1>2. ASSUME NEW l \in Layers, ReclaimDue(w, l), replica'[w].layer = l, replica'[w].slot = layer[l].previous
      PROVE  /\ replica'[w].slot # None /\ layer'[replica'[w].layer].exists
             /\ layer'[replica'[w].layer].previous = replica'[w].slot => replica'[w].slot # layer'[replica'[w].layer].vector
             /\ layer'[replica'[w].layer].status = "running" =>
                  layer'[replica'[w].layer].shadow # layer'[replica'[w].layer].vector
  <2>1. layer' = layer /\ layer[l].status = "complete" /\ layer[l].previous \notin {None, layer[l].vector}
    BY <1>2 DEF ReclaimDue, Reclaimable
  <2>2. layer[l].exists
    BY <2>1, TypesAt DEF RunsInto
  <2> QED
    BY <1>2, <2>1, <2>2
<1> QED
  BY <1>1, <1>2, SweepPlace

(* What is read of a migration to embed for.                                *)
LEMMA EmbedsKeep ==
  ASSUME TypeInv, [Next]_vars, \A l \in Layers : LayerOK(l), NEW w \in Replicas, Embeds(w)
  PROVE  Embeds(w)'
<1> SUFFICES ASSUME replica'[w].pc \in {"embedding", "added", "marking"}
             PROVE  /\ replica'[w].layer = Home[replica'[w].doc] /\ replica'[w].began <= clock'
                    /\ replica'[w].began = layer'[replica'[w].layer].since =>
                         replica'[w].slot = layer'[replica'[w].layer].shadow
  BY DEF Embeds
<1>0. clock \in Nat /\ clock' \in Nat /\ clock <= clock' /\ replica[w].began \in Nat
  BY ClockGrows, ReplicaAt, TypesAt
<1>1. ASSUME replica[w].pc \in {"embedding", "added", "marking"}, replica'[w].doc = replica[w].doc,
             replica'[w].layer = replica[w].layer, replica'[w].slot = replica[w].slot, replica'[w].began = replica[w].began
      PROVE  /\ replica'[w].layer = Home[replica'[w].doc] /\ replica'[w].began <= clock'
             /\ replica'[w].began = layer'[replica'[w].layer].since =>
                  replica'[w].slot = layer'[replica'[w].layer].shadow
  <2>1. PICK l \in Layers : l = replica[w].layer
    BY <1>1, TypesAt DEF Placed, PlacedRow
  <2>2. /\ l = Home[replica[w].doc] /\ replica[w].began <= clock
        /\ replica[w].began = layer[l].since => replica[w].slot = layer[l].shadow
    BY <1>1, <2>1 DEF Embeds
  <2>3. replica[w].began = layer'[l].since => replica[w].slot = layer'[l].shadow
    <3>1. CASE SameRow(l) \/ Moved(l) \/ Switched(l)
      BY Zenon, <2>2, <3>1 DEF SameRow, Moved, Switched
    <3>2. CASE Begun(l)
      <4>1. layer'[l].since = clock + 1
        BY <3>2 DEF Begun
      <4> QED
        BY <1>0, <2>2, <4>1
    <3> QED
      BY <3>1, <3>2, LayerAfter
  <2> QED
    BY <1>0, <1>1, <2>1, <2>2, <2>3
<1>2. ASSUME NEW d \in Docs, EmbedClaim(w, d), replica'[w].doc = d, replica'[w].layer = Home[d],
             replica'[w].slot = layer[Home[d]].shadow, replica'[w].began = layer[Home[d]].since
      PROVE  /\ replica'[w].layer = Home[replica'[w].doc] /\ replica'[w].began <= clock'
             /\ replica'[w].began = layer'[replica'[w].layer].since =>
                  replica'[w].slot = layer'[replica'[w].layer].shadow
  <2>1. layer' = layer /\ clock' = clock
    BY <1>2 DEF EmbedClaim
  <2>2. Home[d] \in Layers
    BY MigrationAssumption
  <2> QED
    BY <1>2, <2>1, <2>2 DEF LayerOK
<1>3. EmbedAdd(w) => replica[w].pc = "embedding"
  BY DEF EmbedAdd
<1> QED
  BY <1>1, <1>2, <1>3, EmbedPlace

(* A collector that has purged is told of a send until it has marked.       *)
LEMMA ResentStays ==
  ASSUME TypeInv, [Next]_vars, NEW w \in Replicas, replica[w].pc = "purged", replica'[w].pc = "purged"
  PROVE  resent'[w] \/ (~resent[w] /\ ~Send(replica[w].doc))
<1>0. resent \in [Replicas -> BOOLEAN] /\ replica \in [Replicas -> Replica]
  BY DEF TypeInv, TypeOK
<1>1. ASSUME NEW d \in Docs, Send(d)
      PROVE  resent'[w] \/ (~resent[w] /\ ~Send(replica[w].doc))
  <2>1. resent'[w] = (resent[w] \/ (replica[w].pc = "purged" /\ replica[w].doc = d))
    BY <1>1, Zenon DEF Send
  <2>2. Send(replica[w].doc) => resent'[w] = (resent[w] \/ (replica[w].pc = "purged" /\ replica[w].doc = replica[w].doc))
    BY Zenon DEF Send
  <2> QED
    BY <2>1, <2>2, Zenon
<1>2. ASSUME NEW v \in Replicas, CollectPurge(v) \/ CollectMark(v) \/ Crash(v)
      PROVE  v # w /\ resent'[w] = resent[w]
  <2>1. CollectPurge(w) => replica[w].pc = "purging"
    BY DEF CollectPurge
  <2>2. CollectMark(w) \/ Crash(w) => replica'[w].pc = "idle"
    BY <1>0, IdleRow DEF CollectMark, Crash
  <2>3. v # w
    BY <1>2, <2>1, <2>2
  <2> QED
    BY <1>0, <1>2, <2>3, Zenon DEF CollectPurge, CollectMark, Crash
<1>3. ASSUME Send(replica[w].doc)
      PROVE  resent'[w]
  <2>1. resent'[w] = (resent[w] \/ (replica[w].pc = "purged" /\ replica[w].doc = replica[w].doc))
    BY <1>3, Zenon DEF Send
  <2> QED
    BY <2>1, Zenon
<1>4. CASE resent'[w] = resent[w]
  BY <1>3, <1>4
<1> QED
  BY <1>1, <1>2, <1>4, ResentMoves

(* The work of a replica.                                                   *)
LEMMA WorksKeep ==
  ASSUME TypeInv, RecordInv, [Next]_vars, Locks, \A l \in Layers : LayerOK(l), NEW w \in Replicas, Works(w)
  PROVE  Works(w)'
<1>0. clock \in Nat /\ clock' \in Nat /\ clock <= clock' /\ replica[w].began \in Nat
  BY ClockGrows, ReplicaAt, TypesAt
<1>1. NotAhead(w)' /\ Sweeps(w)' /\ Embeds(w)'
  BY AheadKeeps, SweepsKeep, EmbedsKeep DEF Works
<1>2. ASSUME replica'[w].pc = "purged"
      PROVE  doc'[replica'[w].doc].deleted # None \/ resent'[w]
  <2>1. CASE replica'[w] = replica[w]
    <3>1. PICK d \in Docs : d = replica[w].doc
      BY <1>2, <2>1, TypesAt DEF Placed, PlacedRow
    <3>2. Deleted(d) \/ resent[w]
      BY <1>2, <2>1, <3>1 DEF Works
    <3>3. resent'[w] \/ (~resent[w] /\ ~Send(d))
      BY <1>2, <2>1, <3>1, ResentStays
    <3> QED
      BY <2>1, <3>1, <3>2, <3>3, StaysDeleted DEF Deleted
  <2>2. CASE CollectPurge(w) /\ replica'[w].doc = replica[w].doc
    <3>1. doc' = doc /\ resent' = [resent EXCEPT ![w] = ~Deleted(replica[w].doc)]
      BY <2>2 DEF CollectPurge
    <3>2. resent'[w] = ~Deleted(replica[w].doc)
      BY <3>1, Zenon DEF TypeInv, TypeOK
    <3> QED
      BY <2>2, <3>1, <3>2 DEF Deleted
  <2> QED
    BY <1>2, <2>1, <2>2, IndexPlace
<1>3. ASSUME replica'[w].pc \in {"copying", "repairing"}
      PROVE  replica'[w].began <= clock'
  <2>1. ASSUME NEW l \in Layers, replica'[w].began = layer[l].since
        PROVE  replica'[w].began <= clock'
    <3>1. layer[l].since <= clock /\ layer[l].since \in Nat
      BY TypesAt DEF LayerOK, Layer
    <3> QED
      BY <1>0, <2>1, <3>1
  <2>2. ASSUME replica'[w].began = replica[w].began, replica[w].pc \in {"copying", "repairing"}
        PROVE  replica'[w].began <= clock'
    BY <1>0, <2>2 DEF Works
  <2>3. CopyCreate(w) \/ CopyFinish(w) \/ (\E d \in Docs : CopyPage(w, d)) => replica[w].pc = "copying"
    BY DEF CopyCreate, CopyFinish, CopyPage
  <2> QED
    BY <1>3, <2>1, <2>2, <2>3, CopyPlace
<1>4. replica'[w].pc = "copying" /\ ~replica'[w].ready => replica'[w].copied = {}
  <2>1. ASSUME NEW d \in Docs, CopyPage(w, d), replica'[w].ready = replica[w].ready
        PROVE  replica'[w].ready
    BY <2>1 DEF CopyPage
  <2> QED
    BY <2>1, CopyPlace DEF Works
<1>5. ASSUME replica'[w].pc = "copying", HoldsCopy(w)'
      PROVE  replica'[w].began = layer'[replica'[w].layer].since
  <2>1. PICK l \in Layers : l = replica'[w].layer /\ layer'[l].since = layer[l].since
    BY <1>5, HeldBefore DEF SameRow
  <2>2. CASE \E k \in Layers : replica'[w].layer = k /\ replica'[w].began = layer[k].since
    BY <2>1, <2>2
  <2>3. CASE replica[w].pc = "copying" /\ HoldsCopy(w) /\ replica'[w].layer = replica[w].layer /\ replica'[w].began = replica[w].began
    BY <2>1, <2>3 DEF Works
  <2>4. CASE replica'[w] = replica[w]
    <3>1. HoldsCopy(w)
      <4>1. ~\E k \in Layers : CopyClaim(w, k)
        BY <1>5, <2>4 DEF CopyClaim
      <4>2. SameRow(l) /\ Copying(l)
        BY <1>5, <2>1, HeldBefore
      <4>3. layer'[l].claim = w
        BY <1>5, <2>1 DEF HoldsCopy
      <4>4. layer[l].claim = w
        BY <4>1, <4>2, <4>3 DEF SameRow
      <4> QED
        BY <2>1, <2>4, <4>2, <4>4 DEF HoldsCopy
    <3> QED
      BY <1>5, <2>3, <2>4, <3>1
  <2>5. ASSUME CopyCreate(w) \/ (\E d \in Docs : CopyPage(w, d)), replica'[w].layer = replica[w].layer,
               replica'[w].began = replica[w].began
        PROVE  replica'[w].began = layer'[replica'[w].layer].since
    <3>1. replica[w].pc = "copying" /\ layer' = layer
      BY <2>5 DEF CopyCreate, CopyPage
    <3>2. HoldsCopy(w)
      BY <1>5, <2>5, <3>1 DEF HoldsCopy, Copying
    <3> QED
      BY <2>3, <2>5, <3>1, <3>2
  <2> QED
    BY <1>5, <2>2, <2>4, <2>5, CopyPlace
<1>6. ASSUME replica'[w].pc \in {"indexing", "written"}
      PROVE  replica'[w].layer = Home[replica'[w].doc]
  BY <1>6, IndexPlace DEF Works, IngestWrite
<1>7. ASSUME replica'[w].pc = "written"
      PROVE  replica'[w].id # None /\ replica'[w].began <= clock'
  <2>1. CASE replica'[w] = replica[w]
    BY <1>0, <1>7, <2>1 DEF Works
  <2>2. CASE IngestWrite(w) /\ replica'[w].id = FreshId /\ replica'[w].began = clock
    <3>1. \E i \in Ids : i \notin InUse
      BY <2>2 DEF IngestWrite
    <3>2. FreshId \in Ids
      BY <3>1 DEF FreshId
    <3> QED
      BY <1>0, <2>2, <3>2, MigrationAssumption
  <2> QED
    BY <1>7, <2>1, <2>2, IndexPlace
<1> QED
  BY <1>1, <1>2, <1>3, <1>4, <1>5, <1>6, <1>7 DEF Works, Deleted

(* Who works for a migration after a step did before, or found one running. *)
LEMMA MigrationPlace ==
  ASSUME TypeInv, [Next]_vars, NEW v \in Replicas, replica'[v].pc \in OfMigration
  PROVE  replica[v].pc \in OfMigration \/ \E l \in Layers : layer[l].status = "running"
<1>1. CASE replica'[v].pc = "copying"
  <2>1. (\E l \in Layers : CopyClaim(v, l)) \/ replica[v].pc = "copying"
    BY <1>1, WorkAfter
  <2>2. (\E l \in Layers : CopyClaim(v, l)) => \E l \in Layers : layer[l].status = "running"
    BY DEF CopyClaim, Copying
  <2> QED
    BY <2>1, <2>2 DEF OfMigration
<1>2. CASE Fills(v)'
  <2>1. Fills(v) \/ \E l \in Layers : Embedding(l)
    BY <1>2, WorkAfter
  <2> QED
    BY <2>1 DEF Fills, OfMigration, Embedding
<1>3. CASE replica'[v].pc \in {"repairing", "tombstoning"}
  <2>1. \/ replica'[v] = replica[v] \/ CopyFinish(v) \/ Repair(v) \/ \E d \in Docs, ok \in BOOLEAN : ReTombstone(v, d, ok)
    BY <1>3, CopyPlace
  <2> QED
    BY Zenon, <1>3, <2>1 DEF OfMigration, CopyFinish, Repair, ReTombstone
<1> QED
  BY <1>1, <1>2, <1>3 DEF OfMigration, Fills

(* No copy begins before the last one is repaired.                          *)
LEMMA CopyApart ==
  ASSUME TypeInv, RecordInv, Apart, [Next]_vars, Clean', NEW l \in Layers, Copying(l)',
         NEW v \in Replicas, replica'[v].pc \in {"repairing", "tombstoning"}
  PROVE  FALSE
<1>0. Clean /\ (AnyCopying => ~Repairing)
  BY WrongStays DEF Apart
<1>1. CASE SameRow(l) /\ ~\E w \in Replicas : CopyFinish(w) /\ Copying(l)
  <2>1. Copying(l)
    BY <1>1 DEF SameRow, Copying
  <2>2. ~Repairing /\ ~CopyFinish(v)
    BY <1>0, <1>1, <2>1 DEF AnyCopying
  <2>3. replica'[v] = replica[v] \/ Repair(v) \/ \E d \in Docs, ok \in BOOLEAN : ReTombstone(v, d, ok)
    BY <2>2, CopyPlace
  <2>4. replica[v].pc \in {"repairing", "tombstoning"}
    BY Zenon, <2>3 DEF Repair, ReTombstone
  <2> QED
    BY <2>2, <2>4 DEF Repairing
<1>2. CASE Begun(l)
  <2>1. StartWrite(l) /\ starting[l].phase = "copying"
    BY <1>2 DEF Begun, Copying
  <2>2. ~Repairing /\ replica' = replica
    BY <2>1 DEF StartWrite, Clean
  <2> QED
    BY <2>2 DEF Repairing
<1> QED
  BY <1>1, <1>2, LayerAfter DEF Moved, Switched, Copying

(* The repair is of the live collection.                                    *)
LEMMA RepairsLive ==
  ASSUME TypeInv, RecordInv, Apart, [Next]_vars, Clean',
         NEW v \in Replicas, replica'[v].pc \in {"repairing", "tombstoning"}
  PROVE  CopyName(v)' = live'
<1>0. /\ Clean /\ (AnyCopying => ~Repairing) /\ \A w \in Replicas : CopiesLive(w)
      /\ replica[v].pc \in {"repairing", "tombstoning"} => CopyName(v) = live
  BY WrongStays DEF Apart, RecordInv
<1>1. CASE CopyFinish(v)
  <2>1. replica'[v].from = replica[v].from /\ replica'[v].slot = replica[v].slot
    BY Zenon, <1>1, CopyPlace DEF CopyFinish, CopyClaim, CopyCreate, CopyPage, Repair, ReTombstone
  <2>2. live' = CopyName(v)
    BY <1>1 DEF CopyFinish
  <2> QED
    BY <2>1, <2>2 DEF CopyName
<1>2. CASE ~CopyFinish(v)
  <2>1. /\ replica[v].pc \in {"repairing", "tombstoning"}
        /\ replica'[v].from = replica[v].from /\ replica'[v].slot = replica[v].slot
    BY Zenon, <1>2, CopyPlace DEF Repair, ReTombstone
  <2>2. ~AnyCopying
    BY <1>0, <2>1 DEF Repairing
  <2>3. live' = live
    BY <1>0, <2>2, PointerMoves, PointerGrows DEF AnyCopying
  <2> QED
    BY <1>0, <2>1, <2>3 DEF CopyName
<1> QED
  BY <1>1, <1>2

(* Every step.                                                              *)
LEMMA ApartKeeps ==
  ASSUME TypeInv, RecordInv, Apart, [Next]_vars
  PROVE  Apart'
<1> SUFFICES ASSUME Clean' PROVE Apart'
  BY DEF Apart
<1>0. Clean
  BY WrongStays
<1>1. ASSUME ~NotRebuilding', NEW w \in Replicas, replica'[w].pc \in OfMigration
      PROVE  FALSE
  <2>1. CASE ~NotRebuilding
    <3>1. \A l \in Layers : layer[l].status # "running"
      BY <1>0, <2>1 DEF RecordInv
    <3> QED
      BY <1>0, <1>1, <2>1, <3>1, MigrationPlace DEF Apart
  <2>2. CASE RebuildRead
    <3>1. ~Migrating /\ replica' = replica
      BY <2>2 DEF RebuildRead, Clean
    <3> QED
      BY <1>1, <3>1 DEF Migrating, OfMigration
  <2> QED
    BY <1>1, <2>1, <2>2, NoneRuns
<1>2. AnyCopying' => ~Repairing'
  BY CopyApart DEF AnyCopying, Repairing
<1>3. \A w \in Replicas : replica'[w].pc \in {"repairing", "tombstoning"} => CopyName(w)' = live'
  BY RepairsLive
<1> QED
  BY <1>1, <1>2, <1>3 DEF Apart

(* Two points of a document never have the same id.                         *)
LEMMA IdsKeep ==
  ASSUME TypeInv, UniqueIds, [Next]_vars
  PROVE  UniqueIds'
<1> SUFFICES ASSUME NEW c \in DOMAIN coll', NEW d \in Docs,
                    NEW p \in coll'[c].points[d], NEW q \in coll'[c].points[d], p.id = q.id
             PROVE  p = q
  BY DEF UniqueIds
<1>0. c \in DOMAIN coll => /\ coll[c].points[d] \in SUBSET Point
                           /\ \A a, b \in coll[c].points[d] : a.id = b.id => a = b
  BY PointsAt DEF UniqueIds
<1>1. CASE PtsFlagged(c, d)
  <2>1. PICK a \in coll[c].points[d] : p = [a EXCEPT !.deleted = TRUE]
    BY <1>1 DEF PtsFlagged, Flagged
  <2>2. PICK b \in coll[c].points[d] : q = [b EXCEPT !.deleted = TRUE]
    BY <1>1 DEF PtsFlagged, Flagged
  <2>3. a \in Point /\ b \in Point
    BY <1>0, <1>1 DEF PtsFlagged
  <2>4. p.id = a.id /\ q.id = b.id
    BY <2>1, <2>2, <2>3 DEF Point
  <2> QED
    BY <1>0, <1>1, <2>1, <2>2, <2>4 DEF PtsFlagged
<1>2. ASSUME NEW w \in Replicas, PtsNew(w, c, d)
      PROVE  p = q
  BY <1>2 DEF PtsNew
<1>3. ASSUME NEW w \in Replicas, PtsCopied(w, c, d)
      PROVE  p = q
  <2>1. PICK S : S = coll[replica[w].from].points[d]
    OBVIOUS
  <2>2. \A a, b \in S : a.id = b.id => a = b
    BY <1>3, <2>1 DEF PtsCopied, UniqueIds
  <2>3. coll'[c].points[d] = {a \in coll[c].points[d] : \A b \in S : b.id # a.id} \cup S
    BY <1>3, <2>1 DEF PtsCopied
  <2> QED
    BY <1>0, <1>3, <2>2, <2>3 DEF PtsCopied
<1>4. ASSUME NEW w \in Replicas, PtsAdded(w, c, d)
      PROVE  p = q
  <2>1. PICK a \in coll[c].points[d] :
          /\ a.id = replica[w].id
          /\ coll'[c].points[d] = (coll[c].points[d] \ {a}) \cup {[a EXCEPT !.vecs = @ \cup {replica[w].slot}]}
    BY <1>4 DEF PtsAdded
  <2>2. PICK b : b = [a EXCEPT !.vecs = @ \cup {replica[w].slot}]
    OBVIOUS
  <2>3. b.id = a.id
    BY <1>0, <1>4, <2>1, <2>2 DEF PtsAdded, Point
  <2>4. coll'[c].points[d] = (coll[c].points[d] \ {a}) \cup {b}
    BY <2>1, <2>2
  <2> QED
    BY <1>0, <1>4, <2>3, <2>4 DEF PtsAdded
<1>5. ASSUME NEW w \in Replicas, PtsSwept(w, c, d)
      PROVE  p = q
  <2>1. PICK a \in coll[c].points[d] : p = [a EXCEPT !.vecs = @ \ {replica[w].slot}]
    BY <1>5 DEF PtsSwept
  <2>2. PICK b \in coll[c].points[d] : q = [b EXCEPT !.vecs = @ \ {replica[w].slot}]
    BY <1>5 DEF PtsSwept
  <2>3. a \in Point /\ b \in Point
    BY <1>0, <1>5 DEF PtsSwept
  <2>4. p.id = a.id /\ q.id = b.id
    BY <2>1, <2>2, <2>3 DEF Point
  <2> QED
    BY <1>0, <1>5, <2>1, <2>2, <2>4 DEF PtsSwept
<1>6. CASE PtsSame(c, d)
  BY <1>0, <1>6 DEF PtsSame
<1>7. CASE PtsGone(c, d)
  BY <1>7 DEF PtsGone
<1> QED
  BY <1>1, <1>2, <1>3, <1>4, <1>5, <1>6, <1>7, PointsAfter

(* A delete wrote to a collection the pointer has reached.                  *)
DeleteNotAhead == Len(deleting.from) <= Len(live)

(* Every step.                                                              *)
LEMMA DeleteKeeps ==
  ASSUME TypeInv, RecordInv, [Next]_vars, DeleteNotAhead
  PROVE  DeleteNotAhead'
<1>0. deleting.from \in Names
  BY DEF TypeInv, TypeOK
<1>1. CASE deleting' = deleting
  BY <1>0, <1>1, PointerAhead DEF DeleteNotAhead
<1>2. ASSUME NEW d \in Docs, Delete(d)
      PROVE  DeleteNotAhead'
  <2>1. deleting'.from = live /\ live' = live
    BY <1>2 DEF Delete
  <2> QED
    BY <2>1, PointerAhead DEF DeleteNotAhead
<1>3. CASE DeleteCommit
  <2>1. deleting'.from = <<>> /\ Len(<<>>) = 0
    BY <1>3 DEF DeleteCommit, NoDelete
  <2> QED
    BY <2>1, PointerAhead DEF DeleteNotAhead
<1> QED
  BY <1>1, <1>2, <1>3, RequestsMove

----------------------------------------------------------------------------
(* What the points of a document say.                                       *)

Reported(d) == doc[d].status = "indexed" /\ ~Deleted(d) /\ Unlocked(d) /\ ~drift[d]

(* A point a search finds, under the slot of the layer and the one the row  *)
(* says it was embedded into.                                               *)
FoundAs(p, d) ==
  /\ p.id = doc[d].chunks /\ ~p.deleted
  /\ layer[Home[d]].vector \in p.vecs
  /\ doc[d].reindexed # None => doc[d].reindexed \in p.vecs

FoundIn(c, d) == \E p \in coll[c].points[d] : FoundAs(p, d)

Flags(c, d) == \A p \in coll[c].points[d] : p.deleted

(* Found, but for what a repair is still to queue again.                    *)
Found ==
  Good /\ NotRebuilding => \A d \in Docs :
    Reported(d) /\ (\A w \in Replicas : replica[w].pc = "repairing" => doc[d].updated < replica[w].began)
      => FoundIn(live, d)

(* Hidden, but for what a repair is still to flag again.                    *)
Hidden ==
  Good /\ Exists(live) => \A d \in Docs :
    Deleted(d) /\ ~drift[d] /\ (\A w \in Replicas : replica[w].pc = "repairing" => d \notin Revived(replica[w].began)) =>
      /\ (\A w \in Replicas : replica[w].pc = "tombstoning" => d \notin replica[w].copied) => Flags(live, d)
      /\ doc[d].purged # None => coll[live].points[d] = {}

(* A copy has what was copied into it and has not changed since it began.   *)
CopyOK(w) ==
  Good /\ replica[w].pc = "copying" /\ replica[w].ready /\ HoldsCopy(w) => \A d \in Docs :
    /\ d \in replica[w].copied /\ Reported(d) /\ doc[d].updated < replica[w].began => FoundIn(CopyName(w), d)
    /\ Deleted(d) /\ ~drift[d] /\ d \notin Revived(replica[w].began) =>
         Flags(CopyName(w), d) /\ (doc[d].purged # None => coll[CopyName(w)].points[d] = {})

(* The vector of the points a pass wrote is one that is not being swept.    *)
Wanted(w) == replica[w].slot = layer[replica[w].layer].vector \/ layer[replica[w].layer].status # "complete"

Written(w) ==
  Good /\ NotRebuilding /\ replica[w].pc = "written" /\ replica[w].from = live /\ replica[w].began = clock
       /\ ~drift[replica[w].doc] =>
    \E p \in coll[live].points[replica[w].doc] :
       p.id = replica[w].id /\ ~p.deleted /\ (Wanted(w) => replica[w].slot \in p.vecs)

Added(w) ==
  Good /\ replica[w].pc \in {"added", "marking"} /\ replica[w].from = live /\ Exists(live)
       /\ replica[w].began = layer[replica[w].layer].since =>
    \A p \in coll[live].points[replica[w].doc] : p.id = replica[w].id => replica[w].slot \in p.vecs

(* No row says it was embedded into the slot that is to be swept.           *)
MarkedOff(d) ==
  Reported(d) /\ layer[Home[d]].previous # None /\ layer[Home[d]].previous # layer[Home[d]].vector =>
    doc[d].reindexed # layer[Home[d]].previous

Emptied(w) ==
  Good /\ replica[w].pc = "purged" /\ ~resent[w] /\ replica[w].from = live /\ Exists(live) =>
    coll[live].points[replica[w].doc] = {}

Hiding == Good /\ deleting # NoDelete /\ deleting.from = live /\ Exists(live) => Flags(live, deleting.doc)

Rows == (\A d \in Docs : RowOK(d)) /\ (\A l \in Layers : LayerOK(l)) /\ \A w \in Replicas : Works(w)

Contents ==
  /\ Found /\ Hidden /\ Hiding /\ (\A d \in Docs : MarkedOff(d))
  /\ \A w \in Replicas : CopyOK(w) /\ Written(w) /\ Added(w) /\ Emptied(w)

PointInv == Locks /\ Rows /\ Apart /\ UniqueIds /\ DeleteNotAhead /\ Contents

----------------------------------------------------------------------------
(* How points change.                                                       *)

(* A fresh id is one nobody has.                                            *)
LEMMA FreshIsNew ==
  ASSUME TypeInv, NEW w \in Replicas, IngestWrite(w), NEW v \in Replicas
  PROVE  FreshId # replica[v].id
<1>1. \E i \in Ids : i \notin InUse
  BY DEF IngestWrite
<1>2. FreshId \notin InUse
  BY <1>1 DEF FreshId
<1> QED
  BY <1>2 DEF InUse

(* The step takes nothing away from a document's points.                    *)
Unswept(c, d, V) ==
  /\ ~PtsFlagged(c, d) /\ ~PtsGone(c, d)
  /\ \A w \in Replicas : ~PtsNew(w, c, d) /\ (PtsSwept(w, c, d) => replica[w].slot \notin V)

(* A point stays, with the vectors V, unless a copied one takes its place.  *)
LEMMA PointStays ==
  ASSUME TypeInv, [Next]_vars, NEW c \in DOMAIN coll', c \in DOMAIN coll, NEW d \in Docs, NEW V,
         Unswept(c, d, V), NEW p \in coll[c].points[d], ~p.deleted, V \subseteq p.vecs,
         \A w \in Replicas : PtsCopied(w, c, d) =>
           \A q \in coll[replica[w].from].points[d] : q.id = p.id => ~q.deleted /\ V \subseteq q.vecs
  PROVE  \E q \in coll'[c].points[d] : q.id = p.id /\ ~q.deleted /\ V \subseteq q.vecs
<1>0. p \in Point
  BY PointsAt
<1>1. CASE PtsSame(c, d)
  BY <1>1 DEF PtsSame
<1>2. ASSUME NEW w \in Replicas, PtsCopied(w, c, d)
      PROVE  \E q \in coll'[c].points[d] : q.id = p.id /\ ~q.deleted /\ V \subseteq q.vecs
  <2>1. PICK S : S = coll[replica[w].from].points[d]
    OBVIOUS
  <2>2. coll'[c].points[d] = {a \in coll[c].points[d] : \A b \in S : b.id # a.id} \cup S
    BY <1>2, <2>1 DEF PtsCopied
  <2>3. \A q \in S : q.id = p.id => ~q.deleted /\ V \subseteq q.vecs
    BY <1>2, <2>1
  <2>4. CASE \E q \in S : q.id = p.id
    BY <2>2, <2>3, <2>4
  <2>5. CASE ~\E q \in S : q.id = p.id
    BY <2>2, <2>5
  <2> QED
    BY <2>4, <2>5
<1>3. ASSUME NEW w \in Replicas, PtsAdded(w, c, d)
      PROVE  \E q \in coll'[c].points[d] : q.id = p.id /\ ~q.deleted /\ V \subseteq q.vecs
  <2>1. PICK a \in coll[c].points[d] :
          coll'[c].points[d] = (coll[c].points[d] \ {a}) \cup {[a EXCEPT !.vecs = @ \cup {replica[w].slot}]}
    BY <1>3 DEF PtsAdded
  <2>2. PICK b : b = [p EXCEPT !.vecs = @ \cup {replica[w].slot}]
    OBVIOUS
  <2>3. b.id = p.id /\ b.deleted = p.deleted /\ p.vecs \subseteq b.vecs
    BY <1>0, <2>2 DEF Point
  <2>4. CASE a = p
    BY <2>1, <2>2, <2>3, <2>4
  <2>5. CASE a # p
    BY <2>1, <2>5
  <2> QED
    BY <2>4, <2>5
<1>4. ASSUME NEW w \in Replicas, PtsSwept(w, c, d)
      PROVE  \E q \in coll'[c].points[d] : q.id = p.id /\ ~q.deleted /\ V \subseteq q.vecs
  <2>1. coll'[c].points[d] = {[a EXCEPT !.vecs = @ \ {replica[w].slot}] : a \in coll[c].points[d]}
    BY <1>4 DEF PtsSwept
  <2>2. PICK b : b = [p EXCEPT !.vecs = @ \ {replica[w].slot}]
    OBVIOUS
  <2>3. b.id = p.id /\ b.deleted = p.deleted /\ b.vecs = p.vecs \ {replica[w].slot}
    BY <1>0, <2>2 DEF Point
  <2>4. replica[w].slot \notin V
    BY <1>4 DEF Unswept
  <2>5. b \in coll'[c].points[d]
    BY <2>1, <2>2
  <2> QED
    BY <2>3, <2>4, <2>5
<1> QED
  BY <1>1, <1>2, <1>3, <1>4, PointsAfter DEF Unswept

(* Flags stay set and no points come back, but by a pass or a copy.         *)
LEMMA FlagsStay ==
  ASSUME TypeInv, [Next]_vars, NEW c \in DOMAIN coll', NEW d \in Docs,
         \A w \in Replicas : ~PtsNew(w, c, d) /\ ~PtsCopied(w, c, d)
  PROVE  /\ (c \in DOMAIN coll => Flags(c, d)) => Flags(c, d)'
         /\ (c \in DOMAIN coll => coll[c].points[d] = {}) => coll'[c].points[d] = {}
<1>0. c \in DOMAIN coll => coll[c].points[d] \in SUBSET Point
  BY PointsAt
<1>1. CASE PtsSame(c, d)
  BY <1>1 DEF PtsSame, Flags
<1>2. CASE PtsGone(c, d)
  BY <1>2 DEF PtsGone, Flags
<1>3. CASE PtsFlagged(c, d)
  <2>1. ASSUME NEW p \in coll'[c].points[d]
        PROVE  p.deleted /\ coll[c].points[d] # {}
    <3>1. PICK a \in coll[c].points[d] : p = [a EXCEPT !.deleted = TRUE]
      BY <1>3, <2>1 DEF PtsFlagged, Flagged
    <3> QED
      BY <1>0, <1>3, <3>1 DEF PtsFlagged, Point
  <2> QED
    BY <1>3, <2>1 DEF Flags, PtsFlagged
<1>4. ASSUME NEW w \in Replicas, PtsAdded(w, c, d)
      PROVE  /\ (c \in DOMAIN coll => Flags(c, d)) => Flags(c, d)'
             /\ (c \in DOMAIN coll => coll[c].points[d] = {}) => coll'[c].points[d] = {}
  <2>1. PICK a \in coll[c].points[d] :
          coll'[c].points[d] = (coll[c].points[d] \ {a}) \cup {[a EXCEPT !.vecs = @ \cup {replica[w].slot}]}
    BY <1>4 DEF PtsAdded
  <2>2. PICK b : b = [a EXCEPT !.vecs = @ \cup {replica[w].slot}]
    OBVIOUS
  <2>3. b.deleted = a.deleted
    BY <1>0, <1>4, <2>2 DEF PtsAdded, Point
  <2>4. coll'[c].points[d] = (coll[c].points[d] \ {a}) \cup {b}
    BY <2>1, <2>2
  <2> QED
    BY <1>4, <2>1, <2>3, <2>4 DEF Flags, PtsAdded
<1>5. ASSUME NEW w \in Replicas, PtsSwept(w, c, d)
      PROVE  /\ (c \in DOMAIN coll => Flags(c, d)) => Flags(c, d)'
             /\ (c \in DOMAIN coll => coll[c].points[d] = {}) => coll'[c].points[d] = {}
  <2>1. ASSUME NEW p \in coll'[c].points[d]
        PROVE  \E a \in coll[c].points[d] : p.deleted = a.deleted
    <3>1. PICK a \in coll[c].points[d] : p = [a EXCEPT !.vecs = @ \ {replica[w].slot}]
      BY <1>5, <2>1 DEF PtsSwept
    <3> QED
      BY <1>0, <1>5, <3>1 DEF PtsSwept, Point
  <2> QED
    BY <1>5, <2>1 DEF Flags, PtsSwept
<1> QED
  BY <1>1, <1>2, <1>3, <1>4, <1>5, PointsAfter

(* A row that is reported after a step was reported before, and kept, dated *)
(* anew or marked, or has just been committed.                              *)
LEMMA ReportedBefore ==
  ASSUME TypeInv, Locks, \A w \in Replicas : Works(w), [Next]_vars, NEW d \in Docs, Reported(d)'
  PROVE  \/ Kept(d) /\ Reported(d)
         \/ Redated(d) /\ Reported(d)
         \/ \E w \in Replicas : Committed(w, d)
         \/ \E w \in Replicas : Marked(w, d) /\ Reported(d)
<1>0. None \notin Replicas /\ doc'[d].deleted = None /\ doc'[d].status = "indexed" /\ lock'[d] = None /\ ~drift'[d]
  BY MigrationAssumption DEF Reported, Deleted, Unlocked
<1>1. ~Hid(d)
  <2>1. deleting.began \in Clock
    BY DEF TypeInv, TypeOK
  <2>2. deleting.began # None
    BY <2>1, TypesAt, MigrationAssumption
  <2> QED
    BY <1>0, <2>2 DEF Hid
<1>2. ASSUME NEW w \in Replicas
      PROVE  ~PurgeMarked(w, d) /\ ~Reborn(w, d) /\ ~Retombed(w, d) /\ ~Lost(w, d) /\ ~Rewritten(w, d)
  <2>1. ~PurgeMarked(w, d) /\ ~Reborn(w, d)
    BY <1>0, Zenon DEF PurgeMarked, Reborn, Revived, Deleted
  <2>2. ~Retombed(w, d)
    BY <1>0, Zenon DEF Retombed, Deleted
  <2>3. ~Lost(w, d)
    BY <1>0 DEF Lost
  <2>4. ~Rewritten(w, d)
    BY <1>0 DEF Rewritten
  <2> QED
    BY <2>1, <2>2, <2>3, <2>4
<1>3. CASE Kept(d)
  <2>1. doc[d].status = "indexed" /\ ~Deleted(d) /\ ~drift[d]
    BY <1>0, <1>3 DEF Kept, Deleted
  <2>2. ASSUME ~Unlocked(d)
        PROVE  FALSE
    <3>1. lock[d] # lock'[d]
      BY <1>0, <2>2 DEF Unlocked
    <3>2. ~(DeleteCommit /\ deleting.doc = d)
      <4>1. ASSUME DeleteCommit, deleting.doc = d
            PROVE  FALSE
        <5>1. doc' = [doc EXCEPT ![d].deleted = deleting.began]
          BY <4>1 DEF DeleteCommit
        <5>2. doc'[d].deleted = deleting.began
          BY <5>1, TypesAt DEF TypeInv, TypeOK, Doc
        <5>3. deleting.began \in Clock
          BY DEF TypeInv, TypeOK
        <5> QED
          BY <1>0, <5>2, <5>3, TypesAt, MigrationAssumption
      <4> QED
        BY <4>1
    <3>3. lock[d] \in Replicas
      BY <2>2, <3>1, <3>2, HeldRow
    <3>4. doc[d].status = "parsing"
      BY <3>3 DEF Locks, HeldByPass, PassHolds
    <3> QED
      BY <2>1, <3>4
  <2> QED
    BY <1>3, <2>1, <2>2 DEF Reported
<1>4. ASSUME NEW w \in Replicas, Marked(w, d)
      PROVE  Reported(d)
  BY <1>0, <1>4 DEF Marked, Reported, Deleted
<1>5. CASE Redated(d)
  BY <1>0, <1>5 DEF Redated, Reported
<1>6. ~Pended(d) /\ ~Sent(d)
  BY <1>0 DEF Pended, Sent
<1> QED
  BY <1>1, <1>2, <1>3, <1>4, <1>5, <1>6, RowAfter

(* What a search finds by, it finds by after a step that leaves the row its *)
(* chunks and its marker.                                                   *)
LEMMA FoundAsStays ==
  ASSUME TypeInv, Rows, [Next]_vars, NEW d \in Docs, Reported(d),
         doc'[d].chunks = doc[d].chunks, doc'[d].reindexed = doc[d].reindexed, NEW p, FoundAs(p, d)
  PROVE  FoundAs(p, d)'
<1>0. PICK l \in Layers : l = Home[d]
  BY MigrationAssumption
<1>1. doc[d].chunks # None /\ ~Deleted(d)
  BY DEF Rows, RowOK, Reported
<1>2. layer[l].vector \in p.vecs
  BY <1>0 DEF FoundAs
<1>3. CASE layer'[l].vector = layer[l].vector
  BY <1>0, <1>3 DEF FoundAs
<1>4. CASE Moved(l) /\ layer'[l].status = "complete" /\ layer'[l].vector = layer[l].shadow
  <2>1. Outstanding(l) = {} /\ layer[l].shadow # None
    BY <1>4, TypesAt, MigrationAssumption DEF Moved, Copying, RunsInto
  <2>2. doc[d].reindexed = layer[l].shadow
    BY <1>0, <1>1, <2>1 DEF Outstanding
  <2> QED
    BY <1>0, <1>4, <2>1, <2>2 DEF FoundAs
<1>5. ASSUME NEW w \in Replicas, Fills(w), Done(w), replica[w].layer = l, layer'[l].vector = replica[w].slot
      PROVE  FoundAs(p, d)'
  <2>1. doc[d].reindexed = replica[w].slot
    BY <1>0, <1>1, <1>5 DEF Done
  <2>2. replica[w].slot # None
    BY <1>5, TypesAt, MigrationAssumption DEF Fills, Placed, PlacedRow
  <2> QED
    BY <1>0, <1>5, <2>1, <2>2 DEF FoundAs
<1>6. CASE Begun(l)
  <2>1. layer[l].exists
    BY <1>0, TypesAt, MigrationAssumption DEF RunsInto
  <2> QED
    BY <1>3, <1>6, <2>1 DEF Begun
<1>7. CASE Moved(l)
  BY <1>3, <1>4, <1>7 DEF Moved
<1>8. CASE Switched(l)
  BY <1>5, <1>8 DEF Switched
<1> QED
  BY <1>3, <1>6, <1>7, <1>8, LayerAfter DEF SameRow

(* No row is marked with the slot to be swept.                              *)
LEMMA MarkedOffKeeps ==
  ASSUME TypeInv, Locks, Rows, [Next]_vars, NEW d \in Docs, MarkedOff(d)
  PROVE  MarkedOff(d)'
<1>0. PICK l \in Layers : l = Home[d]
  BY MigrationAssumption
<1> SUFFICES ASSUME Reported(d)', layer'[l].previous # None, layer'[l].previous # layer'[l].vector
             PROVE  doc'[d].reindexed # layer'[l].previous
  BY <1>0 DEF MarkedOff
<1>1. LayerOK(l) /\ RowOK(d) /\ \A w \in Replicas : Works(w)
  BY DEF Rows
<1>2. CASE Kept(d) /\ Reported(d)
  <2>1. CASE SameRow(l)
    BY <1>0, <1>2, <2>1 DEF SameRow, MarkedOff, Kept
  <2>2. ~Moved(l) /\ ~Begun(l)
    BY <1>1 DEF Moved, Copying, Begun, LayerOK
  <2>3. CASE Switched(l)
    <3>1. PICK w \in Replicas : Done(w) /\ replica[w].layer = l /\ layer'[l].vector = replica[w].slot
      BY <2>3 DEF Switched
    <3>2. doc[d].reindexed = replica[w].slot
      BY <1>0, <1>1, <1>2, <3>1 DEF Done, Reported, RowOK
    <3> QED
      BY <1>2, <3>1, <3>2 DEF Kept
  <2> QED
    BY <2>1, <2>2, <2>3, LayerAfter
<1>3. ASSUME NEW w \in Replicas, Committed(w, d)
      PROVE  doc'[d].reindexed # layer'[l].previous
  BY <1>3 DEF Committed
<1>4. ASSUME NEW w \in Replicas, Marked(w, d)
      PROVE  doc'[d].reindexed # layer'[l].previous
  <2>1. layer' = layer /\ replica[w].pc = "marking" /\ replica[w].doc = d
    BY <1>4 DEF Marked, EmbedMark
  <2>2. replica[w].layer = l /\ replica[w].began = layer[l].since
    BY <1>0, <1>1, <1>4, <2>1 DEF Works, Embeds, Marked, Reported
  <2>3. replica[w].slot = layer[l].shadow
    BY <1>1, <2>1, <2>2 DEF Works, Embeds
  <2>4. layer[l].shadow = layer[l].vector
    BY <1>1, <2>1 DEF LayerOK
  <2> QED
    BY <1>4, <2>1, <2>3, <2>4 DEF Marked
<1>5. CASE Redated(d) /\ Reported(d)
  BY <1>0, <1>5 DEF Redated, MarkedOff
<1> QED
  BY <1>1, <1>2, <1>3, <1>4, <1>5, ReportedBefore

(* A step that leaves a copy's name alone: no page goes to the live         *)
(* collection.                                                              *)
LEMMA NoPageToLive ==
  ASSUME Clean', NEW w \in Replicas, NEW d \in Docs
  PROVE  ~PtsCopied(w, live, d)
BY DEF PtsCopied, CopyPage, Clean

(* The live collection a replica or a delete found is still the live one.   *)
LEMMA StillLive ==
  ASSUME TypeInv, RecordInv, [Next]_vars, NEW n \in Names, Len(n) <= Len(live), n = live'
  PROVE  live' = live
BY PointerAhead

(* A document that is back loses points to a collector or a repair: it is   *)
(* on record.                                                               *)
LEMMA Spoiled ==
  ASSUME TypeInv, NEW v \in Replicas, NEW d \in Docs, ~Deleted(d),
         ReTombstone(v, d, TRUE) \/ (CollectPurge(v) /\ replica[v].doc = d)
  PROVE  drift'[d]
<1>0. drift \in [Docs -> BOOLEAN]
  BY DEF TypeInv, TypeOK
<1>1. CASE ReTombstone(v, d, TRUE)
  <2>1. drift' = [drift EXCEPT ![d] = drift[d] \/ TRUE /= Deleted(d)]
    BY <1>1 DEF ReTombstone
  <2>2. TRUE /= Deleted(d)
    BY Zenon DEF Deleted
  <2> QED
    BY Zenon, <1>0, <2>1, <2>2
<1>2. CASE CollectPurge(v) /\ replica[v].doc = d
  <2>1. drift' = [drift EXCEPT ![d] = drift[d] \/ ~Deleted(d)]
    BY <1>2 DEF CollectPurge
  <2> QED
    BY Zenon, <1>0, <2>1
<1> QED
  BY <1>1, <1>2

(* What the collector emptied.                                              *)
LEMMA EmptiedKeeps ==
  ASSUME TypeInv, RecordInv, Rows, [Next]_vars, NEW w \in Replicas, Emptied(w)
  PROVE  Emptied(w)'
<1> SUFFICES ASSUME Good', replica'[w].pc = "purged", ~resent'[w], replica'[w].from = live', Exists(live)'
             PROVE  coll'[live'].points[replica'[w].doc] = {}
  BY DEF Emptied
<1>0. Clean' /\ Good /\ Works(w)
  BY WrongStays, MissedStays DEF Good, Rows
<1>1. CASE replica'[w] = replica[w]
  <2>0. ~resent[w]
    BY <1>1, ResentStays
  <2>1. live' = live
    BY <1>0, <1>1, StillLive, ReplicaAt DEF Works, NotAhead
  <2>2. PICK d \in Docs : d = replica[w].doc
    BY <1>1, TypesAt DEF Placed, PlacedRow
  <2>3. live \in DOMAIN coll => coll[live].points[d] = {}
    BY <1>0, <1>1, <2>0, <2>1, <2>2 DEF Emptied, Exists
  <2>4. Deleted(d)
    BY <1>0, <1>1, <2>0, <2>2 DEF Works
  <2>5. ASSUME NEW v \in Replicas
        PROVE  ~PtsNew(v, live, d)
    BY <2>4 DEF PtsNew, IngestWrite
  <2>6. live \in DOMAIN coll'
    BY <2>1 DEF Exists
  <2> QED
    BY <1>0, <1>1, <2>1, <2>2, <2>3, <2>5, <2>6, FlagsStay, NoPageToLive
<1>2. CASE CollectPurge(w) /\ replica'[w].doc = replica[w].doc /\ replica'[w].from = replica[w].from
  <2>1. replica[w].from = live /\ live' = live
    BY <1>2 DEF CollectPurge
  <2>2. PICK d \in Docs : d = replica[w].doc
    BY <1>2, TypesAt DEF Placed, PlacedRow, CollectPurge
  <2>3. Exists(live)
    BY <1>2, <2>1 DEF CollectPurge, Exists
  <2>4. coll' = WithPoints(live, d, {})
    BY <1>2, <2>1, <2>2, <2>3 DEF CollectPurge
  <2>5. coll'[live].points[d] = {}
    BY <2>3, <2>4, PointsWritten DEF Exists
  <2> QED
    BY <1>2, <2>1, <2>2, <2>5
<1> QED
  BY <1>1, <1>2, IndexPlace

(* What a delete flagged.                                                   *)
LEMMA HidingKeeps ==
  ASSUME TypeInv, RecordInv, Locks, DeleteNotAhead, [Next]_vars, Hiding
  PROVE  Hiding'
<1> SUFFICES ASSUME Good', deleting' # NoDelete, deleting'.from = live', Exists(live)'
             PROVE  Flags(live, deleting.doc)'
  BY DEF Hiding
<1>0. Clean' /\ Good /\ deleting.from \in Names
  BY WrongStays, MissedStays DEF Good, TypeInv, TypeOK
<1>1. CASE deleting' = deleting
  <2>1. live' = live
    BY <1>0, <1>1, StillLive DEF DeleteNotAhead
  <2>2. PICK d \in Docs : d = deleting.doc /\ lock[d] = "delete"
    BY <1>1 DEF Locks, DeleteHolds
  <2>3. live \in DOMAIN coll => Flags(live, d)
    BY <1>0, <1>1, <2>1, <2>2 DEF Hiding, Exists
  <2>4. ASSUME NEW v \in Replicas
        PROVE  ~PtsNew(v, live, d)
    BY <2>2, MigrationAssumption DEF PtsNew, IngestWrite, Unlocked
  <2>5. live \in DOMAIN coll'
    BY <2>1 DEF Exists
  <2>6. Flags(live, d)'
    BY <1>0, <2>1, <2>3, <2>4, <2>5, FlagsStay, NoPageToLive DEF Flags
  <2> QED
    BY <1>1, <2>2, <2>6 DEF Flags
<1>2. ASSUME NEW d \in Docs, Delete(d)
      PROVE  Flags(live, deleting.doc)'
  <2>1. /\ live \in DOMAIN coll /\ live' = live /\ deleting'.doc = d
        /\ coll' = WithPoints(live, d, Flagged(coll[live].points[d]))
    BY <1>2 DEF Delete, Exists
  <2>2. coll[live].points[d] \in SUBSET Point /\ Flagged(coll[live].points[d]) \in SUBSET Point
    BY <2>1, PointsAt
  <2>3. coll'[live].points[d] = Flagged(coll[live].points[d])
    BY <2>1, <2>2, PointsWritten
  <2>4. ASSUME NEW p \in Flagged(coll[live].points[d])
        PROVE  p.deleted
    <3>1. PICK a \in coll[live].points[d] : p = [a EXCEPT !.deleted = TRUE]
      BY <2>4 DEF Flagged
    <3> QED
      BY <2>2, <3>1 DEF Point
  <2> QED
    BY <2>1, <2>3, <2>4 DEF Flags
<1>3. ~DeleteCommit
  BY DEF DeleteCommit
<1> QED
  BY <1>1, <1>2, <1>3, RequestsMove

(* A sweep takes the slot the layer left, which it is not searched by.      *)
LEMMA SweepsPrevious ==
  ASSUME TypeInv, Rows, Clean', NEW v \in Replicas, ReclaimDrop(v)
  PROVE  /\ replica[v].layer \in Layers /\ replica[v].slot = layer[replica[v].layer].previous
         /\ replica[v].slot # None /\ replica[v].slot # layer[replica[v].layer].vector
         /\ layer[replica[v].layer].status = "complete"
         /\ layer[replica[v].layer].vector = layer[replica[v].layer].shadow
<1>1. PICK l \in Layers : l = replica[v].layer
  BY TypesAt DEF Placed, PlacedRow, ReclaimDrop
<1>2. replica[v].slot = layer[l].previous /\ replica[v].pc = "reclaiming"
  BY <1>1 DEF ReclaimDrop, Clean
<1>3. replica[v].slot # None /\ replica[v].slot # layer[l].vector
  BY <1>1, <1>2 DEF Rows, Works, Sweeps
<1>4. layer[l].status = "complete" /\ layer[l].vector = layer[l].shadow
  BY <1>2, <1>3 DEF Rows, LayerOK
<1> QED
  BY <1>1, <1>2, <1>3, <1>4

(* What an embedding pass added.                                            *)
LEMMA AddedKeeps ==
  ASSUME TypeInv, RecordInv, Rows, UniqueIds, [Next]_vars, NEW w \in Replicas, Added(w)
  PROVE  Added(w)'
<1> SUFFICES ASSUME Good', replica'[w].pc \in {"added", "marking"}, replica'[w].from = live', Exists(live)',
                    replica'[w].began = layer'[replica'[w].layer].since,
                    NEW p \in coll'[live'].points[replica'[w].doc], p.id = replica'[w].id
             PROVE  replica'[w].slot \in p.vecs
  BY DEF Added
<1>0. Clean' /\ Good /\ Works(w)
  BY WrongStays, MissedStays DEF Good, Rows
<1>1. CASE replica'[w] = replica[w]
  <2>1. live' = live
    BY <1>0, <1>1, StillLive, ReplicaAt DEF Works, NotAhead
  <2>2. PICK d \in Docs, l \in Layers : d = replica[w].doc /\ l = replica[w].layer
    BY <1>1, TypesAt DEF Placed, PlacedRow
  <2>3. l = Home[d] /\ replica[w].began <= clock /\ clock \in Nat /\ replica[w].began \in Nat
    BY <1>0, <1>1, <2>2, ReplicaAt, TypesAt DEF Works, Embeds
  <2>4. replica[w].began = layer[l].since
    <3>1. ~Begun(l)
      BY <1>1, <2>2, <2>3 DEF Begun
    <3> QED
      BY <1>1, <2>2, <3>1, LayerAfter DEF SameRow, Moved, Switched
  <2>5. replica[w].slot = layer[l].shadow
    BY <1>0, <1>1, <2>2, <2>4 DEF Works, Embeds
  <2>6. live \in DOMAIN coll => \A q \in coll[live].points[d] : q.id = replica[w].id => replica[w].slot \in q.vecs
    BY <1>0, <1>1, <2>1, <2>2, <2>4 DEF Added, Exists
  <2>7. live \in DOMAIN coll' /\ p \in coll'[live].points[d] /\ p.id = replica[w].id
    BY <1>1, <2>1, <2>2 DEF Exists
  <2>8. live \in DOMAIN coll => coll[live].points[d] \in SUBSET Point
    BY PointsAt
  <2>9. CASE PtsSame(live, d)
    BY <1>1, <2>6, <2>7, <2>9 DEF PtsSame
  <2>10. CASE PtsGone(live, d)
    BY <2>7, <2>10 DEF PtsGone
  <2>11. CASE PtsFlagged(live, d)
    <3>1. PICK a \in coll[live].points[d] : p = [a EXCEPT !.deleted = TRUE]
      BY <2>7, <2>11 DEF PtsFlagged, Flagged
    <3>2. p.id = a.id /\ p.vecs = a.vecs
      BY <2>8, <2>11, <3>1 DEF PtsFlagged, Point
    <3> QED
      BY <1>1, <2>6, <2>7, <2>11, <3>2 DEF PtsFlagged
  <2>12. ASSUME NEW v \in Replicas, PtsNew(v, live, d)
         PROVE  FALSE
    <3>1. p = [id |-> FreshId, vecs |-> {replica[v].slot}, deleted |-> FALSE]
      BY <2>7, <2>12 DEF PtsNew
    <3>2. p.id = FreshId
      BY <3>1
    <3> QED
      BY <2>7, <2>12, <3>2, FreshIsNew DEF PtsNew
  <2>13. ASSUME NEW v \in Replicas, PtsAdded(v, live, d)
         PROVE  replica[w].slot \in p.vecs
    <3>1. PICK a \in coll[live].points[d] :
            coll'[live].points[d] = (coll[live].points[d] \ {a}) \cup {[a EXCEPT !.vecs = @ \cup {replica[v].slot}]}
      BY <2>13 DEF PtsAdded
    <3>2. PICK b : b = [a EXCEPT !.vecs = @ \cup {replica[v].slot}]
      OBVIOUS
    <3>3. b.id = a.id /\ a.vecs \subseteq b.vecs
      BY <2>8, <2>13, <3>2 DEF PtsAdded, Point
    <3>4. p \in coll[live].points[d] \/ p = b
      BY <2>7, <3>1, <3>2
    <3> QED
      BY <2>6, <2>7, <2>13, <3>3, <3>4 DEF PtsAdded
  <2>14. ASSUME NEW v \in Replicas, PtsSwept(v, live, d)
         PROVE  replica[w].slot \in p.vecs
    <3>1. PICK a \in coll[live].points[d] : p = [a EXCEPT !.vecs = @ \ {replica[v].slot}]
      BY <2>7, <2>14 DEF PtsSwept
    <3>2. p.id = a.id /\ p.vecs = a.vecs \ {replica[v].slot}
      BY <2>8, <2>14, <3>1 DEF PtsSwept, Point
    <3>3. replica[v].slot # layer[l].vector /\ layer[l].vector = layer[l].shadow
      BY <1>0, <2>3, <2>14, SweepsPrevious DEF PtsSwept
    <3> QED
      BY <2>5, <2>6, <2>7, <2>14, <3>2, <3>3 DEF PtsSwept
  <2> QED
    BY <1>0, <1>1, <2>7, <2>9, <2>10, <2>11, <2>12, <2>13, <2>14, PointsAfter, NoPageToLive
<1>2. CASE EmbedAdd(w) /\ replica'[w].doc = replica[w].doc /\ replica'[w].from = replica[w].from
             /\ replica'[w].slot = replica[w].slot /\ replica'[w].id = replica[w].id
  <2>1. replica[w].from = live /\ live' = live
    BY <1>2 DEF EmbedAdd
  <2>2. PICK d \in Docs : d = replica[w].doc
    BY <1>2, TypesAt DEF Placed, PlacedRow, EmbedAdd
  <2>3. live \in DOMAIN coll
    BY <1>2, <2>1 DEF EmbedAdd, Exists
  <2>4. PICK a \in coll[live].points[d] :
          /\ a.id = replica[w].id
          /\ coll' = WithPoints(live, d, (coll[live].points[d] \ {a}) \cup {[a EXCEPT !.vecs = @ \cup {replica[w].slot}]})
    BY <1>2, <2>1, <2>2 DEF EmbedAdd
  <2>5. coll[live].points[d] \in SUBSET Point /\ replica[w].slot \in Vectors
    BY <1>2, <2>3, PointsAt, TypesAt DEF EmbedAdd, Placed, PlacedRow
  <2>6. PICK b : b = [a EXCEPT !.vecs = @ \cup {replica[w].slot}]
    OBVIOUS
  <2>7. b \in Point /\ b.vecs = a.vecs \cup {replica[w].slot}
    BY <2>5, <2>6 DEF Point
  <2>8. PICK ps \in SUBSET Point : ps = (coll[live].points[d] \ {a}) \cup {b}
    BY <2>5, <2>7
  <2>9. coll'[live].points[d] = (coll[live].points[d] \ {a}) \cup {b}
    <3>1. coll' = WithPoints(live, d, ps)
      BY <2>4, <2>6, <2>8
    <3> QED
      BY Zenon, <2>3, <2>8, <3>1, PointsWritten
  <2>10. p = b \/ (p \in coll[live].points[d] /\ p # a)
    BY <1>2, <2>1, <2>2, <2>9
  <2>11. p = b
    BY <1>2, <2>3, <2>4, <2>10 DEF UniqueIds
  <2> QED
    BY <1>2, <2>7, <2>11
<1>3. CASE EmbedCompare(w) /\ replica[w].pc = "added" /\ replica'[w].doc = replica[w].doc
             /\ replica'[w].layer = replica[w].layer /\ replica'[w].from = replica[w].from
             /\ replica'[w].slot = replica[w].slot /\ replica'[w].id = replica[w].id
             /\ replica'[w].began = replica[w].began
  <2>1. live' = live /\ coll' = coll /\ layer' = layer
    BY <1>3 DEF EmbedCompare
  <2> QED
    BY <1>0, <1>3, <2>1 DEF Added, Exists
<1> QED
  BY <1>1, <1>2, <1>3, EmbedPlace

(* What a pass wrote.                                                       *)
LEMMA WrittenKeeps ==
  ASSUME TypeInv, RecordInv, SlotInv, Locks, Rows, [Next]_vars, NEW w \in Replicas, Written(w)
  PROVE  Written(w)'
<1> SUFFICES ASSUME Good', NotRebuilding', replica'[w].pc = "written", replica'[w].from = live', replica'[w].began = clock',
                    ~drift'[replica'[w].doc]
             PROVE  \E p \in coll'[live'].points[replica'[w].doc] :
                      p.id = replica'[w].id /\ ~p.deleted /\ (Wanted(w)' => replica'[w].slot \in p.vecs)
  BY DEF Written
<1>0. Clean' /\ Good /\ Clean /\ Works(w) /\ PassHolds(w)
  BY WrongStays, MissedStays DEF Good, Rows, Locks
<1>1. CASE replica'[w] = replica[w]
  <2>1. live' = live
    BY <1>0, <1>1, StillLive, ReplicaAt DEF Works, NotAhead
  <2>2. PICK d \in Docs, l \in Layers : d = replica[w].doc /\ l = replica[w].layer
    BY <1>1, TypesAt DEF Placed, PlacedRow
  <2>3. l = Home[d] /\ lock[d] = w /\ ~Deleted(d) /\ doc[d].status = "parsing" /\ w # None
    BY <1>0, <1>1, <2>2, MigrationAssumption DEF Works, PassHolds
  <2>4. clock' = clock /\ replica[w].began = clock /\ ~\E k \in Layers : StartWrite(k)
    <3>1. replica[w].began <= clock /\ replica[w].began \in Nat
      BY <1>0, <1>1, ReplicaAt, TypesAt DEF Works
    <3> QED
      BY <1>1, <3>1, ClockGrows
  <2>5. NotRebuilding
    <3>1. ~RebuildRequeue
      BY <2>3 DEF RebuildRequeue, Unlocked
    <3> QED
      BY <3>1, OperatorMoves, RebuildAfter DEF RebuildStep, NotRebuilding
  <2>0. ~drift'[d] /\ ~drift[d]
    <3>1. ~drift'[d]
      BY <1>1, <2>2
    <3>3. ASSUME NEW v \in Replicas, Committed(v, d)
          PROVE  ~drift[d]
      BY <3>1, <3>3 DEF Committed
    <3>4. ~Hid(d)
      <4>1. Hid(d) => lock[d] = "delete"
        BY DEF Hid, DeleteCommit, Locks, DeleteHolds
      <4> QED
        BY <2>3, <4>1, MigrationAssumption
    <3> QED
      BY <2>3, <3>1, <3>3, <3>4, RowAfter
         DEF Kept, Pended, Sent, Redated, Rewritten, IngestWrite, Unlocked, Lost, Marked, PurgeMarked, Reborn, Retombed
  <2>6. PICK p \in coll[live].points[d] : p.id = replica[w].id /\ ~p.deleted /\ (Wanted(w) => replica[w].slot \in p.vecs)
    BY <1>0, <1>1, <2>0, <2>1, <2>2, <2>4, <2>5 DEF Written
  <2>7. PICK V : V = IF Wanted(w)' THEN {replica[w].slot} ELSE {}
    OBVIOUS
  <2>8. Wanted(w)' => Wanted(w)
    <3>1. ~Begun(l)
      BY <2>4 DEF Begun
    <3>2. CASE SameRow(l)
      BY <1>1, <2>2, <3>2 DEF Wanted, SameRow
    <3>3. CASE Moved(l) \/ Switched(l)
      BY <2>2, <3>3 DEF Wanted, Moved, Switched, Copying
    <3> QED
      BY <3>1, <3>2, <3>3, LayerAfter
  <2>9. V \subseteq p.vecs
    BY <2>6, <2>7, <2>8
  <2>10. ~PtsFlagged(live, d)
    <3>1. ~Delete(d)
      BY <2>3 DEF Delete, Unlocked
    <3>2. ASSUME NEW v \in Replicas
          PROVE  ~ReTombstone(v, d, TRUE)
      BY <2>0, <2>3, Spoiled
    <3> QED
      BY <3>1, <3>2 DEF PtsFlagged
  <2>11. ~PtsGone(live, d)
    <3>1. ~RebuildCreate
      BY RebuildAfter DEF NotRebuilding
    <3>2. ASSUME NEW v \in Replicas, CopyCreate(v)
          PROVE  live # CopyName(v)
      BY <1>0, <3>2, MadeHeld DEF RecordInv
    <3>3. ASSUME NEW v \in Replicas, CollectPurge(v)
          PROVE  d # replica[v].doc
      BY <2>0, <2>3, <3>3, Spoiled
    <3> QED
      BY <3>1, <3>2, <3>3 DEF PtsGone
  <2>12. ASSUME NEW v \in Replicas
         PROVE  ~PtsNew(v, live, d)
    BY <2>3 DEF PtsNew, IngestWrite, Unlocked
  <2>13. ASSUME NEW v \in Replicas, PtsSwept(v, live, d)
         PROVE  replica[v].slot \notin V
    <3>1. /\ replica[v].slot # layer[l].vector /\ layer[l].status = "complete" /\ layer' = layer
      BY Zenon, <1>0, <2>3, <2>13, SweepsPrevious DEF PtsSwept, ReclaimDrop
    <3>2. Wanted(w)' => replica[w].slot = layer[l].vector
      BY <1>1, <2>2, <3>1 DEF Wanted
    <3> QED
      BY <2>7, <3>1, <3>2
  <2>14. Unswept(live, d, V)
    BY <2>10, <2>11, <2>12, <2>13 DEF Unswept
  <2>15. live \in DOMAIN coll /\ live \in DOMAIN coll'
    BY <1>0, <2>1, <2>5, SearchKeeps DEF Exists, SlotInv
  <2>16. \E q \in coll'[live].points[d] : q.id = p.id /\ ~q.deleted /\ V \subseteq q.vecs
    BY <1>0, <2>6, <2>9, <2>14, <2>15, PointStays, NoPageToLive
  <2> QED
    BY <1>1, <2>1, <2>2, <2>6, <2>7, <2>16
<1>2. CASE IngestWrite(w) /\ replica'[w].doc = replica[w].doc /\ replica'[w].from = replica[w].from
             /\ replica'[w].slot = replica[w].slot /\ replica'[w].id = FreshId
  <2>1. replica[w].from = live /\ live' = live
    BY <1>2 DEF IngestWrite
  <2>2. PICK d \in Docs : d = replica[w].doc
    BY <1>2, TypesAt DEF Placed, PlacedRow, IngestWrite
  <2>3. live \in DOMAIN coll /\ replica[w].slot \in Vectors
    BY <1>2, <2>1, TypesAt DEF IngestWrite, Exists, Placed, PlacedRow
  <2>4. FreshId \in Ids
    BY <1>2 DEF IngestWrite, FreshId
  <2>5. PICK b : b = [id |-> FreshId, vecs |-> {replica[w].slot}, deleted |-> FALSE]
    OBVIOUS
  <2>6. b \in Point /\ b.id = FreshId /\ ~b.deleted /\ replica[w].slot \in b.vecs
    BY <2>3, <2>4, <2>5 DEF Point
  <2>7. coll' = WithPoints(live, d, {b})
    BY <1>2, <2>1, <2>2, <2>5 DEF IngestWrite
  <2>8. coll'[live].points[d] = {b}
    <3>1. PICK ps \in SUBSET Point : ps = {b}
      BY <2>6
    <3>2. coll' = WithPoints(live, d, ps)
      BY <2>7, <3>1
    <3> QED
      BY <2>3, <3>1, <3>2, PointsWritten
  <2> QED
    BY <1>2, <2>1, <2>2, <2>6, <2>8
<1> QED
  BY <1>1, <1>2, IndexPlace

(* The vectors a reported document is found by.                             *)
VecsOf(d) == {layer[Home[d]].vector} \cup ({doc[d].reindexed} \ {None})

(* Found means: with all of them.                                           *)
LEMMA FoundByVecs ==
  ASSUME NEW p, NEW d
  PROVE  /\ FoundAs(p, d) <=> p.id = doc[d].chunks /\ ~p.deleted /\ VecsOf(d) \subseteq p.vecs
         /\ FoundAs(p, d)' <=> p.id = doc'[d].chunks /\ ~p.deleted /\ VecsOf(d)' \subseteq p.vecs
BY DEF FoundAs, VecsOf

(* A step leaves a reported document its points in the live collection.     *)
LEMMA LiveUnswept ==
  ASSUME TypeInv, RecordInv, Rows, [Next]_vars, Clean', NotRebuilding', NEW d \in Docs,
         Reported(d), Reported(d)', doc'[d] = doc[d], MarkedOff(d)
  PROVE  Unswept(live, d, VecsOf(d)')
<1>0. lock'[d] = None /\ ~Deleted(d) /\ None \notin Replicas /\ None # "delete" /\ ~drift'[d]
  BY MigrationAssumption DEF Reported, Unlocked
<1>1. ~PtsFlagged(live, d)
  <2>1. ~Delete(d)
    <3>1. Delete(d) => lock' = [lock EXCEPT ![d] = "delete"]
      BY DEF Delete
    <3>2. lock \in [Docs -> Replicas \cup {"delete", None}]
      BY DEF TypeInv, TypeOK
    <3> QED
      BY <1>0, <3>1, <3>2
  <2>2. ASSUME NEW v \in Replicas
        PROVE  ~ReTombstone(v, d, TRUE)
    BY <1>0, Spoiled
  <2> QED
    BY <2>1, <2>2 DEF PtsFlagged
<1>2. ~PtsGone(live, d)
  <2>1. ~RebuildCreate
    BY RebuildAfter DEF NotRebuilding
  <2>2. ASSUME NEW v \in Replicas, CopyCreate(v)
        PROVE  live # CopyName(v)
    BY <2>2, MadeHeld DEF RecordInv
  <2>3. ASSUME NEW v \in Replicas, CollectPurge(v)
        PROVE  d # replica[v].doc
    BY <1>0, <2>3, Spoiled
  <2> QED
    BY <2>1, <2>2, <2>3 DEF PtsGone
<1>3. ASSUME NEW v \in Replicas, PtsNew(v, live, d)
      PROVE  FALSE
  <2>1. lock' = [lock EXCEPT ![d] = v] /\ lock \in [Docs -> Replicas \cup {"delete", None}]
    BY <1>3 DEF PtsNew, IngestWrite, TypeInv, TypeOK
  <2> QED
    BY <1>0, <2>1
<1>4. ASSUME NEW v \in Replicas, PtsSwept(v, live, d)
      PROVE  replica[v].slot \notin VecsOf(d)'
  <2>1. layer' = layer /\ doc' = doc /\ replica[v].layer = Home[d]
    BY <1>4 DEF PtsSwept, ReclaimDrop
  <2>2. replica[v].slot = layer[Home[d]].previous /\ replica[v].slot # None /\ replica[v].slot # layer[Home[d]].vector
    BY <1>4, <2>1, SweepsPrevious DEF PtsSwept
  <2>3. doc[d].reindexed # replica[v].slot
    BY <2>2 DEF MarkedOff
  <2> QED
    BY <2>1, <2>2, <2>3 DEF VecsOf
<1> QED
  BY <1>1, <1>2, <1>3, <1>4 DEF Unswept

(* A row that a repair is to queue again, or was.                           *)
LEMMA RepairLeaves ==
  ASSUME TypeInv, [Next]_vars, ~missed', NEW d \in Docs, Reported(d)', Reported(d), doc'[d] = doc[d],
         \A w \in Replicas : replica'[w].pc = "repairing" => doc'[d].updated < replica'[w].began,
         NEW v \in Replicas, replica[v].pc = "repairing"
  PROVE  doc[d].updated < replica[v].began
<1>1. CASE replica'[v] = replica[v]
  BY <1>1
<1>2. CASE Repair(v)
  <2>1. d \notin Requeued(replica[v].began)
    <3>1. d \in Requeued(replica[v].began) => doc'[d] = [doc[d] EXCEPT !.status = "pending", !.updated = clock]
      BY <1>2 DEF Repair
    <3>2. d \in Requeued(replica[v].began) => doc'[d].status = "pending"
      BY <3>1, TypesAt DEF Doc
    <3> QED
      BY <3>2 DEF Reported
  <2>2. doc[d].updated \in Nat /\ replica[v].began \in Nat
    BY TypesAt, ReplicaAt DEF Doc
  <2> QED
    BY <2>1, <2>2 DEF Requeued, Reported
<1> QED
  BY <1>1, <1>2, RepairFirst

(* The step that moves the pointer.                                         *)
LEMMA FoundInCopy ==
  ASSUME TypeInv, RecordInv, Rows, [Next]_vars, Good, NEW d \in Docs, Reported(d), doc'[d] = doc[d],
         \A w \in Replicas : replica'[w].pc = "repairing" => doc'[d].updated < replica'[w].began,
         NEW w \in Replicas, CopyFinish(w), CopyOK(w)
  PROVE  FoundIn(live, d)'
<1>1. live' = CopyName(w) /\ coll' = coll /\ replica[w].copied = Docs /\ HoldsCopy(w) /\ replica[w].pc = "copying" /\ replica[w].ready
  BY DEF CopyFinish
<1>2. doc[d].updated < replica[w].began
  BY RepairGoesOn
<1>3. PICK p \in coll[CopyName(w)].points[d] : FoundAs(p, d)
  BY <1>1, <1>2 DEF CopyOK, FoundIn
<1>4. FoundAs(p, d)'
  BY <1>3, FoundAsStays
<1> QED
  BY <1>1, <1>3, <1>4 DEF FoundIn

(* Every step: a commit found by what its pass wrote, a mark by what it     *)
(* added, a move of the pointer by what the copy has.                       *)
LEMMA FoundKeeps ==
  ASSUME TypeInv, RecordInv, SlotInv, PointInv, [Next]_vars
  PROVE  Found'
<1> SUFFICES ASSUME Good', NotRebuilding', NEW d \in Docs, Reported(d)',
                    \A w \in Replicas : replica'[w].pc = "repairing" => doc'[d].updated < replica'[w].began
             PROVE  FoundIn(live, d)'
  BY DEF Found
<1>0. /\ Clean' /\ ~missed' /\ Good /\ Clean /\ Rows /\ Locks /\ RowOK(d) /\ MarkedOff(d)
      /\ \A w \in Replicas : Works(w) /\ Written(w) /\ Added(w) /\ CopyOK(w)
  BY WrongStays, MissedStays DEF Good, PointInv, Rows, Contents
<1>1. ASSUME Kept(d), Reported(d)
      PROVE  FoundIn(live, d)'
  <2>1. doc'[d] = doc[d]
    BY <1>1 DEF Kept
  <2>2. CASE \E w \in Replicas : CopyFinish(w)
    BY <1>0, <1>1, <2>1, <2>2, FoundInCopy
  <2>3. CASE live' = live
    <3>1. NotRebuilding
      <4>1. ~RebuildRequeue
        <5>1. RebuildRequeue => doc'[d] = Restored(doc[d])
          BY <1>1 DEF RebuildRequeue, Reported
        <5>2. Restored(doc[d]).status = "pending"
          BY TypesAt DEF Restored, Doc
        <5> QED
          BY <5>1, <5>2 DEF Reported
      <4> QED
        BY <4>1, OperatorMoves, RebuildAfter DEF RebuildStep, NotRebuilding
    <3>2. \A w \in Replicas : replica[w].pc = "repairing" => doc[d].updated < replica[w].began
      BY <1>0, <1>1, <2>1, RepairLeaves
    <3>3. PICK p \in coll[live].points[d] : FoundAs(p, d)
      BY <1>0, <1>1, <3>1, <3>2 DEF PointInv, Contents, Found, FoundIn
    <3>4. FoundAs(p, d)'
      BY <1>0, <1>1, <2>1, <3>3, FoundAsStays
    <3>5. PICK V : V = VecsOf(d)'
      OBVIOUS
    <3>6. Unswept(live, d, V) /\ ~p.deleted /\ V \subseteq p.vecs /\ p.id = doc'[d].chunks
      BY <1>0, <1>1, <2>1, <3>4, <3>5, LiveUnswept, FoundByVecs
    <3>7. live \in DOMAIN coll /\ live \in DOMAIN coll'
      BY <1>0, <2>3, <3>1, SearchKeeps DEF Exists, SlotInv
    <3>8. PICK q \in coll'[live].points[d] : q.id = p.id /\ ~q.deleted /\ V \subseteq q.vecs
      BY <1>0, <3>3, <3>6, <3>7, PointStays, NoPageToLive
    <3>9. FoundAs(q, d)'
      BY <3>5, <3>6, <3>8, FoundByVecs
    <3> QED
      BY <2>3, <3>8, <3>9 DEF FoundIn
  <2> QED
    BY <2>2, <2>3, PointerMoves
<1>2. ASSUME NEW w \in Replicas, Committed(w, d)
      PROVE  FoundIn(live, d)'
  <2>1. /\ live' = live /\ coll' = coll /\ layer' = layer /\ rebuild' = rebuild /\ clock' = clock
        /\ replica[w].pc = "written" /\ replica[w].doc = d
    BY <1>2 DEF Committed, IngestCommit
  <2>2. /\ replica[w].from = live /\ replica[w].slot = layer[replica[w].layer].vector /\ ~(replica[w].began < clock)
        /\ ~drift[d]
    BY <1>2 DEF Committed, Reported
  <2>3. replica[w].began = clock
    BY <1>0, <2>1, <2>2, TypesAt, ReplicaAt DEF Works
  <2>4. replica[w].layer = Home[d]
    BY <1>0, <2>1 DEF Works
  <2>5. PICK p \in coll[live].points[d] : p.id = replica[w].id /\ ~p.deleted /\ (Wanted(w) => replica[w].slot \in p.vecs)
    BY <1>0, <2>1, <2>2, <2>3 DEF Written, NotRebuilding
  <2>6. FoundAs(p, d)'
    BY <1>2, <2>1, <2>2, <2>4, <2>5 DEF FoundAs, Committed, Wanted
  <2> QED
    BY <2>1, <2>5, <2>6 DEF FoundIn
<1>3. ASSUME NEW w \in Replicas, Marked(w, d), Reported(d)
      PROVE  FoundIn(live, d)'
  <2>1. /\ live' = live /\ coll' = coll /\ layer' = layer /\ rebuild' = rebuild
        /\ replica[w].pc = "marking" /\ replica[w].doc = d
    BY <1>3 DEF Marked, EmbedMark
  <2>2. doc[d].chunks = replica[w].id /\ replica[w].from = live /\ replica[w].began = layer[replica[w].layer].since
    BY <1>3 DEF Marked, Reported
  <2>3. ASSUME NEW v \in Replicas, replica[v].pc = "repairing"
        PROVE  doc[d].updated < replica[v].began
    <3>1. ~Repair(v)
      <4>1. replica[w].pc # "repairing"
        BY <2>1
      <4>2. Repair(v) => replica'[w] = replica[w]
        BY <2>3, <4>1 DEF Repair, TypeInv, TypeOK
      <4>3. EmbedMark(w) => replica'[w] # replica[w]
        <5>1. EmbedMark(w) => replica' = [replica EXCEPT ![w] = Ended(replica[w], "marked")]
          BY DEF EmbedMark
        <5>2. Ended(replica[w], "marked").pc = "marked"
          BY DEF Ended, Idle
        <5> QED
          BY <2>1, <5>1, <5>2 DEF TypeInv, TypeOK
      <4> QED
        BY <1>3, <4>2, <4>3 DEF Marked
    <3>2. replica'[v] = replica[v]
      BY <1>0, <2>3, <3>1, RepairFirst
    <3> QED
      BY <1>3, <2>3, <3>2 DEF Marked
  <2>4. PICK p \in coll[live].points[d] : FoundAs(p, d)
    BY <1>0, <1>3, <2>1, <2>3 DEF PointInv, Contents, Found, FoundIn, NotRebuilding
  <2>5. Exists(live)
    BY <1>0, <2>1 DEF SlotInv, NotRebuilding
  <2>6. replica[w].slot \in p.vecs
    BY <1>0, <2>1, <2>2, <2>4, <2>5 DEF Added, FoundAs
  <2>7. FoundAs(p, d)'
    BY <1>3, <2>1, <2>4, <2>6 DEF FoundAs, Marked
  <2> QED
    BY <2>1, <2>4, <2>7 DEF FoundIn
<1>4. ASSUME Redated(d), Reported(d)
      PROVE  FoundIn(live, d)'
  <2>1. /\ live' = live /\ coll' = coll /\ layer' = layer /\ replica' = replica /\ doc'[d].updated = clock
        /\ doc'[d].chunks = doc[d].chunks /\ doc'[d].reindexed = doc[d].reindexed
    BY <1>4 DEF Redated, Reported
  <2>2. ASSUME NEW v \in Replicas
        PROVE  replica[v].pc # "repairing"
    <3>1. replica[v].pc = "repairing" => replica[v].began <= clock /\ clock < replica[v].began
      BY <1>0, <2>1 DEF Works
    <3>2. clock \in Nat /\ replica[v].began \in Nat
      BY ReplicaAt, TypesAt
    <3> QED
      BY <3>1, <3>2
  <2>3. NotRebuilding
    <3>1. ~RebuildRequeue
      <4>1. RebuildRequeue => doc'[d] = Restored(doc[d])
        BY <1>4 DEF RebuildRequeue, Reported
      <4>2. Restored(doc[d]).status = "pending"
        BY TypesAt DEF Restored, Doc
      <4> QED
        BY <4>1, <4>2 DEF Reported
    <3> QED
      BY <3>1, OperatorMoves, RebuildAfter DEF RebuildStep, NotRebuilding
  <2>4. PICK p \in coll[live].points[d] : FoundAs(p, d)
    BY <1>0, <1>4, <2>2, <2>3 DEF PointInv, Contents, Found, FoundIn
  <2>5. FoundAs(p, d)'
    BY <2>1, <2>4 DEF FoundAs
  <2> QED
    BY <2>1, <2>4, <2>5 DEF FoundIn
<1> QED
  BY <1>0, <1>1, <1>2, <1>3, <1>4, ReportedBefore

(* A row that is deleted after a step was so before, with the same marks,   *)
(* or the step deleted it, purged it or had it brought back.                *)
SameMarks(d) == doc'[d].deleted = doc[d].deleted /\ doc'[d].purged = doc[d].purged /\ ~drift[d] /\ Deleted(d)

(* Where its marks come from.                                               *)
LEMMA DeletedBefore ==
  ASSUME TypeInv, Locks, [Next]_vars, NEW d \in Docs, Deleted(d)', ~drift'[d]
  PROVE  SameMarks(d) \/ Hid(d) \/ \E w \in Replicas : PurgeMarked(w, d) \/ Reborn(w, d)
<1>1. ASSUME NEW w \in Replicas
      PROVE  ~Committed(w, d)
  BY DEF Committed, IngestCommit, Locks, PassHolds, Deleted
<1>2. CASE Kept(d) \/ Pended(d)
  BY <1>2 DEF Kept, Pended, SameMarks, Deleted
<1>3. ASSUME NEW w \in Replicas, Marked(w, d) \/ Retombed(w, d)
      PROVE  SameMarks(d)
  BY <1>3 DEF Marked, Retombed, SameMarks, Deleted
<1>4. ~Sent(d) /\ ~Redated(d)
  BY DEF Sent, Redated, Deleted
<1>5. ASSUME NEW w \in Replicas
      PROVE  ~Rewritten(w, d) /\ ~Lost(w, d)
  BY DEF Rewritten, Lost, Deleted
<1> QED
  BY <1>1, <1>2, <1>3, <1>4, <1>5, RowAfter

(* What a repair looks at is as it was.                                     *)
LEMMA RevivedSame ==
  ASSUME NEW d \in Docs, SameMarks(d), NEW t
  PROVE  d \in Revived(t)' <=> d \in Revived(t)
BY DEF SameMarks, Revived, Deleted

(* The step that moves the pointer.                                         *)
LEMMA HiddenInCopy ==
  ASSUME TypeInv, Good, NEW d \in Docs, SameMarks(d),
         \A w \in Replicas : replica'[w].pc = "repairing" => ~(d \in Revived(replica[w].began)'),
         NEW w \in Replicas, CopyFinish(w), CopyOK(w)
  PROVE  Flags(live, d)' /\ (doc'[d].purged # None => coll'[live'].points[d] = {})
<1>1. live' = CopyName(w) /\ coll' = coll /\ HoldsCopy(w) /\ replica[w].pc = "copying" /\ replica[w].ready
  BY DEF CopyFinish
<1>2. replica'[w].pc = "repairing" /\ replica'[w].began = replica[w].began
  BY RepairGoesOn
<1>3. doc' = doc
  BY DEF CopyFinish
<1>4. d \notin Revived(replica[w].began)
  BY <1>2, <1>3 DEF Revived, Deleted
<1>5. Flags(CopyName(w), d) /\ (doc[d].purged # None => coll[CopyName(w)].points[d] = {})
  BY <1>1, <1>4 DEF CopyOK, SameMarks
<1> QED
  BY <1>1, <1>3, <1>5 DEF Flags

(* A document that waits for its flag waits on, or is flagged now.          *)
LEMMA RetombLeaves ==
  ASSUME TypeInv, Apart, [Next]_vars, Good', NEW d \in Docs, Deleted(d), ~drift'[d],
         \A w \in Replicas : replica'[w].pc = "tombstoning" => d \notin replica'[w].copied,
         NEW v \in Replicas, replica[v].pc = "tombstoning", d \in replica[v].copied
  PROVE  live' = live /\ Flags(live, d)'
<1>1. CASE replica'[v] = replica[v]
  BY <1>1
<1>2. ASSUME NEW e \in Docs, NEW ok \in BOOLEAN, ReTombstone(v, e, ok)
      PROVE  live' = live /\ Flags(live, d)'
  <2>1. e = d
    BY <1>2, RepairGoesOn
  <2>2. live' = live /\ drift' = [drift EXCEPT ![d] = drift[d] \/ ok /= Deleted(d)]
    BY <1>2, <2>1 DEF ReTombstone
  <2>3. drift \in [Docs -> BOOLEAN]
    BY DEF TypeInv, TypeOK
  <2>4. ok = TRUE
    <3>1. ok = FALSE => ok /= Deleted(d)
      OBVIOUS
    <3>2. ok /= Deleted(d) => drift'[d]
      BY Zenon, <2>2, <2>3
    <3> QED
      BY <3>1, <3>2
  <2>5. CopyName(v) = live
    BY WrongStays DEF Good, Apart
  <2>6. live \in DOMAIN coll /\ coll' = WithPoints(live, d, Flagged(coll[live].points[d]))
    BY <1>2, <2>1, <2>4, <2>5 DEF ReTombstone, Exists
  <2>7. coll[live].points[d] \in SUBSET Point /\ Flagged(coll[live].points[d]) \in SUBSET Point
    BY <2>6, PointsAt
  <2>8. coll'[live].points[d] = Flagged(coll[live].points[d])
    BY <2>6, <2>7, PointsWritten
  <2>9. ASSUME NEW p \in Flagged(coll[live].points[d])
        PROVE  p.deleted
    <3>1. PICK a \in coll[live].points[d] : p = [a EXCEPT !.deleted = TRUE]
      BY <2>9 DEF Flagged
    <3> QED
      BY <2>7, <3>1 DEF Point
  <2> QED
    BY <2>2, <2>8, <2>9 DEF Flags
<1>3. ~missed'
  BY DEF Good
<1> QED
  BY <1>1, <1>2, <1>3, RepairFirst

(* What a repair brings back waits for its flag.                            *)
LEMMA RevivedWaits ==
  ASSUME TypeInv, [Next]_vars, NEW d \in Docs, NEW v \in Replicas, Repair(v), d \in Revived(replica[v].began)
  PROVE  doc'[d].purged = None /\ replica'[v].pc = "tombstoning" /\ d \in replica'[v].copied
<1>1. d \notin Requeued(replica[v].began)
  BY DEF Revived, Requeued
<1>2. doc'[d] = [doc[d] EXCEPT !.purged = None]
  BY <1>1 DEF Repair
<1>3. doc'[d].purged = None
  BY <1>2, TypesAt DEF Doc
<1> QED
  BY <1>3, RepairGoesOn

(* Every step: a delete hidden by what it flagged, a purge by what it       *)
(* emptied, a move of the pointer by what the copy has.                     *)
LEMMA HiddenKeeps ==
  ASSUME TypeInv, RecordInv, SlotInv, PointInv, [Next]_vars
  PROVE  Hidden'
<1> SUFFICES ASSUME Good', Exists(live)', NEW d \in Docs, Deleted(d)', ~drift'[d],
                    \A w \in Replicas : replica'[w].pc = "repairing" => ~(d \in Revived(replica[w].began)')
             PROVE  /\ (\A w \in Replicas : replica'[w].pc = "tombstoning" => d \notin replica'[w].copied) => Flags(live, d)'
                    /\ doc'[d].purged # None => coll'[live'].points[d] = {}
  BY DEF Hidden
<1>0. /\ Clean' /\ ~missed' /\ Good /\ Rows /\ Locks /\ RowOK(d) /\ Apart /\ Hiding /\ Hidden
      /\ \A w \in Replicas : Works(w) /\ Emptied(w) /\ CopyOK(w)
  BY WrongStays, MissedStays DEF Good, PointInv, Rows, Contents
<1>1. CASE \E v \in Replicas : Repair(v) /\ d \in Revived(replica[v].began)
  BY <1>1, RevivedWaits
<1>2. ASSUME SameMarks(d), ~\E v \in Replicas : Repair(v) /\ d \in Revived(replica[v].began)
      PROVE  /\ (\A w \in Replicas : replica'[w].pc = "tombstoning" => d \notin replica'[w].copied) => Flags(live, d)'
             /\ doc'[d].purged # None => coll'[live'].points[d] = {}
  <2>1. CASE \E w \in Replicas : CopyFinish(w)
    BY <1>0, <1>2, <2>1, HiddenInCopy
  <2>2. CASE live' = live
    <3>1. ASSUME NEW v \in Replicas, replica[v].pc = "repairing"
          PROVE  d \notin Revived(replica[v].began)
      <4>1. CASE replica'[v] = replica[v]
        <5>1. ~(d \in Revived(replica[v].began)')
          BY <3>1, <4>1
        <5> QED
          BY <1>2, <4>1, <5>1 DEF SameMarks, Revived, Deleted
      <4>2. CASE Repair(v)
        BY <1>2, <4>2
      <4> QED
        BY <1>0, <3>1, <4>1, <4>2, RepairFirst
    <3>2. /\ \A v \in Replicas : ~PtsNew(v, live, d) /\ ~PtsCopied(v, live, d)
          /\ live \in DOMAIN coll'
      BY <1>0, <1>2, <2>2, NoPageToLive DEF PtsNew, IngestWrite, SameMarks, Exists
    <3>3. doc'[d].purged # None => coll'[live'].points[d] = {}
      <4>1. live \in DOMAIN coll /\ doc[d].purged # None => coll[live].points[d] = {}
        BY <1>0, <1>2, <3>1 DEF Hidden, Exists, SameMarks
      <4> QED
        BY <1>2, <2>2, <3>2, <4>1, FlagsStay DEF SameMarks
    <3>4. ASSUME \A w \in Replicas : replica'[w].pc = "tombstoning" => d \notin replica'[w].copied
          PROVE  Flags(live, d)'
      <4>1. CASE \E v \in Replicas : replica[v].pc = "tombstoning" /\ d \in replica[v].copied
        BY <1>0, <1>2, <3>4, <4>1, RetombLeaves DEF SameMarks
      <4>2. CASE ~\E v \in Replicas : replica[v].pc = "tombstoning" /\ d \in replica[v].copied
        <5>1. live \in DOMAIN coll => Flags(live, d)
          BY <1>0, <1>2, <3>1, <4>2 DEF Hidden, Exists, SameMarks
        <5> QED
          BY <2>2, <3>2, <5>1, FlagsStay DEF Flags
      <4> QED
        BY <4>1, <4>2
    <3> QED
      BY <3>3, <3>4
  <2> QED
    BY <2>1, <2>2, PointerMoves
<1>3. CASE Hid(d)
  <2>1. /\ live' = live /\ coll' = coll /\ deleting # NoDelete /\ deleting.doc = d
    BY <1>3 DEF Hid, DeleteCommit
  <2>2. deleting.from = live /\ ~Deleted(d)
    BY <1>0, <1>3, <2>1 DEF Hid, Locks, DeleteHolds
  <2>3. doc'[d].purged = None
    BY <1>0, <1>3, <2>2 DEF Hid, RowOK
  <2>4. Flags(live, d)
    BY <1>0, <2>1, <2>2 DEF Hiding, Exists
  <2> QED
    BY <2>1, <2>3, <2>4 DEF Flags
<1>4. ASSUME NEW w \in Replicas, PurgeMarked(w, d)
      PROVE  /\ Flags(live, d)'
             /\ coll'[live'].points[d] = {}
  <2>1. /\ live' = live /\ coll' = coll /\ replica[w].pc = "purged" /\ replica[w].doc = d /\ replica[w].from = live
        /\ ~resent[w]
    BY <1>4 DEF PurgeMarked, CollectMark
  <2>2. coll[live].points[d] = {}
    BY <1>0, <2>1 DEF Emptied, Exists
  <2> QED
    BY <2>1, <2>2 DEF Flags
<1> QED
  BY <1>0, <1>1, <1>2, <1>3, <1>4, DeletedBefore DEF Reborn

(* A name tells what it was made from.                                      *)
LEMMA NamedOnce ==
  ASSUME NEW m \in Names, NEW n \in Names, NEW u \in Vectors, NEW v \in Vectors, Append(m, u) = Append(n, v)
  PROVE  m = n /\ Len(n) \in Nat /\ Len(Append(n, v)) = Len(n) + 1
<1>1. m \in Seq(Vectors) /\ n \in Seq(Vectors) /\ Len(m) \in Nat /\ Len(n) \in Nat
  BY DEF Names
<1>2. Len(Append(m, u)) = Len(m) + 1 /\ Len(Append(n, v)) = Len(n) + 1
  BY <1>1
<1>3. Len(m) = Len(n)
  BY <1>1, <1>2
<1>4. ASSUME NEW i \in 1 .. Len(n)
      PROVE  m[i] = n[i]
  <2>1. Append(m, u)[i] = m[i] /\ Append(n, v)[i] = n[i]
    BY <1>1, <1>3, <1>4
  <2> QED
    BY <2>1
<1> QED
  BY <1>1, <1>2, <1>3, <1>4

(* A copy that is held and begun.                                           *)
Held(v) == replica[v].pc = "copying" /\ replica[v].ready /\ HoldsCopy(v)

(* What is known while it is.                                               *)
LEMMA HeldFacts ==
  ASSUME TypeInv, RecordInv, SlotInv, PointInv, Good, NEW v \in Replicas, Held(v)
  PROVE  /\ replica[v].layer \in Layers /\ CopyName(v) = Append(live, replica[v].slot) /\ replica[v].slot \in Vectors
         /\ CopyName(v) \in Names /\ CopyName(v) # live /\ live \in Names /\ Len(CopyName(v)) = Len(live) + 1 /\ Len(live) \in Nat
         /\ AnyCopying /\ ~Repairing /\ NotRebuilding /\ Migrating /\ Exists(live) /\ Exists(CopyName(v))
         /\ replica[v].began <= clock /\ replica[v].began \in Nat /\ clock \in Nat
<1>0. Clean /\ replica[v].pc = "copying" /\ replica[v].ready /\ HoldsCopy(v)
  BY DEF Good, Held
<1>1. /\ replica[v].layer \in Layers /\ replica[v].slot \in Vectors /\ replica[v].from = live /\ live \in Names
  BY <1>0, CopyNamed, TypesAt DEF RecordInv, CopiesLive
<1>2. CopyName(v) = Append(live, replica[v].slot)
  BY <1>1 DEF CopyName
<1>3. CopyName(v) \in Names /\ CopyName(v) # live /\ Len(CopyName(v)) = Len(live) + 1 /\ Len(live) \in Nat
  BY <1>1, <1>2, Grown, NamedOnce
<1>4. layer[replica[v].layer].status = "running" /\ AnyCopying
  BY <1>0, <1>1 DEF HoldsCopy, Copying, AnyCopying
<1>5. ~Repairing /\ NotRebuilding /\ Migrating
  BY <1>0, <1>1, <1>4 DEF PointInv, Apart, RecordInv, Migrating
<1>6. Exists(live) /\ Exists(CopyName(v))
  BY <1>0 DEF SlotInv, CopyHasSlots
<1>7. replica[v].began = layer[replica[v].layer].since /\ layer[replica[v].layer].since <= clock
  BY <1>0, <1>1 DEF PointInv, Rows, Works, LayerOK
<1> QED
  BY <1>1, <1>2, <1>3, <1>4, <1>5, <1>6, <1>7, TypesAt, ReplicaAt

(* Only pages read from the live collection go to a copy that is held.      *)
LEMMA OnlyPages ==
  ASSUME TypeInv, RecordInv, SlotInv, PointInv, [Next]_vars, Clean', Good, NEW v \in Replicas, Held(v), NEW d \in Docs,
         CopyName(v) \in DOMAIN coll'
  PROVE  \/ PtsSame(CopyName(v), d)
         \/ \E w \in Replicas : PtsCopied(w, CopyName(v), d) /\ replica[w].from = live
<1> DEFINE c == CopyName(v)
<1>0. /\ c # live /\ c \in Names /\ Len(c) = Len(live) + 1 /\ Len(live) \in Nat /\ ~Repairing /\ Migrating
      /\ c = Append(live, replica[v].slot) /\ live \in Names /\ replica[v].slot \in Vectors
      /\ \A w \in Replicas : Works(w)
  BY HeldFacts DEF PointInv, Rows
<1>1. ~PtsFlagged(c, d)
  <2>1. ASSUME NEW w \in Replicas
        PROVE  ~ReTombstone(w, d, TRUE)
    BY <1>0 DEF Repairing, ReTombstone
  <2> QED
    BY <1>0, <2>1 DEF PtsFlagged
<1>2. ~PtsGone(c, d)
  <2>1. ~RebuildCreate
    BY <1>0, NoRebuildOver
  <2>2. ASSUME NEW w \in Replicas, CopyCreate(w)
        PROVE  FALSE
    <3>1. HoldsCopy(w) /\ replica[w].layer \in Layers
      BY <2>2, MadeHeld DEF RecordInv
    <3>2. OneCopy /\ replica[v].layer \in Layers /\ HoldsCopy(v)
      BY HeldFacts DEF SlotInv, Good, Held
    <3>3. w = v
      BY <3>1, <3>2, OneHolder
    <3> QED
      BY <2>2, <3>3 DEF CopyCreate, Held
  <2>3. ASSUME NEW w \in Replicas, CollectPurge(w)
        PROVE  c # replica[w].from
    <3>1. NotAhead(w)
      BY <1>0 DEF Works
    <3>2. Len(replica[w].from) <= Len(live)
      BY <2>3, <3>1 DEF CollectPurge, NotAhead
    <3>3. Len(c) = Len(live) + 1 /\ Len(live) \in Nat
      BY <1>0
    <3> HIDE DEF c
    <3> QED
      BY <3>2, <3>3
  <2> QED
    BY <2>1, <2>2, <2>3 DEF PtsGone
<1>3. ASSUME NEW w \in Replicas
      PROVE  ~PtsNew(w, c, d) /\ ~PtsAdded(w, c, d) /\ ~PtsSwept(w, c, d)
  <2>1. NotAhead(w)
    BY <1>0 DEF Works
  <2>2. IngestWrite(w) \/ EmbedAdd(w) \/ ReclaimDrop(w) => Len(replica[w].from) <= Len(live)
    BY <2>1 DEF IngestWrite, EmbedAdd, EmbedCompare, ReclaimDrop, NotAhead
  <2>3. Len(c) = Len(live) + 1 /\ Len(live) \in Nat
    BY <1>0
  <2>4. IngestWrite(w) \/ EmbedAdd(w) \/ ReclaimDrop(w) => c # replica[w].from
    <3> HIDE DEF c
    <3> QED
      BY <2>2, <2>3
  <2> QED
    BY <2>4 DEF PtsNew, PtsAdded, PtsSwept
<1>4. ASSUME NEW w \in Replicas, PtsCopied(w, c, d)
      PROVE  replica[w].from = live
  <2>1. replica[w].pc = "copying" /\ CopyName(w) = c
    BY <1>4 DEF PtsCopied, CopyPage
  <2>2. replica[w].from \in Names /\ replica[w].slot \in Vectors
    BY <2>1, CopyNamed
  <2> QED
    BY <1>0, <2>1, <2>2, NamedOnce DEF CopyName
<1> QED
  BY <1>1, <1>2, <1>3, <1>4, PointsAfter

(* What is reported, and what is deleted, while a copy is held.             *)
LEMMA HeldReads ==
  ASSUME TypeInv, RecordInv, SlotInv, PointInv, Good, NEW v \in Replicas, Held(v), NEW d \in Docs
  PROVE  /\ Reported(d) => FoundIn(live, d)
         /\ Deleted(d) /\ ~drift[d] => Flags(live, d) /\ (doc[d].purged # None => coll[live].points[d] = {})
<1>1. ~Repairing /\ NotRebuilding /\ Exists(live)
  BY HeldFacts
<1>2. \A w \in Replicas : replica[w].pc \notin {"repairing", "tombstoning"}
  BY <1>1 DEF Repairing
<1> QED
  BY <1>1, <1>2 DEF PointInv, Contents, Found, Hidden

(* The rows a held copy answers for.                                        *)
LEMMA HeldFound ==
  ASSUME TypeInv, RecordInv, SlotInv, PointInv, [Next]_vars, Good, Clean', NEW v \in Replicas, Held(v), NEW d \in Docs,
         CopyName(v) \in DOMAIN coll', Reported(d)', doc'[d].updated < replica[v].began,
         d \in replica[v].copied \/ CopyPage(v, d)
  PROVE  \E p \in coll'[CopyName(v)].points[d] : FoundAs(p, d)'
<1> DEFINE c == CopyName(v)
<1>0. /\ Locks /\ Rows /\ UniqueIds /\ CopyOK(v) /\ (\A w \in Replicas : Works(w))
      /\ replica[v].began <= clock /\ replica[v].began \in Nat /\ clock \in Nat /\ AnyCopying /\ c \in DOMAIN coll /\ live \in DOMAIN coll
  BY HeldFacts DEF PointInv, Contents, Rows, Exists
<1>1. Kept(d) /\ Reported(d)
  <2>1. ASSUME NEW w \in Replicas, Committed(w, d)
        PROVE  FALSE
    <3>1. ~(replica[w].began < clock) /\ doc'[d].updated = replica[w].began /\ replica[w].began \in Nat
      BY <2>1, ReplicaAt, TypesAt DEF Committed, Reported
    <3> QED
      BY <1>0, <3>1
  <2>2. ASSUME NEW w \in Replicas, Marked(w, d)
        PROVE  FALSE
    BY <1>0, <2>2 DEF Marked, Reported
  <2>3. ~Redated(d)
    BY <1>0 DEF Redated, Reported
  <2> QED
    BY <1>0, <2>1, <2>2, <2>3, ReportedBefore
<1>2. doc'[d] = doc[d] /\ doc[d].updated < replica[v].began
  BY <1>1 DEF Kept
<1>3. PICK a \in coll[live].points[d] : FoundAs(a, d)
  BY <1>1, HeldReads DEF FoundIn
<1>4. CASE CopyPage(v, d)
  <2>1. replica[v].from = live
    BY DEF Held, RecordInv, CopiesLive
  <2>2. PICK S \in SUBSET Point : S = coll[live].points[d]
    BY <1>0, PointsAt
  <2>3. PICK T \in SUBSET Point : T = {p \in coll[c].points[d] : \A q \in S : q.id # p.id} \cup S
    BY <1>0, <2>2, PointsAt
  <2>4. coll' = WithPoints(c, d, T)
    BY <1>4, <2>1, <2>2, <2>3 DEF CopyPage
  <2>5. coll'[c].points[d] = T
    BY <1>0, <2>4, PointsWritten
  <2>6. a \in coll'[c].points[d]
    BY <1>3, <2>2, <2>3, <2>5
  <2>7. FoundAs(a, d)'
    BY <1>0, <1>1, <1>2, <1>3, FoundAsStays
  <2> QED
    BY <2>6, <2>7
<1>5. CASE d \in replica[v].copied
  <2>1. PICK p \in coll[c].points[d] : FoundAs(p, d)
    BY <1>0, <1>1, <1>2, <1>5 DEF CopyOK, FoundIn, Held
  <2>2. FoundAs(p, d)' /\ FoundAs(a, d)'
    BY <1>0, <1>1, <1>2, <1>3, <2>1, FoundAsStays
  <2>3. CASE PtsSame(c, d)
    BY <2>1, <2>2, <2>3 DEF PtsSame
  <2>4. ASSUME NEW w \in Replicas, PtsCopied(w, c, d), replica[w].from = live
        PROVE  a \in coll'[c].points[d]
    BY <1>3, <2>4 DEF PtsCopied
  <2> QED
    BY <2>2, <2>3, <2>4, OnlyPages
<1> QED
  BY <1>4, <1>5

(* The deleted rows it answers for.                                         *)
LEMMA HeldHidden ==
  ASSUME TypeInv, RecordInv, SlotInv, PointInv, [Next]_vars, Good, Clean', NEW v \in Replicas, Held(v), NEW d \in Docs,
         CopyName(v) \in DOMAIN coll', Deleted(d)', ~drift'[d], replica'[v].began = replica[v].began, ~(d \in Revived(replica[v].began)')
  PROVE  /\ \A p \in coll'[CopyName(v)].points[d] : p.deleted
         /\ doc'[d].purged # None => coll'[CopyName(v)].points[d] = {}
<1> DEFINE c == CopyName(v)
<1>0. /\ Locks /\ CopyOK(v) /\ ~Repairing
      /\ replica[v].began <= clock /\ replica[v].began \in Nat /\ clock \in Nat /\ c \in DOMAIN coll /\ live \in DOMAIN coll
  BY HeldFacts DEF PointInv, Contents, Exists
<1>1. SameMarks(d)
  <2>1. ~Hid(d)
    <3>1. deleting.began \in Nat
      BY TypesAt DEF TypeInv, TypeOK
    <3>2. Hid(d) => doc'[d].deleted = deleting.began /\ ~(deleting.began < clock)
      BY DEF Hid
    <3>3. Hid(d) => doc'[d].deleted >= replica[v].began
      BY <1>0, <3>1, <3>2
    <3> QED
      BY <3>3 DEF Revived
  <2>2. ASSUME NEW w \in Replicas, PurgeMarked(w, d)
        PROVE  FALSE
    <3>1. doc'[d].purged = clock /\ clock # None /\ clock >= replica[v].began
      BY <1>0, <2>2, MigrationAssumption DEF PurgeMarked
    <3> QED
      BY <3>1 DEF Revived
  <2>3. ASSUME NEW w \in Replicas, Reborn(w, d)
        PROVE  FALSE
    BY <1>0, <2>3 DEF Reborn, Repair, Repairing
  <2> QED
    BY <1>0, <2>1, <2>2, <2>3, DeletedBefore
<1>2. d \notin Revived(replica[v].began)
  BY <1>1 DEF SameMarks, Revived, Deleted
<1>3. Flags(c, d) /\ (doc[d].purged # None => coll[c].points[d] = {})
  BY <1>0, <1>1, <1>2 DEF CopyOK, Held, SameMarks
<1>4. Flags(live, d) /\ (doc[d].purged # None => coll[live].points[d] = {})
  BY <1>1, HeldReads DEF SameMarks
<1>5. CASE PtsSame(c, d)
  BY <1>1, <1>3, <1>5 DEF PtsSame, Flags, SameMarks
<1>6. ASSUME NEW w \in Replicas, PtsCopied(w, c, d), replica[w].from = live
      PROVE  /\ \A p \in coll'[c].points[d] : p.deleted
             /\ doc'[d].purged # None => coll'[c].points[d] = {}
  <2>1. coll'[c].points[d] \subseteq coll[c].points[d] \cup coll[live].points[d]
    BY <1>6 DEF PtsCopied
  <2> QED
    BY <1>1, <1>3, <1>4, <2>1 DEF Flags, SameMarks
<1> QED
  BY <1>5, <1>6, OnlyPages

(* Every step.                                                              *)
LEMMA CopyOKKeeps ==
  ASSUME TypeInv, RecordInv, SlotInv, PointInv, [Next]_vars, NEW v \in Replicas
  PROVE  CopyOK(v)'
<1> SUFFICES ASSUME Good', replica'[v].pc = "copying", replica'[v].ready, HoldsCopy(v)', NEW d \in Docs
             PROVE  /\ d \in replica'[v].copied /\ Reported(d)' /\ doc'[d].updated < replica'[v].began => FoundIn(CopyName(v), d)'
                    /\ Deleted(d)' /\ ~drift'[d] /\ ~(d \in Revived(replica[v].began)') =>
                         Flags(CopyName(v), d)' /\ (doc'[d].purged # None => coll'[CopyName(v)'].points[d] = {})
  BY DEF CopyOK
<1>0. Clean' /\ Good /\ Works(v) /\ (\A w \in Replicas : CopiesLive(w)) /\ CopyHasSlots(v)'
  BY WrongStays, MissedStays, CopyKeeps DEF Good, PointInv, Rows, RecordInv
<1>1. /\ replica[v].pc = "copying" /\ HoldsCopy(v) /\ replica'[v].from = replica[v].from /\ replica'[v].slot = replica[v].slot
      /\ replica'[v].ready = replica[v].ready \/ CopyCreate(v)
  BY HeldBefore
<1>2. CopyName(v)' = CopyName(v) /\ CopyName(v) \in DOMAIN coll'
  BY <1>0, <1>1 DEF CopyName, CopyHasSlots, Exists
<1>3. CASE CopyCreate(v)
  <2>1. replica'[v].copied = {}
    <3>1. replica[v].copied = {}
      BY <1>0, <1>3 DEF CopyCreate, Works
    <3>2. replica'[v].copied = replica[v].copied
      BY Zenon, <1>1, <1>3, CopyPlace DEF CopyCreate, CopyClaim, CopyPage
    <3> QED
      BY <3>1, <3>2
  <2>2. coll'[CopyName(v)].points[d] = {}
    <3>1. CopyName(v) \in Names /\ CopySlots(v) \in SUBSET Vectors
      BY <1>0, <1>1, <1>3, CopyNamed, TypesAt DEF CopySlots, CopyCreate, Exists, Collection
    <3>2. coll' = WithCollection(CopyName(v), [slots |-> CopySlots(v), points |-> [e \in Docs |-> {}]])
      BY <1>3 DEF CopyCreate
    <3>3. PICK k : k = [slots |-> CopySlots(v), points |-> [e \in Docs |-> {}]]
      OBVIOUS
    <3>4. k.points[d] = {}
      BY <3>3
    <3>5. coll'[CopyName(v)] = k
      BY <3>2, <3>3 DEF WithCollection
    <3> QED
      BY <3>4, <3>5
  <2> QED
    BY <1>2, <2>1, <2>2 DEF Flags
<1>4. CASE ~CopyCreate(v)
  <2>1. Held(v)
    BY <1>1, <1>4 DEF Held
  <2>2. replica'[v].began = replica[v].began /\ (d \in replica'[v].copied => d \in replica[v].copied \/ CopyPage(v, d))
    BY Zenon, <1>1, <1>4, <2>1, CopyPlace DEF CopyClaim, Held
  <2>3. d \in replica'[v].copied /\ Reported(d)' /\ doc'[d].updated < replica'[v].began => FoundIn(CopyName(v), d)'
    BY <1>0, <1>2, <2>1, <2>2, HeldFound DEF FoundIn
  <2>4. Deleted(d)' /\ ~drift'[d] /\ ~(d \in Revived(replica[v].began)') =>
          Flags(CopyName(v), d)' /\ (doc'[d].purged # None => coll'[CopyName(v)'].points[d] = {})
    BY <1>0, <1>2, <2>1, <2>2, HeldHidden DEF Flags
  <2> QED
    BY <2>3, <2>4
<1> QED
  BY <1>3, <1>4

(* Every step.                                                              *)
LEMMA PointsKeep == TypeInv /\ RecordInv /\ SlotInv /\ PointInv /\ [Next]_vars => PointInv'
<1> SUFFICES ASSUME TypeInv, RecordInv, SlotInv, PointInv, [Next]_vars PROVE PointInv'
  OBVIOUS
<1>1. Locks /\ Rows /\ Apart /\ UniqueIds /\ DeleteNotAhead /\ Contents
  BY DEF PointInv
<1>2. Locks' /\ Apart' /\ UniqueIds' /\ DeleteNotAhead'
  BY <1>1, LocksKeep, ApartKeeps, IdsKeep, DeleteKeeps
<1>3. Rows'
  <2>1. \A d \in Docs : RowOK(d)'
    BY <1>1, RowsKeep DEF Rows
  <2>2. \A l \in Layers : LayerOK(l)'
    BY <1>1, LayersKeep DEF Rows
  <2>3. \A w \in Replicas : Works(w)'
    BY <1>1, WorksKeep DEF Rows
  <2> QED
    BY <2>1, <2>2, <2>3 DEF Rows
<1>4. Contents'
  <2>1. Found' /\ Hidden' /\ Hiding'
    BY <1>1, FoundKeeps, HiddenKeeps, HidingKeeps DEF Contents
  <2>2. \A d \in Docs : MarkedOff(d)'
    BY <1>1, MarkedOffKeeps DEF Contents
  <2>3. ASSUME NEW w \in Replicas
        PROVE  CopyOK(w)' /\ Written(w)' /\ Added(w)' /\ Emptied(w)'
    BY <1>1, CopyOKKeeps, WrittenKeeps, AddedKeeps, EmptiedKeeps DEF Contents
  <2> QED
    BY <2>1, <2>2, <2>3 DEF Contents
<1> QED
  BY <1>2, <1>3, <1>4 DEF PointInv

(* At the start.                                                            *)
LEMMA InitPoints == Init => PointInv
<1> SUFFICES ASSUME Init PROVE PointInv
  OBVIOUS
<1>1. ASSUME NEW d \in Docs
      PROVE  /\ doc[d].status = "indexed" /\ doc[d].chunks = FirstId /\ doc[d].reindexed = None
             /\ doc[d].deleted = None /\ doc[d].purged = None /\ lock[d] = None
  BY DEF Init, IndexedDoc
<1>2. ASSUME NEW l \in Layers
      PROVE  /\ layer[l].status = "none" /\ layer[l].vector = First /\ layer[l].previous = None /\ layer[l].since = 0
             /\ starting[l] = None
  BY DEF Init, NewLayer
<1>3. ASSUME NEW w \in Replicas
      PROVE  replica[w] = Idle /\ replica[w].pc = "idle"
  BY IdleRow DEF Init
<1>4. /\ live = <<>> /\ clock = 0 /\ deleting = NoDelete /\ rebuild = NoRebuild /\ DOMAIN coll = {<<>>}
      /\ deleting.from = <<>> /\ NotRebuilding
  BY DEF Init, NoDelete, NoRebuild, NotRebuilding
<1>5. PICK b : b = [id |-> FirstId, vecs |-> {First}, deleted |-> FALSE]
  OBVIOUS
<1>6. b.id = FirstId /\ b.vecs = {First} /\ b.deleted = FALSE
  BY <1>5
<1>7. ASSUME NEW d \in Docs
      PROVE  coll[<<>>].points[d] = {b}
  BY <1>5 DEF Init
<1>8. Locks
  BY <1>1, <1>3, <1>4, MigrationAssumption DEF Locks, PassHolds, HeldByPass, DeleteHolds
<1>9. Rows
  <2>1. \A d \in Docs : RowOK(d)
    BY <1>1, MigrationAssumption DEF RowOK
  <2>2. \A l \in Layers : LayerOK(l)
    BY <1>2, <1>4 DEF LayerOK
  <2>3. \A w \in Replicas : Works(w)
    BY <1>3 DEF Works, NotAhead, Sweeps, Embeds
  <2> QED
    BY <2>1, <2>2, <2>3 DEF Rows
<1>10. Apart
  BY <1>2, <1>3, <1>4 DEF Apart, AnyCopying, Copying, Repairing
<1>11. UniqueIds
  BY <1>4, <1>7 DEF UniqueIds
<1>12. DeleteNotAhead
  BY <1>4 DEF DeleteNotAhead
<1>13. Found
  <2>1. ASSUME NEW d \in Docs
        PROVE  FoundIn(live, d)
    <3>1. layer[Home[d]].vector = First
      BY <1>2, MigrationAssumption
    <3> QED
      BY <1>1, <1>4, <1>6, <1>7, <3>1 DEF FoundIn, FoundAs
  <2> QED
    BY <2>1 DEF Found
<1>14. Hidden /\ Hiding
  BY <1>1, <1>4 DEF Hidden, Hiding, Deleted
<1>15. \A d \in Docs : MarkedOff(d)
  <2>1. ASSUME NEW d \in Docs
        PROVE  layer[Home[d]].previous = None
    BY <1>2, MigrationAssumption
  <2> QED
    BY <2>1 DEF MarkedOff
<1>16. \A w \in Replicas : CopyOK(w) /\ Written(w) /\ Added(w) /\ Emptied(w)
  BY <1>3 DEF CopyOK, Written, Added, Emptied
<1> QED
  BY <1>8, <1>9, <1>10, <1>11, <1>12, <1>13, <1>14, <1>15, <1>16 DEF PointInv, Contents

(* Outside the disturbances the properties except, nothing waits for a      *)
(* repair.                                                                  *)
LEMMA PointsSuffice == TypeInv /\ SlotInv /\ PointInv => IndexedIsFound /\ DeletedStaysDeleted
<1> SUFFICES ASSUME TypeInv, SlotInv, PointInv, Undisturbed
             PROVE  /\ \A d \in Docs :
                         doc[d].status = "indexed" /\ ~Deleted(d) /\ Unlocked(d) /\ ~drift[d] =>
                           /\ Exists(live)
                           /\ \E p \in coll[live].points[d] :
                                p.id = doc[d].chunks /\ layer[Home[d]].vector \in p.vecs /\ ~p.deleted
                    /\ \A d \in Docs :
                         Deleted(d) /\ ~drift[d] =>
                           /\ \A p \in coll[live].points[d] : p.deleted
                           /\ doc[d].purged # None => coll[live].points[d] = {}
  BY DEF IndexedIsFound, DeletedStaysDeleted
<1>1. Good /\ Clean /\ NotRebuilding /\ ~Repairing
  BY DEF Undisturbed, Good, Clean
<1>2. Exists(live)
  BY <1>1 DEF SlotInv
<1>3. \A w \in Replicas : replica[w].pc \notin {"repairing", "tombstoning"}
  BY <1>1 DEF Repairing
<1>4. Found /\ Hidden
  BY DEF PointInv, Contents
<1>5. ASSUME NEW d \in Docs, Reported(d)
      PROVE  FoundIn(live, d)
  BY <1>1, <1>3, <1>4, <1>5 DEF Found
<1>6. ASSUME NEW d \in Docs, Deleted(d), ~drift[d]
      PROVE  Flags(live, d) /\ (doc[d].purged # None => coll[live].points[d] = {})
  BY <1>1, <1>2, <1>3, <1>4, <1>6 DEF Hidden
<1> QED
  BY <1>2, <1>5, <1>6 DEF Reported, FoundIn, FoundAs, Flags

(* The inductive invariant.                                                 *)
LEMMA PointsHold == Spec => [](TypeInv /\ SlotInv /\ PointInv)
<1>1. Init => TypeInv /\ RecordInv /\ SlotInv /\ PointInv
  BY InitTypes, InitRecord, InitSlots, InitPoints
<1>2. TypeInv /\ RecordInv /\ SlotInv /\ PointInv /\ [Next]_vars => TypeInv' /\ RecordInv' /\ SlotInv' /\ PointInv'
  BY TypesKeep, RecordKeeps, SlotsKeep, PointsKeep
<1> QED
  BY <1>1, <1>2, PTL DEF Spec

(* IndexedIsFound, of copyOnce, finishCopy, repairAfterCopy, reindexOnce,   *)
(* finishReindexIfDone and the sweeps of retire.ts: for any number of       *)
(* documents, layers, slots and replicas, and any order of migrations,      *)
(* rebuilds, writes and crashes, a document whose row is indexed has a      *)
(* point in the live collection that carries the vector its layer is        *)
(* searched by, unless a write that came of a stale read is on record for   *)
(* it.                                                                      *)
THEOREM ReportedDocumentsAreFound == Spec => []IndexedIsFound
BY PointsHold, PointsSuffice, PTL

(* DeletedStaysDeleted, of deleteDocument, the copy, its repair and the     *)
(* collector: for any number of each and any interleaving of them with      *)
(* documents sent again, no copy brings back a document the row says is     *)
(* deleted or purged.                                                       *)
THEOREM DeletedDocumentsStayHidden == Spec => []DeletedStaysDeleted
BY PointsHold, PointsSuffice, PTL

=============================================================================
