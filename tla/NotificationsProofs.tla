------------------------ MODULE NotificationsProofs ------------------------
(***************************************************************************)
(* Proofs about Notifications: the hour's bound, that nobody gets a        *)
(* message twice and that no rule misses an event, for any number of       *)
(* people, messages, rules, events, workers and requests.                  *)
(*                                                                         *)
(* RowInv is inductive: an insert that is not committed is of the          *)
(* transaction that holds the organization's lock, what is counted and     *)
(* what is about to be is within the bound, and a claimed message is in    *)
(* one batch.  CopyInv rests on it: a row that may be claimed is of a      *)
(* message nobody got, and a pass remembers whom it reached.  LookInv      *)
(* rests on it too: marks and windows end SETTLE ago, what is still open   *)
(* is younger or on record as long, and a look that will move a mark tells *)
(* of all it found.                                                        *)
(***************************************************************************)
EXTENDS Notifications, FiniteSetTheorems, FunctionTheorems, WellFoundedInduction, TLAPS

----------------------------------------------------------------------------
(* Messages and passes.                                                     *)

MsgStates == {"none", "queued", "sending", "gone"} \cup Ended

MsgRow == [state: MsgStates, rule: Rules \cup {None}, events: SUBSET Events, attempts: Nat,
           age: {"hour", "day", "month"}, due: BOOLEAN, stale: BOOLEAN, by: Workers \cup Calls \cup {None}]

PassRow == [pc: {"idle", "evaluating", "claim", "sending", "expire"}, until: Nat, moved: SUBSET Rules,
            batch: SUBSET Messages, lost: SUBSET Messages, tries: [Messages -> Nat],
            left: [Messages -> SUBSET People], got: [Messages -> SUBSET People], missed: [Messages -> SUBSET People]]

RowTypes ==
  /\ now \in Nat
  /\ msg \in [Messages -> MsgRow]
  /\ worker \in [Workers -> PassRow]
  /\ lock \in Workers \cup Calls \cup {None}

(* An insert that is not committed is of the transaction that holds the     *)
(* organization's lock.                                                     *)
Pending(n) == msg[n].by # None => msg[n].by = lock /\ msg[n].state = "none" /\ msg[n].age = "hour"

(* Only a finished message outlives its retention.                          *)
Kept(n) == msg[n].age = "month" => msg[n].state \in Ended

(* What the hour's bound counts, and what will be counted if a transaction  *)
(* commits.                                                                 *)
Counted == {n \in Messages : msg[n].by # None \/ (msg[n].state # "none" /\ msg[n].age = "hour")}

(* A message in a pass's batch was claimed by it alone: it is being sent,   *)
(* or was given up meanwhile by another worker.                             *)
Claimed(w) ==
  /\ \A n \in worker[w].batch : msg[n].state \in {"sending", "failed"} /\ msg[n].age # "month"
  /\ \A n \in worker[w].batch, v \in Workers : n \in worker[v].batch => v = w
  /\ worker[w].pc = "sending" => worker[w].batch # {}

RowInv ==
  /\ RowTypes
  /\ \A n \in Messages : Pending(n) /\ Kept(n)
  /\ \A w \in Workers : Claimed(w)
  /\ Cardinality(Counted) <= PerHour

----------------------------------------------------------------------------
(* Numbers.                                                                 *)

(* Some number of a set of numbers is the least.                            *)
LEMMA LeastExists ==
  ASSUME NEW S, S \subseteq Nat, S # {}
  PROVE  \E n \in S : \A m \in S : n <= m
<1>1. \E n \in S : \A m \in S : ~(<<m, n>> \in OpToRel(<, Nat))
  BY NatLessThanWellFounded, WFMin
<1>2. PICK n \in S : \A m \in S : ~(<<m, n>> \in OpToRel(<, Nat))
  BY <1>1
<1>3. \A m \in S : ~(m < n)
  BY <1>2 DEF OpToRel
<1> QED
  BY <1>3

(* Rounding down to milliseconds.                                           *)
LEMMA MillisAt ==
  ASSUME NEW t \in Nat
  PROVE  Millis(t) \in Nat /\ Millis(t) <= t
<1>1. Grain \in Nat /\ Grain > 0
  BY NotificationsAssumption
<1>2. t \div Grain \in Nat /\ Grain * (t \div Grain) <= t
  BY <1>1
<1> QED
  BY <1>1, <1>2 DEF Millis

----------------------------------------------------------------------------
(* Rows and passes.                                                         *)

(* The rows that Init and the steps start from.                             *)
LEMMA EmptyRows ==
  /\ NoMsg \in MsgRow /\ NoMsg.state = "none" /\ NoMsg.by = None /\ NoMsg.age = "hour" /\ NoMsg.rule = None
  /\ Gone \in MsgRow /\ Gone.state = "gone" /\ Gone.by = None /\ Gone.age = "day"
  BY DEF NoMsg, Gone, MsgRow, MsgStates, Ended

(* A pass that has not begun.                                               *)
LEMMA EmptyPass ==
  /\ Idle \in PassRow /\ Idle.pc = "idle" /\ Idle.batch = {} /\ Idle.moved = {}
  BY DEF Idle, PassRow

(* A message and a pass, by the types.                                      *)
LEMMA RowsAt ==
  ASSUME RowInv
  PROVE  /\ \A n \in Messages : msg[n] \in MsgRow /\ Pending(n) /\ Kept(n)
         /\ \A w \in Workers : /\ worker[w] \in PassRow /\ worker[w].batch \subseteq Messages
                               /\ worker[w].moved \subseteq Rules /\ Claimed(w)
         /\ IsFiniteSet(Counted) /\ Cardinality(Counted) \in Nat /\ Cardinality(Counted) <= PerHour
<1>1. \A w \in Workers : worker[w] \in PassRow
  BY DEF RowInv, RowTypes
<1>2. \A w \in Workers : worker[w].batch \subseteq Messages /\ worker[w].moved \subseteq Rules
  BY <1>1 DEF PassRow
<1>3. IsFiniteSet(Counted)
  BY NotificationsAssumption, FS_Subset DEF Counted
<1> QED
  BY <1>1, <1>2, <1>3, FS_CardinalityType DEF RowInv, RowTypes

(* What a step may do to a message without adding to what is counted.       *)
QuietRow(n) ==
  /\ msg'[n] \in MsgRow
  /\ msg'[n].age = "month" => msg'[n].state \in Ended
  /\ n \in Counted' => n \in Counted
  /\ msg'[n].by # None => msg'[n] = msg[n] /\ lock' = lock

(* A pass goes on with less, or with what it has.                           *)
KeepsBatch(w) ==
  /\ worker'[w].batch \subseteq worker[w].batch
  /\ worker'[w].pc = "sending" => worker'[w].batch # {}
  /\ \A n \in worker'[w].batch : msg'[n].state \in {"sending", "failed"} /\ msg'[n].age # "month"

(* A step that adds nothing keeps the hour's bound.                         *)
LEMMA QuietRows ==
  ASSUME RowInv, now' = now, msg' \in [Messages -> MsgRow], worker' \in [Workers -> PassRow],
         lock' \in Workers \cup Calls \cup {None},
         \A n \in Messages : QuietRow(n), \A w \in Workers : Claimed(w)'
  PROVE  RowInv'
<1>1. \A n \in Messages : Pending(n)' /\ Kept(n)'
  BY DEF RowInv, Pending, Kept, QuietRow
<1>2. Counted' \subseteq Counted
  BY DEF QuietRow, Counted
<1>3. Cardinality(Counted') \in Nat /\ Cardinality(Counted') <= Cardinality(Counted)
  BY <1>2, RowsAt, FS_Subset, FS_CardinalityType
<1>4. Cardinality(Counted') <= PerHour
  BY <1>3, RowsAt, NotificationsAssumption
<1>5. Cardinality(Counted)' <= PerHour
  BY <1>4
<1> QED
  BY <1>1, <1>5 DEF RowInv, RowTypes

(* The same if no pass takes on a message.                                  *)
LEMMA QuietStep ==
  ASSUME RowInv, now' = now, msg' \in [Messages -> MsgRow], worker' \in [Workers -> PassRow],
         lock' \in Workers \cup Calls \cup {None},
         \A n \in Messages : QuietRow(n), \A w \in Workers : KeepsBatch(w)
  PROVE  RowInv'
<1>1. \A w \in Workers : Claimed(w)'
  BY DEF RowInv, Claimed, KeepsBatch
<1> QED
  BY <1>1, QuietRows

(* The transaction of x commits: its inserts are rows, and the others are   *)
(* as they were.                                                            *)
LEMMA InsertedRows ==
  ASSUME RowInv, NEW x \in Workers \cup Calls, msg' = Inserted(x), lock' = Unlocked(x)
  PROVE  /\ msg' \in [Messages -> MsgRow] /\ lock' \in Workers \cup Calls \cup {None}
         /\ \A n \in Messages : QuietRow(n)
         /\ \A n \in Messages : IF msg[n].by = x THEN msg[n].state = "none" /\ msg'[n].state = "queued"
                                                 ELSE msg'[n] = msg[n]
<1>0. x # None
  BY NotificationsAssumption
<1>1. ASSUME NEW n \in Messages
      PROVE  /\ msg'[n] \in MsgRow /\ QuietRow(n)
             /\ IF msg[n].by = x THEN msg[n].state = "none" /\ msg'[n].state = "queued" ELSE msg'[n] = msg[n]
  <2>1. msg[n] \in MsgRow /\ Pending(n) /\ Kept(n)
    BY RowsAt
  <2>2. CASE msg[n].by = x
    <3>1. msg'[n] = [msg[n] EXCEPT !.state = "queued", !.events = {}, !.by = None]
      BY <2>2 DEF Inserted
    <3>2. msg'[n] \in MsgRow /\ msg'[n].by = None /\ msg'[n].state = "queued" /\ msg'[n].age = msg[n].age
      BY <2>1, <3>1 DEF MsgRow, MsgStates
    <3>3. n \in Counted /\ msg[n].state = "none" /\ msg[n].age = "hour"
      BY <1>0, <2>1, <2>2 DEF Counted, Pending
    <3> QED
      BY <2>2, <3>2, <3>3 DEF QuietRow
  <2>3. CASE msg[n].by # x
    <3>1. msg'[n] = msg[n]
      BY <2>3 DEF Inserted
    <3>2. n \in Counted' => n \in Counted
      BY <3>1 DEF Counted
    <3>3. msg[n].by # None => lock' = lock
      BY <2>1, <2>3 DEF Pending, Unlocked
    <3> QED
      BY <2>1, <2>3, <3>1, <3>2, <3>3 DEF QuietRow, Kept
  <2> QED
    BY <2>2, <2>3
<1>2. msg' \in [Messages -> MsgRow]
  BY <1>1 DEF Inserted
<1>3. lock' \in Workers \cup Calls \cup {None}
  BY DEF Unlocked, RowInv, RowTypes
<1> QED
  BY <1>1, <1>2, <1>3

(* The transaction of x does not: its inserts never were.                   *)
LEMMA UndoneRows ==
  ASSUME RowInv, NEW x \in Workers \cup Calls, msg' = Undone(x), lock' = Unlocked(x)
  PROVE  /\ msg' \in [Messages -> MsgRow] /\ lock' \in Workers \cup Calls \cup {None}
         /\ \A n \in Messages : QuietRow(n)
         /\ \A n \in Messages : IF msg[n].by = x THEN msg[n].state = "none" /\ msg'[n].state = "none"
                                                 ELSE msg'[n] = msg[n]
<1>0. x # None
  BY NotificationsAssumption
<1>1. ASSUME NEW n \in Messages
      PROVE  /\ msg'[n] \in MsgRow /\ QuietRow(n)
             /\ IF msg[n].by = x THEN msg[n].state = "none" /\ msg'[n].state = "none" ELSE msg'[n] = msg[n]
  <2>1. msg[n] \in MsgRow /\ Pending(n) /\ Kept(n)
    BY RowsAt
  <2>2. CASE msg[n].by = x
    <3>1. msg'[n] = NoMsg
      BY <2>2 DEF Undone
    <3>2. n \in Counted /\ msg[n].state = "none"
      BY <1>0, <2>1, <2>2 DEF Counted, Pending
    <3> QED
      BY <2>2, <3>1, <3>2, EmptyRows DEF QuietRow
  <2>3. CASE msg[n].by # x
    <3>1. msg'[n] = msg[n]
      BY <2>3 DEF Undone
    <3>2. n \in Counted' => n \in Counted
      BY <3>1 DEF Counted
    <3>3. msg[n].by # None => lock' = lock
      BY <2>1, <2>3 DEF Pending, Unlocked
    <3> QED
      BY <2>1, <2>3, <3>1, <3>2, <3>3 DEF QuietRow, Kept
  <2> QED
    BY <2>2, <2>3
<1>2. msg' \in [Messages -> MsgRow]
  BY <1>1 DEF Undone
<1>3. lock' \in Workers \cup Calls \cup {None}
  BY DEF Unlocked, RowInv, RowTypes
<1> QED
  BY <1>1, <1>2, <1>3

(* Neither touches a message that is in a batch.                            *)
LEMMA BatchesSpared ==
  ASSUME RowInv, NEW x \in Workers \cup Calls, NEW w \in Workers, worker'[w] = worker[w],
         \A n \in Messages : IF msg[n].by = x THEN msg[n].state = "none" ELSE msg'[n] = msg[n]
  PROVE  KeepsBatch(w)
<1>1. ASSUME NEW n \in worker[w].batch
      PROVE  msg'[n].state \in {"sending", "failed"} /\ msg'[n].age # "month"
  <2>1. n \in Messages /\ msg[n].state \in {"sending", "failed"} /\ msg[n].age # "month"
    BY RowsAt DEF Claimed
  <2> QED
    BY <2>1
<1>2. worker[w].pc = "sending" => worker[w].batch # {}
  BY RowsAt DEF Claimed
<1> QED
  BY <1>1, <1>2 DEF KeepsBatch

(* A pass is replaced by one without a batch.                               *)
LEMMA PassReplaced ==
  ASSUME RowInv, NEW w \in Workers, NEW q \in PassRow, q.batch = {}, q.pc # "sending",
         worker' = [worker EXCEPT ![w] = q]
  PROVE  /\ worker' \in [Workers -> PassRow] /\ worker'[w] = q /\ KeepsBatch(w)
         /\ \A v \in Workers \ {w} : worker'[v] = worker[v]
<1>1. worker'[w] = q /\ \A v \in Workers \ {w} : worker'[v] = worker[v]
  BY DEF RowInv, RowTypes
<1> QED
  BY <1>1 DEF RowInv, RowTypes, KeepsBatch

(* Requests commit or die.                                                  *)
LEMMA RequestRows ==
  ASSUME RowInv, NEW k \in Calls, EnqueueCommit(k) \/ EnqueueLost(k)
  PROVE  RowInv'
<1>0. now' = now /\ worker' = worker /\ lock' = Unlocked(k) /\ (msg' = Inserted(k) \/ msg' = Undone(k))
  BY DEF EnqueueCommit, EnqueueLost
<1>1. /\ msg' \in [Messages -> MsgRow] /\ lock' \in Workers \cup Calls \cup {None}
      /\ \A n \in Messages : QuietRow(n)
      /\ \A n \in Messages : IF msg[n].by = k THEN msg[n].state = "none" ELSE msg'[n] = msg[n]
  BY <1>0, InsertedRows, UndoneRows
<1>2. \A w \in Workers : KeepsBatch(w)
  BY <1>0, <1>1, BatchesSpared
<1>3. worker' \in [Workers -> PassRow]
  BY <1>0 DEF RowInv, RowTypes
<1> QED
  BY <1>0, <1>1, <1>2, <1>3, QuietStep

(* A look at the rules commits, or a pass dies.                             *)
LEMMA PassRows ==
  ASSUME RowInv, NEW w \in Workers, EvaluateCommit(w) \/ PassLost(w)
  PROVE  RowInv'
<1>1. PICK q : q \in PassRow /\ q.batch = {} /\ q.pc # "sending" /\ worker' = [worker EXCEPT ![w] = q]
  <2>1. CASE EvaluateCommit(w)
    <3>1. PICK q : q = [Idle EXCEPT !.pc = "claim"]
      OBVIOUS
    <3>2. q \in PassRow /\ q.batch = {} /\ q.pc = "claim"
      BY <3>1, EmptyPass DEF PassRow
    <3> QED
      BY <2>1, <3>1, <3>2 DEF EvaluateCommit
  <2>2. CASE PassLost(w)
    BY <2>2, EmptyPass DEF PassLost
  <2> QED
    BY <2>1, <2>2
<1>2. now' = now /\ lock' = Unlocked(w) /\ (msg' = Inserted(w) \/ msg' = Undone(w))
  BY DEF EvaluateCommit, PassLost
<1>3. /\ msg' \in [Messages -> MsgRow] /\ lock' \in Workers \cup Calls \cup {None}
      /\ \A n \in Messages : QuietRow(n)
      /\ \A n \in Messages : IF msg[n].by = w THEN msg[n].state = "none" ELSE msg'[n] = msg[n]
  BY <1>2, InsertedRows, UndoneRows
<1>4. /\ worker' \in [Workers -> PassRow] /\ KeepsBatch(w)
      /\ \A v \in Workers \ {w} : worker'[v] = worker[v]
  BY <1>1, PassReplaced
<1>5. \A v \in Workers \ {w} : KeepsBatch(v)
  BY <1>3, <1>4, BatchesSpared
<1> QED
  BY <1>2, <1>3, <1>4, <1>5, QuietStep

(* A message grows older.                                                   *)
LEMMA AgedRow ==
  ASSUME RowInv, NEW n \in Messages, NEW q \in MsgRow, msg' = [msg EXCEPT ![n] = q],
         UNCHANGED <<now, worker, lock>>, q.state = msg[n].state, q.by = None,
         q.age = "hour" => msg[n].state # "none" /\ msg[n].age = "hour",
         q.age = "month" => \/ msg[n].age = "month"
                            \/ msg[n].state \in Ended /\ \A w \in Workers : n \notin worker[w].batch
  PROVE  /\ RowInv' /\ msg'[n].state = msg[n].state
         /\ \A m \in Messages \ {n} : msg'[m] = msg[m]
<1>2. /\ msg'[n] = q /\ \A m \in Messages \ {n} : msg'[m] = msg[m]
      /\ msg' \in [Messages -> MsgRow]
  BY DEF RowInv, RowTypes
<1>3. \A m \in Messages : QuietRow(m)
  BY <1>2, RowsAt DEF QuietRow, Counted, Kept
<1>4. \A w \in Workers : KeepsBatch(w)
  BY <1>2, RowsAt DEF KeepsBatch, Claimed
<1>5. RowInv'
  BY <1>2, <1>3, <1>4, QuietStep DEF RowInv, RowTypes
<1> QED
  BY <1>2, <1>5

(* Time passes for a message.                                               *)
LEMMA AgeRows ==
  ASSUME RowInv, NEW n \in Messages, Ages(n) \/ ClaimAges(n) \/ BackoffPasses(n)
  PROVE  /\ RowInv' /\ msg'[n].state = msg[n].state
         /\ \A m \in Messages \ {n} : msg'[m] = msg[m]
<1>0. UNCHANGED <<now, worker, lock>> /\ msg[n] \in MsgRow /\ msg[n].state # "none" /\ msg[n].by = None
  BY RowsAt DEF Ages, ClaimAges, BackoffPasses, Pending
<1>1. CASE Ages(n)
  <2>1. PICK a \in {"day", "month"} :
          /\ msg' = [msg EXCEPT ![n].age = a]
          /\ a = "month" => msg[n].state \in Ended /\ \A w \in Workers : n \notin worker[w].batch
    BY <1>1 DEF Ages
  <2>2. PICK q : q = [msg[n] EXCEPT !.age = a]
    OBVIOUS
  <2>3. q \in MsgRow /\ q.state = msg[n].state /\ q.by = None /\ q.age = a
    BY <1>0, <2>2 DEF MsgRow
  <2>4. msg' = [msg EXCEPT ![n] = q]
    BY <2>1, <2>2
  <2> QED
    BY <1>0, <2>1, <2>3, <2>4, AgedRow
<1>2. CASE ClaimAges(n)
  <2>1. PICK q : q = [msg[n] EXCEPT !.stale = TRUE]
    OBVIOUS
  <2>2. q \in MsgRow /\ q.state = msg[n].state /\ q.by = None /\ q.age = msg[n].age
    BY <1>0, <2>1 DEF MsgRow
  <2>3. msg' = [msg EXCEPT ![n] = q]
    BY <1>2, <2>1 DEF ClaimAges
  <2> QED
    BY <1>0, <2>2, <2>3, AgedRow
<1>3. CASE BackoffPasses(n)
  <2>1. PICK q : q = [msg[n] EXCEPT !.due = TRUE]
    OBVIOUS
  <2>2. q \in MsgRow /\ q.state = msg[n].state /\ q.by = None /\ q.age = msg[n].age
    BY <1>0, <2>1 DEF MsgRow
  <2>3. msg' = [msg EXCEPT ![n] = q]
    BY <1>3, <2>1 DEF BackoffPasses
  <2> QED
    BY <1>0, <2>2, <2>3, AgedRow
<1> QED
  BY <1>1, <1>2, <1>3

(* The claim.                                                               *)
LEMMA ClaimRows ==
  ASSUME RowInv, NEW w \in Workers, NEW batch \in SUBSET Messages, NEW people \in [batch -> SUBSET People],
         SendClaim(w, batch, people)
  PROVE  /\ RowInv' /\ worker' \in [Workers -> PassRow]
         /\ worker'[w].batch = batch /\ worker'[w].pc \in {"expire", "sending"}
         /\ \A n \in Messages : worker'[w].got[n] = {}
         /\ \A v \in Workers \ {w} : worker'[v] = worker[v]
         /\ \A n \in batch : msg[n].state = "queued" /\ msg'[n].state = "sending"
         /\ \A n \in Messages \ batch : msg'[n] = msg[n]
<1>1. PICK x : x = [Idle EXCEPT
       !.pc = IF batch = {} THEN "expire" ELSE "sending",
       !.batch = batch,
       !.lost = {n \in batch : msg[n].rule # None /\ rule[msg[n].rule].state = "removed"},
       !.left = [n \in Messages |-> IF n \in batch THEN people[n] ELSE {}],
       !.tries = [n \in Messages |-> IF n \in batch THEN msg[n].attempts + 1 ELSE 0]]
  OBVIOUS
<1>2. /\ [n \in Messages |-> IF n \in batch THEN people[n] ELSE {}] \in [Messages -> SUBSET People]
      /\ [n \in Messages |-> IF n \in batch THEN msg[n].attempts + 1 ELSE 0] \in [Messages -> Nat]
  <2>1. \A n \in Messages : msg[n].attempts \in Nat
    BY RowsAt DEF MsgRow
  <2> QED
    BY <2>1
<1>3. /\ x \in PassRow /\ x.batch = batch /\ x.pc = IF batch = {} THEN "expire" ELSE "sending"
      /\ \A n \in Messages : x.got[n] = {}
  BY <1>1, <1>2 DEF Idle, PassRow
<1>4. worker' = [worker EXCEPT ![w] = x] /\ lock' = lock /\ now' = now
  BY <1>1 DEF SendClaim
<1>5. /\ worker'[w] = x /\ worker' \in [Workers -> PassRow]
      /\ \A v \in Workers \ {w} : worker'[v] = worker[v]
  BY <1>3, <1>4 DEF RowInv, RowTypes
<1>6. ASSUME NEW n \in batch
      PROVE  /\ msg[n].state = "queued" /\ msg'[n].state = "sending" /\ msg'[n].by = None
             /\ msg'[n] \in MsgRow /\ msg'[n].age = msg[n].age /\ msg[n].age # "month"
  <2>1. msg[n] \in MsgRow /\ Pending(n) /\ msg[n].state = "queued" /\ msg[n].age # "month"
    BY RowsAt DEF SendClaim, Queued, Kept, Ended
  <2>2. PICK a \in Nat : a = msg[n].attempts + 1
    BY <2>1 DEF MsgRow
  <2>3. msg'[n] = [msg[n] EXCEPT !.state = "sending", !.attempts = a, !.stale = FALSE]
    BY <2>2 DEF SendClaim
  <2>4. msg[n].by = None
    BY <2>1 DEF Pending
  <2> QED
    BY <2>1, <2>3, <2>4 DEF MsgRow, MsgStates
<1>7. \A n \in Messages \ batch : msg'[n] = msg[n]
  BY DEF SendClaim
<1>8. msg' \in [Messages -> MsgRow]
  <2>1. \A n \in Messages : msg'[n] \in MsgRow
    BY <1>6, <1>7, RowsAt
  <2> QED
    BY <2>1 DEF SendClaim
<1>9. \A n \in Messages : QuietRow(n)
  BY <1>4, <1>6, <1>7, <1>8, RowsAt DEF QuietRow, Counted, Kept
<1>10. \A v \in Workers \ {w} : \A n \in worker[v].batch : n \in Messages /\ n \notin batch /\ msg'[n].state \in {"sending", "failed"} /\ msg'[n].age # "month"
  BY <1>6, <1>7, RowsAt DEF Claimed
<1>11. \A v \in Workers \ {w} : Claimed(v)'
  BY <1>3, <1>5, <1>10, RowsAt DEF Claimed
<1>12. Claimed(w)'
  BY <1>3, <1>5, <1>6, <1>10 DEF Claimed
<1>13. RowInv'
  BY <1>4, <1>5, <1>8, <1>9, <1>11, <1>12, QuietRows DEF RowInv, RowTypes
<1> QED
  BY <1>3, <1>5, <1>6, <1>7, <1>13

(* The message a pass sends is one of its batch.                            *)
LEMMA CurrentAt ==
  ASSUME RowInv, NEW w \in Workers, worker[w].pc = "sending"
  PROVE  /\ Current(w) \in worker[w].batch /\ Current(w) \in Messages
         /\ msg[Current(w)].state \in {"sending", "failed"} /\ msg[Current(w)].age # "month"
         /\ \A v \in Workers : Current(w) \in worker[v].batch => v = w
<1>1. worker[w].batch \subseteq Messages /\ worker[w].batch # {} /\ Messages \subseteq Nat
  BY RowsAt, NotificationsAssumption DEF Claimed
<1>2. \E n \in worker[w].batch : \A m \in worker[w].batch : n <= m
  BY <1>1, LeastExists
<1>3. Current(w) \in worker[w].batch
  BY <1>2 DEF Current
<1> QED
  BY <1>1, <1>3, RowsAt DEF Claimed

(* The relay takes a message for some.                                      *)
LEMMA SendRows ==
  ASSUME RowInv, NEW w \in Workers, NEW reached \in SUBSET People, Send(w, reached)
  PROVE  /\ RowInv' /\ worker'[w].batch = worker[w].batch /\ msg' = msg
         /\ worker'[w].left[Current(w)] = {} /\ worker'[w].got[Current(w)] = reached
         /\ \A n \in Messages \ {Current(w)} : /\ worker'[w].left[n] = worker[w].left[n]
                                               /\ worker'[w].got[n] = worker[w].got[n]
         /\ \A v \in Workers \ {w} : worker'[v] = worker[v]
         /\ worker'[w].pc = "sending"
<1>0. now' = now /\ msg' = msg /\ lock' = lock /\ worker[w].pc = "sending"
  BY DEF Send
<1>1. PICK n \in Messages : n = Current(w)
  BY <1>0, CurrentAt
<1>2. PICK b \in PassRow : b = worker[w]
  BY RowsAt
<1>3. PICK x : x = [b EXCEPT !.left[n] = {}, !.got[n] = reached, !.missed[n] = b.left[n] \ reached]
  OBVIOUS
<1>4. /\ b.left \in [Messages -> SUBSET People] /\ b.got \in [Messages -> SUBSET People]
      /\ b.missed \in [Messages -> SUBSET People]
  BY DEF PassRow
<1>5. PICK left2, got2, missed2 : /\ left2 = [b.left EXCEPT ![n] = {}] /\ got2 = [b.got EXCEPT ![n] = reached]
                                  /\ missed2 = [b.missed EXCEPT ![n] = b.left[n] \ reached]
  OBVIOUS
<1>6. /\ left2 \in [Messages -> SUBSET People] /\ got2 \in [Messages -> SUBSET People]
      /\ missed2 \in [Messages -> SUBSET People]
      /\ left2[n] = {} /\ got2[n] = reached
      /\ \A m \in Messages \ {n} : left2[m] = b.left[m] /\ got2[m] = b.got[m]
  BY <1>4, <1>5
<1>7. x = [b EXCEPT !.left = left2, !.got = got2, !.missed = missed2]
  BY <1>3, <1>5 DEF PassRow
<1>8. x \in PassRow /\ x.batch = b.batch /\ x.pc = b.pc /\ x.left = left2 /\ x.got = got2
  BY <1>6, <1>7 DEF PassRow
<1>9. worker' = [worker EXCEPT ![w] = x]
  BY <1>1, <1>2, <1>3 DEF Send
<1>10. worker'[w] = x /\ worker' \in [Workers -> PassRow] /\ \A v \in Workers \ {w} : worker'[v] = worker[v]
  BY <1>8, <1>9 DEF RowInv, RowTypes
<1>11. \A m \in Messages : QuietRow(m)
  BY <1>0, RowsAt DEF QuietRow, Counted, Kept
<1>12. \A v \in Workers : KeepsBatch(v)
  BY <1>0, <1>2, <1>8, <1>10, RowsAt DEF KeepsBatch, Claimed
<1>13. RowInv'
  BY <1>0, <1>10, <1>11, <1>12, QuietStep DEF RowInv, RowTypes
<1> QED
  BY <1>0, <1>1, <1>2, <1>6, <1>8, <1>10, <1>13

(* finish, of the message that was sent.                                    *)
LEMMA FinishRows ==
  ASSUME RowInv, NEW w \in Workers, Finish(w)
  PROVE  /\ RowInv' /\ msg'[Current(w)].state = Outcome(w, Current(w))
         /\ \A m \in Messages \ {Current(w)} : msg'[m] = msg[m]
         /\ worker'[w].batch \subseteq worker[w].batch \ {Current(w)}
         /\ \A m \in worker'[w].batch : /\ worker'[w].left[m] = worker[w].left[m]
                                        /\ worker'[w].got[m] = worker[w].got[m]
         /\ \A v \in Workers \ {w} : worker'[v] = worker[v]
         /\ worker'[w].pc \in {"sending", "expire"}
<1>0. now' = now /\ lock' = lock /\ worker[w].pc = "sending"
  BY DEF Finish
<1>1. PICK n \in Messages : n = Current(w)
  BY <1>0, CurrentAt
<1>2. /\ n \in worker[w].batch /\ msg[n].state \in {"sending", "failed"} /\ msg[n].age # "month" /\ msg[n] \in MsgRow /\ msg[n].by = None
      /\ \A v \in Workers : n \in worker[v].batch => v = w
  BY <1>0, <1>1, CurrentAt, RowsAt DEF Pending
<1>3. PICK o \in {"queued", "sent", "failed", "dropped"} : o = Outcome(w, n)
  BY DEF Outcome
<1>4. PICK q \in MsgRow : /\ q.state = o /\ q.by = None /\ q.age = msg[n].age
                          /\ msg' = [msg EXCEPT ![n] = q]
  <2>1. CASE o = "queued"
    <3>1. PICK q : q = [msg[n] EXCEPT !.state = "queued", !.due = FALSE, !.stale = FALSE]
      OBVIOUS
    <3>2. q \in MsgRow /\ q.state = o /\ q.by = None /\ q.age = msg[n].age
      BY <1>2, <2>1, <3>1 DEF MsgRow, MsgStates
    <3>3. msg' = [msg EXCEPT ![n] = q]
      BY <1>1, <1>3, <2>1, <3>1 DEF Finish
    <3> QED
      BY <3>2, <3>3
  <2>2. CASE o # "queued"
    <3>1. PICK q : q = [NoMsg EXCEPT !.state = o, !.age = msg[n].age]
      OBVIOUS
    <3>2. PICK a \in {"hour", "day", "month"} : a = msg[n].age
      BY <1>2 DEF MsgRow
    <3>3. q = [NoMsg EXCEPT !.state = o, !.age = a] /\ o \in MsgStates
      BY <3>1, <3>2 DEF MsgStates, Ended
    <3>4. q \in MsgRow /\ q.state = o /\ q.by = None /\ q.age = a
      BY <3>3, EmptyRows DEF MsgRow
    <3>5. msg' = [msg EXCEPT ![n] = q]
      BY <1>1, <1>3, <2>2, <3>1 DEF Finish
    <3> QED
      BY <3>2, <3>4, <3>5
  <2> QED
    BY <2>1, <2>2
<1>5. msg'[n] = q /\ msg' \in [Messages -> MsgRow] /\ \A m \in Messages \ {n} : msg'[m] = msg[m]
  BY <1>4 DEF RowInv, RowTypes
<1>6. PICK x \in PassRow : /\ worker' = [worker EXCEPT ![w] = x]
                           /\ x.batch \subseteq worker[w].batch \ {n}
                           /\ x.pc = "sending" => x.batch # {}
                           /\ x.pc \in {"sending", "expire"}
                           /\ \A m \in x.batch : x.left[m] = worker[w].left[m] /\ x.got[m] = worker[w].got[m]
  <2>1. CASE worker[w].batch = {n}
    <3>1. PICK x : x = [Idle EXCEPT !.pc = "expire"]
      OBVIOUS
    <3>2. x \in PassRow /\ x.pc = "expire" /\ x.batch = {}
      BY <3>1, EmptyPass DEF PassRow
    <3>3. worker' = [worker EXCEPT ![w] = x]
      BY <1>1, <2>1, <3>1 DEF Finish
    <3> QED
      BY <3>2, <3>3
  <2>2. CASE worker[w].batch # {n}
    <3>1. PICK b \in PassRow : b = worker[w]
      BY RowsAt
    <3>2. /\ b.left \in [Messages -> SUBSET People] /\ b.got \in [Messages -> SUBSET People]
          /\ b.missed \in [Messages -> SUBSET People] /\ b.tries \in [Messages -> Nat]
          /\ b.batch \subseteq Messages /\ b.lost \subseteq Messages
      BY DEF PassRow
    <3>3. PICK left2, got2, missed2, tries2, batch2, lost2 :
            /\ left2 = [b.left EXCEPT ![n] = {}] /\ got2 = [b.got EXCEPT ![n] = {}]
            /\ missed2 = [b.missed EXCEPT ![n] = {}] /\ tries2 = [b.tries EXCEPT ![n] = 0]
            /\ batch2 = b.batch \ {n} /\ lost2 = b.lost \ {n}
      OBVIOUS
    <3>4. /\ left2 \in [Messages -> SUBSET People] /\ got2 \in [Messages -> SUBSET People]
          /\ missed2 \in [Messages -> SUBSET People] /\ tries2 \in [Messages -> Nat]
          /\ batch2 \subseteq Messages /\ lost2 \subseteq Messages
          /\ \A m \in batch2 : left2[m] = b.left[m] /\ got2[m] = b.got[m]
      BY <3>2, <3>3
    <3>5. PICK x : x = [b EXCEPT !.batch = batch2, !.lost = lost2, !.tries = tries2, !.left = left2,
                                 !.got = got2, !.missed = missed2]
      OBVIOUS
    <3>6. x \in PassRow /\ x.pc = b.pc /\ x.batch = batch2 /\ x.left = left2 /\ x.got = got2
      BY <3>4, <3>5 DEF PassRow
    <3>7. x = [b EXCEPT !.batch = @ \ {n}, !.lost = @ \ {n}, !.tries[n] = 0, !.left[n] = {}, !.got[n] = {}, !.missed[n] = {}]
      BY <3>3, <3>5 DEF PassRow
    <3>8. worker' = [worker EXCEPT ![w] = x]
      BY <1>1, <2>2, <3>1, <3>7 DEF Finish
    <3>9. batch2 # {}
      BY <1>2, <2>2, <3>1, <3>3
    <3>10. /\ x.batch \subseteq worker[w].batch \ {n} /\ x.pc = "sending" /\ x.batch # {}
           /\ \A m \in x.batch : x.left[m] = worker[w].left[m] /\ x.got[m] = worker[w].got[m]
      BY <1>0, <3>1, <3>3, <3>4, <3>6, <3>9
    <3> QED
      BY <3>6, <3>8, <3>10
  <2> QED
    BY <2>1, <2>2
<1>7. worker'[w] = x /\ worker' \in [Workers -> PassRow] /\ \A v \in Workers \ {w} : worker'[v] = worker[v]
  BY <1>6 DEF RowInv, RowTypes
<1>8. \A m \in Messages : QuietRow(m)
  BY <1>0, <1>2, <1>4, <1>5, RowsAt DEF QuietRow, Counted, Kept
<1>9. KeepsBatch(w)
  BY <1>5, <1>6, <1>7, RowsAt DEF KeepsBatch, Claimed
<1>10. ASSUME NEW v \in Workers \ {w}
       PROVE  KeepsBatch(v)
  BY <1>2, <1>5, <1>7, RowsAt DEF KeepsBatch, Claimed
<1>11. RowInv'
  BY <1>0, <1>5, <1>7, <1>8, <1>9, <1>10, QuietStep DEF RowInv, RowTypes
<1> QED
  BY <1>1, <1>3, <1>4, <1>5, <1>6, <1>7, <1>11

(* expireNotifications.                                                     *)
LEMMA ExpireRows ==
  ASSUME RowInv, NEW w \in Workers, Expire(w)
  PROVE  /\ RowInv' /\ worker'[w] = Idle /\ \A v \in Workers \ {w} : worker'[v] = worker[v]
         /\ \A n \in Messages :
              \/ msg'[n] = msg[n]
              \/ msg[n].state \in {"queued", "sending"} /\ msg'[n].state \in {"dropped", "failed"}
              \/ msg[n].age = "month" /\ msg[n].state \in Ended /\ msg'[n].state = "gone"
<1>0. now' = now /\ lock' = lock /\ worker' = [worker EXCEPT ![w] = Idle]
  BY DEF Expire
<1>1. /\ worker' \in [Workers -> PassRow] /\ worker'[w] = Idle /\ KeepsBatch(w)
      /\ \A v \in Workers \ {w} : worker'[v] = worker[v]
  BY <1>0, EmptyPass, PassReplaced
<1>2. ASSUME NEW n \in Messages
      PROVE  /\ msg'[n] \in MsgRow /\ QuietRow(n)
             /\ \/ msg'[n] = msg[n]
                \/ /\ msg[n].state \in {"queued", "sending"} /\ msg'[n].state \in {"dropped", "failed"}
                   /\ msg[n].state = "sending" => msg'[n].state = "failed"
                \/ msg[n].age = "month" /\ msg[n].state \in Ended /\ msg'[n].state = "gone"
             /\ msg[n].age # "month" => msg'[n].age # "month"
  <2>0. msg[n] \in MsgRow /\ Pending(n) /\ Kept(n)
    BY RowsAt
  <2>1. CASE Over(n)
    <3>1. PICK s \in {"dropped", "failed"} : s = Ending(msg[n].state)
      BY DEF Ending
    <3>2. msg[n].state \in {"queued", "sending"} /\ msg[n].by = None /\ (msg[n].state = "sending" => s = "failed")
      BY <2>0, <2>1, <3>1 DEF Over, Pending, Ending
    <3>3. msg'[n] = [msg[n] EXCEPT !.state = s, !.stale = FALSE]
      BY <2>1, <3>1 DEF Expire
    <3>4. msg'[n] \in MsgRow /\ msg'[n].state = s /\ msg'[n].by = None /\ msg'[n].age = msg[n].age
      BY <2>0, <3>2, <3>3 DEF MsgRow, MsgStates, Ended
    <3> QED
      BY <2>0, <3>2, <3>4 DEF QuietRow, Counted, Kept, Ended
  <2>2. CASE ~Over(n) /\ n \in Pruned
    <3>1. msg'[n] = Gone
      BY <2>2 DEF Expire
    <3> QED
      BY <2>0, <2>2, <3>1, EmptyRows DEF QuietRow, Counted, Pruned, Kept
  <2>3. CASE ~Over(n) /\ n \notin Pruned
    <3>1. msg'[n] = msg[n]
      BY <2>3 DEF Expire
    <3> QED
      BY <1>0, <2>0, <3>1 DEF QuietRow, Counted, Kept
  <2> QED
    BY <2>1, <2>2, <2>3
<1>3. msg' \in [Messages -> MsgRow]
  BY <1>2 DEF Expire
<1>4. ASSUME NEW v \in Workers \ {w}
      PROVE  KeepsBatch(v)
  <2>1. /\ worker'[v] = worker[v] /\ worker[v].batch \subseteq Messages
        /\ worker[v].pc = "sending" => worker[v].batch # {}
    BY <1>1, RowsAt DEF Claimed
  <2>2. ASSUME NEW n \in worker[v].batch
        PROVE  msg'[n].state \in {"sending", "failed"} /\ msg'[n].age # "month"
    <3>1. n \in Messages /\ msg[n].state \in {"sending", "failed"} /\ msg[n].age # "month"
      BY RowsAt DEF Claimed
    <3> QED
      BY <1>2, <3>1
  <2> QED
    BY <2>1, <2>2 DEF KeepsBatch
<1>5. RowInv'
  BY <1>0, <1>1, <1>2, <1>3, <1>4, QuietStep DEF RowInv, RowTypes
<1> QED
  BY <1>1, <1>2, <1>5

(* enqueue: nobody else's insert is pending, and the hour has room.         *)
LEMMA EnqueueRows ==
  ASSUME RowInv, NEW k \in Calls, NEW n \in Messages, Enqueue(k, n)
  PROVE  /\ RowInv' /\ msg[n] = NoMsg /\ msg'[n].state = "none" /\ worker' = worker
         /\ \A m \in Messages \ {n} : msg'[m] = msg[m]
<1>0. /\ now' = now /\ lock = None /\ lock' = k /\ worker' = worker /\ msg[n] = NoMsg /\ k # None
      /\ Cardinality(Recent) < PerHour
  BY NotificationsAssumption DEF Enqueue, LockFree, Unused
<1>1. PICK q : q = [NoMsg EXCEPT !.by = k]
  OBVIOUS
<1>2. q \in MsgRow /\ q.state = "none" /\ q.by = k /\ q.age = "hour"
  BY <1>1, EmptyRows DEF MsgRow
<1>3. msg' = [msg EXCEPT ![n] = q]
  BY <1>0, <1>1 DEF Enqueue
<1>4. /\ msg'[n] = q /\ \A m \in Messages \ {n} : msg'[m] = msg[m]
      /\ msg' \in [Messages -> MsgRow]
  BY <1>2, <1>3 DEF RowInv, RowTypes
<1>5. \A m \in Messages : msg[m].by = None
  BY <1>0, RowsAt DEF Pending
<1>6. \A m \in Messages : Pending(m)' /\ Kept(m)'
  BY <1>0, <1>2, <1>4, <1>5, RowsAt DEF Pending, Kept
<1>7. \A w \in Workers : Claimed(w)'
  <2>1. \A w \in Workers : \A m \in worker[w].batch : m \in Messages /\ m # n
    BY <1>0, RowsAt, EmptyRows DEF Claimed
  <2> QED
    BY <1>0, <1>4, <2>1, RowsAt DEF Claimed
<1>8. Counted = Recent /\ Counted' \subseteq Recent \cup {n}
  BY <1>4, <1>5 DEF Counted, Recent
<1>9. Cardinality(Counted') <= PerHour
  <2>1. IsFiniteSet(Recent) /\ Cardinality(Recent) \in Nat
    BY <1>8, RowsAt
  <2>2. /\ IsFiniteSet(Recent \cup {n})
        /\ Cardinality(Recent \cup {n}) = IF n \in Recent THEN Cardinality(Recent) ELSE Cardinality(Recent) + 1
    BY <2>1, FS_AddElement
  <2>3. IsFiniteSet(Counted') /\ Cardinality(Counted') <= Cardinality(Recent \cup {n})
    BY <1>8, <2>2, FS_Subset
  <2>4. Cardinality(Counted') \in Nat /\ PerHour \in Nat
    BY <2>3, FS_CardinalityType, NotificationsAssumption
  <2> QED
    BY <1>0, <2>1, <2>2, <2>3, <2>4
<1>10. Cardinality(Counted)' <= PerHour
  BY <1>9
<1>11. RowInv'
  BY <1>0, <1>4, <1>6, <1>7, <1>10 DEF RowInv, RowTypes
<1> QED
  BY <1>0, <1>2, <1>4, <1>11

(* A look at the rules queues as many messages as the hour has room for.    *)
LEMMA EvaluateRows ==
  ASSUME RowInv, NEW w \in Workers, NEW queued \in SUBSET Rules, NEW ids \in [queued -> Messages],
         EvaluateRead(w, queued, ids)
  PROVE  /\ RowInv' /\ worker'[w].batch = {} /\ worker'[w].pc = "evaluating" /\ worker'[w].until = Horizon
         /\ worker'[w].moved = Moved(queued)
         /\ \A v \in Workers \ {w} : worker'[v] = worker[v]
         /\ \A r \in queued : /\ msg[ids[r]] = NoMsg /\ msg'[ids[r]].by = w /\ msg'[ids[r]].rule = r
                              /\ msg'[ids[r]].events = Found(r)
         /\ \A n \in Messages : msg'[n] = msg[n] \/ (msg[n] = NoMsg /\ msg'[n].state = "none")
<1>0. /\ now' = now /\ queued \subseteq Firing /\ w # None
      /\ Firing # {} => lock = None
      /\ lock' = IF Firing # {} THEN w ELSE lock
      /\ \A r \in queued : ids[r] \in Messages /\ msg[ids[r]] = NoMsg
      /\ \A q, r \in queued : q # r => ids[q] # ids[r]
  BY NotificationsAssumption DEF EvaluateRead, LockFree, Unused
<1>1. PICK x : x = [Idle EXCEPT !.pc = "evaluating", !.until = Horizon, !.moved = Moved(queued)]
  OBVIOUS
<1>2. Horizon \in Nat /\ Moved(queued) \subseteq Rules
  BY NotificationsAssumption DEF Horizon, RowInv, RowTypes, Moved, Due
<1>3. x \in PassRow /\ x.pc = "evaluating" /\ x.until = Horizon /\ x.moved = Moved(queued) /\ x.batch = {}
  BY <1>1, <1>2, EmptyPass DEF PassRow
<1>4. worker' = [worker EXCEPT ![w] = x]
  BY <1>1 DEF EvaluateRead
<1>5. /\ worker' \in [Workers -> PassRow] /\ worker'[w] = x /\ \A v \in Workers \ {w} : worker'[v] = worker[v]
  BY <1>3, <1>4, PassReplaced
<1>6. ASSUME NEW r \in queued
      PROVE  /\ msg'[ids[r]] \in MsgRow /\ msg'[ids[r]].by = w /\ msg'[ids[r]].rule = r
             /\ msg'[ids[r]].events = Found(r) /\ msg'[ids[r]].state = "none" /\ msg'[ids[r]].age = "hour"
  <2>1. \E q \in queued : ids[q] = ids[r]
    OBVIOUS
  <2>2. (CHOOSE q \in queued : ids[q] = ids[r]) = r
    BY <1>0
  <2>3. msg'[ids[r]] = [NoMsg EXCEPT !.by = w, !.rule = r, !.events = Found(r)]
    BY <1>0, <2>1, <2>2 DEF EvaluateRead
  <2>4. Found(r) \in SUBSET Events /\ r \in Rules
    BY DEF Found
  <2> QED
    BY <2>3, <2>4, EmptyRows DEF MsgRow
<1>7. PICK I \in SUBSET Messages : I = {ids[r] : r \in queued}
  OBVIOUS
<1>8. \A n \in Messages \ I : msg'[n] = msg[n]
  BY <1>7 DEF EvaluateRead
<1>9. \A n \in I : /\ msg[n] = NoMsg /\ msg'[n] \in MsgRow /\ msg'[n].by = w
                   /\ msg'[n].state = "none" /\ msg'[n].age = "hour"
  BY <1>0, <1>6, <1>7
<1>10. msg' \in [Messages -> MsgRow]
  <2>1. \A n \in Messages : msg'[n] \in MsgRow
    BY <1>8, <1>9, RowsAt
  <2>2. msg' = [n \in Messages |-> msg'[n]]
    BY DEF EvaluateRead
  <2> QED
    BY <2>1, <2>2
<1>11. \A n \in Messages \ I : msg[n].by # None => lock' = lock
  BY <1>0, RowsAt DEF Pending
<1>12. I # {} => lock' = w
  BY <1>0, <1>7
<1>13. \A n \in Messages : Pending(n)' /\ Kept(n)'
  BY <1>8, <1>9, <1>11, <1>12, RowsAt DEF Pending, Kept
<1>14. \A v \in Workers : Claimed(v)'
  <2>1. \A v \in Workers : \A n \in worker[v].batch : n \in Messages /\ n \notin I
    BY <1>9, RowsAt, EmptyRows DEF Claimed
  <2> QED
    BY <1>3, <1>5, <1>8, <2>1, RowsAt DEF Claimed
<1>15. CASE Firing = {}
  <2>1. I = {}
    BY <1>0, <1>7, <1>15
  <2>2. \A n \in Messages : QuietRow(n)
    BY <1>0, <1>8, <1>15, <2>1, RowsAt DEF QuietRow, Counted, Kept
  <2>3. lock' \in Workers \cup Calls \cup {None}
    BY <1>0, <1>15 DEF RowInv, RowTypes
  <2>4. RowInv'
    BY <1>0, <1>5, <1>10, <1>14, <2>2, <2>3, QuietRows
  <2> QED
    BY <1>3, <1>5, <1>6, <1>8, <1>9, <1>0, <2>4
<1>16. CASE Firing # {}
  <2>1. \A n \in Messages : msg[n].by = None
    BY <1>0, <1>16, RowsAt DEF Pending
  <2>2. Counted = Recent /\ Counted' \subseteq Recent \cup I
    BY <1>8, <2>1 DEF Counted, Recent
  <2>3. IsFiniteSet(queued) /\ IsFiniteSet(Firing) /\ IsFiniteSet(Recent)
    BY <2>2, RowsAt, FS_Subset, NotificationsAssumption DEF Firing, Due
  <2>4. IsFiniteSet(I) /\ Cardinality(I) <= Cardinality(queued)
    <3>1. ids \in Surjection(queued, I)
      BY <1>7 DEF Surjection
    <3> QED
      BY <2>3, <3>1, FS_Surjection
  <2>5. /\ Cardinality(I) \in Nat /\ Cardinality(queued) \in Nat /\ Cardinality(Firing) \in Nat
        /\ Cardinality(Recent) \in Nat /\ Cardinality(Recent) <= PerHour /\ PerHour \in Nat
    BY <2>2, <2>3, <2>4, FS_CardinalityType, RowsAt, NotificationsAssumption
  <2>6. Cardinality(queued) <= PerHour - Cardinality(Recent)
    <3>1. PICK room : room = IF Cardinality(Recent) > PerHour THEN 0 ELSE PerHour - Cardinality(Recent)
      OBVIOUS
    <3>2. Cardinality(queued) = IF Cardinality(Firing) <= room THEN Cardinality(Firing) ELSE room
      BY <3>1 DEF EvaluateRead
    <3> QED
      BY <2>5, <3>1, <3>2
  <2>7. IsFiniteSet(Recent \cup I) /\ Cardinality(Recent \cup I) <= Cardinality(Recent) + Cardinality(I)
    <3>1. /\ IsFiniteSet(Recent \cup I) /\ IsFiniteSet(Recent \cap I)
          /\ Cardinality(Recent \cup I) = Cardinality(Recent) + Cardinality(I) - Cardinality(Recent \cap I)
      BY <2>3, <2>4, FS_Union, FS_Intersection
    <3>2. Cardinality(Recent \cap I) \in Nat
      BY <3>1, FS_CardinalityType
    <3> QED
      BY <2>5, <3>1, <3>2
  <2>8. /\ Cardinality(Counted') \in Nat /\ Cardinality(Counted') <= Cardinality(Recent \cup I)
        /\ Cardinality(Recent \cup I) \in Nat
    BY <2>2, <2>7, FS_Subset, FS_CardinalityType
  <2>9. Cardinality(Counted') <= PerHour
    BY <2>4, <2>5, <2>6, <2>7, <2>8
  <2>10. Cardinality(Counted)' <= PerHour
    BY <2>9
  <2>11. lock' \in Workers \cup Calls \cup {None}
    BY <1>0, <1>16
  <2>12. RowInv'
    BY <1>0, <1>5, <1>10, <1>13, <1>14, <2>10, <2>11 DEF RowInv, RowTypes
  <2> QED
    BY <1>3, <1>5, <1>6, <1>8, <1>9, <1>0, <2>12
<1> QED
  BY <1>15, <1>16

(* Events, rules and the clock leave messages and passes alone.             *)
LEMMA RowsAlone ==
  ASSUME RowInv, UNCHANGED <<msg, lock, worker>>, now' \in Nat
  PROVE  RowInv'
<1>1. Counted' = Counted
  BY DEF Counted
<1>2. Cardinality(Counted)' <= PerHour
  BY <1>1 DEF RowInv
<1>3. \A n \in Messages : Pending(n)' /\ Kept(n)'
  BY DEF RowInv, Pending, Kept
<1>4. \A w \in Workers : Claimed(w)'
  BY DEF RowInv, Claimed
<1> QED
  BY <1>2, <1>3, <1>4 DEF RowInv, RowTypes

(* Every step.                                                              *)
LEMMA RowsKeep == RowInv /\ [Next]_vars => RowInv'
<1> SUFFICES ASSUME RowInv, [Next]_vars PROVE RowInv'
  OBVIOUS
<1>1. ASSUME \/ \E e \in Events : EventStart(e) \/ EventCommit(e)
             \/ \E r \in Rules : CreateRule(r) \/ RemoveRule(r)
             \/ Tick \/ UNCHANGED vars
      PROVE  RowInv'
  <2>1. UNCHANGED <<msg, lock, worker>> /\ now' \in Nat
    <3>1. now \in Nat /\ (now' = now \/ now' = now + 1)
      BY <1>1 DEF EventStart, EventCommit, CreateRule, RemoveRule, Tick, vars, RowInv, RowTypes
    <3>2. UNCHANGED <<msg, lock, worker>>
      BY <1>1 DEF EventStart, EventCommit, CreateRule, RemoveRule, Tick, vars
    <3> QED
      BY <3>1, <3>2
  <2> QED
    BY <2>1, RowsAlone
<1>2. ASSUME NEW k \in Calls, (\E n \in Messages : Enqueue(k, n)) \/ EnqueueCommit(k) \/ EnqueueLost(k)
      PROVE  RowInv'
  BY <1>2, EnqueueRows, RequestRows
<1>3. ASSUME NEW w \in Workers, Pass(w) \/ PassLost(w)
      PROVE  RowInv'
  <2>1. ASSUME NEW queued \in SUBSET Rules, NEW ids \in [queued -> Messages], EvaluateRead(w, queued, ids)
        PROVE  RowInv'
    BY <2>1, EvaluateRows
  <2>2. ASSUME NEW batch \in SUBSET Messages, NEW people \in [batch -> SUBSET People], SendClaim(w, batch, people)
        PROVE  RowInv'
    BY <2>2, ClaimRows
  <2>3. ASSUME NEW reached \in SUBSET People, Send(w, reached)
        PROVE  RowInv'
    BY <2>3, SendRows
  <2> QED
    BY <1>3, <2>1, <2>2, <2>3, PassRows, FinishRows, ExpireRows DEF Pass
<1>4. ASSUME NEW n \in Messages, Ages(n) \/ ClaimAges(n) \/ BackoffPasses(n)
      PROVE  RowInv'
  BY <1>4, AgeRows
<1> QED
  BY <1>1, <1>2, <1>3, <1>4 DEF Next

(* There are no messages at first.                                          *)
LEMMA InitRows == Init => RowInv
<1> SUFFICES ASSUME Init PROVE RowInv
  OBVIOUS
<1>1. \A n \in Messages : msg[n] = NoMsg
  BY DEF Init
<1>2. \A w \in Workers : worker[w] = Idle
  BY DEF Init
<1>3. RowTypes
  BY EmptyRows, EmptyPass DEF Init, RowTypes
<1>4. Counted = {}
  BY <1>1, EmptyRows DEF Counted
<1>5. Cardinality(Counted) <= PerHour
  BY <1>4, FS_EmptySet, NotificationsAssumption
<1>6. \A n \in Messages : Pending(n) /\ Kept(n)
  BY <1>1, EmptyRows DEF Pending, Kept
<1>7. \A w \in Workers : Claimed(w)
  BY <1>2, EmptyPass DEF Claimed
<1> QED
  BY <1>3, <1>5, <1>6, <1>7 DEF RowInv

(* Thirty an hour per organization, agents and rules together: whoever      *)
(* counts holds the organization's lock until what it inserts is committed  *)
(* or undone, so no count misses an insert.                                 *)
THEOREM HourIsBounded == Spec => []HourlyBound
<1>1. RowInv => HourlyBound
  <2> SUFFICES ASSUME RowInv PROVE HourlyBound
    OBVIOUS
  <2>1. Recent \subseteq Counted
    BY DEF Recent, Counted
  <2>2. /\ Cardinality(Recent) \in Nat /\ Cardinality(Recent) <= Cardinality(Counted)
        /\ Cardinality(Counted) \in Nat /\ Cardinality(Counted) <= PerHour /\ PerHour \in Nat
    BY <2>1, RowsAt, FS_Subset, FS_CardinalityType, NotificationsAssumption
  <2> QED
    BY <2>2 DEF HourlyBound
<1> QED
  BY <1>1, InitRows, RowsKeep, PTL DEF Spec

----------------------------------------------------------------------------
(* What has been accepted for a message.                                    *)
Fresh(n) == \A p \in People : copies[n][p] = 0
Sender(w, n) ==
  n \in worker[w].batch =>
    /\ worker[w].left[n] # {} => worker[w].got[n] = {}
    /\ \A p \in People : copies[n][p] # 0 => p \in worker[w].got[n]

CopyInv ==
  /\ copies \in [Messages -> [People -> Nat]]
  /\ NobodyTwice
  /\ \A n \in Messages : msg[n].state \in {"none", "queued"} => Fresh(n)
  /\ \A w \in Workers, n \in Messages : Sender(w, n)


(* What the steps that accept nothing owe: a row that will be sent is of a  *)
(* message nobody got, and a pass goes on with what it has, or takes on     *)
(* such a message.                                                          *)
LEMMA CopiesStay ==
  ASSUME CopyInv, copies' = copies,
         \A n \in Messages : msg'[n].state \in {"none", "queued"} => Fresh(n),
         \A v \in Workers : \A n \in Messages : n \in worker'[v].batch =>
           \/ n \in worker[v].batch /\ worker'[v].left[n] = worker[v].left[n] /\ worker'[v].got[n] = worker[v].got[n]
           \/ Fresh(n) /\ worker'[v].got[n] = {}
  PROVE  CopyInv'
<1>1. \A n \in Messages : (msg[n].state \in {"none", "queued"})' => Fresh(n)'
  BY DEF Fresh
<1>2. ASSUME NEW v \in Workers, NEW n \in Messages
      PROVE  Sender(v, n)'
  BY DEF CopyInv, Sender, Fresh
<1>3. NobodyTwice'
  BY DEF CopyInv, NobodyTwice
<1> QED
  BY <1>1, <1>2, <1>3 DEF CopyInv

(* Steps that leave the passes that send alone, and whose messages were not *)
(* sent before.                                                             *)
LEMMA CopiesRequests ==
  ASSUME RowInv, CopyInv, copies' = copies,
         \A v \in Workers : worker'[v] = worker[v] \/ worker'[v].batch = {},
         \A n \in Messages : msg'[n].state \in {"none", "queued"} => msg[n].state \in {"none", "queued"}
  PROVE  CopyInv'
<1>1. \A n \in Messages : msg'[n].state \in {"none", "queued"} => Fresh(n)
  BY DEF CopyInv
<1> QED
  BY <1>1, CopiesStay

(* The relay takes a message for some, whom it was not taken for before.    *)
LEMMA SendCopies ==
  ASSUME RowInv, CopyInv, NEW w \in Workers, NEW reached \in SUBSET People, Send(w, reached)
  PROVE  CopyInv'
<1>0. /\ worker'[w].batch = worker[w].batch /\ msg' = msg
      /\ worker'[w].left[Current(w)] = {} /\ worker'[w].got[Current(w)] = reached
      /\ \A n \in Messages \ {Current(w)} : /\ worker'[w].left[n] = worker[w].left[n]
                                            /\ worker'[w].got[n] = worker[w].got[n]
      /\ \A v \in Workers \ {w} : worker'[v] = worker[v]
  BY SendRows
<1>1. /\ Current(w) \in worker[w].batch /\ Current(w) \in Messages
      /\ msg[Current(w)].state \in {"sending", "failed"}
      /\ \A v \in Workers : Current(w) \in worker[v].batch => v = w
  BY CurrentAt DEF Send
<1>2. PICK n \in Messages : n = Current(w)
  BY <1>1
<1>3. Fresh(n)
  BY <1>1, <1>2 DEF CopyInv, Sender, Send, Fresh
<1>4. copies' = [copies EXCEPT ![n] = [p \in People |-> IF p \in reached THEN copies[n][p] + 1 ELSE copies[n][p]]]
  BY <1>2 DEF Send
<1>5. /\ \A p \in People : copies'[n][p] = IF p \in reached THEN 1 ELSE 0
      /\ \A m \in Messages \ {n} : copies'[m] = copies[m]
      /\ copies' \in [Messages -> [People -> Nat]]
  BY <1>3, <1>4 DEF CopyInv, Fresh
<1>6. \A m \in Messages : (msg[m].state \in {"none", "queued"})' => Fresh(m)'
  BY <1>0, <1>1, <1>2, <1>5 DEF CopyInv, Fresh
<1>7. NobodyTwice'
  BY <1>5 DEF CopyInv, NobodyTwice
<1>8. ASSUME NEW v \in Workers, NEW m \in Messages
      PROVE  Sender(v, m)'
  <2>1. CASE m = n
    BY <1>0, <1>1, <1>2, <1>5, <2>1 DEF Sender
  <2>2. CASE m # n
    BY <1>0, <1>2, <1>5, <2>2 DEF CopyInv, Sender
  <2> QED
    BY <2>1, <2>2
<1> QED
  BY <1>5, <1>6, <1>7, <1>8 DEF CopyInv

(* finish: what goes again has reached nobody.                              *)
LEMMA FinishCopies ==
  ASSUME RowInv, CopyInv, NEW w \in Workers, Finish(w)
  PROVE  CopyInv'
<1>0. /\ copies' = copies /\ msg'[Current(w)].state = Outcome(w, Current(w))
      /\ \A m \in Messages \ {Current(w)} : msg'[m] = msg[m]
      /\ worker'[w].batch \subseteq worker[w].batch \ {Current(w)}
      /\ \A m \in worker'[w].batch : /\ worker'[w].left[m] = worker[w].left[m]
                                     /\ worker'[w].got[m] = worker[w].got[m]
      /\ \A v \in Workers \ {w} : worker'[v] = worker[v]
  BY FinishRows DEF Finish
<1>1. Current(w) \in worker[w].batch /\ Current(w) \in Messages
  BY CurrentAt DEF Finish
<1>2. ASSUME NEW n \in Messages, msg'[n].state \in {"none", "queued"}
      PROVE  Fresh(n)
  <2>1. CASE n = Current(w)
    <3>1. worker[w].got[n] = {}
      BY <1>0, <1>2, <2>1 DEF Outcome, Reached
    <3> QED
      BY <1>1, <2>1, <3>1 DEF CopyInv, Sender, Fresh
  <2>2. CASE n # Current(w)
    BY <1>0, <1>2, <2>2 DEF CopyInv
  <2> QED
    BY <2>1, <2>2
<1> QED
  BY <1>0, <1>2, CopiesStay

(* expireNotifications: what was being sent is not queued again, and what   *)
(* is deleted is no longer in a batch.                                      *)
LEMMA ExpireCopies ==
  ASSUME RowInv, CopyInv, NEW w \in Workers, Expire(w)
  PROVE  CopyInv'
<1>0. /\ worker'[w].batch = {} /\ \A v \in Workers \ {w} : worker'[v] = worker[v]
      /\ \A n \in Messages : msg'[n].state \in {"none", "queued"} => msg[n].state \in {"none", "queued"}
  BY ExpireRows, EmptyPass DEF Ended
<1>1. copies' = [n \in Messages |-> IF n \in Pruned THEN [p \in People |-> 0] ELSE copies[n]]
  BY DEF Expire
<1>2. /\ copies' \in [Messages -> [People -> Nat]]
      /\ \A n \in Messages, p \in People : copies'[n][p] = copies[n][p] \/ copies'[n][p] = 0
  BY <1>1 DEF CopyInv
<1>3. NobodyTwice'
  BY <1>2 DEF CopyInv, NobodyTwice
<1>4. \A n \in Messages : (msg[n].state \in {"none", "queued"})' => Fresh(n)'
  BY <1>0, <1>2 DEF CopyInv, Fresh
<1>5. ASSUME NEW v \in Workers, NEW n \in Messages
      PROVE  Sender(v, n)'
  BY <1>0, <1>2 DEF CopyInv, Sender
<1> QED
  BY <1>2, <1>3, <1>4, <1>5 DEF CopyInv

(* Every step.                                                              *)
LEMMA CopiesKeep == RowInv /\ CopyInv /\ [Next]_vars => CopyInv'
<1> SUFFICES ASSUME RowInv, CopyInv, [Next]_vars PROVE CopyInv'
  OBVIOUS
<1>1. ASSUME \/ \E e \in Events : EventStart(e) \/ EventCommit(e)
             \/ \E r \in Rules : CreateRule(r) \/ RemoveRule(r)
             \/ Tick \/ UNCHANGED vars
      PROVE  CopyInv'
  <2>1. UNCHANGED <<msg, worker, copies>>
    <3>1. CASE \E e \in Events : EventStart(e) \/ EventCommit(e)
      BY <3>1 DEF EventStart, EventCommit
    <3>2. CASE \E r \in Rules : CreateRule(r) \/ RemoveRule(r)
      BY <3>2 DEF CreateRule, RemoveRule
    <3> QED
      BY <1>1, <3>1, <3>2 DEF Tick, vars
  <2> QED
    BY <2>1, CopiesRequests
<1>2. ASSUME NEW k \in Calls, NEW n \in Messages, Enqueue(k, n)
      PROVE  CopyInv'
  <2>1. copies' = copies
    BY <1>2 DEF Enqueue
  <2>2. worker' = worker /\ msg[n].state = "none" /\ \A m \in Messages \ {n} : msg'[m] = msg[m]
    BY <1>2, EnqueueRows, EmptyRows
  <2> QED
    BY <2>1, <2>2, CopiesRequests
<1>3. ASSUME NEW k \in Calls, EnqueueCommit(k) \/ EnqueueLost(k)
      PROVE  CopyInv'
  <2>1. /\ copies' = copies /\ worker' = worker /\ lock' = Unlocked(k)
        /\ msg' = Inserted(k) \/ msg' = Undone(k)
    BY <1>3 DEF EnqueueCommit, EnqueueLost
  <2>2. \A n \in Messages : msg[n].state = "none" \/ msg'[n] = msg[n]
    BY <2>1, InsertedRows, UndoneRows
  <2> QED
    BY <2>1, <2>2, CopiesRequests
<1>4. ASSUME NEW w \in Workers, EvaluateCommit(w) \/ PassLost(w)
      PROVE  CopyInv'
  <2>1. /\ copies' = copies /\ lock' = Unlocked(w)
        /\ msg' = Inserted(w) \/ msg' = Undone(w)
    BY <1>4 DEF EvaluateCommit, PassLost
  <2>2. \A n \in Messages : msg[n].state = "none" \/ msg'[n] = msg[n]
    BY <2>1, InsertedRows, UndoneRows
  <2>3. \A v \in Workers : worker'[v] = worker[v] \/ worker'[v].batch = {}
    <3>1. PICK q : q \in PassRow /\ q.batch = {} /\ worker' = [worker EXCEPT ![w] = q]
      <4>1. PICK x : x = [Idle EXCEPT !.pc = "claim"]
        OBVIOUS
      <4>2. x \in PassRow /\ x.batch = {}
        BY <4>1, EmptyPass DEF PassRow
      <4>3. worker' = [worker EXCEPT ![w] = x] \/ worker' = [worker EXCEPT ![w] = Idle]
        BY <1>4, <4>1 DEF EvaluateCommit, PassLost
      <4> QED
        BY <4>2, <4>3, EmptyPass
    <3> QED
      BY <3>1 DEF RowInv, RowTypes
  <2> QED
    BY <2>1, <2>2, <2>3, CopiesRequests
<1>5. ASSUME NEW w \in Workers, NEW queued \in SUBSET Rules, NEW ids \in [queued -> Messages], EvaluateRead(w, queued, ids)
      PROVE  CopyInv'
  <2>1. copies' = copies
    BY <1>5 DEF EvaluateRead
  <2>2. /\ worker'[w].batch = {} /\ \A v \in Workers \ {w} : worker'[v] = worker[v]
        /\ \A n \in Messages : msg'[n] = msg[n] \/ msg[n].state = "none"
    BY <1>5, EvaluateRows, EmptyRows
  <2> QED
    BY <2>1, <2>2, CopiesRequests
<1>6. ASSUME NEW w \in Workers, NEW batch \in SUBSET Messages, NEW people \in [batch -> SUBSET People], SendClaim(w, batch, people)
      PROVE  CopyInv'
  <2>1. copies' = copies
    BY <1>6 DEF SendClaim
  <2>2. /\ worker'[w].batch = batch
        /\ \A n \in Messages : worker'[w].got[n] = {}
        /\ \A v \in Workers \ {w} : worker'[v] = worker[v]
        /\ \A n \in batch : msg[n].state = "queued" /\ msg'[n].state = "sending"
        /\ \A n \in Messages \ batch : msg'[n] = msg[n]
    <3>1. worker'[w].batch = batch
      BY <1>6, ClaimRows
    <3>2. \A n \in Messages : worker'[w].got[n] = {}
      BY <1>6, ClaimRows
    <3>3. \A v \in Workers \ {w} : worker'[v] = worker[v]
      BY <1>6, ClaimRows
    <3>4. \A n \in batch : msg[n].state = "queued" /\ msg'[n].state = "sending"
      BY <1>6, ClaimRows
    <3>5. \A n \in Messages \ batch : msg'[n] = msg[n]
      BY <1>6, ClaimRows
    <3> QED
      BY <3>1, <3>2, <3>3, <3>4, <3>5
  <2>3. \A n \in Messages : msg'[n].state \in {"none", "queued"} => Fresh(n)
    BY <2>2 DEF CopyInv
  <2>4. \A n \in batch : Fresh(n)
    BY <2>2 DEF CopyInv
  <2> QED
    BY <2>1, <2>2, <2>3, <2>4, CopiesStay
<1>7. ASSUME NEW w \in Workers, Pass(w) \/ PassLost(w)
      PROVE  CopyInv'
  BY <1>4, <1>5, <1>6, <1>7, SendCopies, FinishCopies, ExpireCopies DEF Pass
<1>8. ASSUME NEW n \in Messages, Ages(n) \/ ClaimAges(n) \/ BackoffPasses(n)
      PROVE  CopyInv'
  <2>1. copies' = copies /\ worker' = worker
    BY <1>8 DEF Ages, ClaimAges, BackoffPasses
  <2>2. msg'[n].state = msg[n].state /\ \A m \in Messages \ {n} : msg'[m] = msg[m]
    BY <1>8, AgeRows
  <2> QED
    BY <2>1, <2>2, CopiesRequests
<1> QED
  BY <1>1, <1>2, <1>3, <1>7, <1>8 DEF Next

(* Nothing was accepted at first.                                           *)
LEMMA InitCopies == Init => CopyInv
<1> SUFFICES ASSUME Init PROVE CopyInv
  OBVIOUS
<1>1. \A w \in Workers : worker[w].batch = {}
  BY EmptyPass DEF Init
<1> QED
  BY <1>1 DEF Init, CopyInv, NobodyTwice, Fresh, Sender

(* Nobody gets a message twice: a row is queued again only by the pass that *)
(* claimed it, after an attempt that reached nobody; what was interrupted   *)
(* is ended, and an ended row is not claimed.                               *)
THEOREM NobodyGetsItTwice == Spec => []NobodyTwice
<1>1. CopyInv => NobodyTwice
  BY DEF CopyInv
<1> QED
  BY <1>1, InitRows, RowsKeep, InitCopies, CopiesKeep, PTL DEF Spec
----------------------------------------------------------------------------
(* Rules, events and what is told.                                          *)
Old(t) == t = 0 \/ t + Settle <= now

RuleRow == [state: {"none", "kept", "removed"}, since: Nat, mark: Nat, by: Workers \cup {None}]
EventRow == [state: {"none", "open", "long", "there", "late"}, at: Nat]

LookTypes ==
  /\ now \in Nat
  /\ rule \in [Rules -> RuleRow]
  /\ event \in [Events -> EventRow]
  /\ told \in [Rules -> [Events -> Nat]]

(* A transaction that is open and not long began less than SETTLE ago.      *)
OpenIsYoung(e) == event[e].state = "open" => now < event[e].at + Settle

(* A mark is the rule's beginning, or SETTLE old.                           *)
MarkIsOld(r) == rule[r].mark <= rule[r].since \/ Old(rule[r].mark)

(* A look that will move a mark tells of everything there is in its window. *)
Looks(w) ==
  worker[w].pc = "evaluating" =>
    /\ Old(worker[w].until)
    /\ \A r \in worker[w].moved : rule[r].by = w
    /\ \A r \in worker[w].moved, e \in Events :
         event[e].state = "there" /\ event[e].at > Millis(rule[r].mark) /\ event[e].at <= worker[w].until
           => Tells(w, r, e)

LookInv ==
  /\ LookTypes
  /\ \A e \in Events : OpenIsYoung(e)
  /\ \A r \in Rules : MarkIsOld(r)
  /\ \A w \in Workers : Looks(w)
  /\ NothingMissed

(* A rule, an event and a pass, by the types.                               *)
LEMMA LooksAt ==
  ASSUME RowInv, LookInv
  PROVE  /\ now \in Nat /\ Settle \in Nat /\ Settle > 0
         /\ \A r \in Rules : rule[r] \in RuleRow /\ rule[r].since \in Nat /\ rule[r].mark \in Nat
         /\ \A e \in Events : event[e] \in EventRow /\ event[e].at \in Nat
         /\ \A w \in Workers : worker[w].until \in Nat /\ worker[w].moved \subseteq Rules
         /\ \A r \in Rules, e \in Events : told[r][e] \in Nat
<1>1. /\ \A r \in Rules : rule[r] \in RuleRow
      /\ \A e \in Events : event[e] \in EventRow
      /\ \A r \in Rules, e \in Events : told[r][e] \in Nat
      /\ now \in Nat
  BY DEF LookInv, LookTypes
<1>2. \A r \in Rules : rule[r].since \in Nat /\ rule[r].mark \in Nat
  BY <1>1 DEF RuleRow
<1>3. \A e \in Events : event[e].at \in Nat
  BY <1>1 DEF EventRow
<1>4. \A w \in Workers : worker[w].until \in Nat /\ worker[w].moved \subseteq Rules
  BY RowsAt DEF PassRow
<1> QED
  BY <1>1, <1>2, <1>3, <1>4, NotificationsAssumption

(* Other transactions leave a look as it was: the rules it has locked, the  *)
(* messages it has inserted, and what there is in its window.               *)
LEMMA LooksStay ==
  ASSUME RowInv, LookInv, NEW v \in Workers, worker'[v] = worker[v], now' \in Nat, now <= now',
         event' \in [Events -> EventRow],
         worker[v].pc = "evaluating" => \A r \in worker[v].moved : rule'[r] = rule[r],
         \A n \in Messages : msg[n].by = v => msg'[n] = msg[n],
         \A e \in Events : event'[e].state = "there" =>
           event'[e] = event[e] \/ ~(event'[e].at > 0 /\ event'[e].at <= worker[v].until)
  PROVE  Looks(v)'
<1> SUFFICES ASSUME worker[v].pc = "evaluating"
             PROVE  Looks(v)'
  BY DEF Looks
<1>0. worker[v].until \in Nat /\ worker[v].moved \subseteq Rules /\ Looks(v)
  BY LooksAt DEF LookInv
<1>1. Old(worker[v].until)'
  BY <1>0, LooksAt DEF Looks, Old
<1>2. \A r \in worker'[v].moved : rule'[r].by = v
  BY <1>0 DEF Looks
<1>3. ASSUME NEW r \in worker'[v].moved, NEW e \in Events, event'[e].state = "there",
             event'[e].at > Millis(rule'[r].mark), event'[e].at <= worker'[v].until
      PROVE  Tells(v, r, e)'
  <2>1. rule'[r] = rule[r] /\ rule[r].mark \in Nat /\ r \in worker[v].moved
    BY <1>0, LooksAt
  <2>2. Millis(rule[r].mark) \in Nat
    BY <2>1, MillisAt
  <2>3. event'[e] = event[e]
    <3>1. event'[e].at \in Nat
      BY DEF EventRow
    <3>2. event'[e].at > 0
      BY <1>3, <2>1, <2>2, <3>1
    <3> QED
      BY <1>3, <3>2
  <2>4. Tells(v, r, e)
    BY <1>0, <1>3, <2>1, <2>3 DEF Looks
  <2> QED
    BY <2>4 DEF Tells
<1> QED
  BY <1>1, <1>2, <1>3 DEF Looks, Millis

(* A step of a pass or a request that neither moves a mark nor touches what *)
(* a look has inserted.                                                     *)
LEMMA LooksAside ==
  ASSUME RowInv, LookInv, UNCHANGED <<now, event, rule, told>>,
         \A v \in Workers : worker'[v] = worker[v] \/ worker'[v].pc # "evaluating",
         \A n \in Messages : msg[n].by \in Workers => msg'[n] = msg[n]
  PROVE  LookInv'
<1>1. \A e \in Events : OpenIsYoung(e)'
  BY DEF LookInv, OpenIsYoung
<1>2. \A r \in Rules : MarkIsOld(r)'
  BY DEF LookInv, MarkIsOld, Old
<1>3. ASSUME NEW v \in Workers
      PROVE  Looks(v)'
  <2>1. CASE worker'[v].pc # "evaluating"
    BY <2>1 DEF Looks
  <2>2. CASE worker'[v] = worker[v]
    BY <2>2, LooksStay, LooksAt DEF LookInv, LookTypes
  <2> QED
    BY <2>1, <2>2
<1>4. NothingMissed'
  BY DEF LookInv, NothingMissed
<1> QED
  BY <1>1, <1>2, <1>3, <1>4 DEF LookInv, LookTypes

(* An event begins.                                                         *)
LEMMA StartLooks ==
  ASSUME RowInv, LookInv, NEW e \in Events, EventStart(e)
  PROVE  LookInv'
<1>0. UNCHANGED <<now, rule, told, msg, worker>> /\ event' = [event EXCEPT ![e] = [state |-> "open", at |-> now]]
  BY DEF EventStart
<1>1. /\ event' \in [Events -> EventRow] /\ event'[e].state = "open" /\ event'[e].at = now
      /\ \A f \in Events \ {e} : event'[f] = event[f]
  BY <1>0, LooksAt DEF LookInv, LookTypes, EventRow
<1>2. \A f \in Events : OpenIsYoung(f)'
  BY <1>0, <1>1, LooksAt DEF LookInv, OpenIsYoung
<1>3. \A r \in Rules : MarkIsOld(r)'
  BY <1>0 DEF LookInv, MarkIsOld, Old
<1>4. \A f \in Events : event'[f].state = "there" => event'[f] = event[f]
  BY <1>1
<1>5. \A v \in Workers : Looks(v)'
  BY <1>0, <1>1, <1>4, LooksStay, LooksAt
<1>6. NothingMissed'
  BY <1>0, <1>4 DEF LookInv, NothingMissed
<1> QED
  BY <1>0, <1>1, <1>2, <1>3, <1>5, <1>6 DEF LookInv, LookTypes

(* An event commits late, which no window is about.                         *)
LEMMA LateLooks ==
  ASSUME RowInv, LookInv, NEW e \in Events, EventCommit(e), event[e].state = "long"
  PROVE  LookInv'
<1>0. UNCHANGED <<now, rule, told, msg, worker>> /\ event' = [event EXCEPT ![e].state = "late"]
  BY DEF EventCommit
<1>1. /\ event' \in [Events -> EventRow] /\ event'[e].state = "late"
      /\ \A f \in Events \ {e} : event'[f] = event[f]
  <2>1. PICK q : q = [event[e] EXCEPT !.state = "late"]
    OBVIOUS
  <2>2. q \in EventRow /\ q.state = "late"
    BY <2>1, LooksAt DEF EventRow
  <2>3. event' = [event EXCEPT ![e] = q]
    BY <1>0, <2>1
  <2> QED
    BY <2>2, <2>3 DEF LookInv, LookTypes
<1>2. \A f \in Events : OpenIsYoung(f)'
  BY <1>0, <1>1 DEF LookInv, OpenIsYoung
<1>3. \A r \in Rules : MarkIsOld(r)'
  BY <1>0 DEF LookInv, MarkIsOld, Old
<1>4. \A f \in Events : event'[f].state = "there" => event'[f] = event[f]
  BY <1>1
<1>5. \A v \in Workers : Looks(v)'
  BY <1>0, <1>1, <1>4, LooksStay, LooksAt
<1>6. NothingMissed'
  BY <1>0, <1>4 DEF LookInv, NothingMissed
<1> QED
  BY <1>0, <1>1, <1>2, <1>3, <1>5, <1>6 DEF LookInv, LookTypes

(* An event commits in time: it is too young for any window that has been   *)
(* looked at, or is being looked at.                                        *)
LEMMA CommitLooks ==
  ASSUME RowInv, LookInv, NEW e \in Events, EventCommit(e), event[e].state = "open"
  PROVE  LookInv'
<1>0. UNCHANGED <<now, rule, told, msg, worker>> /\ event' = [event EXCEPT ![e].state = "there"] /\ event[e].state = "open"
  BY DEF EventCommit
<1>1. /\ event' \in [Events -> EventRow] /\ event'[e].state = "there" /\ event'[e].at = event[e].at
      /\ \A f \in Events \ {e} : event'[f] = event[f]
  <2>1. PICK q : q = [event[e] EXCEPT !.state = "there"]
    OBVIOUS
  <2>2. q \in EventRow /\ q.state = "there" /\ q.at = event[e].at
    BY <2>1, LooksAt DEF EventRow
  <2>3. event' = [event EXCEPT ![e] = q]
    BY <1>0, <2>1
  <2> QED
    BY <2>2, <2>3 DEF LookInv, LookTypes
<1>2. event[e].at \in Nat /\ now < event[e].at + Settle /\ now \in Nat /\ Settle \in Nat
  BY <1>0, LooksAt DEF LookInv, OpenIsYoung
<1>3. \A f \in Events : OpenIsYoung(f)'
  BY <1>0, <1>1 DEF LookInv, OpenIsYoung
<1>4. \A r \in Rules : MarkIsOld(r)'
  BY <1>0 DEF LookInv, MarkIsOld, Old
<1>5. ASSUME NEW t \in Nat, Old(t)
      PROVE  ~(event'[e].at > 0 /\ event'[e].at <= t)
  BY <1>1, <1>2, <1>5 DEF Old
<1>6. ASSUME NEW v \in Workers
      PROVE  Looks(v)'
  <2>1. CASE worker'[v].pc # "evaluating"
    BY <2>1 DEF Looks
  <2>2. CASE worker'[v].pc = "evaluating"
    <3>1. worker[v].until \in Nat /\ Old(worker[v].until)
      BY <1>0, <2>2, LooksAt DEF LookInv, Looks
    <3>2. \A f \in Events : event'[f].state = "there" =>
            event'[f] = event[f] \/ ~(event'[f].at > 0 /\ event'[f].at <= worker[v].until)
      BY <1>1, <1>5, <3>1
    <3> QED
      BY <1>0, <1>1, <1>2, <3>2, LooksStay
  <2> QED
    BY <2>1, <2>2
<1>7. ASSUME NEW r \in Rules, NEW f \in Events, event'[f].state = "there",
             rule'[r].since < event'[f].at, event'[f].at <= rule'[r].mark
      PROVE  told'[r][f] > 0
  <2>1. rule[r].since \in Nat /\ rule[r].mark \in Nat /\ MarkIsOld(r)
    BY LooksAt DEF LookInv
  <2>2. CASE f = e
    <3>1. event'[e].at \in Nat
      BY <1>1, <1>2
    <3>2. ~(rule[r].mark <= rule[r].since) /\ event'[e].at > 0
      BY <1>0, <1>7, <2>1, <2>2, <3>1
    <3>3. Old(rule[r].mark)
      BY <2>1, <3>2 DEF MarkIsOld
    <3> QED
      BY <1>0, <1>5, <1>7, <2>1, <2>2, <3>2, <3>3
  <2>3. CASE f # e
    BY <1>0, <1>1, <1>7, <2>3 DEF LookInv, NothingMissed
  <2> QED
    BY <2>2, <2>3
<1>8. NothingMissed'
  BY <1>7 DEF NothingMissed
<1> QED
  BY <1>0, <1>1, <1>3, <1>4, <1>6, <1>8 DEF LookInv, LookTypes

(* A rule is created or removed, which no look has locked.                  *)
LEMMA RuleLooks ==
  ASSUME RowInv, LookInv, NEW r \in Rules, CreateRule(r) \/ RemoveRule(r)
  PROVE  LookInv'
<1>0. UNCHANGED <<now, event, msg, worker>> /\ rule[r].by = None
  BY DEF CreateRule, RemoveRule, NoRule
<1>1. PICK q \in RuleRow : rule' = [rule EXCEPT ![r] = q] /\ q.mark = q.since
  <2>1. CASE CreateRule(r)
    <3>1. PICK x : x = [NoRule EXCEPT !.state = "kept", !.since = now, !.mark = now]
      OBVIOUS
    <3>2. x \in RuleRow /\ x.mark = x.since
      BY <3>1, LooksAt DEF NoRule, RuleRow
    <3> QED
      BY <2>1, <3>1, <3>2 DEF CreateRule
  <2>2. CASE RemoveRule(r)
    <3>1. PICK x : x = [NoRule EXCEPT !.state = "removed"]
      OBVIOUS
    <3>2. x \in RuleRow /\ x.mark = x.since
      BY <3>1, LooksAt DEF NoRule, RuleRow
    <3> QED
      BY <2>2, <3>1, <3>2 DEF RemoveRule
  <2> QED
    BY <2>1, <2>2
<1>2. /\ rule' \in [Rules -> RuleRow] /\ rule'[r] = q /\ \A s \in Rules \ {r} : rule'[s] = rule[s]
      /\ q.mark \in Nat /\ q.since \in Nat
  BY <1>1 DEF LookInv, LookTypes, RuleRow
<1>3. told' \in [Rules -> [Events -> Nat]] /\ \A s \in Rules \ {r} : told'[s] = told[s]
  <2>1. PICK z : z = [e \in Events |-> 0]
    OBVIOUS
  <2>2. told' = told \/ told' = [told EXCEPT ![r] = z]
    BY <2>1 DEF CreateRule, RemoveRule
  <2>3. z \in [Events -> Nat]
    BY <2>1
  <2> QED
    BY <2>2, <2>3 DEF LookInv, LookTypes
<1>4. \A e \in Events : OpenIsYoung(e)'
  BY <1>0 DEF LookInv, OpenIsYoung
<1>5. \A s \in Rules : MarkIsOld(s)'
  BY <1>0, <1>1, <1>2 DEF LookInv, MarkIsOld, Old
<1>6. ASSUME NEW v \in Workers
      PROVE  Looks(v)'
  <2>1. worker[v].pc = "evaluating" => \A s \in worker[v].moved : s \in Rules /\ s # r
    BY <1>0, LooksAt, NotificationsAssumption DEF LookInv, Looks
  <2> QED
    BY <1>0, <1>2, <2>1, LooksStay, LooksAt DEF LookInv, LookTypes
<1>7. ASSUME NEW s \in Rules, NEW e \in Events, event'[e].state = "there",
             rule'[s].since < event'[e].at, event'[e].at <= rule'[s].mark
      PROVE  told'[s][e] > 0
  <2>1. s # r
    BY <1>0, <1>1, <1>2, <1>7, LooksAt
  <2> QED
    BY <1>0, <1>2, <1>3, <1>7, <2>1 DEF LookInv, NothingMissed
<1>8. NothingMissed'
  BY <1>7 DEF NothingMissed
<1> QED
  BY <1>0, <1>2, <1>3, <1>4, <1>5, <1>6, <1>8 DEF LookInv, LookTypes

(* The clock: what has not committed within SETTLE is long.                 *)
LEMMA TickLooks ==
  ASSUME RowInv, LookInv, Tick
  PROVE  LookInv'
<1>0. UNCHANGED <<rule, told, msg, worker>> /\ now' = now + 1 /\ now' \in Nat /\ now <= now'
  BY LooksAt DEF Tick
<1>1. ASSUME NEW e \in Events
      PROVE  /\ event'[e] \in EventRow /\ OpenIsYoung(e)'
             /\ event'[e].state = "there" => event'[e] = event[e]
  <2>1. PICK q : q = [event[e] EXCEPT !.state = "long"]
    OBVIOUS
  <2>2. CASE event[e].state = "open" /\ event[e].at + Settle <= now'
    <3>1. q \in EventRow /\ q.state = "long"
      BY <2>1, LooksAt DEF EventRow
    <3>2. event'[e] = q
      BY <2>1, <2>2 DEF Tick
    <3> QED
      BY <3>1, <3>2 DEF OpenIsYoung
  <2>3. CASE ~(event[e].state = "open" /\ event[e].at + Settle <= now')
    <3>1. event'[e] = event[e]
      BY <2>3 DEF Tick
    <3> QED
      BY <1>0, <2>3, <3>1, LooksAt DEF OpenIsYoung
  <2> QED
    BY <2>2, <2>3
<1>2. event' \in [Events -> EventRow]
  BY <1>1 DEF Tick
<1>3. \A r \in Rules : MarkIsOld(r)'
  BY <1>0, LooksAt DEF LookInv, MarkIsOld, Old
<1>4. \A v \in Workers : Looks(v)'
  BY <1>0, <1>1, <1>2, LooksStay
<1>5. NothingMissed'
  BY <1>0, <1>1 DEF LookInv, NothingMissed
<1> QED
  BY <1>0, <1>1, <1>2, <1>3, <1>4, <1>5 DEF LookInv, LookTypes

(* A look begins: the rules it will move are the ones whose finds it has    *)
(* queued a message about, and the ones that found nothing.                 *)
LEMMA ReadLooks ==
  ASSUME RowInv, LookInv, NEW w \in Workers, NEW queued \in SUBSET Rules, NEW ids \in [queued -> Messages],
         EvaluateRead(w, queued, ids)
  PROVE  LookInv'
<1>0. /\ UNCHANGED <<now, event, told>> /\ w # None
      /\ rule' = [r \in Rules |-> IF r \in Due THEN [rule[r] EXCEPT !.by = w] ELSE rule[r]]
  BY NotificationsAssumption DEF EvaluateRead
<1>1. /\ worker'[w].until = Horizon /\ worker'[w].moved = Moved(queued)
      /\ \A v \in Workers \ {w} : worker'[v] = worker[v]
  BY EvaluateRows
<1>2. \A r \in queued : msg'[ids[r]].by = w /\ msg'[ids[r]].rule = r /\ msg'[ids[r]].events = Found(r)
  BY EvaluateRows
<1>3. \A n \in Messages : msg[n].by \in Workers => msg'[n] = msg[n]
  <2>1. \A n \in Messages : msg'[n] = msg[n] \/ msg[n].by = None
    BY EvaluateRows, EmptyRows
  <2> QED
    BY <2>1, NotificationsAssumption
<1>4. ASSUME NEW r \in Rules
      PROVE  /\ rule'[r] \in RuleRow /\ rule'[r].mark = rule[r].mark /\ rule'[r].since = rule[r].since
             /\ r \in Due => rule'[r].by = w /\ rule[r].by = None
             /\ r \notin Due => rule'[r] = rule[r]
  <2>1. CASE r \in Due
    <3>1. PICK q : q = [rule[r] EXCEPT !.by = w]
      OBVIOUS
    <3>2. q \in RuleRow /\ q.mark = rule[r].mark /\ q.since = rule[r].since /\ q.by = w
      BY <3>1, LooksAt DEF RuleRow
    <3>3. rule'[r] = q
      BY <1>0, <2>1, <3>1
    <3> QED
      BY <2>1, <3>2, <3>3 DEF Due
  <2>2. CASE r \notin Due
    BY <1>0, <2>2, LooksAt
  <2> QED
    BY <2>1, <2>2
<1>5. rule' \in [Rules -> RuleRow]
  BY <1>0, <1>4
<1>6. \A e \in Events : OpenIsYoung(e)'
  BY <1>0 DEF LookInv, OpenIsYoung
<1>7. \A r \in Rules : MarkIsOld(r)'
  BY <1>0, <1>4 DEF LookInv, MarkIsOld, Old
<1>8. NothingMissed'
  BY <1>0, <1>4 DEF LookInv, NothingMissed
<1>9. ASSUME NEW v \in Workers \ {w}
      PROVE  Looks(v)'
  <2>1. worker[v].pc = "evaluating" => \A r \in worker[v].moved : rule'[r] = rule[r]
    BY <1>4, LooksAt, NotificationsAssumption DEF LookInv, Looks
  <2>2. now' \in Nat /\ now <= now' /\ event' \in [Events -> EventRow] /\ worker'[v] = worker[v]
    BY <1>0, <1>1, LooksAt DEF LookInv, LookTypes
  <2>3. \A n \in Messages : msg[n].by = v => msg'[n] = msg[n]
    BY <1>3
  <2> QED
    BY <1>0, <2>1, <2>2, <2>3, LooksStay
<1>10. Looks(w)'
  <2>1. Old(worker[w].until)'
    BY <1>0, <1>1, LooksAt DEF Old, Horizon
  <2>2. Moved(queued) \subseteq Due /\ Due \subseteq Rules
    BY DEF Moved, Due
  <2>3. \A r \in worker'[w].moved : rule'[r].by = w
    BY <1>1, <1>4, <2>2
  <2>4. ASSUME NEW r \in worker'[w].moved, NEW e \in Events, event'[e].state = "there",
               event'[e].at > Millis(rule'[r].mark), event'[e].at <= worker'[w].until
        PROVE  Tells(w, r, e)'
    <3>1. r \in Due /\ e \in Found(r)
      BY <1>0, <1>1, <1>4, <2>2, <2>4 DEF Found
    <3>2. r \in queued
      BY <1>1, <2>4, <3>1 DEF Moved, Firing
    <3>3. ids[r] \in Messages /\ msg'[ids[r]].by = w /\ msg'[ids[r]].rule = r /\ e \in msg'[ids[r]].events
      BY <1>2, <3>1, <3>2
    <3> QED
      BY <3>3 DEF Tells
  <2> QED
    BY <2>1, <2>3, <2>4 DEF Looks, Millis
<1> QED
  BY <1>0, <1>5, <1>6, <1>7, <1>8, <1>9, <1>10 DEF LookInv, LookTypes

(* A look commits: a mark moves over what there is in the window, all of it *)
(* told.                                                                    *)
LEMMA MarkLooks ==
  ASSUME RowInv, LookInv, NEW w \in Workers, EvaluateCommit(w)
  PROVE  LookInv'
<1>0. /\ UNCHANGED <<now, event>> /\ w # None /\ worker[w].pc = "evaluating"
      /\ msg' = Inserted(w) /\ lock' = Unlocked(w)
      /\ worker' = [worker EXCEPT ![w] = [Idle EXCEPT !.pc = "claim"]]
  BY NotificationsAssumption DEF EvaluateCommit
<1>1. worker'[w].pc = "claim" /\ \A v \in Workers \ {w} : worker'[v] = worker[v]
  BY <1>0 DEF RowInv, RowTypes, Idle
<1>2. \A n \in Messages : msg[n].by # w => msg'[n] = msg[n]
  BY <1>0, InsertedRows
<1>3. /\ worker[w].until \in Nat /\ Old(worker[w].until) /\ worker[w].moved \subseteq Rules /\ Looks(w)
  BY <1>0, LooksAt DEF LookInv, Looks
<1>4. ASSUME NEW r \in Rules
      PROVE  /\ rule'[r] \in RuleRow /\ rule'[r].since = rule[r].since
             /\ rule[r].by # w => rule'[r] = rule[r]
             /\ rule'[r].mark = rule[r].mark \/ (r \in worker[w].moved /\ rule'[r].mark = worker[w].until)
  <2>1. CASE rule[r].by = w
    <3>1. PICK m \in Nat : m = IF r \in worker[w].moved THEN worker[w].until ELSE rule[r].mark
      BY <1>3, LooksAt
    <3>2. PICK q : q = [rule[r] EXCEPT !.by = None, !.mark = m]
      OBVIOUS
    <3>3. q \in RuleRow /\ q.mark = m /\ q.since = rule[r].since
      BY <3>2, LooksAt DEF RuleRow
    <3>4. rule'[r] = q
      BY <2>1, <3>1, <3>2 DEF EvaluateCommit
    <3> QED
      BY <2>1, <3>1, <3>3, <3>4
  <2>2. CASE rule[r].by # w
    BY <2>2, LooksAt DEF EvaluateCommit
  <2> QED
    BY <2>1, <2>2
<1>5. rule' \in [Rules -> RuleRow]
  BY <1>4 DEF EvaluateCommit
<1>6. /\ told' \in [Rules -> [Events -> Nat]]
      /\ \A r \in Rules, e \in Events : told'[r][e] = IF Tells(w, r, e) THEN told[r][e] + 1 ELSE told[r][e]
  <2>1. \A r \in Rules, e \in Events : told'[r][e] = IF Tells(w, r, e) THEN told[r][e] + 1 ELSE told[r][e]
    BY DEF EvaluateCommit
  <2>2. told' = [r \in Rules |-> [e \in Events |-> told'[r][e]]]
    BY DEF EvaluateCommit
  <2>3. \A r \in Rules, e \in Events : told'[r][e] \in Nat
    BY <2>1, LooksAt
  <2> QED
    BY <2>1, <2>2, <2>3
<1>7. \A e \in Events : OpenIsYoung(e)'
  BY <1>0 DEF LookInv, OpenIsYoung
<1>8. ASSUME NEW r \in Rules
      PROVE  MarkIsOld(r)'
  BY <1>0, <1>3, <1>4 DEF LookInv, MarkIsOld, Old
<1>9. ASSUME NEW v \in Workers
      PROVE  Looks(v)'
  <2>1. CASE v = w
    BY <1>1, <2>1 DEF Looks
  <2>2. CASE v # w
    <3>1. worker[v].pc = "evaluating" => \A r \in worker[v].moved : rule'[r] = rule[r]
      BY <1>4, <2>2, LooksAt DEF LookInv, Looks
    <3>2. now' \in Nat /\ now <= now' /\ event' \in [Events -> EventRow] /\ worker'[v] = worker[v]
      BY <1>0, <1>1, <2>2, LooksAt DEF LookInv, LookTypes
    <3>3. \A n \in Messages : msg[n].by = v => msg'[n] = msg[n]
      BY <1>2, <2>2
    <3> QED
      BY <1>0, <3>1, <3>2, <3>3, LooksStay
  <2> QED
    BY <2>1, <2>2
<1>10. ASSUME NEW r \in Rules, NEW e \in Events, event'[e].state = "there",
              rule'[r].since < event'[e].at, event'[e].at <= rule'[r].mark
       PROVE  told'[r][e] > 0
  <2>1. told[r][e] \in Nat /\ rule[r].mark \in Nat /\ event[e].at \in Nat
    BY LooksAt
  <2>2. CASE event[e].at <= rule[r].mark
    <3>1. told[r][e] > 0
      BY <1>0, <1>4, <1>10, <2>2 DEF LookInv, NothingMissed
    <3> QED
      BY <1>6, <2>1, <3>1
  <2>3. CASE ~(event[e].at <= rule[r].mark)
    <3>1. r \in worker[w].moved /\ event[e].at <= worker[w].until
      BY <1>0, <1>4, <1>10, <2>3
    <3>2. event[e].at > Millis(rule[r].mark)
      BY <2>1, <2>3, MillisAt
    <3>3. Tells(w, r, e)
      BY <1>0, <1>3, <1>10, <3>1, <3>2 DEF Looks
    <3> QED
      BY <1>6, <2>1, <3>3
  <2> QED
    BY <2>2, <2>3
<1>11. NothingMissed'
  BY <1>10 DEF NothingMissed
<1> QED
  BY <1>0, <1>5, <1>6, <1>7, <1>8, <1>9, <1>11 DEF LookInv, LookTypes

(* A pass dies: its look never was, and no mark moves.                      *)
LEMMA LostLooks ==
  ASSUME RowInv, LookInv, NEW w \in Workers, PassLost(w)
  PROVE  LookInv'
<1>0. /\ UNCHANGED <<now, event, told>> /\ msg' = Undone(w) /\ lock' = Unlocked(w)
      /\ worker' = [worker EXCEPT ![w] = Idle]
      /\ rule' = [r \in Rules |-> IF rule[r].by = w THEN [rule[r] EXCEPT !.by = None] ELSE rule[r]]
  BY DEF PassLost
<1>1. worker'[w].pc = "idle" /\ \A v \in Workers \ {w} : worker'[v] = worker[v]
  BY <1>0, EmptyPass DEF RowInv, RowTypes
<1>2. \A n \in Messages : msg[n].by # w => msg'[n] = msg[n]
  BY <1>0, UndoneRows
<1>3. ASSUME NEW r \in Rules
      PROVE  /\ rule'[r] \in RuleRow /\ rule'[r].mark = rule[r].mark /\ rule'[r].since = rule[r].since
             /\ rule[r].by # w => rule'[r] = rule[r]
  <2>1. PICK q : q = [rule[r] EXCEPT !.by = None]
    OBVIOUS
  <2>2. q \in RuleRow /\ q.mark = rule[r].mark /\ q.since = rule[r].since
    BY <2>1, LooksAt DEF RuleRow
  <2>3. rule'[r] = IF rule[r].by = w THEN q ELSE rule[r]
    BY <1>0, <2>1
  <2> QED
    BY <2>2, <2>3, LooksAt
<1>4. rule' \in [Rules -> RuleRow]
  BY <1>0, <1>3
<1>5. \A e \in Events : OpenIsYoung(e)'
  BY <1>0 DEF LookInv, OpenIsYoung
<1>6. \A r \in Rules : MarkIsOld(r)'
  BY <1>0, <1>3 DEF LookInv, MarkIsOld, Old
<1>7. ASSUME NEW v \in Workers
      PROVE  Looks(v)'
  <2>1. CASE v = w
    BY <1>1, <2>1 DEF Looks
  <2>2. CASE v # w
    <3>1. worker[v].pc = "evaluating" => \A r \in worker[v].moved : rule'[r] = rule[r]
      BY <1>3, <2>2, LooksAt DEF LookInv, Looks
    <3>2. now' \in Nat /\ now <= now' /\ event' \in [Events -> EventRow] /\ worker'[v] = worker[v]
      BY <1>0, <1>1, <2>2, LooksAt DEF LookInv, LookTypes
    <3>3. \A n \in Messages : msg[n].by = v => msg'[n] = msg[n]
      BY <1>2, <2>2
    <3> QED
      BY <1>0, <3>1, <3>2, <3>3, LooksStay
  <2> QED
    BY <2>1, <2>2
<1>8. NothingMissed'
  BY <1>0, <1>3 DEF LookInv, NothingMissed
<1> QED
  BY <1>0, <1>4, <1>5, <1>6, <1>7, <1>8 DEF LookInv, LookTypes

(* Sending and expiring touch rows that are committed.                      *)
LEMMA SendingLooks ==
  ASSUME RowInv, LookInv, NEW w \in Workers,
         \/ \E batch \in SUBSET Messages : \E people \in [batch -> SUBSET People] : SendClaim(w, batch, people)
         \/ \E reached \in SUBSET People : Send(w, reached)
         \/ Finish(w) \/ Expire(w)
  PROVE  LookInv'
<1>1. UNCHANGED <<now, event, rule, told>>
  BY DEF SendClaim, Send, Finish, Expire
<1>2. ASSUME NEW n \in Messages, msg[n].state # "none"
      PROVE  msg[n].by \notin Workers
  BY <1>2, RowsAt, NotificationsAssumption DEF Pending
<1>3. CASE \E batch \in SUBSET Messages : \E people \in [batch -> SUBSET People] : SendClaim(w, batch, people)
  <2>1. PICK batch \in SUBSET Messages : \E people \in [batch -> SUBSET People] : SendClaim(w, batch, people)
    BY <1>3
  <2>2. PICK people \in [batch -> SUBSET People] : SendClaim(w, batch, people)
    BY <2>1
  <2>3. \A n \in batch : msg[n].state = "queued"
    BY <2>2, ClaimRows
  <2>4. \A n \in Messages \ batch : msg'[n] = msg[n]
    BY <2>2, ClaimRows
  <2>5. worker'[w].pc \in {"expire", "sending"}
    BY <2>2, ClaimRows
  <2>6. \A v \in Workers \ {w} : worker'[v] = worker[v]
    BY <2>2, ClaimRows
  <2>7. \A n \in Messages : msg[n].by \in Workers => msg'[n] = msg[n]
    BY <1>2, <2>3, <2>4
  <2> QED
    BY <1>1, <2>5, <2>6, <2>7, LooksAside
<1>4. CASE \E reached \in SUBSET People : Send(w, reached)
  <2>1. PICK reached \in SUBSET People : Send(w, reached)
    BY <1>4
  <2>2. msg' = msg /\ worker'[w].pc = "sending" /\ \A v \in Workers \ {w} : worker'[v] = worker[v]
    BY <2>1, SendRows
  <2> QED
    BY <1>1, <2>2, LooksAside
<1>5. CASE Finish(w)
  <2>1. /\ worker'[w].pc \in {"sending", "expire"} /\ \A v \in Workers \ {w} : worker'[v] = worker[v]
        /\ \A n \in Messages \ {Current(w)} : msg'[n] = msg[n]
    BY <1>5, FinishRows
  <2>2. Current(w) \in Messages /\ msg[Current(w)].state \in {"sending", "failed"}
    BY <1>5, CurrentAt DEF Finish
  <2>3. \A n \in Messages : msg[n].by \in Workers => msg'[n] = msg[n]
    BY <1>2, <2>1, <2>2
  <2> QED
    BY <1>1, <2>1, <2>3, LooksAside
<1>6. CASE Expire(w)
  <2>1. /\ worker'[w].pc = "idle" /\ \A v \in Workers \ {w} : worker'[v] = worker[v]
        /\ \A n \in Messages : msg'[n] = msg[n] \/ msg[n].state # "none"
    BY <1>6, ExpireRows, EmptyPass DEF Ended
  <2>2. \A n \in Messages : msg[n].by \in Workers => msg'[n] = msg[n]
    BY <1>2, <2>1
  <2> QED
    BY <1>1, <2>1, <2>2, LooksAside
<1> QED
  BY <1>3, <1>4, <1>5, <1>6

(* Requests, and the ages of messages.                                      *)
LEMMA RequestLooks ==
  ASSUME RowInv, LookInv,
         \/ \E k \in Calls : (\E n \in Messages : Enqueue(k, n)) \/ EnqueueCommit(k) \/ EnqueueLost(k)
         \/ \E n \in Messages : Ages(n) \/ ClaimAges(n) \/ BackoffPasses(n)
  PROVE  LookInv'
<1>1. UNCHANGED <<now, event, rule, told, worker>>
  BY DEF Enqueue, EnqueueCommit, EnqueueLost, Ages, ClaimAges, BackoffPasses
<1>2. ASSUME NEW n \in Messages, msg[n].by \in Workers
      PROVE  msg'[n] = msg[n]
  <2>0. msg[n].by # None /\ msg[n].by \notin Calls /\ msg[n].state = "none"
    BY <1>2, RowsAt, NotificationsAssumption DEF Pending
  <2>1. CASE \E k \in Calls, m \in Messages : Enqueue(k, m)
    <3>1. PICK k \in Calls, m \in Messages : Enqueue(k, m)
      BY <2>1
    <3>2. msg[m].by = None /\ \A i \in Messages \ {m} : msg'[i] = msg[i]
      BY <3>1, EnqueueRows, EmptyRows
    <3> QED
      BY <2>0, <3>2
  <2>2. CASE \E k \in Calls : EnqueueCommit(k) \/ EnqueueLost(k)
    <3>1. PICK k \in Calls : lock' = Unlocked(k) /\ (msg' = Inserted(k) \/ msg' = Undone(k))
      BY <2>2 DEF EnqueueCommit, EnqueueLost
    <3>2. msg[n].by # k => msg'[n] = msg[n]
      BY <3>1, InsertedRows, UndoneRows
    <3> QED
      BY <2>0, <3>2
  <2>3. CASE \E m \in Messages : Ages(m) \/ ClaimAges(m) \/ BackoffPasses(m)
    <3>1. PICK m \in Messages : Ages(m) \/ ClaimAges(m) \/ BackoffPasses(m)
      BY <2>3
    <3>2. msg[m].state # "none"
      BY <3>1 DEF Ages, ClaimAges, BackoffPasses
    <3>3. \A i \in Messages \ {m} : msg'[i] = msg[i]
      BY <3>1, AgeRows
    <3> QED
      BY <2>0, <3>2, <3>3
  <2> QED
    BY <2>1, <2>2, <2>3
<1> QED
  BY <1>1, <1>2, LooksAside

(* Every step.                                                              *)
LEMMA LooksKeep == RowInv /\ LookInv /\ [Next]_vars => LookInv'
<1> SUFFICES ASSUME RowInv, LookInv, [Next]_vars PROVE LookInv'
  OBVIOUS
<1>1. ASSUME NEW w \in Workers, Pass(w) \/ PassLost(w)
      PROVE  LookInv'
  BY <1>1, ReadLooks, MarkLooks, SendingLooks, LostLooks DEF Pass
<1>2. CASE UNCHANGED vars
  BY <1>2, LooksAside DEF vars
<1>3. ASSUME NEW e \in Events, EventCommit(e)
      PROVE  LookInv'
  BY <1>3, LateLooks, CommitLooks DEF EventCommit
<1> QED
  BY <1>1, <1>2, <1>3, StartLooks, RuleLooks, RequestLooks, TickLooks DEF Next

(* There are no rules at first.                                             *)
LEMMA InitLooks == Init => LookInv
<1> SUFFICES ASSUME Init PROVE LookInv
  OBVIOUS
<1>1. NoRule \in RuleRow /\ NoRule.mark = 0 /\ NoRule.since = 0
  BY DEF NoRule, RuleRow
<1>2. NoEvent \in EventRow /\ NoEvent.state = "none"
  BY DEF NoEvent, EventRow
<1>3. \A w \in Workers : worker[w].pc = "idle"
  BY EmptyPass DEF Init
<1>4. /\ \A r \in Rules : rule[r] = NoRule
      /\ \A e \in Events : event[e] = NoEvent
  BY DEF Init
<1>5. LookTypes
  BY <1>1, <1>2 DEF Init, LookTypes
<1> QED
  BY <1>1, <1>2, <1>3, <1>4, <1>5 DEF LookInv, OpenIsYoung, MarkIsOld, Looks, NothingMissed

(* No mark passes an event that no message tells of, if its transaction was *)
(* open for less than SETTLE: a window ends SETTLE ago, when every such     *)
(* transaction has ended, and a mark moves in the transaction that queues   *)
(* what was found.                                                          *)
THEOREM NoEventIsMissed == Spec => []NothingMissed
<1>1. LookInv => NothingMissed
  BY DEF LookInv
<1> QED
  BY <1>1, InitRows, RowsKeep, InitLooks, LooksKeep, PTL DEF Spec
============================================================================
