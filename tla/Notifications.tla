--------------------------- MODULE Notifications ---------------------------
(***************************************************************************)
(* Alert rules and the outbox of one organization: what agents queue       *)
(* (packages/api/src/notifications.ts) and the pass of the worker that     *)
(* looks at rules, sends and expires (packages/worker/src/notify.ts,       *)
(* main.ts).                                                               *)
(*                                                                         *)
(* An event is a row a rule asks about, a skill version or an entry of the *)
(* access log.  It carries the time its transaction began and is seen once *)
(* that commits, which nothing bounds.  Rules are the ones that tell of each new event; the two  *)
(* kinds that count within a window are left out.  The ages of a message   *)
(* are flags that time sets.                                               *)
(***************************************************************************)
EXTENDS Naturals, FiniteSets

CONSTANTS
  People,         \* whom messages are addressed to
  Messages,       \* rows of notifications, numbered
  Rules,          \* rows of alert_rules
  Events,
  Workers,
  Relays,         \* the workers that have a mail relay
  Calls,          \* API requests that queue an agent's message
  PerHour,        \* NOTIFY_PER_HOUR
  MaxRules,       \* MAX_ALERT_RULES
  Batch,          \* NOTIFY_BATCH
  SendAttempts,   \* SEND_ATTEMPTS
  Settle,         \* SETTLE, in ticks
  Every,          \* the least time between two looks at a rule, in ticks
  Grain,          \* ticks in a millisecond
  MaxTime,        \* bound on the clock
  MaxFaults,      \* bound on the passes and requests that die
  None

ASSUME NotificationsAssumption ==
  /\ Messages \subseteq Nat /\ Relays \subseteq Workers
  /\ {PerHour, MaxRules, Batch, SendAttempts, Settle, Every, Grain, MaxTime, MaxFaults} \subseteq Nat
  /\ PerHour > 0 /\ Batch > 0 /\ SendAttempts > 0 /\ Grain > 0 /\ Settle > 0
  /\ None \notin Rules \cup Workers \cup Calls \cup Nat
  /\ Workers \cap Calls = {} /\ IsFiniteSet(Messages) /\ IsFiniteSet(Rules)

VARIABLES
  now, event, rule, msg,
  lock,      \* who holds the organization's advisory lock
  call,      \* requests: idle, or about to commit
  worker,    \* passes
  faults,
  told,      \* messages that tell an event of a rule (history)
  copies     \* messages accepted by the relay for each person (history)

vars == <<now, event, rule, msg, lock, call, worker, faults, told, copies>>

----------------------------------------------------------------------------

NoEvent == [state |-> "none", at |-> 0]
NoRule == [state |-> "none", since |-> 0, mark |-> 0, by |-> None]
NoMsg == [state |-> "none", rule |-> None, events |-> {}, attempts |-> 0, age |-> "hour", due |-> TRUE,
          stale |-> FALSE, by |-> None]
Gone == [NoMsg EXCEPT !.state = "gone", !.age = "day"]
Idle == [pc |-> "idle", until |-> 0, moved |-> {}, batch |-> {}, lost |-> {},
         tries |-> [n \in Messages |-> 0], left |-> [n \in Messages |-> {}], got |-> [n \in Messages |-> {}], missed |-> [n \in Messages |-> {}]]

Init ==
  /\ now = 0
  /\ event = [e \in Events |-> NoEvent]
  /\ rule = [r \in Rules |-> NoRule]
  /\ msg = [n \in Messages |-> NoMsg]
  /\ lock = None
  /\ call = [k \in Calls |-> "idle"]
  /\ worker = [w \in Workers |-> Idle]
  /\ faults = 0
  /\ told = [r \in Rules |-> [e \in Events |-> 0]]
  /\ copies = [n \in Messages |-> [p \in People |-> 0]]

Ended == {"sent", "failed", "dropped"}
Unused == {n \in Messages : msg[n] = NoMsg}
Least(ids) == \A n \in Unused, m \in ids : n < m => n \in ids
Recent == {n \in Messages : msg[n].state # "none" /\ msg[n].age = "hour"}

(* The transaction of x ends: its inserts are rows, or never were.          *)
Inserted(x) == [n \in Messages |-> IF msg[n].by = x THEN [msg[n] EXCEPT !.state = "queued", !.events = {}, !.by = None] ELSE msg[n]]
Undone(x) == [n \in Messages |-> IF msg[n].by = x THEN NoMsg ELSE msg[n]]
Unlocked(x) == IF lock = x THEN None ELSE lock

----------------------------------------------------------------------------
(* The organization.                                                        *)

EventStart(e) ==
  /\ event[e] = NoEvent
  /\ event' = [event EXCEPT ![e] = [state |-> "open", at |-> now]]
  /\ UNCHANGED <<now, rule, msg, lock, call, worker, faults, told, copies>>

(* The row is there to be found, "late" when its transaction was open for   *)
(* SETTLE (history).                                                        *)
EventCommit(e) ==
  /\ event[e].state \in {"open", "long"}
  /\ event' = [event EXCEPT ![e].state = IF @ = "open" THEN "there" ELSE "late"]
  /\ UNCHANGED <<now, rule, msg, lock, call, worker, faults, told, copies>>

CreateRule(r) ==
  /\ rule[r] = NoRule /\ Cardinality({q \in Rules : rule[q].state = "kept"}) < MaxRules
  /\ rule' = [rule EXCEPT ![r] = [NoRule EXCEPT !.state = "kept", !.since = now, !.mark = now]]
  /\ UNCHANGED <<now, event, msg, lock, call, worker, faults, told, copies>>

RemoveRule(r) ==
  /\ rule[r].state = "kept" /\ rule[r].by = None
  /\ rule' = [rule EXCEPT ![r] = [NoRule EXCEPT !.state = "removed"]]
  /\ told' = [told EXCEPT ![r] = [e \in Events |-> 0]]
  /\ UNCHANGED <<now, event, msg, lock, call, worker, faults, copies>>

(* Mutant of LockFree: the lock is not asked for.                           *)
LockFreeNot(x) == TRUE

LockFree(x) == lock = None

(* enqueue: the lock, then the statement that counts and inserts.           *)
Enqueue(k, n) ==
  /\ call[k] = "idle" /\ LockFree(k) /\ n \in Unused /\ Least({n})
  /\ Cardinality(Recent) < PerHour
  /\ lock' = k
  /\ msg' = [msg EXCEPT ![n].by = k]
  /\ call' = [call EXCEPT ![k] = "commit"]
  /\ UNCHANGED <<now, event, rule, worker, faults, told, copies>>

EnqueueCommit(k) ==
  /\ call[k] = "commit"
  /\ msg' = Inserted(k)
  /\ lock' = Unlocked(k)
  /\ call' = [call EXCEPT ![k] = "idle"]
  /\ UNCHANGED <<now, event, rule, worker, faults, told, copies>>

EnqueueLost(k) ==
  /\ call[k] = "commit" /\ faults < MaxFaults
  /\ msg' = Undone(k)
  /\ lock' = Unlocked(k)
  /\ call' = [call EXCEPT ![k] = "idle"]
  /\ faults' = faults + 1
  /\ UNCHANGED <<now, event, rule, worker, told, copies>>

----------------------------------------------------------------------------
(* evaluateAlertRules: one transaction, at the time it began.               *)

(* Mutant of Horizon: the window ends now.                                  *)
HorizonNow == now

Horizon == IF now < Settle THEN 0 ELSE now - Settle

(* A timestamp is read into a Date, which keeps milliseconds.               *)
Millis(t) == (t \div Grain) * Grain

Due == {r \in Rules : rule[r].state = "kept" /\ rule[r].by = None /\ rule[r].mark + Settle + Every < now}

(* find: what happened since the mark.                                      *)
Found(r) == {e \in Events : event[e].state \in {"there", "late"} /\ event[e].at > Millis(rule[r].mark) /\ event[e].at <= Horizon}

Firing == {r \in Due : Found(r) # {}}

(* Mutant of Moved: the mark of a rule that was held moves too.             *)
MovedAll(queued) == Due

(* The rules whose mark moves: the ones whose message was queued, and the   *)
(* ones that found nothing.                                                 *)
Moved(queued) == Due \ (Firing \ queued)

(* The due rules are locked, and what they find is queued as far as the     *)
(* hour allows.  ids numbers the messages.                                  *)
EvaluateRead(w, queued, ids) ==
  /\ worker[w].pc = "idle" /\ w \in Relays
  /\ Firing # {} => LockFree(w)
  /\ queued \subseteq Firing
  /\ Cardinality(queued) = LET room == IF Cardinality(Recent) > PerHour THEN 0 ELSE PerHour - Cardinality(Recent)
                           IN IF Cardinality(Firing) <= room THEN Cardinality(Firing) ELSE room
  /\ \A q, r \in queued : q # r => ids[q] # ids[r]
  /\ (\A r \in queued : ids[r] \in Unused) /\ Least({ids[r] : r \in queued})
  /\ lock' = IF Firing # {} THEN w ELSE lock
  /\ msg' = [n \in Messages |->
       IF \E r \in queued : ids[r] = n
       THEN LET r == CHOOSE r \in queued : ids[r] = n
            IN [NoMsg EXCEPT !.by = w, !.rule = r, !.events = Found(r)]
       ELSE msg[n]]
  /\ rule' = [r \in Rules |-> IF r \in Due THEN [rule[r] EXCEPT !.by = w] ELSE rule[r]]
  /\ worker' = [worker EXCEPT ![w] = [Idle EXCEPT !.pc = "evaluating", !.until = Horizon, !.moved = Moved(queued)]]
  /\ UNCHANGED <<now, event, call, faults, told, copies>>

Tells(w, r, e) == \E n \in Messages : msg[n].by = w /\ msg[n].rule = r /\ e \in msg[n].events

EvaluateCommit(w) ==
  /\ worker[w].pc = "evaluating"
  /\ msg' = Inserted(w)
  /\ rule' = [r \in Rules |->
       IF rule[r].by # w THEN rule[r]
       ELSE [rule[r] EXCEPT !.by = None,
                            !.mark = IF r \in worker[w].moved THEN worker[w].until ELSE @]]
  /\ told' = [r \in Rules |-> [e \in Events |-> IF Tells(w, r, e) THEN told[r][e] + 1 ELSE told[r][e]]]
  /\ lock' = Unlocked(w)
  /\ worker' = [worker EXCEPT ![w] = [Idle EXCEPT !.pc = "claim"]]
  /\ UNCHANGED <<now, event, call, faults, copies>>

----------------------------------------------------------------------------
(* sendNotifications.                                                       *)

Queued == {n \in Messages : msg[n].state = "queued" /\ msg[n].due}

(* The claim, and in its transaction the people each message is addressed   *)
(* to who are active now, and its origin: one whose rule was removed has    *)
(* lost it.                                                                 *)
SendClaim(w, batch, people) ==
  /\ worker[w].pc = "claim"
  /\ batch \subseteq Queued
  /\ Cardinality(batch) = IF Cardinality(Queued) <= Batch THEN Cardinality(Queued) ELSE Batch
  /\ msg' = [n \in Messages |->
       IF n \in batch THEN [msg[n] EXCEPT !.state = "sending", !.attempts = @ + 1, !.stale = FALSE] ELSE msg[n]]
  /\ worker' = [worker EXCEPT ![w] = [Idle EXCEPT
       !.pc = IF batch = {} THEN "expire" ELSE "sending",
       !.batch = batch,
       !.lost = {n \in batch : msg[n].rule # None /\ rule[msg[n].rule].state = "removed"},
       !.left = [n \in Messages |-> IF n \in batch THEN people[n] ELSE {}],
       !.tries = [n \in Messages |-> IF n \in batch THEN msg[n].attempts + 1 ELSE 0]]]
  /\ UNCHANGED <<now, event, rule, lock, call, faults, told, copies>>

Current(w) == CHOOSE n \in worker[w].batch : \A m \in worker[w].batch : n <= m
Dropped(w, n) == n \in worker[w].lost \/ (worker[w].left[n] = {} /\ worker[w].got[n] = {} /\ worker[w].missed[n] = {})

(* One message to each address in turn; the relay takes some and refuses    *)
(* the others.                                                              *)
Send(w, reached) ==
  /\ worker[w].pc = "sending" /\ Current(w) \notin worker[w].lost
  /\ worker[w].left[Current(w)] # {} /\ reached \subseteq worker[w].left[Current(w)]
  /\ LET n == Current(w) IN
       /\ worker' = [worker EXCEPT ![w].left[n] = {}, ![w].got[n] = reached, ![w].missed[n] = worker[w].left[n] \ reached]
       /\ copies' = [copies EXCEPT ![n] = [p \in People |-> IF p \in reached THEN @[p] + 1 ELSE @[p]]]
  /\ UNCHANGED <<now, event, rule, msg, lock, call, faults, told>>

Reached(w, n) == worker[w].got[n]

(* Mutant of Outcome: a message that did not reach everybody goes again.    *)
OutcomePartly(w, n) ==
  CASE Dropped(w, n) -> "dropped"
    [] ~Dropped(w, n) /\ worker[w].missed[n] = {} -> "sent"
    [] ~Dropped(w, n) /\ worker[w].missed[n] # {} /\ worker[w].tries[n] < SendAttempts -> "queued"
    [] OTHER -> "failed"

(* Partly delivered is sent; what reached nobody is tried again.            *)
Outcome(w, n) ==
  CASE Dropped(w, n) -> "dropped"
    [] ~Dropped(w, n) /\ Reached(w, n) # {} -> "sent"
    [] ~Dropped(w, n) /\ Reached(w, n) = {} /\ worker[w].tries[n] < SendAttempts -> "queued"
    [] OTHER -> "failed"

(* finish: whatever the row has become.  Of an ended row only the end and   *)
(* the age are read again.                                                  *)
Finish(w) ==
  /\ worker[w].pc = "sending"
  /\ LET n == Current(w) IN
       /\ n \in worker[w].lost \/ worker[w].left[n] = {}
       /\ msg' = [msg EXCEPT ![n] =
            IF Outcome(w, n) = "queued" THEN [@ EXCEPT !.state = "queued", !.due = FALSE, !.stale = FALSE]
            ELSE [NoMsg EXCEPT !.state = Outcome(w, n), !.age = msg[n].age]]
       /\ worker' = [worker EXCEPT ![w] =
            IF worker[w].batch = {n} THEN [Idle EXCEPT !.pc = "expire"]
            ELSE [worker[w] EXCEPT !.batch = @ \ {n}, !.lost = @ \ {n}, !.tries[n] = 0, !.left[n] = {}, !.got[n] = {}, !.missed[n] = {}]]
  /\ UNCHANGED <<now, event, rule, lock, call, faults, told, copies>>

----------------------------------------------------------------------------
(* expireNotifications.                                                     *)

(* Mutant of Ending: what was being sent is put back.                       *)
EndingRequeued(state) == IF state = "queued" THEN "dropped" ELSE "queued"

(* What was interrupted while sending is not sent again.                    *)
Ending(state) == IF state = "queued" THEN "dropped" ELSE "failed"

Over(n) == (msg[n].state = "queued" /\ msg[n].age = "day") \/ (msg[n].state = "sending" /\ msg[n].stale)

(* A finished message past its retention is deleted.                        *)
Pruned == {n \in Messages : msg[n].age = "month"}

Expire(w) ==
  /\ worker[w].pc = "expire" \/ (worker[w].pc = "idle" /\ w \notin Relays)
  /\ msg' = [n \in Messages |->
       IF Over(n) THEN [msg[n] EXCEPT !.state = Ending(@), !.stale = FALSE]
       ELSE IF n \in Pruned THEN Gone ELSE msg[n]]
  /\ copies' = [n \in Messages |-> IF n \in Pruned THEN [p \in People |-> 0] ELSE copies[n]]
  /\ worker' = [worker EXCEPT ![w] = Idle]
  /\ UNCHANGED <<now, event, rule, lock, call, faults, told>>

(* A statement throws, which ends the pass, or the process dies.            *)
PassLost(w) ==
  /\ worker[w].pc # "idle" /\ faults < MaxFaults
  /\ worker' = [worker EXCEPT ![w] = Idle]
  /\ msg' = Undone(w)
  /\ rule' = [r \in Rules |-> IF rule[r].by = w THEN [rule[r] EXCEPT !.by = None] ELSE rule[r]]
  /\ lock' = Unlocked(w)
  /\ faults' = faults + 1
  /\ UNCHANGED <<now, event, call, told, copies>>

----------------------------------------------------------------------------
(* Time.                                                                    *)

(* A transaction open for SETTLE is "long"; it stays open.                  *)
Tick ==
  /\ now < MaxTime /\ now' = now + 1
  /\ event' = [e \in Events |->
       IF event[e].state = "open" /\ event[e].at + Settle <= now' THEN [event[e] EXCEPT !.state = "long"] ELSE event[e]]
  /\ UNCHANGED <<rule, msg, lock, call, worker, faults, told, copies>>

(* An hour and a day, which nothing here tells apart, and for a finished    *)
(* message its retention, which no pass lasts.                              *)
Ages(n) ==
  /\ msg[n].state \notin {"none", "gone"}
  /\ \/ msg[n].age = "hour" /\ msg' = [msg EXCEPT ![n].age = "day"]
     \/ /\ msg[n].age = "day" /\ msg[n].state \in Ended /\ \A w \in Workers : n \notin worker[w].batch
        /\ msg' = [msg EXCEPT ![n].age = "month"]
  /\ UNCHANGED <<now, event, rule, lock, call, worker, faults, told, copies>>

(* Fifteen minutes since the claim.                                         *)
ClaimAges(n) ==
  /\ msg[n].state = "sending" /\ ~msg[n].stale
  /\ msg' = [msg EXCEPT ![n].stale = TRUE]
  /\ UNCHANGED <<now, event, rule, lock, call, worker, faults, told, copies>>

BackoffPasses(n) ==
  /\ msg[n].state = "queued" /\ ~msg[n].due
  /\ msg' = [msg EXCEPT ![n].due = TRUE]
  /\ UNCHANGED <<now, event, rule, lock, call, worker, faults, told, copies>>

Pass(w) ==
  \/ \E queued \in SUBSET Rules : \E ids \in [queued -> Messages] : EvaluateRead(w, queued, ids)
  \/ EvaluateCommit(w)
  \/ \E batch \in SUBSET Messages : \E people \in [batch -> SUBSET People] : SendClaim(w, batch, people)
  \/ \E reached \in SUBSET People : Send(w, reached)
  \/ Finish(w)
  \/ Expire(w)

Next ==
  \/ \E e \in Events : EventStart(e) \/ EventCommit(e)
  \/ \E r \in Rules : CreateRule(r) \/ RemoveRule(r)
  \/ \E k \in Calls : (\E n \in Messages : Enqueue(k, n)) \/ EnqueueCommit(k) \/ EnqueueLost(k)
  \/ \E w \in Workers : Pass(w) \/ PassLost(w)
  \/ \E n \in Messages : Ages(n) \/ ClaimAges(n) \/ BackoffPasses(n)
  \/ Tick

Spec == Init /\ [][Next]_vars

----------------------------------------------------------------------------

(* The rows, the passes and the requests hold values of their columns.      *)
TypeOK ==
  /\ now \in 0 .. MaxTime
  /\ event \in [Events -> [state: {"none", "open", "long", "there", "late"}, at: 0 .. MaxTime]]
  /\ rule \in [Rules -> [state: {"none", "kept", "removed"}, since: 0 .. MaxTime, mark: 0 .. MaxTime,
                         by: Workers \cup {None}]]
  /\ msg \in [Messages -> [state: {"none", "queued", "sending", "gone"} \cup Ended, rule: Rules \cup {None},
                           events: SUBSET Events, attempts: 0 .. SendAttempts, age: {"hour", "day", "month"},
                           due: BOOLEAN, stale: BOOLEAN, by: Workers \cup Calls \cup {None}]]
  /\ lock \in Workers \cup Calls \cup {None}
  /\ call \in [Calls -> {"idle", "commit"}]
  /\ \A w \in Workers : worker[w].pc \in {"idle", "evaluating", "claim", "sending", "expire"}

(* Thirty an hour per organization, agents and rules together, however many *)
(* requests and workers queue at once.                                      *)
HourlyBound == Cardinality(Recent) <= PerHour

(* A rule's mark passes no event that no message tells of: not when its     *)
(* message was held by the hour's bound, when its transaction was open at   *)
(* the look before, or when the pass died.  Only an event whose transaction *)
(* was open for SETTLE may be passed, which NothingEverMissed says is not   *)
(* so.                                                                      *)
NothingMissed ==
  \A r \in Rules, e \in Events :
    event[e].state = "there" /\ rule[r].since < event[e].at /\ event[e].at <= rule[r].mark => told[r][e] > 0

(* Nobody gets a message twice: not when it reached some and not others,    *)
(* when its worker died, or when it was expired under a worker still        *)
(* sending.                                                                 *)
NobodyTwice == \A n \in Messages, p \in People : copies[n][p] <= 1

(* The three below do not hold; the README says why.                        *)

(* packages/worker/src/notify.ts:45: the look stays behind now, since "a    *)
(* row committed late by a long transaction still carries the time that     *)
(* transaction started".  However long it was, the row is told.             *)
NothingEverMissed ==
  \A r \in Rules, e \in Events :
    event[e].state \in {"there", "late"} /\ rule[r].since < event[e].at /\ event[e].at <= rule[r].mark => told[r][e] > 0

(* docs/mcp-admin.md: a message left `sending' is marked `failed' "rather    *)
(* than sent again".                                                        *)
FailedIsFinal == [][\A n \in Messages : msg[n].state = "failed" => msg'[n].state # "queued"]_vars

(* An event is told once by a rule that looks at what is new.               *)
ToldOnce == \A r \in Rules, e \in Events : told[r][e] <= 1
============================================================================
