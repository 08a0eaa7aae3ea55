-------------------------- MODULE AdminProposals ---------------------------
(***************************************************************************)
(* The proposals of the administrative surface                             *)
(* (packages/api/src/proposals.ts) over the connections they are made on:  *)
(* an application proposes a change, its person applies or cancels it in   *)
(* the panel or in the console, the worker ends what nobody decided        *)
(* (packages/worker/src/adapters.ts), and revoking a connection cancels    *)
(* what it proposed in the revocation's own transaction.                   *)
(*                                                                         *)
(* A decider is a person: the panel's key and the console's session say    *)
(* so, and neither is asked for again after the request began, so a        *)
(* decision is guarded by the claiming UPDATE alone.                       *)
(***************************************************************************)
EXTENDS Connections

CONSTANTS
  Props,              \* rows of admin_proposals
  Calls,              \* requests that propose or decide at once
  OpenPerConnection   \* OPEN_PER_CONNECTION

ASSUME ProposalsAssumption ==
  /\ OpenPerConnection \in Nat
  /\ None \notin Props \cup Calls

VARIABLES
  prop,    \* admin_proposals
  call,    \* requests
  ran      \* how often a proposal's tool has been run (history)

propVars == <<prop, call, ran>>
vars == <<connVars, propVars>>

----------------------------------------------------------------------------

NoProp == [status |-> "none", conn |-> None, late |-> FALSE, by |-> None]
NoCall == [pc |-> "idle", conn |-> None, prop |-> None, ok |-> FALSE]

Init ==
  /\ ConnInit
  /\ prop = [p \in Props |-> NoProp]
  /\ call = [k \in Calls |-> NoCall]
  /\ ran = [p \in Props |-> 0]

(* The open proposals of a connection that have not run out.                *)
Open(c) == {p \in Props : prop[p].status = "open" /\ prop[p].conn = c /\ ~prop[p].late}

----------------------------------------------------------------------------
(* A write tool proposes.                                                   *)

(* The request is authenticated on the connection, once.                    *)
ProposeStart(k, c) ==
  /\ call[k] = NoCall /\ c \in Admin /\ Admitted(c)
  /\ call' = [call EXCEPT ![k] = [NoCall EXCEPT !.pc = "propose", !.conn = c]]
  /\ UNCHANGED <<connVars, prop, ran>>

(* create counts what is waiting, and refuses at the bound.                 *)
CreateCount(k) ==
  /\ call[k].pc = "propose"
  /\ call' = [call EXCEPT ![k] = IF Cardinality(Open(call[k].conn)) < OpenPerConnection
                                 THEN [call[k] EXCEPT !.pc = "insert"] ELSE NoCall]
  /\ UNCHANGED <<connVars, prop, ran>>

(* create inserts, whatever the count has become.                           *)
CreateInsert(k, p) ==
  /\ call[k].pc = "insert" /\ prop[p] = NoProp
  /\ prop' = [prop EXCEPT ![p] = [status |-> "open", conn |-> call[k].conn, late |-> FALSE, by |-> None]]
  /\ call' = [call EXCEPT ![k] = NoCall]
  /\ UNCHANGED <<connVars, ran>>

----------------------------------------------------------------------------
(* A person decides.                                                        *)

(* Mutant of Decidable: what is being applied may be decided again.         *)
DecidableUntilSettled(p) == prop[p].status \in {"open", "applying"} /\ ~prop[p].late /\ prop[p].by = None

(* The rows a deciding UPDATE matches: a row a revocation has written is    *)
(* waited for, and is cancelled or open again afterwards.                   *)
Decidable(p) == prop[p].status = "open" /\ ~prop[p].late /\ prop[p].by = None

(* claim: the single use.                                                   *)
Claim(k, p) ==
  /\ call[k] = NoCall /\ Decidable(p) /\ consent[prop[p].conn] = "live"
  /\ prop' = [prop EXCEPT ![p].status = "applying"]
  /\ call' = [call EXCEPT ![k] = [NoCall EXCEPT !.pc = "run", !.conn = prop[p].conn, !.prop = p]]
  /\ UNCHANGED <<connVars, ran>>

(* applyProposal runs the tool, which may refuse or fail, or finds that the *)
(* tool is offered no longer.                                               *)
RunTool(k, offered, ok) ==
  /\ call[k].pc = "run"
  /\ ok => offered
  /\ ran' = IF offered THEN [ran EXCEPT ![call[k].prop] = @ + 1] ELSE ran
  /\ call' = [call EXCEPT ![k].pc = "settle", ![k].ok = ok]
  /\ UNCHANGED <<connVars, prop>>

(* settle: only what is still being applied.                                *)
Settle(k) ==
  /\ call[k].pc = "settle"
  /\ prop' = IF prop[call[k].prop].status = "applying"
             THEN [prop EXCEPT ![call[k].prop].status = IF call[k].ok THEN "applied" ELSE "failed"]
             ELSE prop
  /\ call' = [call EXCEPT ![k] = NoCall]
  /\ UNCHANGED <<connVars, ran>>

(* cancelProposal.                                                          *)
Cancel(p) ==
  /\ Decidable(p)
  /\ prop' = [prop EXCEPT ![p].status = "cancelled"]
  /\ UNCHANGED <<connVars, call, ran>>

(* The process serving a request dies.                                      *)
CallLost(k) ==
  /\ call[k] # NoCall
  /\ call' = [call EXCEPT ![k] = NoCall]
  /\ UNCHANGED <<connVars, prop, ran>>

----------------------------------------------------------------------------
(* Time and the worker.                                                     *)

(* An open proposal passes its expires_at, or one being applied has been so *)
(* for fifteen minutes.                                                     *)
RunsOut(p) ==
  /\ prop[p].status \in {"open", "applying"} /\ ~prop[p].late
  /\ prop' = [prop EXCEPT ![p].late = TRUE]
  /\ UNCHANGED <<connVars, call, ran>>

(* Mutant of Due: what died while being applied is left.                    *)
DueOpenOnly == {p \in Props : prop[p].late /\ prop[p].status = "open" /\ prop[p].by = None}

Due == {p \in Props : prop[p].late /\ prop[p].status \in {"open", "applying"} /\ prop[p].by = None}

(* expireProposals: FOR UPDATE SKIP LOCKED, so a row a revocation holds is  *)
(* left for the next pass.                                                  *)
ExpireProposals ==
  /\ Due # {}
  /\ prop' = [p \in Props |->
                IF p \in Due THEN [prop[p] EXCEPT !.status = IF prop[p].status = "open" THEN "expired" ELSE "failed"]
                ELSE prop[p]]
  /\ UNCHANGED <<connVars, call, ran>>

(* prune_admin_proposals: decided ones past the retention.                  *)
PruneProposal(p) ==
  /\ prop[p].status \in {"applied", "failed", "cancelled", "expired"}
  /\ prop' = [prop EXCEPT ![p].status = "pruned"]
  /\ UNCHANGED <<connVars, call, ran>>

----------------------------------------------------------------------------
(* The revocation's own statements.                                         *)

HoldOpen(r) ==
  prop' = [p \in Props |-> IF prop[p].status = "open" /\ prop[p].conn = ending[r].conn
                           THEN [prop[p] EXCEPT !.by = r] ELSE prop[p]]

CancelHeld(r) ==
  prop' = [p \in Props |-> IF prop[p].by = r THEN [prop[p] EXCEPT !.status = "cancelled", !.by = None] ELSE prop[p]]

ReleaseHeld(r) ==
  prop' = [p \in Props |-> IF prop[p].by = r THEN [prop[p] EXCEPT !.by = None] ELSE prop[p]]

EndTokens(r) == RevokeTokens(r) /\ HoldOpen(r) /\ UNCHANGED <<call, ran>>
EndCommit(r) == RevokeCommit(r) /\ CancelHeld(r) /\ UNCHANGED <<call, ran>>
EndLost(r) == RevokeLost(r) /\ ReleaseHeld(r) /\ UNCHANGED <<call, ran>>

Next ==
  \/ ConnStep /\ UNCHANGED propVars
  \/ \E r \in Enders : EndTokens(r) \/ EndCommit(r) \/ EndLost(r)
  \/ \E k \in Calls, c \in Conns : ProposeStart(k, c)
  \/ \E k \in Calls : CreateCount(k) \/ Settle(k) \/ CallLost(k)
  \/ \E k \in Calls, p \in Props : CreateInsert(k, p) \/ Claim(k, p)
  \/ \E k \in Calls, offered, ok \in BOOLEAN : RunTool(k, offered, ok)
  \/ \E p \in Props : Cancel(p) \/ RunsOut(p) \/ PruneProposal(p)
  \/ ExpireProposals

(* Time passes, and a revocation's transaction ends, by commit or by        *)
(* rollback.  The worker's loop runs its expiry pass again and again; the   *)
(* fairness is strong because the pass skips a row that a revocation holds  *)
(* at that moment: it is not met by one that then rolls back every time.    *)
Fairness ==
  /\ SF_vars(ExpireProposals)
  /\ \A p \in Props : WF_vars(RunsOut(p))
  /\ \A r \in Enders : WF_vars(EndCommit(r) \/ EndLost(r))

Spec == Init /\ [][Next]_vars /\ Fairness

----------------------------------------------------------------------------

(* The connections and the proposals hold values of their columns, and each *)
(* call is at a step of making one or of applying one.                      *)
TypeOK ==
  /\ ConnTypeOK
  /\ prop \in [Props -> [status: {"open", "applying", "applied", "failed", "cancelled", "expired", "pruned"},
                         conn: Conns, late: BOOLEAN, by: Enders \cup {None}] \cup {NoProp}]
  /\ call \in [Calls -> [pc: {"propose", "insert", "run", "settle"}, conn: Conns,
                         prop: Props \cup {None}, ok: BOOLEAN] \cup {NoCall}]
  /\ ran \in [Props -> Nat]

(* A proposal's tool is run at most once, however the panel, the console,   *)
(* the worker and a revocation race for it, and the record tells: one that  *)
(* is open, cancelled or expired never ran, and one recorded as applied     *)
(* did.                                                                     *)
RunsOnce ==
  \A p \in Props :
    /\ ran[p] <= 1
    /\ prop[p].status \in {"open", "cancelled", "expired"} => ran[p] = 0
    /\ prop[p].status = "applied" => ran[p] = 1

(* No proposal reads as waiting or in flight forever: whatever crashes, an  *)
(* open or applying one ends.                                               *)
ProposalsEnd ==
  \A p \in Props : prop[p].status \in {"open", "applying"} ~> prop[p].status \notin {"open", "applying"}
============================================================================
